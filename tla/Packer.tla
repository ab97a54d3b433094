------------------------------- MODULE Packer -------------------------------
(***************************************************************************)
(* pack_carries() of pack.cc: the carries of a netlist become logic cells, *)
(* strung together to chains that later fill the tiles of a column from    *)
(* the bottom up.  Where carries continue one another a carry is joined to *)
(* the logic cell that computes with it, if that cell suits the chain; a   *)
(* carry that is needed elsewhere leaves the chain through a cell of its   *)
(* own.  A chain that is too long for a column, or whose next cell needs   *)
(* other control nets, is continued by another chain.                      *)
(*                                                                         *)
(* The netlist is the function conn from ports <<instance, name>> to nets, *)
(* as it is after pack_dffs() and pack_luts().  Instances are numbered in  *)
(* the order of IdLess.  I0, LUT_INIT and attributes are left out.         *)
(***************************************************************************)
EXTENDS Integers, Sequences, FiniteSets, Functions, FiniteSetsExt

CONSTANTS
  Height,    \* chipdb->height; its first and last row hold no logic
  TileSize,  \* the cells of a tile, 8 in the code
  Designs    \* the netlists considered

ASSUME SizeAssumption == Height \in Nat /\ TileSize \in Nat /\ (Height - 2) * TileSize > 2

None == 0      \* nullptr, for nets and instances
Const0 == 1
Const1 == 2
IsConstant(n) == n \in {Const0, Const1}

LCPort == {"I1", "I2", "I3", "O", "CIN", "COUT", "CLK", "CEN", "SR"}
CarryPort == {"I0", "I1", "CI", "CO"}
Control == {"CLK", "CEN", "SR"}
MaxChain == (Height - 2) * TileSize   \* max_chain_length

(* Logic cells and carries have all their ports, and only they have ports  *)
(* of these names.  No net has two drivers and no constant has one, as     *)
(* Model::check() asserts.  Carries of logic cells are not used yet.       *)
Driver == {"O", "COUT", "CO"}
ASSUME DesignAssumption ==
  \A D \in Designs :
    LET Ports == DOMAIN D.conn
    IN /\ IsFiniteSet(Ports) /\ Ports \subseteq Nat \X STRING /\ D.conn \in [Ports -> Nat]
       /\ D.lcs \cap D.carries = {} /\ 0 \notin D.lcs \cup D.carries
       /\ (D.lcs \X LCPort) \cup (D.carries \X CarryPort) \subseteq Ports
       /\ \A p \in Ports : /\ p[1] \in D.lcs => p[2] \in LCPort
                           /\ p[1] \in D.carries => p[2] \in CarryPort
                           /\ p[1] \notin D.lcs \cup D.carries => p[2] \notin LCPort \cup CarryPort
       /\ \A p \in Ports : p[2] \in Driver =>
            /\ ~IsConstant(D.conn[p])
            /\ \A q \in Ports : q[2] \in Driver /\ D.conn[p] = D.conn[q] /\ D.conn[p] # None => p = q
       /\ \A l \in D.lcs : D.conn[<<l, "CIN">>] = None /\ D.conn[<<l, "COUT">>] = None

VARIABLES
  design,              \* the netlist that is packed
  pc,                  \* where pack_carries() and pack_carries_from() are
  conn,                \* Port::connection()
  lcs, carries,        \* the instances of these models
  new_inst, new_net,   \* the next instance, the next net
  ready,
  chains, chain,
  c,                   \* the carry that is packed
  out_conn,
  control,             \* global_clk, global_cen, global_sr
  bridges,             \* history: the cells made by carry_pass_through_lc() and for carry ins
  packed               \* history: the cell of each packed carry

netVars == <<conn, lcs, carries, new_inst, new_net, bridges, packed>>
vars == <<design, pc, netVars, ready, chains, chain, c, out_conn, control>>

Connections(w, n) == {p \in DOMAIN w : w[p] = n}
Carries(w, n) == {p[1] : p \in {q \in Connections(w, n) : q[2] = "CI"}}
in_conn == conn[<<c, "CI">>]
NoControl == [f \in Control |-> None]
Back == chain[Len(chain)]

Init ==
  /\ design \in Designs
  /\ pc = "collect"
  /\ conn = design.conn
  /\ lcs = design.lcs /\ carries = design.carries
  /\ new_inst = Max({p[1] : p \in DOMAIN conn} \cup {0}) + 1
  /\ new_net = Max({conn[p] : p \in DOMAIN conn} \cup {Const1}) + 1
  /\ ready = {}
  /\ chains = <<>> /\ chain = <<>>
  /\ c = None /\ out_conn = None
  /\ control = NoControl
  /\ bridges = {}
  /\ packed = <<>>

-----------------------------------------------------------------------------
(* The netlist operations, as functions of conn *)

(* A new logic cell i, connected to some nets. *)
NoPorts == [f \in LCPort |-> None]
WithLC(w, i, ports) ==
  [p \in ({i} \X LCPort) \cup DOMAIN w |-> IF p \in {i} \X LCPort THEN ports[p[2]] ELSE w[p]]

(* Mutant: leaves COUT on its net. *)
PassThroughNoMove(w, l, i, ports) ==
  WithLC(w, i, [ports EXCEPT !["I3"] = new_net, !["O"] = w[<<l, "COUT">>]])

(* carry_pass_through_lc(): the carry of cell l goes to the new cell i on  *)
(* a new net, and i drives the net that the carry drove before.            *)
PassThrough(w, l, i, ports) ==
  WithLC([w EXCEPT ![<<l, "COUT">>] = new_net], i,
         [ports EXCEPT !["I3"] = new_net, !["O"] = w[<<l, "COUT">>]])

-----------------------------------------------------------------------------
(* pack_carries() *)

(* The carries that are not driven by a carry come first. *)
Collect ==
  /\ pc = "collect"
  /\ ready' = {i \in carries : \A d \in carries : conn[<<d, "CO">>] = None
                                                   \/ conn[<<d, "CO">>] # conn[<<i, "CI">>]}
  /\ pc' = "front"
  /\ UNCHANGED <<design, netVars, chains, chain, c, out_conn, control>>

TakeReady ==
  /\ pc = "front" /\ ready # {}
  /\ c' = Min(ready)
  /\ ready' = ready \ {Min(ready)}
  /\ control' = NoControl
  /\ pc' = "break"
  /\ UNCHANGED <<design, netVars, chains, chain, out_conn>>

(* Mutant: without the search for carries that are in no chain. *)
FinishUnchecked ==
  /\ pc = "front" /\ ready = {}
  /\ pc' = "packed"
  /\ UNCHANGED <<design, netVars, ready, chains, chain, c, out_conn, control>>

(* A carry that was not reached lies on a loop: fatal. *)
Finish ==
  /\ pc = "front" /\ ready = {}
  /\ pc' = IF carries = {} THEN "packed" ELSE "failed"
  /\ UNCHANGED <<design, netVars, ready, chains, chain, c, out_conn, control>>

-----------------------------------------------------------------------------
(* pack_carries_from(): one turn of its loop is break, carryin, carry *)

(* A chain that starts here is fed through a cell of its own, unless its   *)
(* carry in is constant.  A new tile may have other control nets.          *)
Begin(v) ==
  /\ chain' = v
  /\ control' = IF Len(v) % TileSize = 0 THEN NoControl ELSE control
  /\ pc' = IF v = <<>> /\ in_conn # None /\ ~IsConstant(in_conn) THEN "carryin" ELSE "carry"

(* Mutant: counts the cell that passes the carry out as if it had room. *)
TooLongByOne == conn[<<c, "CO">>] # None /\ Len(chain) = MaxChain

TooLong == conn[<<c, "CO">>] # None /\ Len(chain) = MaxChain - 1

ContinueChain ==
  /\ pc = "break" /\ ~TooLong
  /\ Begin(chain)
  /\ UNCHANGED <<design, netVars, ready, chains, c, out_conn>>

(* The chain ends with a cell that passes the carry out. *)
EndWithPassThrough ==
  /\ conn' = PassThrough(conn, Back, new_inst, NoPorts)
  /\ lcs' = lcs \cup {new_inst}
  /\ bridges' = bridges \cup {<<new_inst, "I3", "O">>}
  /\ new_inst' = new_inst + 1 /\ new_net' = new_net + 1
  /\ chains' = Append(chains, Append(chain, new_inst))
  /\ UNCHANGED <<carries, packed>>

BreakTo(v) ==
  /\ pc = "break" /\ TooLong
  /\ EndWithPassThrough
  /\ Begin(v)
  /\ UNCHANGED <<design, ready, c, out_conn>>

(* Mutant: without chain.clear(). *)
BreakChainNoClear == BreakTo(chain)

BreakChain == BreakTo(<<>>)

CarryIn ==
  /\ pc = "carryin"
  /\ conn' = [WithLC(conn, new_inst, [NoPorts EXCEPT !["I1"] = in_conn, !["I2"] = Const0, !["I3"] = Const0,
                                                     !["CIN"] = Const1, !["COUT"] = new_net])
               EXCEPT ![<<c, "CI">>] = new_net]
  /\ lcs' = lcs \cup {new_inst}
  /\ bridges' = bridges \cup {<<new_inst, "I1", "COUT">>}
  /\ new_inst' = new_inst + 1 /\ new_net' = new_net + 1
  /\ chain' = <<new_inst>>
  /\ pc' = "carry"
  /\ UNCHANGED <<design, carries, packed, ready, chains, c, out_conn, control>>

(* Mutant: does not care who else uses the carry. *)
CarryLCsAny ==
  {l \in lcs : /\ in_conn # None /\ ~IsConstant(in_conn)
               /\ conn[<<l, "I3">>] = in_conn
               /\ conn[<<c, "I0">>] = conn[<<l, "I1">>] /\ conn[<<c, "I1">>] = conn[<<l, "I2">>]}

(* find_carry_lc(): the one cell that computes with this carry and the     *)
(* same operands, if nothing else uses the carry.                          *)
CarryLCs ==
  {l \in lcs : /\ in_conn # None /\ ~IsConstant(in_conn)
               /\ Cardinality(Connections(conn, in_conn)) = 3
               /\ conn[<<l, "I3">>] = in_conn
               /\ conn[<<c, "I0">>] = conn[<<l, "I1">>] /\ conn[<<c, "I1">>] = conn[<<l, "I2">>]}

(* Mutant: does not compare the clock enables. *)
SuitsNoCen(l) == \A f \in Control \ {"CEN"} : control[f] \in {None, conn[<<l, f>>]}

(* A control net that the tile has already may not differ. *)
Suits(l) == \A f \in Control : control[f] \in {None, conn[<<l, f>>]}
TakeControl(l) == control' = [f \in Control |-> IF control[f] = None THEN conn[<<l, f>>] ELSE control[f]]

(* Mutant: puts every consumer into ready. *)
FollowAll(w, n) ==
  LET next == Carries(w, n)
  IN /\ c' = IF next = {} THEN None ELSE Min(next)
     /\ ready' = ready \cup next
     /\ pc' = IF next # {} THEN "break" ELSE IF n # None THEN "tail" ELSE "end"

(* The first carry that continues net n is next, others start new chains. *)
Follow(w, n) ==
  LET next == IF n = None THEN {} ELSE Carries(w, n)
  IN /\ c' = IF next = {} THEN None ELSE Min(next)
     /\ ready' = ready \cup (IF next = {} THEN {} ELSE next \ {Min(next)})
     /\ pc' = IF next # {} THEN "break" ELSE IF n # None THEN "tail" ELSE "end"

(* The carry c of netlist w becomes part of cell l. *)
PackInto(w, l) ==
  LET n == w[<<c, "CO">>]
      joined == [w EXCEPT ![<<l, "CIN">>] = w[<<c, "CI">>], ![<<l, "COUT">>] = n]
  IN /\ conn' = Restrict(joined, {p \in DOMAIN joined : p[1] # c})
     /\ carries' = carries \ {c}
     /\ packed' = [i \in DOMAIN packed \cup {c} |-> IF i = c THEN l ELSE packed[i]]
     /\ chain' = Append(chain, l)
     /\ out_conn' = n
     /\ Follow(joined, n)
     /\ UNCHANGED <<design, chains>>

PackWithLC ==
  /\ pc = "carry"
  /\ \E l \in CarryLCs :
       /\ Suits(l)
       /\ TakeControl(l)
       /\ PackInto(conn, l)
  /\ UNCHANGED <<lcs, new_inst, new_net, bridges>>

(* Otherwise the carry gets a cell of its own, whose lookup table passes   *)
(* the carry out if it has other users.                                    *)
Operands == [NoPorts EXCEPT !["I1"] = conn[<<c, "I0">>], !["I2"] = conn[<<c, "I1">>]]
CarryIsOurs ==
  in_conn = None \/ IsConstant(in_conn) \/ Cardinality(Connections(conn, in_conn)) = 2

PackAlone ==
  /\ pc = "carry"
  /\ \A l \in CarryLCs : ~Suits(l)
  /\ IF CarryIsOurs
     THEN /\ PackInto(WithLC(conn, new_inst, Operands), new_inst)
          /\ UNCHANGED <<bridges, new_net>>
     ELSE /\ PackInto([PassThrough(conn, Back, new_inst, Operands) EXCEPT ![<<c, "CI">>] = new_net],
                      new_inst)
          /\ bridges' = bridges \cup {<<new_inst, "I3", "O">>}
          /\ new_net' = new_net + 1
  /\ lcs' = lcs \cup {new_inst}
  /\ new_inst' = new_inst + 1
  /\ UNCHANGED control

-----------------------------------------------------------------------------
(* The last carry of a chain is used, but not by a carry *)

(* The logic cell that is its only user, on the input a chain can feed. *)
Consumers ==
  IF Cardinality(Connections(conn, out_conn)) = 2
  THEN {l \in lcs : conn[<<l, "I3">>] = out_conn}
  ELSE {}

TailAppend ==
  /\ pc = "tail"
  /\ \E l \in Consumers : Suits(l) /\ chain' = Append(chain, l)
  /\ pc' = "end"
  /\ UNCHANGED <<design, netVars, ready, chains, c, out_conn, control>>

TailPassThrough ==
  /\ pc = "tail" /\ Consumers = {}
  /\ conn' = PassThrough(conn, Back, new_inst, NoPorts)
  /\ lcs' = lcs \cup {new_inst}
  /\ bridges' = bridges \cup {<<new_inst, "I3", "O">>}
  /\ new_inst' = new_inst + 1 /\ new_net' = new_net + 1
  /\ chain' = Append(chain, new_inst)
  /\ pc' = "end"
  /\ UNCHANGED <<design, carries, packed, ready, chains, c, out_conn, control>>

(* It cannot be in a tile with the last cells: a chain of its own. *)
TailBreak ==
  /\ pc = "tail"
  /\ \E l \in Consumers : /\ ~Suits(l)
                          /\ EndWithPassThrough
                          /\ chain' = <<l>>
  /\ pc' = "end"
  /\ UNCHANGED <<design, ready, c, out_conn, control>>

EndChain ==
  /\ pc = "end"
  /\ chains' = Append(chains, chain)
  /\ chain' = <<>>
  /\ pc' = "front"
  /\ UNCHANGED <<design, netVars, ready, c, out_conn, control>>

(* pack_carries() has returned, or fatal("carry chain loop"). *)
Stopped == pc \in {"packed", "failed"} /\ UNCHANGED vars

Next ==
  \/ Collect \/ TakeReady \/ Finish
  \/ ContinueChain \/ BreakChain \/ CarryIn
  \/ PackWithLC \/ PackAlone
  \/ TailAppend \/ TailPassThrough \/ TailBreak \/ EndChain
  \/ Stopped

Spec == Init /\ [][Next]_vars
-----------------------------------------------------------------------------
(* Properties *)

AllChains == {chains[i] : i \in DOMAIN chains}
Started == Append(chains, chain)
CellsOf(v) == {v[j] : j \in DOMAIN v}

TypeOK ==
  /\ design \in Designs
  /\ pc \in {"collect", "front", "break", "carryin", "carry", "tail", "end", "packed", "failed"}
  /\ \A p \in DOMAIN conn : p[1] \in Nat /\ conn[p] \in 0 .. new_net - 1
  /\ lcs \subseteq 1 .. new_inst - 1
  /\ carries \subseteq design.carries
  /\ ready \subseteq carries
  /\ \A v \in AllChains \cup {chain} : \A j \in DOMAIN v : v[j] \in lcs
  /\ pc \in {"break", "carryin", "carry"} => c \in carries \ ready
  /\ \A f \in Control : control[f] \in Nat
  /\ DOMAIN packed = design.carries \ carries

(* The assertions of the loop, and that a chain fits a column: the cell    *)
(* that passes the carry out always has room, the carry to pass is the one *)
(* of the last cell, and no carry is put into ready twice.                 *)
Asserts ==
  /\ \A v \in AllChains \cup {chain} : Len(v) <= MaxChain
  /\ pc = "carry" /\ conn[<<c, "CO">>] # None => Carries(conn, conn[<<c, "CO">>]) \cap ready = {}
  /\ pc = "tail" => Len(chain) < MaxChain /\ conn[<<Back, "COUT">>] = out_conn
  /\ pc = "carry" /\ ~CarryIsOurs => conn[<<Back, "COUT">>] = in_conn

(* Every carry is packed into one cell, and no cell is at two positions,   *)
(* whichever chains are broken and wherever carries fan out: placing the   *)
(* chains would otherwise put a gate on two cells.                         *)
CellsOnce ==
  /\ \A i, k \in DOMAIN Started : \A j \in DOMAIN Started[i], l \in DOMAIN Started[k] :
       Started[i][j] = Started[k][l] => i = k /\ j = l
  /\ \A i, j \in DOMAIN packed : packed[i] = packed[j] => i = j
  /\ \A i \in DOMAIN packed : \E k \in DOMAIN Started : packed[i] \in CellsOf(Started[k])

(* The chip wires a carry only to the next cell of the column: in a        *)
(* finished chain every carry goes nowhere else, and every carry in comes  *)
(* from the cell below.                                                    *)
DedicatedWires ==
  \A v \in AllChains :
    /\ conn[<<v[1], "CIN">>] \in {None, Const0, Const1}
    /\ \A j \in DOMAIN v :
         LET n == conn[<<v[j], "COUT">>]
         IN n # None =>
              /\ j < Len(v)
              /\ Connections(conn, n) \subseteq {<<v[j], "COUT">>} \cup ({v[j + 1]} \X {"CIN", "I3"})
    /\ \A j \in 2 .. Len(v) : conn[<<v[j], "CIN">>] \in {None, conn[<<v[j - 1], "COUT">>]}

SameTile(i, j) == (i - 1) \div TileSize = (j - 1) \div TileSize

(* Cells of one tile have the same clock, enable and set/reset, as far as  *)
(* they have any, although the packer only remembers the nets of the tile  *)
(* it is in.                                                               *)
ControlsAgree ==
  \A v \in AllChains \cup {chain} : \A i, j \in DOMAIN v : \A f \in Control :
    SameTile(i, j) /\ conn[<<v[i], f>>] # None /\ conn[<<v[j], f>>] # None =>
      conn[<<v[i], f>>] = conn[<<v[j], f>>]

(* The net that n is a copy of, through a cell that feeds a chain and one  *)
(* that ends a chain.                                                      *)
Copied(n) ==
  LET b == {x \in bridges : conn[<<x[1], x[3]>>] = n}
  IN IF b = {} THEN n ELSE LET x == CHOOSE x \in b : TRUE IN conn[<<x[1], x[2]>>]
Origin(n) == Copied(Copied(n))

(* Packing does not change what the netlist computes: every net has one    *)
(* driver, each packed carry has the operands, the carry in and (through   *)
(* cells that only copy) the users that it had, and no other input of the  *)
(* netlist is connected to another net.                                    *)
SameLogic ==
  /\ \A p, q \in {p \in DOMAIN conn : p[2] \in {"O", "COUT", "CO"}} :
       conn[p] # None /\ conn[p] = conn[q] => p = q
  /\ \A i \in design.carries :
       LET l == IF i \in carries THEN i ELSE packed[i]
           Port(name) == <<l, IF i \in carries THEN name[1] ELSE name[2]>>
       IN /\ conn[Port(<<"I0", "I1">>)] = design.conn[<<i, "I0">>]
          /\ conn[Port(<<"I1", "I2">>)] = design.conn[<<i, "I1">>]
          /\ Origin(conn[Port(<<"CI", "CIN">>)]) = Origin(design.conn[<<i, "CI">>])
          /\ conn[Port(<<"CO", "COUT">>)] = Origin(design.conn[<<i, "CO">>])
  /\ \A p \in DOMAIN design.conn :
       p[1] \notin design.carries /\ p[2] \notin {"CIN", "COUT"} => conn[p] = design.conn[p]

(* fatal("carry chain loop") is the outcome if, and only if, there is a    *)
(* set of carries that all wait for each other.                            *)
LoopsReported ==
  LET loops == {S \in (SUBSET design.carries) \ {{}} :
                  \A i \in S : \E d \in S : design.conn[<<i, "CI">>] = design.conn[<<d, "CO">>]
                                            /\ design.conn[<<i, "CI">>] # None}
  IN /\ pc = "packed" => loops = {}
     /\ pc = "failed" => loops # {}

(* One clock edge per tile: Configuration::set_cbit() asserts that a bit   *)
(* is never set to two values, and configure() sets the NegClk bit of the  *)
(* tile for every clocked cell.                                            *)
OneClockEdge ==
  \A v \in AllChains : \A i, j \in DOMAIN v :
    /\ SameTile(i, j)
    /\ conn[<<v[i], "CLK">>] # None /\ conn[<<v[j], "CLK">>] # None
    => (v[i] \in design.neg_clk <=> v[j] \in design.neg_clk)
=============================================================================
