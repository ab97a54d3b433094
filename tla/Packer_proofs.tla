--------------------------- MODULE Packer_proofs ----------------------------
(* Proofs about Packer, for every chip and every well-formed netlist.      *)
EXTENDS Packer, FiniteSetTheorems, SequenceTheorems, WellFoundedInduction, TLAPS

(* Nets that are real: connected and not constant.                         *)
Real(n) == n # None /\ ~IsConstant(n)

Lines == AllChains \cup {chain}
Used == UNION {CellsOf(v) : v \in Lines}
LastNet == conn[<<Back, "COUT">>]

(* Ports belong to the instances they should belong to; no net has two     *)
(* drivers.                                                                *)
NetInv ==
  /\ new_inst \in Nat \ {0} /\ new_net \in Nat /\ new_net > Const1
  /\ IsFiniteSet(DOMAIN conn)
  /\ \A p \in DOMAIN conn : p = <<p[1], p[2]>> /\ p[1] \in Nat /\ p[1] < new_inst
  /\ \A p \in DOMAIN conn : conn[p] \in 0 .. new_net - 1
  /\ lcs \subseteq 1 .. new_inst - 1 /\ carries \subseteq 1 .. new_inst - 1 /\ lcs \cap carries = {}
  /\ (lcs \X LCPort) \cup (carries \X CarryPort) \subseteq DOMAIN conn
  /\ \A p \in DOMAIN conn : /\ p[1] \in lcs => p[2] \in LCPort
                            /\ p[1] \in carries => p[2] \in CarryPort
                            /\ p[1] \notin lcs \cup carries => p[2] \notin LCPort \cup CarryPort
  /\ \A p \in DOMAIN conn : p[2] \in Driver =>
       /\ ~IsConstant(conn[p])
       /\ \A q \in DOMAIN conn : q[2] \in Driver /\ conn[p] = conn[q] /\ conn[p] # None => p = q

(* Where the loops are, and what is the net that goes on.                  *)
LoopInv ==
  /\ pc \in {"collect", "front", "break", "carryin", "carry", "tail", "end", "packed", "failed"}
  /\ pc \in {"collect", "front", "carryin", "packed", "failed"} => chain = <<>>
  /\ pc \in {"break", "carry"} /\ chain # <<>> => in_conn # None /\ LastNet = in_conn
  /\ pc = "carryin" => Real(in_conn)
  /\ pc = "carry" /\ chain = <<>> => ~Real(in_conn)
  /\ pc = "tail" => chain # <<>> /\ out_conn # None /\ LastNet = out_conn
  /\ pc = "end" => chain # <<>> /\ LastNet = None
  /\ control \in [Control -> Nat]

LengthInv ==
  /\ chains \in Seq(Seq(Nat)) /\ chain \in Seq(Nat)
  /\ \A v \in AllChains : v # <<>> /\ Len(v) <= MaxChain
  /\ pc = "break" => Len(chain) < MaxChain
  /\ pc = "carry" => Len(chain) < MaxChain
  /\ pc = "carry" /\ conn[<<c, "CO">>] # None => Len(chain) < MaxChain - 1
  /\ pc = "tail" => Len(chain) < MaxChain
  /\ Len(chain) <= MaxChain

(* A carry waits exactly as long as a carry that feeds it does.            *)
Current == IF pc \in {"break", "carryin", "carry"} THEN {c} ELSE {}
Feeds(d, i) == design.conn[<<d, "CO">>] # None /\ design.conn[<<d, "CO">>] = design.conn[<<i, "CI">>]
CarriesInv ==
  /\ design \in Designs
  /\ carries \subseteq design.carries /\ ready \subseteq carries
  /\ Current \subseteq carries \ ready
  /\ \A i \in carries : /\ conn[<<i, "CO">>] = design.conn[<<i, "CO">>]
                        /\ pc # "carry" \/ i # c => conn[<<i, "CI">>] = design.conn[<<i, "CI">>]
  /\ pc = "collect" => ready = {} /\ carries = design.carries
  /\ pc # "collect" => \A i \in carries : i \in ready \cup Current <=> \A d \in carries : ~Feeds(d, i)
  /\ pc = "packed" => carries = {}
  /\ pc = "failed" => carries # {} /\ ready = {}
  /\ DOMAIN packed = design.carries \ carries

(* No cell is in two places.                                               *)
Distinct(s) ==
  \A i, k \in DOMAIN s : \A j \in DOMAIN s[i], l \in DOMAIN s[k] : s[i][j] = s[k][l] => i = k /\ j = l
PlacesInv ==
  /\ Distinct(Started)
  /\ \A i, j \in DOMAIN packed : packed[i] = packed[j] => i = j
  /\ Used \subseteq lcs /\ \A i \in DOMAIN packed : packed[i] \in Used

(* The net of the input I3 of a cell in a chain comes from the cell before *)
(* it, or from no carry at all; cells in no chain have no carries yet.     *)
Fed(w, v) ==
  \A j \in DOMAIN v :
    Real(w[<<v[j], "I3">>]) =>
      \/ j > 1 /\ w[<<v[j - 1], "COUT">>] = w[<<v[j], "I3">>]
      \/ \A p \in DOMAIN w : p[2] \in {"COUT", "CO"} => w[p] # w[<<v[j], "I3">>]
FedInv ==
  /\ \A v \in Lines : Fed(conn, v)
  /\ \A l \in lcs \ Used : conn[<<l, "CIN">>] = None /\ conn[<<l, "COUT">>] = None

(* Cells of one tile agree, and control has the nets of the tile of the    *)
(* next cell.                                                              *)
Agree(w, v) ==
  \A i, j \in DOMAIN v, f \in Control :
    SameTile(i, j) /\ w[<<v[i], f>>] # None /\ w[<<v[j], f>>] # None => w[<<v[i], f>>] = w[<<v[j], f>>]
ControlInv ==
  /\ \A v \in Lines : Agree(conn, v)
  /\ pc \in {"break", "carry", "tail"} =>
       \A j \in DOMAIN chain, f \in Control :
         SameTile(j, Len(chain) + 1) /\ conn[<<chain[j], f>>] # None => control[f] = conn[<<chain[j], f>>]

(* The carries within a chain, finished or not.                            *)
Wired(w, v) ==
  /\ v # <<>> => ~Real(w[<<v[1], "CIN">>])
  /\ \A j \in DOMAIN v : j < Len(v) =>
       /\ w[<<v[j], "COUT">>] # None =>
            \A p \in DOMAIN w : w[p] = w[<<v[j], "COUT">>] =>
              p = <<v[j], "COUT">> \/ p \in {v[j + 1]} \X {"CIN", "I3"}
       /\ w[<<v[j + 1], "CIN">>] \in {None, w[<<v[j], "COUT">>]}
WireInv ==
  /\ \A v \in Lines : Wired(conn, v)
  /\ \A v \in AllChains : conn[<<v[Len(v)], "COUT">>] = None

LoopsInv ==
  \A S \in (SUBSET design.carries) \ {{}} :
    (\A i \in S : \E d \in S : Feeds(d, i)) => S \subseteq carries

Inv ==
  /\ NetInv /\ LoopInv /\ LengthInv /\ CarriesInv /\ PlacesInv
  /\ FedInv /\ ControlInv /\ WireInv /\ LoopsInv

-----------------------------------------------------------------------------
(* Least and greatest elements.                                            *)
LEMMA MinProperty ==
  ASSUME NEW S \in SUBSET Nat, S # {}
  PROVE  Min(S) \in S /\ \A y \in S : Min(S) <= y
<1> DEFINE Below(x) == {y \in S : y < x}
           T == {Below(x) : x \in S}
<1>1. T # {} /\ T \subseteq FiniteSubsetsOf(S)
  <2>1. ASSUME NEW x \in S PROVE IsFiniteSet(Below(x)) /\ Below(x) \in SUBSET S
    <3>1. Below(x) \in SUBSET Nat /\ Below(x) \in SUBSET S /\ x \in Nat
      OBVIOUS
    <3>2. \A y \in Below(x) : y <= x
      BY <3>1
    <3> QED BY <3>1, <3>2, FS_BoundedSetOfNaturals
  <2> QED BY <2>1 DEF FiniteSubsetsOf
<1>2. PICK A \in T : \A B \in T : ~(<<B, A>> \in StrictSubsetOrdering(S))
  <2> HIDE DEF T
  <2> QED BY <1>1, FS_StrictSubsetOrderingWellFounded, WFMin
<1>3. PICK x \in S : A = Below(x)
  OBVIOUS
<1>4. \A y \in S : x <= y
  <2> SUFFICES ASSUME NEW y \in S, ~(x <= y) PROVE FALSE
    OBVIOUS
  <2>1. x \in Nat /\ y \in Nat /\ y < x
    OBVIOUS
  <2>2. /\ y \in Below(x) /\ y \notin Below(y)
        /\ \A z \in Below(y) : z \in Nat /\ z \in S /\ z < y
    BY <2>1
  <2>3. Below(y) \subseteq Below(x)
    <3>1. \A z \in Below(y) : z \in S /\ z < x
      BY <2>1, <2>2
    <3> QED BY <3>1
  <2>4. <<Below(y), A>> \in StrictSubsetOrdering(S)
    BY <2>2, <2>3, <1>3 DEF StrictSubsetOrdering
  <2> QED BY <2>4, <1>2
<1> QED BY <1>4 DEF Min

LEMMA MaxProperty ==
  ASSUME NEW S \in SUBSET Nat, S # {}, IsFiniteSet(S)
  PROVE  Max(S) \in S /\ \A y \in S : Max(S) >= y
<1> DEFINE Above(x) == {y \in S : y > x}
           T == {Above(x) : x \in S}
<1>1. T # {} /\ T \subseteq FiniteSubsetsOf(S)
  <2>1. ASSUME NEW x \in S PROVE IsFiniteSet(Above(x)) /\ Above(x) \in SUBSET S
    <3>1. Above(x) \in SUBSET S
      OBVIOUS
    <3> QED BY <3>1, FS_Subset
  <2> QED BY <2>1 DEF FiniteSubsetsOf
<1>2. PICK A \in T : \A B \in T : ~(<<B, A>> \in StrictSubsetOrdering(S))
  <2> HIDE DEF T
  <2> QED BY <1>1, FS_StrictSubsetOrderingWellFounded, WFMin
<1>3. PICK x \in S : A = Above(x)
  OBVIOUS
<1>4. \A y \in S : x >= y
  <2> SUFFICES ASSUME NEW y \in S, ~(x >= y) PROVE FALSE
    OBVIOUS
  <2>1. x \in Nat /\ y \in Nat /\ y > x
    OBVIOUS
  <2>2. /\ y \in Above(x) /\ y \notin Above(y)
        /\ \A z \in Above(y) : z \in Nat /\ z \in S /\ z > y
    BY <2>1
  <2>3. Above(y) \subseteq Above(x)
    <3>1. \A z \in Above(y) : z \in S /\ z > x
      BY <2>1, <2>2
    <3> QED BY <3>1
  <2>4. <<Above(y), A>> \in StrictSubsetOrdering(S)
    BY <2>2, <2>3, <1>3 DEF StrictSubsetOrdering
  <2> QED BY <2>4, <1>2
<1> QED BY <1>4 DEF Max

(* A set with two or three elements has no others than these.              *)
LEMMA OnlyTwo ==
  ASSUME NEW S, IsFiniteSet(S), Cardinality(S) = 2, NEW a \in S, NEW b \in S, a # b
  PROVE  S = {a, b}
<1>1. IsFiniteSet({a}) /\ Cardinality({a}) = 1
  BY FS_Singleton
<1>2. IsFiniteSet({a} \cup {b}) /\ Cardinality({a} \cup {b}) = 2
  <2>1. /\ IsFiniteSet({a} \cup {b})
        /\ Cardinality({a} \cup {b}) = IF b \in {a} THEN Cardinality({a}) ELSE Cardinality({a}) + 1
    BY <1>1, FS_AddElement
  <2> QED BY <2>1, <1>1
<1>3. {a} \cup {b} \in SUBSET S
  OBVIOUS
<1>4. S = {a} \cup {b}
  BY <1>2, <1>3, FS_Subset
<1> QED BY <1>4

LEMMA OnlyThree ==
  ASSUME NEW S, IsFiniteSet(S), Cardinality(S) = 3,
         NEW a \in S, NEW b \in S, NEW d \in S, a # b, a # d, b # d
  PROVE  S = {a, b, d}
<1>1. IsFiniteSet({a}) /\ Cardinality({a}) = 1
  BY FS_Singleton
<1>2. IsFiniteSet({a} \cup {b}) /\ Cardinality({a} \cup {b}) = 2
  <2>1. /\ IsFiniteSet({a} \cup {b})
        /\ Cardinality({a} \cup {b}) = IF b \in {a} THEN Cardinality({a}) ELSE Cardinality({a}) + 1
    BY <1>1, FS_AddElement
  <2> QED BY <2>1, <1>1
<1>3. IsFiniteSet({a} \cup {b} \cup {d}) /\ Cardinality({a} \cup {b} \cup {d}) = 3
  <2>1. d \notin {a} \cup {b}
    OBVIOUS
  <2> QED BY <2>1, <1>2, FS_AddElement
<1>4. {a} \cup {b} \cup {d} \in SUBSET S
  OBVIOUS
<1>5. S = {a} \cup {b} \cup {d}
  BY <1>3, <1>4, FS_Subset
<1> QED BY <1>5

-----------------------------------------------------------------------------
(* What the operations of the netlist do, port by port.                    *)
LEMMA PassThroughFacts ==
  ASSUME NEW w, NEW l, NEW i, NEW ports, NEW v, v = PassThrough(w, l, i, ports),
         <<l, "COUT">> \in DOMAIN w, l # i, DOMAIN ports = LCPort
  PROVE  /\ DOMAIN v = ({i} \X LCPort) \cup DOMAIN w
         /\ v[<<i, "I3">>] = new_net /\ v[<<i, "O">>] = w[<<l, "COUT">>]
         /\ \A f \in LCPort \ {"I3", "O"} : v[<<i, f>>] = ports[f]
         /\ v[<<l, "COUT">>] = new_net
         /\ \A p \in DOMAIN w : p \notin {i} \X LCPort /\ p # <<l, "COUT">> => v[p] = w[p]
<1> DEFINE u == [w EXCEPT ![<<l, "COUT">>] = new_net]
           given == [ports EXCEPT !["I3"] = new_net, !["O"] = w[<<l, "COUT">>]]
<1>1. /\ given["I3"] = new_net /\ given["O"] = w[<<l, "COUT">>]
      /\ \A f \in LCPort \ {"I3", "O"} : given[f] = ports[f]
  BY DEF LCPort
<1>2. /\ DOMAIN u = DOMAIN w /\ u[<<l, "COUT">>] = new_net
      /\ \A p \in DOMAIN w : p # <<l, "COUT">> => u[p] = w[p]
  OBVIOUS
<1>3. v = WithLC(u, i, given)
  BY DEF PassThrough
<1>4. {"I3", "O"} \subseteq LCPort /\ <<l, "COUT">> \notin {i} \X LCPort
  BY DEF LCPort
<1> HIDE DEF u, given
<1>5. /\ DOMAIN v = ({i} \X LCPort) \cup DOMAIN u
      /\ \A f \in LCPort : v[<<i, f>>] = given[f]
      /\ \A p \in DOMAIN u : p \notin {i} \X LCPort => v[p] = u[p]
  BY <1>3 DEF WithLC
<1>6. v[<<l, "COUT">>] = new_net
  BY <1>2, <1>4, <1>5
<1>7. \A p \in DOMAIN w : p \notin {i} \X LCPort /\ p # <<l, "COUT">> => v[p] = w[p]
  BY <1>2, <1>5
<1>8. DOMAIN v = ({i} \X LCPort) \cup DOMAIN w
  BY <1>2, <1>5
<1>9. v[<<i, "I3">>] = new_net /\ v[<<i, "O">>] = w[<<l, "COUT">>]
  BY <1>1, <1>4, <1>5
<1>10. \A f \in LCPort \ {"I3", "O"} : v[<<i, f>>] = ports[f]
  BY <1>1, <1>5
<1> QED BY <1>6, <1>7, <1>8, <1>9, <1>10

-----------------------------------------------------------------------------
(* The steps that change the netlist, port by port.                        *)
NextInst == new_inst' = new_inst + 1
NextNet == new_net' = new_net + 1

(* A cell that passes the carry of the last cell out.                      *)
Passed ==
  /\ DOMAIN conn' = ({new_inst} \X LCPort) \cup DOMAIN conn
  /\ conn'[<<new_inst, "I3">>] = new_net /\ conn'[<<new_inst, "O">>] = LastNet
  /\ \A f \in LCPort \ {"I3", "O"} : conn'[<<new_inst, f>>] = None
  /\ conn'[<<Back, "COUT">>] = new_net
  /\ \A p \in DOMAIN conn : p # <<Back, "COUT">> => conn'[p] = conn[p]
  /\ NextInst /\ NextNet
  /\ lcs' = lcs \cup {new_inst} /\ UNCHANGED <<carries, packed>>
  /\ bridges' = bridges \cup {<<new_inst, "I3", "O">>}

(* A cell that feeds the carry c.                                          *)
Begun ==
  /\ DOMAIN conn' = ({new_inst} \X LCPort) \cup DOMAIN conn
  /\ conn'[<<new_inst, "I1">>] = in_conn /\ conn'[<<new_inst, "I2">>] = Const0
  /\ conn'[<<new_inst, "I3">>] = Const0 /\ conn'[<<new_inst, "CIN">>] = Const1
  /\ conn'[<<new_inst, "COUT">>] = new_net
  /\ \A f \in {"O"} \cup Control : conn'[<<new_inst, f>>] = None
  /\ conn'[<<c, "CI">>] = new_net
  /\ \A p \in DOMAIN conn : p # <<c, "CI">> => conn'[p] = conn[p]
  /\ NextInst /\ NextNet
  /\ lcs' = lcs \cup {new_inst} /\ UNCHANGED <<carries, packed>>
  /\ bridges' = bridges \cup {<<new_inst, "I1", "COUT">>}

(* The carry c becomes part of the cell l.                                 *)
Gone(l) ==
  /\ conn'[<<l, "COUT">>] = conn[<<c, "CO">>]
  /\ carries' = carries \ {c}
  /\ DOMAIN packed' = DOMAIN packed \cup {c} /\ packed'[c] = l
  /\ \A i \in DOMAIN packed : i # c => packed'[i] = packed[i]

(* It becomes part of a cell of the netlist, ...                           *)
Joined(l) ==
  /\ Gone(l)
  /\ \A p : p \in DOMAIN conn' <=> p \in DOMAIN conn /\ p[1] # c
  /\ conn'[<<l, "CIN">>] = in_conn
  /\ \A p \in DOMAIN conn : p[1] # c /\ p # <<l, "CIN">> /\ p # <<l, "COUT">> => conn'[p] = conn[p]
  /\ UNCHANGED <<lcs, new_inst, new_net, bridges>>

(* ... of a cell of its own, ...                                           *)
OwnCell ==
  /\ Gone(new_inst)
  /\ \A p : p \in DOMAIN conn' <=> p \in {new_inst} \X LCPort \/ (p \in DOMAIN conn /\ p[1] # c)
  /\ conn'[<<new_inst, "I1">>] = conn[<<c, "I0">>] /\ conn'[<<new_inst, "I2">>] = conn[<<c, "I1">>]
  /\ \A f \in Control : conn'[<<new_inst, f>>] = None
  /\ lcs' = lcs \cup {new_inst} /\ NextInst

Alone ==
  /\ OwnCell
  /\ conn'[<<new_inst, "CIN">>] = in_conn
  /\ \A f \in {"I3", "O"} : conn'[<<new_inst, f>>] = None
  /\ \A p \in DOMAIN conn : p[1] # c => conn'[p] = conn[p]
  /\ UNCHANGED <<new_net, bridges>>

(* ... or of one that passes the carry of the last cell out.               *)
Behind ==
  /\ OwnCell
  /\ conn'[<<new_inst, "CIN">>] = new_net
  /\ conn'[<<new_inst, "I3">>] = new_net /\ conn'[<<new_inst, "O">>] = LastNet
  /\ conn'[<<Back, "COUT">>] = new_net
  /\ \A p \in DOMAIN conn : p[1] # c /\ p # <<Back, "COUT">> => conn'[p] = conn[p]
  /\ NextNet
  /\ bridges' = bridges \cup {<<new_inst, "I3", "O">>}

LEMMA NewIsNew ==
  ASSUME NetInv
  PROVE  /\ new_inst \notin lcs \cup carries
         /\ \A p \in DOMAIN conn : p \notin {new_inst} \X LCPort /\ p[1] # new_inst /\ conn[p] # new_net
         /\ \A p \in DOMAIN conn : p = <<p[1], p[2]>>
BY DEF NetInv

LEMMA PassedEffect ==
  ASSUME NetInv, Back \in lcs, conn' = PassThrough(conn, Back, new_inst, NoPorts),
         lcs' = lcs \cup {new_inst}, UNCHANGED <<carries, packed>>,
         bridges' = bridges \cup {<<new_inst, "I3", "O">>},
         NextInst, NextNet
  PROVE  Passed
<1>1. <<Back, "COUT">> \in DOMAIN conn /\ Back # new_inst
  BY NewIsNew DEF NetInv, LCPort
<1>2. DOMAIN NoPorts = LCPort /\ \A f \in LCPort : NoPorts[f] = None
  BY DEF NoPorts
<1>3. /\ DOMAIN conn' = ({new_inst} \X LCPort) \cup DOMAIN conn
      /\ conn'[<<new_inst, "I3">>] = new_net /\ conn'[<<new_inst, "O">>] = conn[<<Back, "COUT">>]
      /\ \A f \in LCPort \ {"I3", "O"} : conn'[<<new_inst, f>>] = NoPorts[f]
      /\ conn'[<<Back, "COUT">>] = new_net
      /\ \A p \in DOMAIN conn : p \notin {new_inst} \X LCPort /\ p # <<Back, "COUT">> => conn'[p] = conn[p]
  BY <1>1, <1>2, PassThroughFacts
<1> QED BY <1>2, <1>3, NewIsNew DEF Passed, LastNet

LEMMA BegunEffect ==
  ASSUME NetInv, c \in carries, CarryIn
  PROVE  Begun
<1> DEFINE ports == [NoPorts EXCEPT !["I1"] = in_conn, !["I2"] = Const0, !["I3"] = Const0,
                                    !["CIN"] = Const1, !["COUT"] = new_net]
           w == WithLC(conn, new_inst, ports)
<1>1. /\ ports["I1"] = in_conn /\ ports["I2"] = Const0 /\ ports["I3"] = Const0
      /\ ports["CIN"] = Const1 /\ ports["COUT"] = new_net
      /\ \A f \in {"O"} \cup Control : ports[f] = None
  BY DEF NoPorts, LCPort, Control
<1>2. conn' = [w EXCEPT ![<<c, "CI">>] = new_net]
  BY DEF CarryIn
<1> HIDE DEF ports
<1>3. /\ DOMAIN w = ({new_inst} \X LCPort) \cup DOMAIN conn
      /\ \A f \in LCPort : w[<<new_inst, f>>] = ports[f]
      /\ \A p \in DOMAIN conn : p \notin {new_inst} \X LCPort => w[p] = conn[p]
  BY DEF WithLC
<1> HIDE DEF w
<1>4. <<c, "CI">> \in DOMAIN conn /\ c # new_inst
  BY NewIsNew DEF NetInv, CarryPort
<1>5. /\ DOMAIN conn' = DOMAIN w /\ conn'[<<c, "CI">>] = new_net
      /\ \A p \in DOMAIN w : p # <<c, "CI">> => conn'[p] = w[p]
  BY <1>2, <1>3, <1>4
<1>6. \A f \in LCPort : conn'[<<new_inst, f>>] = ports[f]
  BY <1>3, <1>4, <1>5
<1>7. \A p \in DOMAIN conn : p # <<c, "CI">> => conn'[p] = conn[p]
  BY <1>3, <1>5, NewIsNew
<1>8. {"I1", "I2", "I3", "CIN", "COUT", "O"} \cup Control \subseteq LCPort
  BY DEF LCPort, Control
<1>9. /\ NextInst /\ NextNet
      /\ lcs' = lcs \cup {new_inst} /\ UNCHANGED <<carries, packed>>
      /\ bridges' = bridges \cup {<<new_inst, "I1", "COUT">>}
  BY DEF CarryIn, NextInst, NextNet
<1> QED BY <1>1, <1>3, <1>5, <1>6, <1>7, <1>8, <1>9 DEF Begun

(* The netlist w after its carry c became part of the cell l.              *)
Into(w, l) ==
  /\ \A p : p \in DOMAIN conn' <=> p \in DOMAIN w /\ p[1] # c
  /\ conn'[<<l, "CIN">>] = w[<<c, "CI">>] /\ conn'[<<l, "COUT">>] = w[<<c, "CO">>]
  /\ \A p \in DOMAIN w : p[1] # c /\ p # <<l, "CIN">> /\ p # <<l, "COUT">> => conn'[p] = w[p]
  /\ carries' = carries \ {c}
  /\ DOMAIN packed' = DOMAIN packed \cup {c} /\ packed'[c] = l
  /\ \A i \in DOMAIN packed : i # c => packed'[i] = packed[i]

LEMMA PackIntoFacts ==
  ASSUME NEW w, NEW l, PackInto(w, l), <<l, "CIN">> \in DOMAIN w, <<l, "COUT">> \in DOMAIN w, l # c
  PROVE  Into(w, l)
<1> DEFINE n == w[<<c, "CO">>]
           joined == [w EXCEPT ![<<l, "CIN">>] = w[<<c, "CI">>], ![<<l, "COUT">>] = n]
<1>1. /\ conn' = Restrict(joined, {p \in DOMAIN joined : p[1] # c})
      /\ carries' = carries \ {c}
      /\ packed' = [i \in DOMAIN packed \cup {c} |-> IF i = c THEN l ELSE packed[i]]
  BY DEF PackInto
<1>2. /\ DOMAIN joined = DOMAIN w
      /\ joined[<<l, "CIN">>] = w[<<c, "CI">>] /\ joined[<<l, "COUT">>] = n
      /\ \A p \in DOMAIN w : p # <<l, "CIN">> /\ p # <<l, "COUT">> => joined[p] = w[p]
  OBVIOUS
<1> HIDE DEF joined
<1>3. /\ \A p : p \in DOMAIN conn' <=> p \in DOMAIN w /\ p[1] # c
      /\ \A p \in DOMAIN w : p[1] # c => conn'[p] = joined[p]
  BY <1>1, <1>2 DEF Restrict
<1>4. /\ DOMAIN packed' = DOMAIN packed \cup {c} /\ packed'[c] = l
      /\ \A i \in DOMAIN packed : i # c => packed'[i] = packed[i]
  BY <1>1
<1> QED BY <1>1, <1>2, <1>3, <1>4 DEF Into

(* The carries that follow are those whose carry in is the net n.          *)
LEMMA FollowFacts ==
  ASSUME NEW w, NEW l, PackInto(w, l), <<l, "CIN">> \in DOMAIN w, <<l, "COUT">> \in DOMAIN w,
         carries \subseteq Nat, 
         \A p \in DOMAIN w : p = <<p[1], p[2]>>,
         \A i : <<i, "CI">> \in DOMAIN w <=> i \in carries
  PROVE  LET n == w[<<c, "CO">>]
             next == IF n = None THEN {} ELSE {i \in carries : w[<<i, "CI">>] = n}
         IN  /\ next # {} => c' \in next
             /\ ready' = ready \cup (next \ {c'})
             /\ pc' = IF next # {} THEN "break" ELSE IF n # None THEN "tail" ELSE "end"
             /\ chain' = Append(chain, l) /\ out_conn' = n /\ UNCHANGED <<design, chains>>
<1> DEFINE n == w[<<c, "CO">>]
           joined == [w EXCEPT ![<<l, "CIN">>] = w[<<c, "CI">>], ![<<l, "COUT">>] = n]
           next == IF n = None THEN {} ELSE {i \in carries : w[<<i, "CI">>] = n}
           found == IF n = None THEN {} ELSE Carries(joined, n)
<1>1. Follow(joined, n) /\ chain' = Append(chain, l) /\ out_conn' = n /\ UNCHANGED <<design, chains>>
  BY DEF PackInto
<1>2. /\ c' = IF found = {} THEN None ELSE Min(found)
      /\ ready' = ready \cup (IF found = {} THEN {} ELSE found \ {Min(found)})
      /\ pc' = IF found # {} THEN "break" ELSE IF n # None THEN "tail" ELSE "end"
  BY <1>1, Zenon DEF Follow
<1>3. found = next
  <2>1. /\ DOMAIN joined = DOMAIN w
        /\ \A p \in DOMAIN w : p[2] = "CI" => joined[p] = w[p]
    OBVIOUS
  <2> HIDE DEF joined, n
  <2>2. ASSUME NEW i PROVE i \in Carries(joined, n) <=> i \in carries /\ w[<<i, "CI">>] = n
    <3>1. i \in Carries(joined, n) <=> \E q \in DOMAIN w : i = q[1] /\ q[2] = "CI" /\ w[q] = n
      BY <2>1 DEF Carries, Connections
    <3>2. \A q \in DOMAIN w : i = q[1] /\ q[2] = "CI" => q = <<i, "CI">>
      OBVIOUS
    <3>3. <<i, "CI">>[1] = i /\ <<i, "CI">>[2] = "CI"
      OBVIOUS
    <3> QED BY <3>1, <3>2, <3>3
  <2>3. Carries(joined, n) = {i \in carries : w[<<i, "CI">>] = n}
    BY <2>2
  <2> QED BY <2>3
<1>4. next # {} => Min(next) \in next
  <2>1. next \in SUBSET Nat
    OBVIOUS
  <2> HIDE DEF next
  <2> QED BY <2>1, MinProperty
<1> HIDE DEF n, joined, next, found
<1>5. /\ next # {} => c' \in next
      /\ ready' = ready \cup (next \ {c'})
      /\ pc' = IF next # {} THEN "break" ELSE IF n # None THEN "tail" ELSE "end"
  BY <1>2, <1>3, <1>4
<1> QED BY <1>1, <1>5 DEF n, next

(* What follows the carry c in the netlist.                                *)
Followers ==
  IF conn[<<c, "CO">>] = None THEN {}
  ELSE {i \in carries \ {c} : conn[<<i, "CI">>] = conn[<<c, "CO">>]}

Followed(l) ==
  /\ Followers # {} => c' \in Followers
  /\ ready' = ready \cup (Followers \ {c'})
  /\ pc' = IF Followers # {} THEN "break" ELSE IF conn[<<c, "CO">>] # None THEN "tail" ELSE "end"
  /\ chain' = Append(chain, l) /\ out_conn' = conn[<<c, "CO">>] /\ UNCHANGED <<design, chains>>

LEMMA CarryPorts ==
  ASSUME NetInv
  PROVE  /\ \A i : <<i, "CI">> \in DOMAIN conn <=> i \in carries
         /\ \A i \in carries, f \in CarryPort : <<i, f>> \in DOMAIN conn
         /\ \A l \in lcs, f \in LCPort : <<l, f>> \in DOMAIN conn
         /\ carries \subseteq Nat /\ lcs \subseteq Nat
<1>1. /\ (lcs \X LCPort) \cup (carries \X CarryPort) \subseteq DOMAIN conn
      /\ \A p \in DOMAIN conn : /\ p[1] \in lcs => p[2] \in LCPort
                                /\ p[1] \notin lcs \cup carries => p[2] \notin LCPort \cup CarryPort
      /\ carries \subseteq Nat /\ lcs \subseteq Nat
  BY DEF NetInv
<1>2. "CI" \in CarryPort /\ "CI" \notin LCPort
  BY DEF CarryPort, LCPort
<1>3. ASSUME NEW i, <<i, "CI">> \in DOMAIN conn PROVE i \in carries
  BY <1>1, <1>2, <1>3
<1> QED BY <1>1, <1>2, <1>3

(* A carry does not feed itself once it is packed.                         *)
LEMMA NotFedByItself ==
  ASSUME NetInv, LoopInv, pc = "carry", c \in carries, chain # <<>> => Back \in lcs,
         conn[<<c, "CO">>] # None
  PROVE  in_conn # conn[<<c, "CO">>]
<1>1. <<c, "CO">> \in DOMAIN conn /\ "CO" \in Driver /\ "COUT" \in Driver
  BY CarryPorts DEF CarryPort, Driver
<1>2. ~IsConstant(conn[<<c, "CO">>])
  BY <1>1 DEF NetInv
<1>3. CASE chain = <<>>
  BY <1>2, <1>3 DEF LoopInv, Real
<1>4. CASE chain # <<>>
  <2>1. <<Back, "COUT">> \in DOMAIN conn /\ conn[<<Back, "COUT">>] = in_conn
    BY <1>4, CarryPorts DEF LoopInv, LastNet, LCPort
  <2>2. <<Back, "COUT">> # <<c, "CO">>
    OBVIOUS
  <2> QED BY <1>1, <2>1, <2>2 DEF NetInv
<1> QED BY <1>3, <1>4

LEMMA JoinedEffect ==
  ASSUME NetInv, c \in carries, NEW l \in lcs, PackInto(conn, l), UNCHANGED <<lcs, new_inst, new_net, bridges>>,
         conn[<<c, "CO">>] # None => in_conn # conn[<<c, "CO">>]
  PROVE  Joined(l) /\ Followed(l)
<1>1. <<l, "CIN">> \in DOMAIN conn /\ <<l, "COUT">> \in DOMAIN conn /\ l # c
  BY CarryPorts DEF NetInv, LCPort
<1>2. Joined(l)
  <2>1. /\ \A p : p \in DOMAIN conn' <=> p \in DOMAIN conn /\ p[1] # c
        /\ conn'[<<l, "CIN">>] = conn[<<c, "CI">>] /\ conn'[<<l, "COUT">>] = conn[<<c, "CO">>]
        /\ \A p \in DOMAIN conn : p[1] # c /\ p # <<l, "CIN">> /\ p # <<l, "COUT">> => conn'[p] = conn[p]
        /\ carries' = carries \ {c}
        /\ DOMAIN packed' = DOMAIN packed \cup {c} /\ packed'[c] = l
        /\ \A i \in DOMAIN packed : i # c => packed'[i] = packed[i]
    BY <1>1, PackIntoFacts DEF Into
  <2> QED BY <2>1, Zenon DEF Joined, Gone, in_conn
<1>3. Followed(l)
  <2> DEFINE n == conn[<<c, "CO">>]
             next == IF n = None THEN {} ELSE {i \in carries : conn[<<i, "CI">>] = n}
  <2>1. /\ next # {} => c' \in next
        /\ ready' = ready \cup (next \ {c'})
        /\ pc' = IF next # {} THEN "break" ELSE IF n # None THEN "tail" ELSE "end"
        /\ chain' = Append(chain, l) /\ out_conn' = n /\ UNCHANGED <<design, chains>>
    BY <1>1, FollowFacts, CarryPorts, NewIsNew
  <2>2. next = Followers
    <3>1. conn[<<c, "CO">>] # None => ~(conn[<<c, "CI">>] = conn[<<c, "CO">>])
      BY DEF in_conn
    <3>2. CASE conn[<<c, "CO">>] = None
      BY <3>2 DEF Followers
    <3>3. CASE conn[<<c, "CO">>] # None
      <4>1. Followers = {i \in carries \ {c} : conn[<<i, "CI">>] = conn[<<c, "CO">>]}
        BY <3>3 DEF Followers
      <4>2. next = {i \in carries : conn[<<i, "CI">>] = conn[<<c, "CO">>]}
        BY <3>3
      <4> HIDE DEF next
      <4> QED BY <3>1, <3>3, <4>1, <4>2
    <3> QED BY <3>2, <3>3
  <2> HIDE DEF n, next
  <2> QED BY <2>1, <2>2 DEF Followed, n
<1> QED BY <1>2, <1>3

(* A netlist with a new cell in it has the same carries.                   *)
LEMMA OwnCellFollows ==
  ASSUME NetInv, c \in carries, NEW w, PackInto(w, new_inst),
         DOMAIN w = ({new_inst} \X LCPort) \cup DOMAIN conn,
         w[<<c, "CO">>] = conn[<<c, "CO">>],
         \A i \in carries \ {c} : w[<<i, "CI">>] = conn[<<i, "CI">>],
         conn[<<c, "CO">>] # None => w[<<c, "CI">>] # conn[<<c, "CO">>]
  PROVE  Followed(new_inst)
<1> DEFINE n == w[<<c, "CO">>]
           next == IF n = None THEN {} ELSE {i \in carries : w[<<i, "CI">>] = n}
<1>1. <<new_inst, "CIN">> \in DOMAIN w /\ <<new_inst, "COUT">> \in DOMAIN w
  BY DEF LCPort
<1>2. \A p \in DOMAIN w : p = <<p[1], p[2]>>
  BY NewIsNew
<1>3. \A i : <<i, "CI">> \in DOMAIN w <=> i \in carries
  <2>1. \A i : <<i, "CI">> \notin {new_inst} \X LCPort
    BY DEF LCPort
  <2> QED BY <2>1, CarryPorts
<1>4. /\ next # {} => c' \in next
      /\ ready' = ready \cup (next \ {c'})
      /\ pc' = IF next # {} THEN "break" ELSE IF n # None THEN "tail" ELSE "end"
      /\ chain' = Append(chain, new_inst) /\ out_conn' = n /\ UNCHANGED <<design, chains>>
  BY <1>1, <1>2, <1>3, FollowFacts, CarryPorts
<1>5. next = Followers
  BY DEF Followers
<1> QED BY <1>4, <1>5 DEF Followed

LEMMA AloneEffect ==
  ASSUME NetInv, c \in carries, NEW w, w = WithLC(conn, new_inst, Operands), PackInto(w, new_inst),
         UNCHANGED <<bridges, new_net>>, lcs' = lcs \cup {new_inst}, NextInst,
         conn[<<c, "CO">>] # None => in_conn # conn[<<c, "CO">>]
  PROVE  Alone /\ Followed(new_inst)
<1>1. /\ DOMAIN w = ({new_inst} \X LCPort) \cup DOMAIN conn
      /\ \A f \in LCPort : w[<<new_inst, f>>] = Operands[f]
      /\ \A p \in DOMAIN conn : p \notin {new_inst} \X LCPort => w[p] = conn[p]
  BY DEF WithLC
<1>2. /\ Operands["I1"] = conn[<<c, "I0">>] /\ Operands["I2"] = conn[<<c, "I1">>]
      /\ \A f \in {"I3", "O"} \cup Control : Operands[f] = None
  BY DEF Operands, NoPorts, LCPort, Control
<1>4. /\ <<new_inst, "CIN">> \in DOMAIN w /\ <<new_inst, "COUT">> \in DOMAIN w /\ new_inst # c
      /\ c \notin {new_inst} /\ \A f \in LCPort : <<new_inst, f>> \in DOMAIN w
  BY <1>1, NewIsNew DEF LCPort
<1>5. \A p \in DOMAIN conn : p \in DOMAIN w /\ w[p] = conn[p]
  BY <1>1, NewIsNew
<1>6. \A i \in carries, f \in CarryPort : <<i, f>> \in DOMAIN conn /\ w[<<i, f>>] = conn[<<i, f>>]
  BY <1>5, CarryPorts
<1>7. /\ w[<<c, "CO">>] = conn[<<c, "CO">>] /\ w[<<c, "CI">>] = in_conn
      /\ \A i \in carries : w[<<i, "CI">>] = conn[<<i, "CI">>]
  BY <1>6 DEF CarryPort, in_conn
<1>8. /\ \A p : p \in DOMAIN conn' <=> p \in DOMAIN w /\ p[1] # c
      /\ conn'[<<new_inst, "CIN">>] = w[<<c, "CI">>] /\ conn'[<<new_inst, "COUT">>] = w[<<c, "CO">>]
      /\ \A p \in DOMAIN w : p[1] # c /\ p # <<new_inst, "CIN">> /\ p # <<new_inst, "COUT">> => conn'[p] = w[p]
      /\ carries' = carries \ {c}
      /\ DOMAIN packed' = DOMAIN packed \cup {c} /\ packed'[c] = new_inst
      /\ \A i \in DOMAIN packed : i # c => packed'[i] = packed[i]
  <2>1. <<new_inst, "CIN">> \in DOMAIN w /\ <<new_inst, "COUT">> \in DOMAIN w /\ new_inst # c
    BY <1>4
  <2>2. Into(w, new_inst)
    BY <2>1, PackIntoFacts
  <2> QED BY <2>2 DEF Into
<1>9. \A p : p \in DOMAIN conn' <=> p \in {new_inst} \X LCPort \/ (p \in DOMAIN conn /\ p[1] # c)
  <2>1. \A p \in {new_inst} \X LCPort : p[1] # c
    BY <1>4
  <2> QED BY <2>1, <1>1, <1>8
<1>10. \A f \in {"I1", "I2", "I3", "O"} \cup Control : conn'[<<new_inst, f>>] = Operands[f]
  <2> TAKE f \in {"I1", "I2", "I3", "O"} \cup Control
  <2>1. f \in LCPort /\ f # "CIN" /\ f # "COUT"
    BY DEF LCPort, Control
  <2>2. <<new_inst, f>>[1] = new_inst /\ <<new_inst, f>> # <<new_inst, "CIN">> /\ <<new_inst, f>> # <<new_inst, "COUT">>
    BY <2>1
  <2> QED BY <2>1, <2>2, <1>1, <1>4, <1>8
<1>11. \A p \in DOMAIN conn : p[1] # c => conn'[p] = conn[p]
  BY <1>5, <1>8, NewIsNew
<1>12. Gone(new_inst)
  BY <1>7, <1>8, Zenon DEF Gone
<1>13. Alone
  <2>1. /\ conn'[<<new_inst, "I1">>] = conn[<<c, "I0">>] /\ conn'[<<new_inst, "I2">>] = conn[<<c, "I1">>]
        /\ \A f \in {"I3", "O"} \cup Control : conn'[<<new_inst, f>>] = None
    BY <1>2, <1>10
  <2>2. OwnCell
    BY <2>1, <1>9, <1>12 DEF OwnCell
  <2>3. conn'[<<new_inst, "CIN">>] = in_conn
    BY <1>7, <1>8
  <2> QED BY <2>1, <2>2, <2>3, <1>11 DEF Alone
<1>14. Followed(new_inst)
  BY <1>1, <1>7, OwnCellFollows
<1> QED BY <1>13, <1>14

LEMMA BehindEffect ==
  ASSUME NetInv, c \in carries, Back \in lcs,
         NEW w, w = [PassThrough(conn, Back, new_inst, Operands) EXCEPT ![<<c, "CI">>] = new_net],
         PackInto(w, new_inst),
         bridges' = bridges \cup {<<new_inst, "I3", "O">>}, NextNet,
         lcs' = lcs \cup {new_inst}, NextInst
  PROVE  Behind /\ Followed(new_inst)
<1> DEFINE u == PassThrough(conn, Back, new_inst, Operands)
<1>1. <<Back, "COUT">> \in DOMAIN conn /\ Back # new_inst /\ c # new_inst /\ c # Back
  BY NewIsNew DEF NetInv, LCPort
<1>2. /\ DOMAIN Operands = LCPort
      /\ Operands["I1"] = conn[<<c, "I0">>] /\ Operands["I2"] = conn[<<c, "I1">>]
      /\ \A f \in Control : Operands[f] = None
  BY DEF Operands, NoPorts, LCPort, Control
<1>3. /\ DOMAIN u = ({new_inst} \X LCPort) \cup DOMAIN conn
      /\ u[<<new_inst, "I3">>] = new_net /\ u[<<new_inst, "O">>] = conn[<<Back, "COUT">>]
      /\ \A f \in LCPort \ {"I3", "O"} : u[<<new_inst, f>>] = Operands[f]
      /\ u[<<Back, "COUT">>] = new_net
      /\ \A p \in DOMAIN conn : p \notin {new_inst} \X LCPort /\ p # <<Back, "COUT">> => u[p] = conn[p]
  BY <1>1, <1>2, PassThroughFacts, SMTT(30)
<1>4. w = [u EXCEPT ![<<c, "CI">>] = new_net]
  OBVIOUS
<1> HIDE DEF u
<1>5. <<c, "CI">> \in DOMAIN conn /\ <<c, "CO">> \in DOMAIN conn /\ <<c, "CI">> \in DOMAIN u
  BY <1>3, CarryPorts DEF CarryPort
<1>6. /\ DOMAIN w = DOMAIN u /\ w[<<c, "CI">>] = new_net
      /\ \A p \in DOMAIN u : p # <<c, "CI">> => w[p] = u[p]
  BY <1>4, <1>5
<1>7. /\ <<new_inst, "CIN">> \in DOMAIN w /\ <<new_inst, "COUT">> \in DOMAIN w
      /\ \A f \in LCPort : <<new_inst, f>> \in DOMAIN w /\ w[<<new_inst, f>>] = u[<<new_inst, f>>]
  BY <1>1, <1>3, <1>6 DEF LCPort
<1>8. \A p \in DOMAIN conn : p \in DOMAIN w /\ (p # <<Back, "COUT">> /\ p # <<c, "CI">> => w[p] = conn[p])
  BY <1>3, <1>6, NewIsNew
<1>9. /\ w[<<c, "CO">>] = conn[<<c, "CO">>]
      /\ \A i \in carries \ {c} : w[<<i, "CI">>] = conn[<<i, "CI">>]
  <2>1. \A i \in carries \ {c} : <<i, "CI">> \in DOMAIN conn /\ <<i, "CI">> # <<Back, "COUT">> /\ <<i, "CI">> # <<c, "CI">>
    BY CarryPorts
  <2>2. <<c, "CO">> # <<Back, "COUT">> /\ <<c, "CO">> # <<c, "CI">>
    OBVIOUS
  <2> QED BY <2>1, <2>2, <1>5, <1>8
<1>10. /\ \A p : p \in DOMAIN conn' <=> p \in DOMAIN w /\ p[1] # c
       /\ conn'[<<new_inst, "CIN">>] = w[<<c, "CI">>] /\ conn'[<<new_inst, "COUT">>] = w[<<c, "CO">>]
       /\ \A p \in DOMAIN w : p[1] # c /\ p # <<new_inst, "CIN">> /\ p # <<new_inst, "COUT">> => conn'[p] = w[p]
       /\ carries' = carries \ {c}
       /\ DOMAIN packed' = DOMAIN packed \cup {c} /\ packed'[c] = new_inst
       /\ \A i \in DOMAIN packed : i # c => packed'[i] = packed[i]
  <2>1. <<new_inst, "CIN">> \in DOMAIN w /\ <<new_inst, "COUT">> \in DOMAIN w /\ new_inst # c
    BY <1>1, <1>7
  <2>2. Into(w, new_inst)
    BY <2>1, PackIntoFacts
  <2> QED BY <2>2 DEF Into
<1>11. \A p : p \in DOMAIN conn' <=> p \in {new_inst} \X LCPort \/ (p \in DOMAIN conn /\ p[1] # c)
  <2>1. \A p \in {new_inst} \X LCPort : p[1] # c
    BY <1>1
  <2> QED BY <2>1, <1>3, <1>6, <1>10
<1>12. \A f \in {"I1", "I2", "I3", "O"} \cup Control : conn'[<<new_inst, f>>] = u[<<new_inst, f>>]
  <2> TAKE f \in {"I1", "I2", "I3", "O"} \cup Control
  <2>1. f \in LCPort /\ f # "CIN" /\ f # "COUT"
    BY DEF LCPort, Control
  <2>2. <<new_inst, f>>[1] = new_inst /\ <<new_inst, f>> # <<new_inst, "CIN">> /\ <<new_inst, f>> # <<new_inst, "COUT">>
    BY <2>1
  <2> QED BY <2>1, <2>2, <1>1, <1>7, <1>10
<1>13. /\ u[<<new_inst, "I1">>] = conn[<<c, "I0">>] /\ u[<<new_inst, "I2">>] = conn[<<c, "I1">>]
       /\ \A f \in Control : u[<<new_inst, f>>] = None
  <2>1. {"I1", "I2"} \cup Control \subseteq LCPort \ {"I3", "O"}
    BY DEF LCPort, Control
  <2> QED BY <2>1, <1>2, <1>3
<1>14. \A p \in DOMAIN conn : p[1] # c /\ p # <<Back, "COUT">> => conn'[p] = conn[p]
  <2> TAKE p \in DOMAIN conn
  <2>1. p # <<new_inst, "CIN">> /\ p # <<new_inst, "COUT">> /\ (p[1] # c => p # <<c, "CI">>)
    BY NewIsNew
  <2> QED BY <2>1, <1>8, <1>10
<1>15. conn'[<<Back, "COUT">>] = new_net
  <2>1. /\ <<Back, "COUT">> # <<c, "CI">> /\ <<Back, "COUT">>[1] # c
        /\ <<Back, "COUT">> # <<new_inst, "CIN">> /\ <<Back, "COUT">> # <<new_inst, "COUT">>
    BY <1>1
  <2> QED BY <2>1, <1>1, <1>3, <1>6, <1>10
<1>16. Gone(new_inst)
  BY <1>9, <1>10, Zenon DEF Gone
<1>17. OwnCell
  <2>1. conn'[<<new_inst, "I1">>] = conn[<<c, "I0">>] /\ conn'[<<new_inst, "I2">>] = conn[<<c, "I1">>]
    BY <1>12, <1>13
  <2>2. \A f \in Control : conn'[<<new_inst, f>>] = None
    BY <1>12, <1>13
  <2> QED BY <2>1, <2>2, <1>11, <1>16 DEF OwnCell
<1>18. /\ conn'[<<new_inst, "CIN">>] = new_net
       /\ conn'[<<new_inst, "I3">>] = new_net /\ conn'[<<new_inst, "O">>] = LastNet
  BY <1>3, <1>6, <1>10, <1>12 DEF LastNet
<1>19. Behind
  BY <1>14, <1>15, <1>17, <1>18 DEF Behind
<1>20. conn[<<c, "CO">>] # new_net
  BY <1>5, NewIsNew
<1>21. Followed(new_inst)
  BY <1>3, <1>6, <1>9, <1>20, OwnCellFollows
<1> QED BY <1>19, <1>21

-----------------------------------------------------------------------------
(* Chains.                                                                 *)
LEMMA StartedLines ==
  ASSUME LengthInv
  PROVE  /\ DOMAIN Started = 1 .. Len(chains) + 1 /\ Started[Len(chains) + 1] = chain
         /\ DOMAIN chains = 1 .. Len(chains)
         /\ \A i \in DOMAIN chains : Started[i] = chains[i] /\ i # Len(chains) + 1 /\ i \in DOMAIN Started
         /\ Lines = {Started[i] : i \in DOMAIN Started}
         /\ \A v \in Lines : v \in Seq(Nat) /\ Len(v) \in Nat /\ DOMAIN v = 1 .. Len(v)
<1>1. chains \in Seq(Seq(Nat)) /\ chain \in Seq(Nat)
  BY DEF LengthInv
<1>2. /\ DOMAIN Started = 1 .. Len(chains) + 1 /\ Started[Len(chains) + 1] = chain
      /\ DOMAIN chains = 1 .. Len(chains) /\ Len(chains) \in Nat
      /\ \A i \in 1 .. Len(chains) : Started[i] = chains[i] /\ chains[i] \in Seq(Nat)
  BY <1>1 DEF Started
<1>3. Lines = {Started[i] : i \in DOMAIN Started}
  <2>1. ASSUME NEW v \in Lines PROVE \E i \in DOMAIN Started : v = Started[i]
    <3>1. CASE v = chain
      <4>1. Len(chains) + 1 \in DOMAIN Started
        BY <1>2
      <4> QED BY <3>1, <4>1, <1>2
    <3>2. CASE v \in AllChains
      BY <3>2, <1>2 DEF AllChains
    <3> QED BY <3>1, <3>2 DEF Lines
  <2>2. ASSUME NEW i \in DOMAIN Started PROVE Started[i] \in Lines
    BY <1>2 DEF Lines, AllChains
  <2> QED BY <2>1, <2>2
<1>4. \A v \in Lines : v \in Seq(Nat)
  BY <1>1, <1>2 DEF Lines, AllChains
<1>5. \A v \in Seq(Nat) : Len(v) \in Nat /\ DOMAIN v = 1 .. Len(v)
  OBVIOUS
<1> QED BY <1>2, <1>3, <1>4, <1>5

LEMMA OnceInLines ==
  ASSUME LengthInv, PlacesInv, NEW u \in Lines, NEW v \in Lines, NEW j \in DOMAIN u, NEW k \in DOMAIN v, u[j] = v[k]
  PROVE  u = v /\ j = k
<1>1. PICK a \in DOMAIN Started : u = Started[a]
  BY StartedLines
<1>2. PICK b \in DOMAIN Started : v = Started[b]
  BY StartedLines
<1>3. a = b /\ j = k
  BY <1>1, <1>2 DEF PlacesInv, Distinct
<1> QED BY <1>1, <1>2, <1>3

(* The chain has no cell of a finished chain.                              *)
LEMMA ChainApart ==
  ASSUME LengthInv, PlacesInv, NEW v \in AllChains, NEW j \in DOMAIN v, NEW k \in DOMAIN chain
  PROVE  v[j] # chain[k]
<1>1. PICK a \in DOMAIN chains : v = chains[a]
  BY DEF AllChains
<1>2. /\ a \in DOMAIN Started /\ Len(chains) + 1 \in DOMAIN Started /\ a # Len(chains) + 1
      /\ v = Started[a] /\ chain = Started[Len(chains) + 1]
  <2>1. Len(chains) + 1 \in 1 .. Len(chains) + 1
    BY DEF LengthInv
  <2> QED BY <1>1, <2>1, StartedLines
<1> QED BY <1>2 DEF PlacesInv, Distinct

LEMMA UsedCells ==
  ASSUME LengthInv, Used \subseteq lcs
  PROVE  /\ \A v \in Lines : \A j \in DOMAIN v : v[j] \in Used /\ v[j] \in lcs
         /\ \A l \in Used : \E v \in Lines : \E j \in DOMAIN v : l = v[j]
         /\ chain \in Lines /\ AllChains \subseteq Lines
         /\ chain # <<>> => Len(chain) \in DOMAIN chain /\ Back = chain[Len(chain)] /\ Back \in Used /\ Back \in lcs
<1>1. \A v \in Lines : \A j \in DOMAIN v : v[j] \in Used /\ v[j] \in lcs
  BY DEF Used, CellsOf
<1>2. \A l \in Used : \E v \in Lines : \E j \in DOMAIN v : l = v[j]
  BY DEF Used, CellsOf
<1>3. chain \in Lines /\ AllChains \subseteq Lines
  BY DEF Lines
<1>4. chain # <<>> => Len(chain) \in DOMAIN chain
  BY DEF LengthInv
<1>5. chain # <<>> => Back = chain[Len(chain)] /\ Back \in Used /\ Back \in lcs
  BY <1>1, <1>3, <1>4 DEF Back
<1> QED BY <1>1, <1>2, <1>3, <1>4, <1>5

(* The last cell of the chain is nowhere else.                             *)
LEMMA BackIsLast ==
  ASSUME LengthInv, PlacesInv, chain # <<>>
  PROVE  /\ \A v \in Lines : \A j \in DOMAIN v : j < Len(v) => v[j] # Back
         /\ \A v \in AllChains : \A j \in DOMAIN v : v[j] # Back
<1>1. chain \in Lines /\ Len(chain) \in DOMAIN chain /\ Back = chain[Len(chain)]
  BY UsedCells DEF PlacesInv
<1>2. \A v \in Lines : \A j \in DOMAIN v : j < Len(v) => v[j] # Back
  <2> SUFFICES ASSUME NEW v \in Lines, NEW j \in DOMAIN v, j < Len(v), v[j] = Back PROVE FALSE
    OBVIOUS
  <2>1. v = chain /\ j = Len(chain)
    BY <1>1, OnceInLines DEF PlacesInv
  <2>2. Len(chain) \in Nat
    BY DEF LengthInv
  <2> QED BY <2>1, <2>2
<1>3. \A v \in AllChains : \A j \in DOMAIN v : v[j] # Back
  BY <1>1, ChainApart DEF PlacesInv
<1> QED BY <1>2, <1>3

-----------------------------------------------------------------------------
(* What the steps leave as it is: the ports of the cells of the chains,    *)
(* and who is connected to the carries within a chain.                     *)
Kept ==
  /\ \A v \in Lines : \A j \in DOMAIN v, f \in {"I3", "CIN"} \cup Control :
       conn'[<<v[j], f>>] = conn[<<v[j], f>>]
  /\ \A v \in Lines : \A j \in DOMAIN v :
       j < Len(v) \/ v \in AllChains => conn'[<<v[j], "COUT">>] = conn[<<v[j], "COUT">>]
  /\ \A n : /\ Real(n) /\ n # new_net
            /\ \A p \in DOMAIN conn : p[2] \in {"COUT", "CO"} => conn[p] # n
            => \A p \in DOMAIN conn' : p[2] \in {"COUT", "CO"} => conn'[p] # n
  /\ \A v \in Lines : \A j \in DOMAIN v :
       j < Len(v) /\ conn[<<v[j], "COUT">>] # None =>
         \A p \in DOMAIN conn' : conn'[p] = conn[<<v[j], "COUT">>] => p \in DOMAIN conn /\ conn[p] = conn'[p]

LEMMA LCPortIs ==
  LCPort = {"I1", "I2", "I3", "O", "CIN", "COUT"} \cup Control
BY DEF LCPort, Control

LEMMA KeptLines ==
  ASSUME Inv, Kept
  PROVE  /\ \A v \in Lines : Fed(conn', v) /\ Agree(conn', v) /\ Wired(conn', v)
         /\ \A v \in AllChains : conn'[<<v[Len(v)], "COUT">>] = None
<1>1. /\ \A v \in Lines : v \in Seq(Nat) /\ Len(v) \in Nat /\ DOMAIN v = 1 .. Len(v)
      /\ \A v \in Lines : \A j \in DOMAIN v : v[j] \in lcs
  BY StartedLines, UsedCells DEF Inv, PlacesInv
<1>2. \A v \in Lines : \A j \in DOMAIN v : \A f \in LCPort : <<v[j], f>> \in DOMAIN conn
  BY <1>1, CarryPorts DEF Inv
<1>3. ASSUME NEW v \in Lines PROVE Fed(conn', v)
  <2> SUFFICES ASSUME NEW j \in DOMAIN v, Real(conn'[<<v[j], "I3">>])
               PROVE  \/ j > 1 /\ conn'[<<v[j - 1], "COUT">>] = conn'[<<v[j], "I3">>]
                      \/ \A p \in DOMAIN conn' : p[2] \in {"COUT", "CO"} => conn'[p] # conn'[<<v[j], "I3">>]
    BY DEF Fed
  <2> DEFINE n == conn[<<v[j], "I3">>]
  <2>1. n = conn'[<<v[j], "I3">>] /\ Real(n)
    BY DEF Kept
  <2>2. n # new_net
    BY <1>2, NewIsNew, LCPortIs DEF Inv
  <2>3. CASE j > 1 /\ conn[<<v[j - 1], "COUT">>] = n
    <3>1. j - 1 \in DOMAIN v /\ j - 1 < Len(v)
      BY <1>1, <2>3
    <3> QED BY <2>1, <2>3, <3>1 DEF Kept
  <2>4. CASE \A p \in DOMAIN conn : p[2] \in {"COUT", "CO"} => conn[p] # n
    BY <2>1, <2>2, <2>4 DEF Kept
  <2> QED BY <2>1, <2>3, <2>4 DEF Inv, FedInv, Fed
<1>4. ASSUME NEW v \in Lines PROVE Agree(conn', v)
  <2>1. Agree(conn, v)
    BY DEF Inv, ControlInv
  <2>2. \A j \in DOMAIN v, f \in Control : conn'[<<v[j], f>>] = conn[<<v[j], f>>]
    BY DEF Kept
  <2> QED BY <2>1, <2>2 DEF Agree
<1>5. ASSUME NEW v \in Lines PROVE Wired(conn', v)
  <2>1. Wired(conn, v)
    BY DEF Inv, WireInv
  <2>2. \A j \in DOMAIN v : conn'[<<v[j], "CIN">>] = conn[<<v[j], "CIN">>]
    BY DEF Kept
  <2>3. \A j \in DOMAIN v : j < Len(v) => conn'[<<v[j], "COUT">>] = conn[<<v[j], "COUT">>]
    BY DEF Kept
  <2>4. v # <<>> => 1 \in DOMAIN v
    BY <1>1
  <2>5. \A j \in DOMAIN v : j < Len(v) => j + 1 \in DOMAIN v
    BY <1>1
  <2>6. ASSUME NEW j \in DOMAIN v, j < Len(v)
        PROVE  /\ conn'[<<v[j], "COUT">>] # None =>
                    \A p \in DOMAIN conn' : conn'[p] = conn'[<<v[j], "COUT">>] =>
                      p = <<v[j], "COUT">> \/ p \in {v[j + 1]} \X {"CIN", "I3"}
               /\ conn'[<<v[j + 1], "CIN">>] \in {None, conn'[<<v[j], "COUT">>]}
    <3>1. conn[<<v[j], "COUT">>] # None =>
            \A p \in DOMAIN conn : conn[p] = conn[<<v[j], "COUT">>] =>
              p = <<v[j], "COUT">> \/ p \in {v[j + 1]} \X {"CIN", "I3"}
      BY <2>1, <2>6 DEF Wired
    <3>2. conn[<<v[j + 1], "CIN">>] \in {None, conn[<<v[j], "COUT">>]}
      BY <2>1, <2>6 DEF Wired
    <3>3. conn[<<v[j], "COUT">>] # None =>
            \A p \in DOMAIN conn' : conn'[p] = conn[<<v[j], "COUT">>] => p \in DOMAIN conn /\ conn[p] = conn'[p]
      BY <2>6 DEF Kept
    <3> QED BY <2>2, <2>3, <2>5, <2>6, <3>1, <3>2, <3>3
  <2>7. v # <<>> => ~Real(conn'[<<v[1], "CIN">>])
    BY <2>1, <2>2, <2>4 DEF Wired
  <2> QED BY <2>6, <2>7 DEF Wired
<1>6. ASSUME NEW v \in AllChains PROVE conn'[<<v[Len(v)], "COUT">>] = None
  <2>1. v \in Lines /\ Len(v) \in DOMAIN v
    BY <1>1 DEF Inv, LengthInv, Lines
  <2> QED BY <2>1 DEF Kept, Inv, WireInv
<1> QED BY <1>3, <1>4, <1>5, <1>6

(* No port of a carry and no other driver is on a net within a chain.      *)
LEMMA NotWithin ==
  ASSUME Inv, NEW v \in Lines, NEW j \in DOMAIN v, j < Len(v), conn[<<v[j], "COUT">>] # None
  PROVE  /\ \A p \in DOMAIN conn : p[1] \in carries => conn[p] # conn[<<v[j], "COUT">>]
         /\ chain # <<>> => LastNet # conn[<<v[j], "COUT">>]
         /\ conn[<<v[j], "COUT">>] # new_net /\ ~IsConstant(conn[<<v[j], "COUT">>])
<1>1. /\ v \in Seq(Nat) /\ Len(v) \in Nat /\ DOMAIN v = 1 .. Len(v)
      /\ \A k \in DOMAIN v : v[k] \in lcs
  BY StartedLines, UsedCells DEF Inv, PlacesInv
<1>2. j + 1 \in DOMAIN v
  BY <1>1
<1>3. <<v[j], "COUT">> \in DOMAIN conn /\ <<v[j], "COUT">>[2] \in Driver
  BY <1>1, CarryPorts, LCPortIs DEF Inv, Driver
<1>4. v[j] \notin carries /\ v[j + 1] \notin carries
  BY <1>1, <1>2 DEF Inv, NetInv
<1>5. ASSUME NEW p \in DOMAIN conn, p[1] \in carries, conn[p] = conn[<<v[j], "COUT">>] PROVE FALSE
  <2>1. p = <<v[j], "COUT">> \/ p \in {v[j + 1]} \X {"CIN", "I3"}
    BY <1>5 DEF Inv, WireInv, Wired
  <2> QED BY <1>4, <1>5, <2>1
<1>6. ASSUME chain # <<>>, LastNet = conn[<<v[j], "COUT">>] PROVE FALSE
  <2>1. Back \in lcs /\ v[j] # Back
    BY <1>6, UsedCells, BackIsLast DEF Inv, PlacesInv
  <2>2. <<Back, "COUT">> \in DOMAIN conn /\ <<Back, "COUT">>[2] \in Driver /\ <<Back, "COUT">> # <<v[j], "COUT">>
    BY <2>1, CarryPorts, LCPortIs DEF Inv, Driver
  <2> QED BY <1>3, <1>6, <2>2 DEF Inv, NetInv, LastNet
<1>7. conn[<<v[j], "COUT">>] # new_net
  BY <1>3, NewIsNew DEF Inv
<1>8. ~IsConstant(conn[<<v[j], "COUT">>])
  BY <1>3 DEF Inv, NetInv
<1> QED BY <1>5, <1>6, <1>7, <1>8

(* The ports of the cells of a chain.                                      *)
LEMMA LinePorts ==
  ASSUME Inv
  PROVE  \A v \in Lines : \A j \in DOMAIN v :
           /\ v[j] \in lcs /\ v[j] \in Used /\ v[j] # new_inst /\ v[j] \notin carries
           /\ \A f \in LCPort : <<v[j], f>> \in DOMAIN conn
<1>1. \A v \in Lines : \A j \in DOMAIN v : v[j] \in lcs /\ v[j] \in Used
  BY UsedCells DEF Inv, PlacesInv
<1>2. \A l \in lcs : l # new_inst /\ l \notin carries
  BY NewIsNew DEF Inv, NetInv
<1>3. \A l \in lcs : \A f \in LCPort : <<l, f>> \in DOMAIN conn
  BY CarryPorts DEF Inv
<1> QED BY <1>1, <1>2, <1>3

LEMMA PassedKept ==
  ASSUME Inv, Passed, chain # <<>>
  PROVE  Kept
<1>1. ASSUME NEW v \in Lines, NEW j \in DOMAIN v, NEW f \in {"I3", "CIN"} \cup Control
      PROVE  conn'[<<v[j], f>>] = conn[<<v[j], f>>]
  <2>1. <<v[j], f>> \in DOMAIN conn /\ <<v[j], f>> # <<Back, "COUT">>
    BY LinePorts, LCPortIs DEF Control
  <2> QED BY <2>1 DEF Passed
<1>2. ASSUME NEW v \in Lines, NEW j \in DOMAIN v, j < Len(v) \/ v \in AllChains
      PROVE  conn'[<<v[j], "COUT">>] = conn[<<v[j], "COUT">>]
  <2>1. <<v[j], "COUT">> \in DOMAIN conn /\ v[j] # Back
    BY <1>2, LinePorts, LCPortIs, BackIsLast DEF Inv
  <2> QED BY <2>1 DEF Passed
<1>3. ASSUME NEW n, Real(n), n # new_net, \A p \in DOMAIN conn : p[2] \in {"COUT", "CO"} => conn[p] # n,
             NEW p \in DOMAIN conn', p[2] \in {"COUT", "CO"}
      PROVE  conn'[p] # n
  <2>1. CASE p \in {new_inst} \X LCPort
    <3>1. p[2] = "COUT" /\ p = <<new_inst, "COUT">>
      BY <1>3, <2>1, LCPortIs DEF Control
    <3> QED BY <1>3, <3>1, LCPortIs DEF Passed, Real
  <2>2. CASE p \in DOMAIN conn
    BY <1>3, <2>2 DEF Passed
  <2> QED BY <2>1, <2>2 DEF Passed
<1>4. ASSUME NEW v \in Lines, NEW j \in DOMAIN v, j < Len(v), conn[<<v[j], "COUT">>] # None,
             NEW p \in DOMAIN conn', conn'[p] = conn[<<v[j], "COUT">>]
      PROVE  p \in DOMAIN conn /\ conn[p] = conn'[p]
  <2>1. LastNet # conn[<<v[j], "COUT">>] /\ conn[<<v[j], "COUT">>] # new_net
    BY <1>4, NotWithin
  <2>2. CASE p \in {new_inst} \X LCPort
    <3>1. PICK f \in LCPort : p = <<new_inst, f>>
      BY <2>2
    <3> QED BY <1>4, <2>1, <3>1 DEF Passed
  <2>3. CASE p \in DOMAIN conn
    BY <1>4, <2>1, <2>3 DEF Passed
  <2> QED BY <2>2, <2>3 DEF Passed
<1> QED BY <1>1, <1>2, <1>3, <1>4, Zenon DEF Kept

LEMMA BegunKept ==
  ASSUME Inv, Begun, c \in carries
  PROVE  Kept
<1>1. ASSUME NEW v \in Lines, NEW j \in DOMAIN v, NEW f \in LCPort
      PROVE  conn'[<<v[j], f>>] = conn[<<v[j], f>>]
  <2>1. <<v[j], f>> \in DOMAIN conn /\ <<v[j], f>> # <<c, "CI">>
    BY LinePorts
  <2> QED BY <2>1 DEF Begun
<1>2. ASSUME NEW n, Real(n), n # new_net, \A p \in DOMAIN conn : p[2] \in {"COUT", "CO"} => conn[p] # n,
             NEW p \in DOMAIN conn', p[2] \in {"COUT", "CO"}
      PROVE  conn'[p] # n
  <2>1. CASE p \in {new_inst} \X LCPort
    <3>1. p[2] = "COUT" /\ p = <<new_inst, "COUT">>
      BY <1>2, <2>1, LCPortIs DEF Control
    <3> QED BY <1>2, <3>1 DEF Begun
  <2>2. CASE p \in DOMAIN conn
    BY <1>2, <2>2 DEF Begun
  <2> QED BY <2>1, <2>2 DEF Begun
<1>3. ASSUME NEW v \in Lines, NEW j \in DOMAIN v, j < Len(v), conn[<<v[j], "COUT">>] # None,
             NEW p \in DOMAIN conn', conn'[p] = conn[<<v[j], "COUT">>]
      PROVE  p \in DOMAIN conn /\ conn[p] = conn'[p]
  <2>1. <<c, "CI">> \in DOMAIN conn
    BY CarryPorts DEF Inv, CarryPort
  <2>2. in_conn # conn[<<v[j], "COUT">>] /\ conn[<<v[j], "COUT">>] # new_net /\ ~IsConstant(conn[<<v[j], "COUT">>])
    BY <1>3, <2>1, NotWithin DEF in_conn
  <2>3. CASE p \in {new_inst} \X LCPort
    <3>1. PICK f \in LCPort : p = <<new_inst, f>>
      BY <2>3
    <3>2. f \in {"I1", "I2", "I3", "CIN", "COUT"} \/ f \in {"O"} \cup Control
      BY LCPortIs
    <3> QED BY <1>3, <2>2, <3>1, <3>2 DEF Begun, IsConstant
  <2>4. CASE p \in DOMAIN conn
    BY <1>3, <2>2, <2>4 DEF Begun
  <2> QED BY <2>3, <2>4 DEF Begun
<1>4. {"I3", "CIN"} \cup Control \subseteq LCPort /\ "COUT" \in LCPort
  BY LCPortIs
<1>5. \A v \in Lines : \A j \in DOMAIN v, f \in {"I3", "CIN"} \cup Control :
        conn'[<<v[j], f>>] = conn[<<v[j], f>>]
  BY <1>1, <1>4
<1>6. \A v \in Lines : \A j \in DOMAIN v : conn'[<<v[j], "COUT">>] = conn[<<v[j], "COUT">>]
  BY <1>1, <1>4
<1> QED BY <1>2, <1>3, <1>5, <1>6, Zenon DEF Kept

LEMMA JoinedKept ==
  ASSUME Inv, c \in carries, NEW l \in lcs \ Used, Joined(l)
  PROVE  Kept
<1>1. ASSUME NEW v \in Lines, NEW j \in DOMAIN v, NEW f \in LCPort
      PROVE  conn'[<<v[j], f>>] = conn[<<v[j], f>>]
  <2>1. <<v[j], f>> \in DOMAIN conn /\ v[j] # l /\ v[j] # c
    BY LinePorts
  <2>2. <<v[j], f>>[1] # c /\ <<v[j], f>> # <<l, "CIN">> /\ <<v[j], f>> # <<l, "COUT">>
    BY <2>1
  <2> QED BY <2>1, <2>2 DEF Joined
<1>2. ASSUME NEW n, Real(n), n # new_net, \A p \in DOMAIN conn : p[2] \in {"COUT", "CO"} => conn[p] # n,
             NEW p \in DOMAIN conn', p[2] \in {"COUT", "CO"}
      PROVE  conn'[p] # n
  <2>1. conn[<<c, "CO">>] # n
    BY <1>2, CarryPorts DEF Inv, CarryPort
  <2>2. p \in DOMAIN conn /\ p[1] # c /\ p # <<l, "CIN">>
    BY <1>2 DEF Joined
  <2> QED BY <1>2, <2>1, <2>2 DEF Joined, Gone
<1>3. ASSUME NEW v \in Lines, NEW j \in DOMAIN v, j < Len(v), conn[<<v[j], "COUT">>] # None,
             NEW p \in DOMAIN conn', conn'[p] = conn[<<v[j], "COUT">>]
      PROVE  p \in DOMAIN conn /\ conn[p] = conn'[p]
  <2>1. <<c, "CI">> \in DOMAIN conn /\ <<c, "CO">> \in DOMAIN conn
    BY CarryPorts DEF Inv, CarryPort
  <2>2. in_conn # conn[<<v[j], "COUT">>] /\ conn[<<c, "CO">>] # conn[<<v[j], "COUT">>]
    BY <1>3, <2>1, NotWithin DEF in_conn
  <2>3. p \in DOMAIN conn /\ p[1] # c
    BY DEF Joined
  <2> QED BY <1>3, <2>2, <2>3 DEF Joined, Gone
<1>4. {"I3", "CIN"} \cup Control \subseteq LCPort /\ "COUT" \in LCPort
  BY LCPortIs
<1>5. \A v \in Lines : \A j \in DOMAIN v, f \in {"I3", "CIN"} \cup Control :
        conn'[<<v[j], f>>] = conn[<<v[j], f>>]
  BY <1>1, <1>4
<1>6. \A v \in Lines : \A j \in DOMAIN v : conn'[<<v[j], "COUT">>] = conn[<<v[j], "COUT">>]
  BY <1>1, <1>4
<1> QED BY <1>2, <1>3, <1>5, <1>6, Zenon DEF Kept

LEMMA AloneKept ==
  ASSUME Inv, c \in carries, Alone
  PROVE  Kept
<1>1. ASSUME NEW v \in Lines, NEW j \in DOMAIN v, NEW f \in LCPort
      PROVE  conn'[<<v[j], f>>] = conn[<<v[j], f>>]
  <2>1. <<v[j], f>> \in DOMAIN conn /\ <<v[j], f>>[1] # c
    BY LinePorts
  <2> QED BY <2>1 DEF Alone
<1>2. ASSUME NEW n, Real(n), n # new_net, \A p \in DOMAIN conn : p[2] \in {"COUT", "CO"} => conn[p] # n,
             NEW p \in DOMAIN conn', p[2] \in {"COUT", "CO"}
      PROVE  conn'[p] # n
  <2>1. CASE p \in {new_inst} \X LCPort
    <3>1. p = <<new_inst, "COUT">>
      BY <1>2, <2>1, LCPortIs DEF Control
    <3>2. conn[<<c, "CO">>] # n
      BY <1>2, CarryPorts DEF Inv, CarryPort
    <3> QED BY <3>1, <3>2 DEF Alone, OwnCell, Gone
  <2>2. CASE p \in DOMAIN conn /\ p[1] # c
    BY <1>2, <2>2 DEF Alone
  <2> QED BY <2>1, <2>2 DEF Alone, OwnCell
<1>3. ASSUME NEW v \in Lines, NEW j \in DOMAIN v, j < Len(v), conn[<<v[j], "COUT">>] # None,
             NEW p \in DOMAIN conn', conn'[p] = conn[<<v[j], "COUT">>]
      PROVE  p \in DOMAIN conn /\ conn[p] = conn'[p]
  <2>1. \A f \in CarryPort : conn[<<c, f>>] # conn[<<v[j], "COUT">>]
    BY <1>3, CarryPorts, NotWithin DEF Inv
  <2>2. CASE p \in {new_inst} \X LCPort
    <3>1. PICK f \in LCPort : p = <<new_inst, f>>
      BY <2>2
    <3>2. f \in {"I1", "I2", "CIN", "COUT"} \/ f \in {"I3", "O"} \/ f \in Control
      BY LCPortIs
    <3>3. f \in {"I1", "I2", "CIN", "COUT"}
      BY <1>3, <3>1, <3>2 DEF Alone, OwnCell
    <3> QED BY <1>3, <2>1, <3>1, <3>3 DEF Alone, OwnCell, Gone, CarryPort, in_conn
  <2>3. CASE p \in DOMAIN conn /\ p[1] # c
    BY <2>3 DEF Alone
  <2> QED BY <2>2, <2>3 DEF Alone, OwnCell
<1>4. {"I3", "CIN"} \cup Control \subseteq LCPort /\ "COUT" \in LCPort
  BY LCPortIs
<1>5. \A v \in Lines : \A j \in DOMAIN v, f \in {"I3", "CIN"} \cup Control :
        conn'[<<v[j], f>>] = conn[<<v[j], f>>]
  BY <1>1, <1>4
<1>6. \A v \in Lines : \A j \in DOMAIN v : conn'[<<v[j], "COUT">>] = conn[<<v[j], "COUT">>]
  BY <1>1, <1>4
<1> QED BY <1>2, <1>3, <1>5, <1>6, Zenon DEF Kept

LEMMA BehindKept ==
  ASSUME Inv, c \in carries, chain # <<>>, Behind
  PROVE  Kept
<1>1. ASSUME NEW v \in Lines, NEW j \in DOMAIN v, NEW f \in {"I3", "CIN"} \cup Control
      PROVE  conn'[<<v[j], f>>] = conn[<<v[j], f>>]
  <2>1. <<v[j], f>> \in DOMAIN conn /\ <<v[j], f>> # <<Back, "COUT">> /\ <<v[j], f>>[1] # c
    BY LinePorts, LCPortIs DEF Control
  <2> QED BY <2>1 DEF Behind
<1>2. ASSUME NEW v \in Lines, NEW j \in DOMAIN v, j < Len(v) \/ v \in AllChains
      PROVE  conn'[<<v[j], "COUT">>] = conn[<<v[j], "COUT">>]
  <2>1. <<v[j], "COUT">> \in DOMAIN conn /\ v[j] # Back /\ <<v[j], "COUT">>[1] # c
    BY <1>2, LinePorts, LCPortIs, BackIsLast DEF Inv
  <2> QED BY <2>1 DEF Behind
<1>3. ASSUME NEW n, Real(n), n # new_net, \A p \in DOMAIN conn : p[2] \in {"COUT", "CO"} => conn[p] # n,
             NEW p \in DOMAIN conn', p[2] \in {"COUT", "CO"}
      PROVE  conn'[p] # n
  <2>1. CASE p \in {new_inst} \X LCPort
    <3>1. p = <<new_inst, "COUT">>
      BY <1>3, <2>1, LCPortIs DEF Control
    <3>2. conn[<<c, "CO">>] # n
      BY <1>3, CarryPorts DEF Inv, CarryPort
    <3> QED BY <3>1, <3>2 DEF Behind, OwnCell, Gone
  <2>2. CASE p \in DOMAIN conn /\ p[1] # c
    BY <1>3, <2>2 DEF Behind
  <2> QED BY <2>1, <2>2 DEF Behind, OwnCell
<1>4. ASSUME NEW v \in Lines, NEW j \in DOMAIN v, j < Len(v), conn[<<v[j], "COUT">>] # None,
             NEW p \in DOMAIN conn', conn'[p] = conn[<<v[j], "COUT">>]
      PROVE  p \in DOMAIN conn /\ conn[p] = conn'[p]
  <2>1. LastNet # conn[<<v[j], "COUT">>] /\ conn[<<v[j], "COUT">>] # new_net
    BY <1>4, NotWithin
  <2>2. \A f \in CarryPort : conn[<<c, f>>] # conn[<<v[j], "COUT">>]
    BY <1>4, CarryPorts, NotWithin DEF Inv
  <2>3. CASE p \in {new_inst} \X LCPort
    <3>1. PICK f \in LCPort : p = <<new_inst, f>>
      BY <2>3
    <3>2. f \in {"I1", "I2", "COUT"} \/ f \in {"CIN", "I3", "O"} \/ f \in Control
      BY LCPortIs
    <3>3. f \in {"I1", "I2", "COUT"}
      BY <1>4, <2>1, <3>1, <3>2 DEF Behind, OwnCell
    <3> QED BY <1>4, <2>2, <3>1, <3>3 DEF Behind, OwnCell, Gone, CarryPort
  <2>4. CASE p \in DOMAIN conn /\ p[1] # c
    BY <1>4, <2>1, <2>4 DEF Behind
  <2> QED BY <2>3, <2>4 DEF Behind, OwnCell
<1> QED BY <1>1, <1>2, <1>3, <1>4, Zenon DEF Kept

-----------------------------------------------------------------------------
(* The ports and drivers of the netlist.                                   *)
LEMMA NetGrows ==
  ASSUME NetInv, lcs' = lcs \cup {new_inst}, NextInst, new_net' \in {new_net, new_net + 1},
         NEW X \in SUBSET carries, carries' = carries \ X,
         \A p : p \in DOMAIN conn' <=> p \in {new_inst} \X LCPort \/ (p \in DOMAIN conn /\ p[1] \notin X),
         \A p \in DOMAIN conn' : conn'[p] \in 0 .. new_net' - 1,
         \A p \in DOMAIN conn' : p[2] \in Driver =>
           /\ ~IsConstant(conn'[p])
           /\ \A q \in DOMAIN conn' : q[2] \in Driver /\ conn'[p] = conn'[q] /\ conn'[p] # None => p = q
  PROVE  NetInv'
<1>1. new_inst' \in Nat \ {0} /\ new_net' \in Nat /\ new_net' > Const1
  BY DEF NetInv, NextInst, Const1
<1>2. IsFiniteSet(DOMAIN conn')
  <2>1. ASSUME NEW x, NEW y, NEW z PROVE IsFiniteSet({x} \cup {y} \cup {z})
    <3>1. IsFiniteSet({x})
      BY FS_Singleton
    <3>2. IsFiniteSet({x} \cup {y})
      BY <3>1, FS_AddElement
    <3> QED BY <3>2, FS_AddElement
  <2>2. IsFiniteSet(LCPort)
    <3>1. LCPort = (({"I1"} \cup {"I2"} \cup {"I3"}) \cup ({"O"} \cup {"CIN"} \cup {"COUT"}))
                     \cup ({"CLK"} \cup {"CEN"} \cup {"SR"})
      BY DEF LCPort
    <3>2. IsFiniteSet(({"I1"} \cup {"I2"} \cup {"I3"}) \cup ({"O"} \cup {"CIN"} \cup {"COUT"}))
      BY <2>1, FS_Union
    <3> QED BY <2>1, <3>1, <3>2, FS_Union
  <2>3. IsFiniteSet({new_inst} \X LCPort)
    BY <2>2, FS_Singleton, FS_Product
  <2>4. IsFiniteSet(({new_inst} \X LCPort) \cup DOMAIN conn)
    BY <2>3, FS_Union DEF NetInv
  <2>5. DOMAIN conn' \in SUBSET (({new_inst} \X LCPort) \cup DOMAIN conn)
    OBVIOUS
  <2> QED BY <2>4, <2>5, FS_Subset
<1>3. \A p \in DOMAIN conn' : p = <<p[1], p[2]>> /\ p[1] \in Nat /\ p[1] < new_inst'
  <2>1. new_inst \in Nat /\ new_inst' = new_inst + 1
    BY DEF NetInv, NextInst
  <2>2. \A p \in {new_inst} \X LCPort : p = <<p[1], p[2]>> /\ p[1] = new_inst
    OBVIOUS
  <2>3. \A p \in DOMAIN conn : p = <<p[1], p[2]>> /\ p[1] \in Nat /\ p[1] < new_inst
    BY DEF NetInv
  <2> QED BY <2>1, <2>2, <2>3
<1>5. lcs' \subseteq 1 .. new_inst' - 1 /\ carries' \subseteq 1 .. new_inst' - 1 /\ lcs' \cap carries' = {}
  <2>1. new_inst \in Nat \ {0} /\ new_inst' = new_inst + 1
    BY DEF NetInv, NextInst
  <2>2. lcs \subseteq 1 .. new_inst - 1 /\ carries \subseteq 1 .. new_inst - 1 /\ lcs \cap carries = {}
    BY DEF NetInv
  <2>3. \A l \in lcs \cup carries : l \in 1 .. new_inst' - 1 /\ l # new_inst
    BY <2>1, <2>2
  <2>4. new_inst \in 1 .. new_inst' - 1
    BY <2>1
  <2> QED BY <2>2, <2>3, <2>4
<1>6. (lcs' \X LCPort) \cup (carries' \X CarryPort) \subseteq DOMAIN conn'
  <2>1. ASSUME NEW l \in lcs', NEW f \in LCPort PROVE <<l, f>> \in DOMAIN conn'
    <3>1. CASE l = new_inst
      <4>1. <<l, f>> \in {new_inst} \X LCPort
        BY <2>1, <3>1
      <4> QED BY <4>1
    <3>2. CASE l \in lcs
      <4>1. <<l, f>> \in DOMAIN conn /\ <<l, f>>[1] = l
        BY <3>2, CarryPorts
      <4>2. l \notin X
        BY <3>2 DEF NetInv
      <4> QED BY <4>1, <4>2
    <3> QED BY <3>1, <3>2
  <2>2. ASSUME NEW i \in carries', NEW f \in CarryPort PROVE <<i, f>> \in DOMAIN conn'
    BY CarryPorts
  <2> QED BY <2>1, <2>2
<1>7. ASSUME NEW p \in DOMAIN conn'
      PROVE  /\ p[1] \in lcs' => p[2] \in LCPort
             /\ p[1] \in carries' => p[2] \in CarryPort
             /\ p[1] \notin lcs' \cup carries' => p[2] \notin LCPort \cup CarryPort
  <2>1. CASE p \in {new_inst} \X LCPort
    BY <2>1, NewIsNew
  <2>2. CASE p \in DOMAIN conn /\ p[1] \notin X
    <3>1. p[1] # new_inst
      BY <2>2, NewIsNew
    <3> QED BY <2>2, <3>1 DEF NetInv
  <2> QED BY <2>1, <2>2
<1> QED BY <1>1, <1>2, <1>3, <1>5, <1>6, <1>7 DEF NetInv

LEMMA NetDrivers ==
  ASSUME NetInv
  PROVE  /\ \A p \in DOMAIN conn : conn[p] \in Nat /\ conn[p] < new_net
         /\ \A p \in DOMAIN conn : p[2] \in Driver => ~IsConstant(conn[p])
         /\ \A p, q \in DOMAIN conn :
              p[2] \in Driver /\ q[2] \in Driver /\ conn[p] = conn[q] /\ conn[p] # None => p = q
         /\ new_net \in Nat /\ new_net > 2
BY DEF NetInv, Const1

LEMMA PassedNet ==
  ASSUME Inv, Passed, chain # <<>>
  PROVE  NetInv'
<1>1. <<Back, "COUT">> \in DOMAIN conn /\ LastNet = conn[<<Back, "COUT">>]
  BY UsedCells, CarryPorts, LCPortIs DEF Inv, PlacesInv, LastNet
<1>2. ASSUME NEW p \in DOMAIN conn'
      PROVE  \/ p = <<Back, "COUT">> /\ conn'[p] = new_net
             \/ p = <<new_inst, "O">> /\ conn'[p] = LastNet
             \/ p[1] = new_inst /\ p # <<new_inst, "O">> /\ conn'[p] = IF p[2] = "I3" THEN new_net ELSE None
             \/ p \in DOMAIN conn /\ p # <<Back, "COUT">> /\ conn'[p] = conn[p]
  <2>1. CASE p \in {new_inst} \X LCPort
    <3>1. PICK f \in LCPort : p = <<new_inst, f>>
      BY <2>1
    <3> QED BY <3>1 DEF Passed
  <2>2. CASE p \in DOMAIN conn
    BY <2>2 DEF Passed
  <2> QED BY <2>1, <2>2 DEF Passed
<1>3. \A p \in DOMAIN conn' : conn'[p] \in 0 .. new_net' - 1
  <2>1. new_net \in 0 .. new_net' - 1 /\ None \in 0 .. new_net' - 1
    BY NetDrivers DEF Inv, Passed, NextNet, None
  <2>2. \A p \in DOMAIN conn : conn[p] \in 0 .. new_net' - 1
    BY NetDrivers DEF Inv, Passed, NextNet
  <2> QED BY <1>1, <1>2, <2>1, <2>2
<1>4. ASSUME NEW p \in DOMAIN conn', p[2] \in Driver, conn'[p] # None
      PROVE  \/ p = <<Back, "COUT">> /\ conn'[p] = new_net
             \/ p = <<new_inst, "O">> /\ conn'[p] = LastNet
             \/ p \in DOMAIN conn /\ p # <<Back, "COUT">> /\ conn'[p] = conn[p]
  BY <1>2, <1>4 DEF Driver
<1>5. ~IsConstant(None) /\ ~IsConstant(new_net) /\ new_net # LastNet /\ "COUT" \in Driver
  BY <1>1, NetDrivers DEF Inv, IsConstant, None, Const0, Const1, Driver
<1>6. ASSUME NEW p \in DOMAIN conn', p[2] \in Driver
      PROVE  /\ ~IsConstant(conn'[p])
             /\ \A q \in DOMAIN conn' : q[2] \in Driver /\ conn'[p] = conn'[q] /\ conn'[p] # None => p = q
  <2>1. ~IsConstant(conn'[p])
    <3>1. <<Back, "COUT">>[2] = "COUT"
      OBVIOUS
    <3> QED BY <1>1, <1>4, <1>5, <1>6, <3>1, NetDrivers DEF Inv
  <2>2. ASSUME NEW q \in DOMAIN conn', q[2] \in Driver, conn'[p] = conn'[q], conn'[p] # None PROVE p = q
    <3>1. <<Back, "COUT">>[2] \in Driver
      BY <1>5
    <3>2. /\ \/ p = <<Back, "COUT">> /\ conn'[p] = new_net
             \/ p = <<new_inst, "O">> /\ conn'[p] = LastNet
             \/ p \in DOMAIN conn /\ p # <<Back, "COUT">> /\ conn'[p] = conn[p]
          /\ \/ q = <<Back, "COUT">> /\ conn'[q] = new_net
             \/ q = <<new_inst, "O">> /\ conn'[q] = LastNet
             \/ q \in DOMAIN conn /\ q # <<Back, "COUT">> /\ conn'[q] = conn[q]
      BY <1>4, <1>6, <2>2
    <3>3. \A r \in DOMAIN conn : conn[r] # new_net
      BY NewIsNew DEF Inv
    <3> QED BY <1>1, <1>5, <1>6, <2>2, <3>1, <3>2, <3>3, NetDrivers DEF Inv
  <2> QED BY <2>1, <2>2
<1>7. /\ lcs' = lcs \cup {new_inst} /\ NextInst /\ new_net' \in {new_net, new_net + 1} /\ carries' = carries \ {}
      /\ \A p : p \in DOMAIN conn' <=> p \in {new_inst} \X LCPort \/ (p \in DOMAIN conn /\ p[1] \notin {})
  BY DEF Passed, NextNet
<1> QED BY <1>3, <1>6, <1>7, NetGrows DEF Inv

LEMMA BegunNet ==
  ASSUME Inv, Begun, c \in carries
  PROVE  NetInv'
<1>1. <<c, "CI">> \in DOMAIN conn /\ in_conn = conn[<<c, "CI">>]
  BY CarryPorts DEF Inv, CarryPort, in_conn
<1>2. ASSUME NEW p \in DOMAIN conn'
      PROVE  \/ conn'[p] \in {new_net, Const0, Const1, None, in_conn}
             \/ p \in DOMAIN conn /\ conn'[p] = conn[p]
  <2>1. CASE p \in {new_inst} \X LCPort
    <3>1. PICK f \in LCPort : p = <<new_inst, f>>
      BY <2>1
    <3> QED BY <3>1, LCPortIs DEF Begun
  <2>2. CASE p \in DOMAIN conn
    BY <2>2 DEF Begun
  <2> QED BY <2>1, <2>2 DEF Begun
<1>3. \A p \in DOMAIN conn' : conn'[p] \in 0 .. new_net' - 1
  <2>1. {new_net, Const0, Const1, None} \subseteq 0 .. new_net' - 1
    BY NetDrivers DEF Inv, Begun, NextNet, None, Const0, Const1
  <2>2. \A p \in DOMAIN conn : conn[p] \in 0 .. new_net' - 1
    BY NetDrivers DEF Inv, Begun, NextNet
  <2> QED BY <1>1, <1>2, <2>1, <2>2
<1>4. ASSUME NEW p \in DOMAIN conn', p[2] \in Driver, conn'[p] # None
      PROVE  \/ p = <<new_inst, "COUT">> /\ conn'[p] = new_net
             \/ p \in DOMAIN conn /\ conn'[p] = conn[p]
  <2>1. CASE p \in {new_inst} \X LCPort
    <3>1. PICK f \in LCPort : p = <<new_inst, f>>
      BY <2>1
    <3>2. f \in {"O", "COUT"}
      BY <1>4, <3>1, LCPortIs DEF Driver, Control
    <3> QED BY <1>4, <3>1, <3>2 DEF Begun
  <2>2. CASE p \in DOMAIN conn
    <3>1. p # <<c, "CI">>
      BY <1>4 DEF Driver
    <3> QED BY <2>2, <3>1 DEF Begun
  <2> QED BY <2>1, <2>2 DEF Begun
<1>5. ~IsConstant(None) /\ ~IsConstant(new_net) /\ \A p \in DOMAIN conn : conn[p] # new_net
  BY NetDrivers, NewIsNew DEF Inv, IsConstant, None, Const0, Const1
<1>6. ASSUME NEW p \in DOMAIN conn', p[2] \in Driver
      PROVE  /\ ~IsConstant(conn'[p])
             /\ \A q \in DOMAIN conn' : q[2] \in Driver /\ conn'[p] = conn'[q] /\ conn'[p] # None => p = q
  <2>1. ~IsConstant(conn'[p])
    BY <1>4, <1>5, <1>6, NetDrivers DEF Inv
  <2>2. ASSUME NEW q \in DOMAIN conn', q[2] \in Driver, conn'[p] = conn'[q], conn'[p] # None PROVE p = q
    BY <1>4, <1>5, <1>6, <2>2, NetDrivers DEF Inv
  <2> QED BY <2>1, <2>2
<1>7. /\ lcs' = lcs \cup {new_inst} /\ NextInst /\ new_net' \in {new_net, new_net + 1} /\ carries' = carries \ {}
      /\ \A p : p \in DOMAIN conn' <=> p \in {new_inst} \X LCPort \/ (p \in DOMAIN conn /\ p[1] \notin {})
  BY DEF Begun, NextNet
<1> QED BY <1>3, <1>6, <1>7, NetGrows DEF Inv

LEMMA AloneNet ==
  ASSUME Inv, Alone, c \in carries
  PROVE  NetInv'
<1>1. \A f \in CarryPort : <<c, f>> \in DOMAIN conn
  BY CarryPorts DEF Inv
<1>2. ASSUME NEW p \in DOMAIN conn'
      PROVE  \/ conn'[p] = None \/ (\E f \in CarryPort : conn'[p] = conn[<<c, f>>])
             \/ p \in DOMAIN conn /\ conn'[p] = conn[p]
  <2>1. CASE p \in {new_inst} \X LCPort
    <3>1. PICK f \in LCPort : p = <<new_inst, f>>
      BY <2>1
    <3> QED BY <3>1, LCPortIs DEF Alone, OwnCell, Gone, CarryPort, in_conn
  <2>2. CASE p \in DOMAIN conn /\ p[1] # c
    BY <2>2 DEF Alone
  <2> QED BY <2>1, <2>2 DEF Alone, OwnCell
<1>3. \A p \in DOMAIN conn' : conn'[p] \in 0 .. new_net' - 1
  <2>1. None \in 0 .. new_net' - 1
    BY NetDrivers DEF Inv, Alone, None
  <2>2. \A p \in DOMAIN conn : conn[p] \in 0 .. new_net' - 1
    BY NetDrivers DEF Inv, Alone
  <2> QED BY <1>1, <1>2, <2>1, <2>2
<1>4. ASSUME NEW p \in DOMAIN conn', p[2] \in Driver, conn'[p] # None
      PROVE  \/ p = <<new_inst, "COUT">> /\ conn'[p] = conn[<<c, "CO">>]
             \/ p \in DOMAIN conn /\ p[1] # c /\ conn'[p] = conn[p]
  <2>1. CASE p \in {new_inst} \X LCPort
    <3>1. PICK f \in LCPort : p = <<new_inst, f>>
      BY <2>1
    <3>2. f \in {"O", "COUT"}
      BY <1>4, <3>1, LCPortIs DEF Driver, Control
    <3> QED BY <1>4, <3>1, <3>2 DEF Alone, OwnCell, Gone
  <2>2. CASE p \in DOMAIN conn /\ p[1] # c
    BY <2>2 DEF Alone
  <2> QED BY <2>1, <2>2 DEF Alone, OwnCell
<1>5. ~IsConstant(None) /\ <<c, "CO">> \in DOMAIN conn /\ <<c, "CO">>[2] \in Driver /\ <<c, "CO">>[1] = c
  BY <1>1 DEF IsConstant, None, Const0, Const1, CarryPort, Driver
<1>6. ASSUME NEW p \in DOMAIN conn', p[2] \in Driver
      PROVE  /\ ~IsConstant(conn'[p])
             /\ \A q \in DOMAIN conn' : q[2] \in Driver /\ conn'[p] = conn'[q] /\ conn'[p] # None => p = q
  <2>1. ~IsConstant(conn'[p])
    BY <1>4, <1>5, <1>6, NetDrivers DEF Inv
  <2>2. ASSUME NEW q \in DOMAIN conn', q[2] \in Driver, conn'[p] = conn'[q], conn'[p] # None PROVE p = q
    BY <1>4, <1>5, <1>6, <2>2, NetDrivers DEF Inv
  <2> QED BY <2>1, <2>2
<1>7. /\ lcs' = lcs \cup {new_inst} /\ NextInst /\ new_net' \in {new_net, new_net + 1}
      /\ {c} \in SUBSET carries /\ carries' = carries \ {c}
      /\ \A p : p \in DOMAIN conn' <=> p \in {new_inst} \X LCPort \/ (p \in DOMAIN conn /\ p[1] \notin {c})
  BY DEF Alone, OwnCell, Gone
<1> QED BY <1>3, <1>6, <1>7, NetGrows DEF Inv

LEMMA BehindNet ==
  ASSUME Inv, Behind, c \in carries, chain # <<>>
  PROVE  NetInv'
<1>1. /\ \A f \in CarryPort : <<c, f>> \in DOMAIN conn
      /\ <<Back, "COUT">> \in DOMAIN conn /\ LastNet = conn[<<Back, "COUT">>] /\ Back # c
  <2>1. Back \in lcs
    BY UsedCells DEF Inv, PlacesInv
  <2> QED BY <2>1, CarryPorts, LCPortIs DEF Inv, LastNet, NetInv
<1>2. ASSUME NEW p \in DOMAIN conn'
      PROVE  \/ conn'[p] \in {None, new_net, LastNet} \/ (\E f \in CarryPort : conn'[p] = conn[<<c, f>>])
             \/ p \in DOMAIN conn /\ conn'[p] = conn[p]
  <2>1. CASE p \in {new_inst} \X LCPort
    <3>1. PICK f \in LCPort : p = <<new_inst, f>>
      BY <2>1
    <3> QED BY <3>1, LCPortIs DEF Behind, OwnCell, Gone, CarryPort
  <2>2. CASE p \in DOMAIN conn /\ p[1] # c
    BY <2>2 DEF Behind
  <2> QED BY <2>1, <2>2 DEF Behind, OwnCell
<1>3. \A p \in DOMAIN conn' : conn'[p] \in 0 .. new_net' - 1
  <2>1. {None, new_net} \subseteq 0 .. new_net' - 1
    BY NetDrivers DEF Inv, Behind, NextNet, None
  <2>2. \A p \in DOMAIN conn : conn[p] \in 0 .. new_net' - 1
    BY NetDrivers DEF Inv, Behind, NextNet
  <2> QED BY <1>1, <1>2, <2>1, <2>2
<1>4. ASSUME NEW p \in DOMAIN conn', p[2] \in Driver, conn'[p] # None
      PROVE  \/ p = <<new_inst, "COUT">> /\ conn'[p] = conn[<<c, "CO">>]
             \/ p = <<new_inst, "O">> /\ conn'[p] = LastNet
             \/ p = <<Back, "COUT">> /\ conn'[p] = new_net
             \/ p \in DOMAIN conn /\ p[1] # c /\ p # <<Back, "COUT">> /\ conn'[p] = conn[p]
  <2>1. CASE p \in {new_inst} \X LCPort
    <3>1. PICK f \in LCPort : p = <<new_inst, f>>
      BY <2>1
    <3>2. f \in {"O", "COUT"}
      BY <1>4, <3>1, LCPortIs DEF Driver, Control
    <3> QED BY <1>4, <3>1, <3>2 DEF Behind, OwnCell, Gone
  <2>2. CASE p \in DOMAIN conn /\ p[1] # c
    BY <2>2 DEF Behind
  <2> QED BY <2>1, <2>2 DEF Behind, OwnCell
<1>5. /\ ~IsConstant(None) /\ ~IsConstant(new_net) /\ \A p \in DOMAIN conn : conn[p] # new_net
      /\ <<c, "CO">> \in DOMAIN conn /\ <<c, "CO">>[2] \in Driver /\ <<c, "CO">>[1] = c
      /\ <<Back, "COUT">>[2] \in Driver /\ <<Back, "COUT">>[1] # c
  BY <1>1, NetDrivers, NewIsNew DEF Inv, IsConstant, None, Const0, Const1, CarryPort, Driver
<1>6. ASSUME NEW p \in DOMAIN conn', p[2] \in Driver
      PROVE  /\ ~IsConstant(conn'[p])
             /\ \A q \in DOMAIN conn' : q[2] \in Driver /\ conn'[p] = conn'[q] /\ conn'[p] # None => p = q
  <2>1. ~IsConstant(conn'[p])
    BY <1>1, <1>4, <1>5, <1>6, NetDrivers DEF Inv
  <2>2. ASSUME NEW q \in DOMAIN conn', q[2] \in Driver, conn'[p] = conn'[q], conn'[p] # None PROVE p = q
    <3>1. /\ \/ p = <<new_inst, "COUT">> /\ conn'[p] = conn[<<c, "CO">>]
             \/ p = <<new_inst, "O">> /\ conn'[p] = LastNet
             \/ p = <<Back, "COUT">> /\ conn'[p] = new_net
             \/ p \in DOMAIN conn /\ p[1] # c /\ p # <<Back, "COUT">> /\ conn'[p] = conn[p]
          /\ \/ q = <<new_inst, "COUT">> /\ conn'[q] = conn[<<c, "CO">>]
             \/ q = <<new_inst, "O">> /\ conn'[q] = LastNet
             \/ q = <<Back, "COUT">> /\ conn'[q] = new_net
             \/ q \in DOMAIN conn /\ q[1] # c /\ q # <<Back, "COUT">> /\ conn'[q] = conn[q]
      BY <1>4, <1>6, <2>2
    <3>2. \A a, b \in DOMAIN conn :
            a[2] \in Driver /\ b[2] \in Driver /\ conn[a] = conn[b] /\ conn[a] # None => a = b
      BY NetDrivers DEF Inv
    <3> QED BY <1>1, <1>5, <1>6, <2>2, <3>1, <3>2
  <2> QED BY <2>1, <2>2
<1>7. /\ lcs' = lcs \cup {new_inst} /\ NextInst /\ new_net' \in {new_net, new_net + 1}
      /\ {c} \in SUBSET carries /\ carries' = carries \ {c}
      /\ \A p : p \in DOMAIN conn' <=> p \in {new_inst} \X LCPort \/ (p \in DOMAIN conn /\ p[1] \notin {c})
  BY DEF Behind, OwnCell, Gone, NextNet
<1> QED BY <1>3, <1>6, <1>7, NetGrows DEF Inv

LEMMA JoinedNet ==
  ASSUME Inv, NEW l \in lcs, Joined(l), c \in carries
  PROVE  NetInv'
<1>1. /\ \A f \in CarryPort : <<c, f>> \in DOMAIN conn
      /\ l \notin carries
  BY CarryPorts DEF Inv, NetInv
<1>2. ASSUME NEW p \in DOMAIN conn'
      PROVE  /\ p \in DOMAIN conn /\ p[1] # c
             /\ \/ p = <<l, "CIN">> /\ conn'[p] = conn[<<c, "CI">>]
                \/ p = <<l, "COUT">> /\ conn'[p] = conn[<<c, "CO">>]
                \/ conn'[p] = conn[p]
  BY DEF Joined, Gone, in_conn
<1>3. \A p \in DOMAIN conn' : conn'[p] \in 0 .. new_net' - 1
  <2>1. \A p \in DOMAIN conn : conn[p] \in 0 .. new_net' - 1
    BY NetDrivers DEF Inv, Joined
  <2> QED BY <1>1, <1>2, <2>1 DEF CarryPort
<1>4. <<c, "CO">> \in DOMAIN conn /\ <<c, "CO">>[2] \in Driver /\ <<c, "CO">>[1] = c
  BY <1>1 DEF CarryPort, Driver
<1>5. ASSUME NEW p \in DOMAIN conn', p[2] \in Driver
      PROVE  /\ p \in DOMAIN conn /\ p[1] # c
             /\ (p = <<l, "COUT">> /\ conn'[p] = conn[<<c, "CO">>]) \/ conn'[p] = conn[p]
  <2>1. p # <<l, "CIN">>
    BY <1>5 DEF Driver
  <2> QED BY <1>2, <2>1
<1>6. ASSUME NEW p \in DOMAIN conn', p[2] \in Driver
      PROVE  /\ ~IsConstant(conn'[p])
             /\ \A q \in DOMAIN conn' : q[2] \in Driver /\ conn'[p] = conn'[q] /\ conn'[p] # None => p = q
  <2>1. ~IsConstant(conn'[p])
    BY <1>4, <1>5, <1>6, NetDrivers DEF Inv
  <2>2. ASSUME NEW q \in DOMAIN conn', q[2] \in Driver, conn'[p] = conn'[q], conn'[p] # None PROVE p = q
    BY <1>4, <1>5, <1>6, <2>2, NetDrivers DEF Inv
  <2> QED BY <2>1, <2>2
<1>7. /\ new_inst' = new_inst /\ new_net' = new_net /\ lcs' = lcs /\ carries' = carries \ {c}
      /\ DOMAIN conn' \in SUBSET DOMAIN conn
      /\ \A p : p \in DOMAIN conn' <=> p \in DOMAIN conn /\ p[1] # c
  BY <1>2 DEF Joined, Gone
<1>8. IsFiniteSet(DOMAIN conn')
  BY <1>7, FS_Subset DEF Inv, NetInv
<1>9. (lcs' \X LCPort) \cup (carries' \X CarryPort) \subseteq DOMAIN conn'
  <2>1. \A i \in lcs, f \in LCPort : <<i, f>> \in DOMAIN conn /\ i # c
    BY CarryPorts DEF Inv, NetInv
  <2>2. \A i \in carries \ {c}, f \in CarryPort : <<i, f>> \in DOMAIN conn /\ i # c
    BY CarryPorts DEF Inv
  <2> QED BY <1>7, <2>1, <2>2
<1>10. \A p \in DOMAIN conn' : /\ p[1] \in lcs' => p[2] \in LCPort
                               /\ p[1] \in carries' => p[2] \in CarryPort
                               /\ p[1] \notin lcs' \cup carries' => p[2] \notin LCPort \cup CarryPort
  BY <1>7 DEF Inv, NetInv
<1>11. /\ new_inst' \in Nat \ {0} /\ new_net' \in Nat /\ new_net' > Const1
       /\ \A p \in DOMAIN conn' : p = <<p[1], p[2]>> /\ p[1] \in Nat /\ p[1] < new_inst'
       /\ lcs' \subseteq 1 .. new_inst' - 1 /\ carries' \subseteq 1 .. new_inst' - 1 /\ lcs' \cap carries' = {}
  BY <1>7 DEF Inv, NetInv
<1> QED BY <1>3, <1>6, <1>8, <1>9, <1>10, <1>11 DEF NetInv

-----------------------------------------------------------------------------
(* One more cell at the end of a chain.                                    *)
LEMMA AppendIs ==
  ASSUME NEW v \in Seq(Nat), NEW l \in Nat
  PROVE  /\ Len(Append(v, l)) = Len(v) + 1 /\ DOMAIN v = 1 .. Len(v) /\ Len(v) \in Nat
         /\ DOMAIN Append(v, l) = 1 .. Len(v) + 1 /\ Append(v, l) # <<>> /\ Append(v, l) \in Seq(Nat)
         /\ Append(v, l)[Len(v) + 1] = l /\ \A j \in 1 .. Len(v) : Append(v, l)[j] = v[j]
         /\ v # <<>> => Len(v) \in 1 .. Len(v)
OBVIOUS

LEMMA ExtendFed ==
  ASSUME NEW w, NEW v \in Seq(Nat), NEW l \in Nat, Fed(w, v),
         Real(w[<<l, "I3">>]) =>
           \/ v # <<>> /\ w[<<v[Len(v)], "COUT">>] = w[<<l, "I3">>]
           \/ \A p \in DOMAIN w : p[2] \in {"COUT", "CO"} => w[p] # w[<<l, "I3">>]
  PROVE  Fed(w, Append(v, l))
<1> DEFINE u == Append(v, l)
<1>1. /\ Len(v) \in Nat /\ DOMAIN v = 1 .. Len(v) /\ DOMAIN u = 1 .. Len(v) + 1
      /\ u[Len(v) + 1] = l /\ \A j \in 1 .. Len(v) : u[j] = v[j]
      /\ v # <<>> => Len(v) \in 1 .. Len(v)
  BY AppendIs
<1> HIDE DEF u
<1>2. SUFFICES ASSUME NEW j \in DOMAIN u, Real(w[<<u[j], "I3">>])
               PROVE  \/ j > 1 /\ w[<<u[j - 1], "COUT">>] = w[<<u[j], "I3">>]
                      \/ \A p \in DOMAIN w : p[2] \in {"COUT", "CO"} => w[p] # w[<<u[j], "I3">>]
  BY DEF Fed, u
<1>3. CASE j \in 1 .. Len(v)
  <2>1. j > 1 => j - 1 \in 1 .. Len(v)
    BY <1>1, <1>3
  <2> QED BY <1>1, <1>2, <1>3, <2>1 DEF Fed
<1>4. CASE j = Len(v) + 1
  <2>1. CASE v # <<>> /\ w[<<v[Len(v)], "COUT">>] = w[<<l, "I3">>]
    <3>1. j > 1 /\ u[j - 1] = v[Len(v)]
      BY <1>1, <1>4, <2>1
    <3> QED BY <1>1, <1>4, <2>1, <3>1
  <2>2. CASE \A p \in DOMAIN w : p[2] \in {"COUT", "CO"} => w[p] # w[<<l, "I3">>]
    BY <1>1, <1>4, <2>2
  <2>3. u[j] = l
    BY <1>1, <1>4
  <2> QED BY <1>2, <2>1, <2>2, <2>3
<1>5. j \in 1 .. Len(v) \/ j = Len(v) + 1
  BY <1>1
<1> QED BY <1>3, <1>4, <1>5

LEMMA ExtendAgree ==
  ASSUME NEW w, NEW v \in Seq(Nat), NEW l \in Nat, Agree(w, v),
         \A j \in DOMAIN v, f \in Control :
           SameTile(j, Len(v) + 1) /\ w[<<v[j], f>>] # None /\ w[<<l, f>>] # None => w[<<v[j], f>>] = w[<<l, f>>]
  PROVE  Agree(w, Append(v, l))
<1> DEFINE u == Append(v, l)
<1>1. /\ DOMAIN v = 1 .. Len(v) /\ DOMAIN u = 1 .. Len(v) + 1 /\ Len(v) \in Nat
      /\ u[Len(v) + 1] = l /\ \A j \in 1 .. Len(v) : u[j] = v[j]
  BY AppendIs
<1> HIDE DEF u
<1>2. SUFFICES ASSUME NEW i \in DOMAIN u, NEW j \in DOMAIN u, NEW f \in Control,
                      SameTile(i, j), w[<<u[i], f>>] # None, w[<<u[j], f>>] # None
               PROVE  w[<<u[i], f>>] = w[<<u[j], f>>]
  BY DEF Agree, u
<1>3. \A a, b : SameTile(a, b) => SameTile(b, a)
  BY DEF SameTile
<1>4. CASE i \in 1 .. Len(v) /\ j \in 1 .. Len(v)
  BY <1>1, <1>2, <1>4 DEF Agree
<1>5. CASE i \in 1 .. Len(v) /\ j = Len(v) + 1
  BY <1>1, <1>2, <1>5
<1>6. CASE i = Len(v) + 1 /\ j \in 1 .. Len(v)
  BY <1>1, <1>2, <1>3, <1>6
<1>7. CASE i = Len(v) + 1 /\ j = Len(v) + 1
  BY <1>7
<1> QED BY <1>1, <1>4, <1>5, <1>6, <1>7

LEMMA ExtendWired ==
  ASSUME NEW w, NEW v \in Seq(Nat), NEW l \in Nat, Wired(w, v),
         v = <<>> => ~Real(w[<<l, "CIN">>]),
         v # <<>> =>
           LET b == v[Len(v)] IN
           /\ w[<<b, "COUT">>] # None =>
                \A p \in DOMAIN w : w[p] = w[<<b, "COUT">>] => p = <<b, "COUT">> \/ p \in {l} \X {"CIN", "I3"}
           /\ w[<<l, "CIN">>] \in {None, w[<<b, "COUT">>]}
  PROVE  Wired(w, Append(v, l))
<1> DEFINE u == Append(v, l)
<1>1. /\ DOMAIN v = 1 .. Len(v) /\ DOMAIN u = 1 .. Len(v) + 1 /\ Len(v) \in Nat /\ Len(u) = Len(v) + 1
      /\ u[Len(v) + 1] = l /\ \A j \in 1 .. Len(v) : u[j] = v[j]
      /\ v # <<>> => Len(v) \in 1 .. Len(v)
      /\ v = <<>> => Len(v) = 0
  BY AppendIs
<1> HIDE DEF u
<1>2. ~Real(w[<<u[1], "CIN">>])
  <2>1. CASE v = <<>>
    BY <1>1, <2>1
  <2>2. CASE v # <<>>
    <3>1. 1 \in 1 .. Len(v)
      BY <1>1, <2>2
    <3> QED BY <1>1, <2>2, <3>1 DEF Wired
  <2> QED BY <2>1, <2>2
<1>3. ASSUME NEW j \in DOMAIN u, j < Len(u)
      PROVE  /\ w[<<u[j], "COUT">>] # None =>
                  \A p \in DOMAIN w : w[p] = w[<<u[j], "COUT">>] =>
                    p = <<u[j], "COUT">> \/ p \in {u[j + 1]} \X {"CIN", "I3"}
             /\ w[<<u[j + 1], "CIN">>] \in {None, w[<<u[j], "COUT">>]}
  <2>1. CASE j < Len(v)
    <3>1. j \in DOMAIN v /\ u[j] = v[j] /\ u[j + 1] = v[j + 1]
      BY <1>1, <1>3, <2>1
    <3> QED BY <2>1, <3>1 DEF Wired
  <2>2. CASE j = Len(v)
    <3>1. v # <<>> /\ u[j] = v[Len(v)] /\ u[j + 1] = l
      BY <1>1, <1>3, <2>2
    <3> QED BY <3>1, Zenon
  <2>3. j < Len(v) \/ j = Len(v)
    BY <1>1, <1>3
  <2> QED BY <2>1, <2>2, <2>3
<1> QED BY <1>2, <1>3 DEF Wired, u

-----------------------------------------------------------------------------
(* Who uses the carry of the last cell.                                    *)
LEMMA LastDriver ==
  ASSUME Inv, chain # <<>>, LastNet # None
  PROVE  /\ <<Back, "COUT">> \in DOMAIN conn /\ conn[<<Back, "COUT">>] = LastNet /\ Real(LastNet) /\ Back \in lcs
         /\ \A p \in DOMAIN conn : p[2] \in Driver /\ conn[p] = LastNet => p = <<Back, "COUT">>
<1>1. Back \in lcs
  BY UsedCells DEF Inv, PlacesInv
<1>2. <<Back, "COUT">> \in DOMAIN conn /\ <<Back, "COUT">>[2] \in Driver
  BY <1>1, CarryPorts, LCPortIs DEF Inv, Driver
<1> QED BY <1>1, <1>2, NetDrivers DEF Inv, LastNet, Real

LEMMA UserUnused ==
  ASSUME Inv, chain # <<>>, LastNet # None, NEW l \in lcs, conn[<<l, "I3">>] = LastNet
  PROVE  l \notin Used
<1> SUFFICES ASSUME NEW v \in Lines, NEW j \in DOMAIN v, l = v[j] PROVE FALSE
  BY UsedCells DEF Inv, PlacesInv
<1>1. Real(conn[<<v[j], "I3">>]) /\ <<Back, "COUT">> \in DOMAIN conn /\ conn[<<Back, "COUT">>] = conn[<<v[j], "I3">>]
  BY LastDriver
<1>2. j > 1 /\ conn[<<v[j - 1], "COUT">>] = LastNet
  BY <1>1 DEF Inv, FedInv, Fed
<1>3. j - 1 \in DOMAIN v /\ j - 1 < Len(v)
  BY <1>2, StartedLines DEF Inv
<1>4. <<v[j - 1], "COUT">> \in DOMAIN conn /\ <<v[j - 1], "COUT">>[2] \in Driver
  BY <1>3, LinePorts, LCPortIs DEF Driver
<1>5. v[j - 1] = Back
  BY <1>2, <1>4, LastDriver
<1> QED BY <1>3, <1>5, BackIsLast DEF Inv

LEMMA ConnectionsFinite ==
  ASSUME NetInv, NEW n
  PROVE  IsFiniteSet(Connections(conn, n)) /\ \A p \in DOMAIN conn : conn[p] = n <=> p \in Connections(conn, n)
<1>1. Connections(conn, n) \in SUBSET DOMAIN conn
  BY DEF Connections
<1> QED BY <1>1, FS_Subset DEF NetInv, Connections

LEMMA CarryLCFacts ==
  ASSUME Inv, pc = "carry", c \in carries, NEW l \in CarryLCs
  PROVE  /\ l \in lcs \ Used /\ chain # <<>> /\ LastNet = in_conn /\ conn[<<l, "I3">>] = in_conn
         /\ \A p \in DOMAIN conn : conn[p] = in_conn => p \in {<<Back, "COUT">>, <<c, "CI">>, <<l, "I3">>}
<1>1. /\ l \in lcs /\ Real(in_conn) /\ conn[<<l, "I3">>] = in_conn
      /\ Cardinality(Connections(conn, in_conn)) = 3
  BY DEF CarryLCs, Real
<1>2. chain # <<>> /\ LastNet = in_conn /\ LastNet # None
  BY <1>1 DEF Inv, LoopInv, Real
<1>3. l \notin Used
  BY <1>1, <1>2, UserUnused
<1>4. /\ <<Back, "COUT">> \in Connections(conn, in_conn) /\ <<c, "CI">> \in Connections(conn, in_conn)
      /\ <<l, "I3">> \in Connections(conn, in_conn)
  <2>1. <<c, "CI">> \in DOMAIN conn /\ <<l, "I3">> \in DOMAIN conn
    BY <1>1, CarryPorts, LCPortIs DEF Inv, CarryPort
  <2> QED BY <1>1, <1>2, <2>1, LastDriver, ConnectionsFinite DEF Inv, in_conn
<1>5. Connections(conn, in_conn) = {<<Back, "COUT">>, <<c, "CI">>, <<l, "I3">>}
  <2>1. <<Back, "COUT">> # <<c, "CI">> /\ <<Back, "COUT">> # <<l, "I3">> /\ <<c, "CI">> # <<l, "I3">>
    OBVIOUS
  <2> QED BY <1>1, <1>4, <2>1, ConnectionsFinite, OnlyThree DEF Inv
<1> QED BY <1>1, <1>2, <1>3, <1>5, ConnectionsFinite DEF Inv

LEMMA OursFacts ==
  ASSUME Inv, pc = "carry", c \in carries, chain # <<>>, CarryIsOurs
  PROVE  /\ LastNet = in_conn /\ in_conn # None
         /\ \A p \in DOMAIN conn : conn[p] = in_conn => p \in {<<Back, "COUT">>, <<c, "CI">>}
<1>1. LastNet = in_conn /\ in_conn # None /\ Real(in_conn)
  BY LastDriver DEF Inv, LoopInv
<1>2. Cardinality(Connections(conn, in_conn)) = 2
  BY <1>1 DEF CarryIsOurs, Real
<1>3. <<Back, "COUT">> \in Connections(conn, in_conn) /\ <<c, "CI">> \in Connections(conn, in_conn)
  <2>1. <<c, "CI">> \in DOMAIN conn
    BY CarryPorts DEF Inv, CarryPort
  <2> QED BY <1>1, <2>1, LastDriver, ConnectionsFinite DEF Inv, in_conn
<1>4. Connections(conn, in_conn) = {<<Back, "COUT">>, <<c, "CI">>}
  <2>1. <<Back, "COUT">> # <<c, "CI">>
    OBVIOUS
  <2> QED BY <1>2, <1>3, <2>1, ConnectionsFinite, OnlyTwo DEF Inv
<1> QED BY <1>1, <1>4, ConnectionsFinite DEF Inv

LEMMA ConsumerFacts ==
  ASSUME Inv, pc = "tail", NEW l \in Consumers
  PROVE  /\ l \in lcs \ Used /\ chain # <<>> /\ LastNet = out_conn /\ LastNet # None /\ conn[<<l, "I3">>] = LastNet
         /\ \A p \in DOMAIN conn : conn[p] = LastNet => p \in {<<Back, "COUT">>, <<l, "I3">>}
<1>1. chain # <<>> /\ LastNet = out_conn /\ LastNet # None
  BY DEF Inv, LoopInv
<1>2. l \in lcs /\ conn[<<l, "I3">>] = LastNet /\ Cardinality(Connections(conn, LastNet)) = 2
  BY <1>1 DEF Consumers
<1>3. l \notin Used
  BY <1>1, <1>2, UserUnused
<1>4. <<Back, "COUT">> \in Connections(conn, LastNet) /\ <<l, "I3">> \in Connections(conn, LastNet)
  <2>1. <<l, "I3">> \in DOMAIN conn
    BY <1>2, CarryPorts, LCPortIs DEF Inv
  <2> QED BY <1>1, <1>2, <2>1, LastDriver, ConnectionsFinite DEF Inv
<1>5. Connections(conn, LastNet) = {<<Back, "COUT">>, <<l, "I3">>}
  <2>1. <<Back, "COUT">> # <<l, "I3">>
    OBVIOUS
  <2> QED BY <1>2, <1>4, <2>1, ConnectionsFinite, OnlyTwo DEF Inv
<1> QED BY <1>1, <1>2, <1>3, <1>5, ConnectionsFinite DEF Inv

-----------------------------------------------------------------------------
(* How the chains grow.                                                    *)
LEMMA AppendLines ==
  ASSUME NEW s \in Seq(Seq(Nat)), NEW v \in Seq(Nat)
  PROVE  /\ DOMAIN Append(s, v) = 1 .. Len(s) + 1 /\ DOMAIN s = 1 .. Len(s) /\ Len(s) \in Nat
         /\ Append(s, v)[Len(s) + 1] = v /\ \A i \in 1 .. Len(s) : Append(s, v)[i] = s[i] /\ s[i] \in Seq(Nat)
         /\ Append(s, v) \in Seq(Seq(Nat))
OBVIOUS

LEMMA LinesLonger ==
  ASSUME Inv, NEW l \in Nat, chain' = Append(chain, l), chains' = chains
  PROVE  /\ AllChains' = AllChains /\ Lines' = AllChains \cup {Append(chain, l)}
         /\ Used' = Used \cup {l}
<1>1. chain \in Seq(Nat)
  BY DEF Inv, LengthInv
<1>2. AllChains' = AllChains
  BY DEF AllChains
<1>3. Lines' = AllChains \cup {Append(chain, l)}
  BY <1>2 DEF Lines
<1>4. CellsOf(Append(chain, l)) = CellsOf(chain) \cup {l}
  <2> DEFINE u == Append(chain, l)
  <2>1. /\ Len(chain) \in Nat /\ DOMAIN chain = 1 .. Len(chain) /\ DOMAIN u = 1 .. Len(chain) + 1
        /\ u[Len(chain) + 1] = l /\ \A j \in 1 .. Len(chain) : u[j] = chain[j]
    BY <1>1, AppendIs
  <2> HIDE DEF u
  <2>2. Len(chain) + 1 \in DOMAIN u /\ DOMAIN u = DOMAIN chain \cup {Len(chain) + 1}
    BY <2>1
  <2>3. CellsOf(u) = CellsOf(chain) \cup {l}
    BY <2>1, <2>2 DEF CellsOf
  <2> QED BY <2>3 DEF u
<1>5. Used' = Used \cup {l}
  <2>1. Used' = UNION {CellsOf(v) : v \in Lines'}
    BY DEF Used, CellsOf
  <2>2. Used' = UNION {CellsOf(v) : v \in AllChains \cup {Append(chain, l)}}
    BY <1>3, <2>1
  <2>3. Used = UNION {CellsOf(v) : v \in AllChains \cup {chain}}
    BY DEF Used, Lines
  <2> HIDE DEF CellsOf
  <2> QED BY <1>4, <2>2, <2>3
<1> QED BY <1>2, <1>3, <1>5

LEMMA LinesClosed ==
  ASSUME Inv, NEW u \in Seq(Nat), chains' = Append(chains, u)
  PROVE  /\ AllChains' = AllChains \cup {u} /\ Lines' = AllChains \cup {u, chain'}
         /\ Used' = (UNION {CellsOf(v) : v \in AllChains}) \cup CellsOf(u) \cup CellsOf(chain')
<1>1. AllChains' = AllChains \cup {u}
  <2> DEFINE s == Append(chains, u)
  <2>1. /\ DOMAIN s = 1 .. Len(chains) + 1 /\ DOMAIN chains = 1 .. Len(chains) /\ Len(chains) \in Nat
        /\ s[Len(chains) + 1] = u /\ \A i \in 1 .. Len(chains) : s[i] = chains[i]
    BY AppendLines DEF Inv, LengthInv
  <2>2. AllChains' = {s[i] : i \in DOMAIN s}
    BY DEF AllChains
  <2> HIDE DEF s
  <2>3. DOMAIN s = DOMAIN chains \cup {Len(chains) + 1}
    BY <2>1
  <2> QED BY <2>1, <2>2, <2>3 DEF AllChains
<1>2. Lines' = AllChains \cup {u, chain'}
  BY <1>1 DEF Lines
<1>3. Used' = (UNION {CellsOf(v) : v \in AllChains}) \cup CellsOf(u) \cup CellsOf(chain')
  <2>1. Used' = UNION {CellsOf(v) : v \in Lines'}
    BY DEF Used, CellsOf
  <2>2. Used' = UNION {CellsOf(v) : v \in AllChains \cup {u, chain'}}
    BY <1>2, <2>1
  <2> QED BY <2>2
<1> QED BY <1>1, <1>2, <1>3

LEMMA DistinctExtend ==
  ASSUME NEW s \in Seq(Seq(Nat)), NEW v \in Seq(Nat), NEW l \in Nat, Distinct(Append(s, v)),
         \A y \in {s[i] : i \in DOMAIN s} \cup {v} : \A j \in DOMAIN y : y[j] # l
  PROVE  Distinct(Append(s, Append(v, l)))
<1> DEFINE u == Append(v, l)
           t == Append(s, u)
           r == Append(s, v)
           n == Len(s) + 1
           m == Len(v) + 1
<1>1. /\ DOMAIN v = 1 .. Len(v) /\ DOMAIN u = 1 .. m /\ Len(v) \in Nat
      /\ u[m] = l /\ u \in Seq(Nat) /\ \A j \in 1 .. Len(v) : u[j] = v[j]
  BY AppendIs
<1>2. /\ DOMAIN r = 1 .. n /\ DOMAIN s = 1 .. Len(s) /\ Len(s) \in Nat
      /\ r[n] = v /\ \A i \in 1 .. Len(s) : r[i] = s[i]
  BY AppendLines
<1> HIDE DEF u
<1>3. DOMAIN t = 1 .. n /\ t[n] = u /\ \A i \in 1 .. Len(s) : t[i] = s[i]
  BY <1>1, AppendLines
<1> HIDE DEF r, t
<1>4. ASSUME NEW i \in DOMAIN t, NEW j \in DOMAIN t[i]
      PROVE  \/ i = n /\ j = m /\ t[i][j] = l
             \/ i \in DOMAIN r /\ j \in DOMAIN r[i] /\ t[i][j] = r[i][j] /\ r[i][j] # l /\ ~(i = n /\ j = m)
  <2>1. CASE i = n
    <3>1. j \in 1 .. m /\ t[i] = u /\ r[i] = v
      BY <1>1, <1>2, <1>3, <1>4, <2>1
    <3>2. CASE j = m
      BY <1>1, <2>1, <3>1, <3>2
    <3>3. CASE j \in 1 .. Len(v)
      <4>1. v[j] # l /\ j # m
        BY <1>1, <3>3
      <4> QED BY <1>1, <1>2, <1>3, <2>1, <3>1, <3>3, <4>1
    <3>4. j = m \/ j \in 1 .. Len(v)
      BY <1>1, <3>1
    <3> QED BY <3>2, <3>3, <3>4
  <2>2. CASE i \in 1 .. Len(s)
    <3>1. t[i] = s[i] /\ r[i] = s[i] /\ i # n /\ i \in DOMAIN r
      BY <1>2, <1>3, <2>2
    <3>2. s[i][j] # l
      BY <1>2, <1>4, <2>2, <3>1
    <3> QED BY <1>4, <3>1, <3>2
  <2>3. i = n \/ i \in 1 .. Len(s)
    BY <1>2, <1>3
  <2> QED BY <2>1, <2>2, <2>3
<1>5. Distinct(r)
  BY DEF r
<1> HIDE DEF n, m
<1>6. ASSUME NEW i \in DOMAIN t, NEW k \in DOMAIN t, NEW j \in DOMAIN t[i], NEW h \in DOMAIN t[k], t[i][j] = t[k][h]
      PROVE  i = k /\ j = h
  <2>1. /\ \/ i = n /\ j = m /\ t[i][j] = l
           \/ i \in DOMAIN r /\ j \in DOMAIN r[i] /\ t[i][j] = r[i][j] /\ r[i][j] # l /\ ~(i = n /\ j = m)
        /\ \/ k = n /\ h = m /\ t[k][h] = l
           \/ k \in DOMAIN r /\ h \in DOMAIN r[k] /\ t[k][h] = r[k][h] /\ r[k][h] # l /\ ~(k = n /\ h = m)
    BY <1>4
  <2> QED BY <1>5, <1>6, <2>1 DEF Distinct
<1> QED BY <1>6 DEF Distinct, t, u

LEMMA DistinctClose ==
  ASSUME NEW s \in Seq(Seq(Nat)), Distinct(s)
  PROVE  Distinct(Append(s, <<>>))
<1> DEFINE t == Append(s, <<>>)
<1>1. /\ DOMAIN t = 1 .. Len(s) + 1 /\ DOMAIN s = 1 .. Len(s) /\ Len(s) \in Nat
      /\ t[Len(s) + 1] = <<>> /\ \A i \in 1 .. Len(s) : t[i] = s[i]
  OBVIOUS
<1> HIDE DEF t
<1>2. ASSUME NEW i \in DOMAIN t, NEW j \in DOMAIN t[i] PROVE i \in DOMAIN s /\ t[i] = s[i]
  <2>1. DOMAIN (<<>>) = {}
    OBVIOUS
  <2>2. i # Len(s) + 1
    BY <1>1, <1>2, <2>1
  <2> QED BY <1>1, <1>2, <2>2
<1> QED BY <1>2 DEF Distinct, t

-----------------------------------------------------------------------------
(* The chain that has grown is wired as it should be.                      *)
Good(w, v) == Fed(w, v) /\ Agree(w, v) /\ Wired(w, v)

LEMMA GoodLines ==
  ASSUME Inv, Kept
  PROVE  /\ \A v \in Lines : Good(conn', v)
         /\ \A v \in AllChains : conn'[<<v[Len(v)], "COUT">>] = None
BY KeptLines DEF Good

LEMMA EmptyIsGood ==
  ASSUME NEW w
  PROVE  Good(w, <<>>)
BY DEF Good, Fed, Agree, Wired

LEMMA ChainIs ==
  ASSUME Inv
  PROVE  /\ chain \in Seq(Nat) /\ chain \in Lines /\ Len(chain) \in Nat /\ DOMAIN chain = 1 .. Len(chain)
         /\ lcs \subseteq Nat /\ new_inst \in Nat /\ new_inst \notin lcs /\ new_inst \notin Used
         /\ \A l \in lcs : l # new_inst
         /\ chain # <<>> => Back = chain[Len(chain)] /\ Len(chain) \in DOMAIN chain /\ Back \in lcs /\ Back \in Used
<1>1. chain \in Seq(Nat) /\ lcs \subseteq Nat /\ new_inst \in Nat /\ Used \subseteq lcs
  BY DEF Inv, LengthInv, NetInv, PlacesInv
<1>2. Len(chain) \in Nat /\ DOMAIN chain = 1 .. Len(chain)
  BY <1>1
<1>3. new_inst \notin lcs
  BY NewIsNew DEF Inv
<1> QED BY <1>1, <1>2, <1>3, UsedCells DEF Inv, PlacesInv

(* A cell without control nets and with no carry yet above the last one.   *)
LEMMA PassedGood ==
  ASSUME Inv, Passed, chain # <<>>
  PROVE  Good(conn', Append(chain, new_inst)) /\ conn'[<<new_inst, "COUT">>] = None
<1>1. Good(conn', chain) /\ chain \in Seq(Nat) /\ new_inst \in Nat /\ Back = chain[Len(chain)] /\ Back \in lcs
  BY PassedKept, GoodLines, ChainIs
<1>2. conn'[<<Back, "COUT">>] = new_net /\ conn'[<<new_inst, "I3">>] = new_net
  BY DEF Passed
<1>3. /\ \A f \in Control : conn'[<<new_inst, f>>] = None
      /\ conn'[<<new_inst, "CIN">>] = None /\ conn'[<<new_inst, "COUT">>] = None
  BY LCPortIs DEF Passed, Control
<1>4. ASSUME NEW p \in DOMAIN conn', conn'[p] = new_net
      PROVE  p = <<Back, "COUT">> \/ p \in {new_inst} \X {"CIN", "I3"}
  <2>1. CASE p \in {new_inst} \X LCPort
    <3>1. PICK f \in LCPort : p = <<new_inst, f>>
      BY <2>1
    <3>2. LastNet # new_net /\ None # new_net
      BY <1>1, CarryPorts, NetDrivers, NewIsNew, LCPortIs DEF Inv, LastNet, None
    <3> QED BY <1>4, <3>1, <3>2 DEF Passed
  <2>2. CASE p \in DOMAIN conn
    BY <1>4, <2>2, NewIsNew DEF Passed, Inv
  <2> QED BY <2>1, <2>2 DEF Passed
<1>5. Fed(conn', Append(chain, new_inst))
  BY <1>1, <1>2, ExtendFed DEF Good
<1>6. Agree(conn', Append(chain, new_inst))
  BY <1>1, <1>3, ExtendAgree DEF Good
<1>7. Wired(conn', Append(chain, new_inst))
  <2>1. /\ \A p \in DOMAIN conn' : conn'[p] = conn'[<<chain[Len(chain)], "COUT">>] =>
              p = <<chain[Len(chain)], "COUT">> \/ p \in {new_inst} \X {"CIN", "I3"}
        /\ conn'[<<new_inst, "CIN">>] \in {None, conn'[<<chain[Len(chain)], "COUT">>]}
    BY <1>1, <1>2, <1>3, <1>4
  <2> QED BY <1>1, <2>1, ExtendWired DEF Good
<1> QED BY <1>3, <1>5, <1>6, <1>7 DEF Good

LEMMA BegunGood ==
  ASSUME Inv, Begun, c \in carries, chain = <<>>
  PROVE  Good(conn', Append(chain, new_inst))
<1>1. Good(conn', chain) /\ chain \in Seq(Nat) /\ new_inst \in Nat
  BY BegunKept, GoodLines, ChainIs
<1>2. ~Real(conn'[<<new_inst, "I3">>]) /\ ~Real(conn'[<<new_inst, "CIN">>])
  BY DEF Begun, Real, IsConstant
<1>3. \A f \in Control : conn'[<<new_inst, f>>] = None
  BY DEF Begun
<1>4. Fed(conn', Append(chain, new_inst))
  BY <1>1, <1>2, ExtendFed DEF Good
<1>5. Agree(conn', Append(chain, new_inst))
  BY <1>1, <1>3, ExtendAgree DEF Good
<1>6. Wired(conn', Append(chain, new_inst))
  BY <1>1, <1>2, ExtendWired DEF Good
<1> QED BY <1>4, <1>5, <1>6 DEF Good

(* The control nets of a cell that suits agree with those of its tile.     *)
LEMMA SuitsAgrees ==
  ASSUME Inv, pc \in {"carry", "tail"}, NEW l, Suits(l), NEW j \in DOMAIN chain, NEW f \in Control,
         SameTile(j, Len(chain) + 1), conn[<<chain[j], f>>] # None
  PROVE  conn[<<chain[j], f>>] = conn[<<l, f>>] /\ control[f] = conn[<<l, f>>]
<1>1. control[f] = conn[<<chain[j], f>>]
  BY DEF Inv, ControlInv
<1>2. control[f] \in {None, conn[<<l, f>>]}
  BY DEF Suits
<1> QED BY <1>1, <1>2

LEMMA JoinedGood ==
  ASSUME Inv, pc = "carry", c \in carries, NEW l \in CarryLCs, Suits(l), Joined(l),
         conn[<<c, "CO">>] # None => in_conn # conn[<<c, "CO">>]
  PROVE  Good(conn', Append(chain, l))
<1>1. /\ l \in lcs \ Used /\ chain # <<>> /\ LastNet = in_conn /\ conn[<<l, "I3">>] = in_conn
      /\ \A p \in DOMAIN conn : conn[p] = in_conn => p \in {<<Back, "COUT">>, <<c, "CI">>, <<l, "I3">>}
  BY CarryLCFacts
<1>2. /\ Good(conn', chain) /\ chain \in Seq(Nat) /\ l \in Nat /\ Back = chain[Len(chain)] /\ Back \in lcs
      /\ Back # l /\ Back # c /\ l # c /\ \A v \in DOMAIN chain : chain[v] \in Used /\ chain[v] \in lcs /\ chain[v] # c
  <2>1. Good(conn', chain)
    BY <1>1, JoinedKept, GoodLines, ChainIs
  <2>2. lcs \cap carries = {}
    BY DEF Inv, NetInv
  <2>3. \A v \in DOMAIN chain : chain[v] \in Used /\ chain[v] \in lcs
    BY UsedCells DEF Inv, PlacesInv
  <2> QED BY <1>1, <2>1, <2>2, <2>3, ChainIs
<1>3. /\ <<Back, "COUT">> \in DOMAIN conn /\ <<l, "I3">> \in DOMAIN conn
      /\ \A f \in Control : <<l, f>> \in DOMAIN conn
  BY <1>1, <1>2, CarryPorts, LCPortIs DEF Inv
<1>4. conn'[<<Back, "COUT">>] = in_conn /\ conn'[<<l, "I3">>] = in_conn /\ conn'[<<l, "CIN">>] = in_conn
  <2>1. <<Back, "COUT">>[1] # c /\ <<Back, "COUT">> # <<l, "CIN">> /\ <<Back, "COUT">> # <<l, "COUT">>
    BY <1>2
  <2>2. <<l, "I3">>[1] # c /\ <<l, "I3">> # <<l, "CIN">> /\ <<l, "I3">> # <<l, "COUT">>
    BY <1>2
  <2> QED BY <1>1, <1>3, <2>1, <2>2 DEF Joined, LastNet
<1>5. \A f \in Control : conn'[<<l, f>>] = conn[<<l, f>>]
  <2> TAKE f \in Control
  <2>1. <<l, f>>[1] # c /\ <<l, f>> # <<l, "CIN">> /\ <<l, f>> # <<l, "COUT">>
    BY <1>2 DEF Control
  <2> QED BY <1>3, <2>1 DEF Joined
<1>6. ASSUME NEW p \in DOMAIN conn', conn'[p] = in_conn
      PROVE  p = <<Back, "COUT">> \/ p \in {l} \X {"CIN", "I3"}
  <2>1. p \in DOMAIN conn /\ p[1] # c
    BY DEF Joined
  <2>2. CASE p = <<l, "COUT">>
    <3>1. conn[<<c, "CO">>] = in_conn /\ conn[<<c, "CO">>] # None
      BY <1>1, <1>6, <2>2 DEF Joined, Gone, Inv, LoopInv
    <3> QED BY <3>1
  <2>3. CASE p # <<l, "COUT">> /\ p # <<l, "CIN">>
    <3>1. p \in {<<Back, "COUT">>, <<c, "CI">>, <<l, "I3">>}
      BY <1>1, <1>6, <2>1, <2>3 DEF Joined
    <3> QED BY <2>1, <3>1
  <2> QED BY <2>2, <2>3
<1>7. Fed(conn', Append(chain, l))
  BY <1>1, <1>2, <1>4, ExtendFed DEF Good
<1>8. Agree(conn', Append(chain, l))
  <2>1. \A j \in DOMAIN chain, f \in Control : conn'[<<chain[j], f>>] = conn[<<chain[j], f>>]
    <3>1. Kept /\ chain \in Lines
      BY <1>1, JoinedKept, ChainIs
    <3> QED BY <3>1 DEF Kept
  <2>2. \A j \in DOMAIN chain, f \in Control :
          SameTile(j, Len(chain) + 1) /\ conn'[<<chain[j], f>>] # None => conn'[<<chain[j], f>>] = conn'[<<l, f>>]
    BY <1>5, <2>1, SuitsAgrees
  <2> QED BY <1>2, <2>2, ExtendAgree DEF Good
<1>9. Wired(conn', Append(chain, l))
  <2>1. /\ \A p \in DOMAIN conn' : conn'[p] = conn'[<<chain[Len(chain)], "COUT">>] =>
              p = <<chain[Len(chain)], "COUT">> \/ p \in {l} \X {"CIN", "I3"}
        /\ conn'[<<l, "CIN">>] \in {None, conn'[<<chain[Len(chain)], "COUT">>]}
    BY <1>2, <1>4, <1>6
  <2> QED BY <1>1, <1>2, <2>1, ExtendWired DEF Good
<1> QED BY <1>7, <1>8, <1>9 DEF Good

LEMMA AloneGood ==
  ASSUME Inv, pc = "carry", c \in carries, CarryIsOurs, Alone,
         conn[<<c, "CO">>] # None => in_conn # conn[<<c, "CO">>]
  PROVE  Good(conn', Append(chain, new_inst))
<1>1. Good(conn', chain) /\ chain \in Seq(Nat) /\ new_inst \in Nat
  BY AloneKept, GoodLines, ChainIs
<1>2. /\ conn'[<<new_inst, "I3">>] = None /\ conn'[<<new_inst, "CIN">>] = in_conn
      /\ \A f \in Control : conn'[<<new_inst, f>>] = None
  BY DEF Alone, OwnCell
<1>3. Fed(conn', Append(chain, new_inst))
  BY <1>1, <1>2, ExtendFed DEF Good, Real
<1>4. Agree(conn', Append(chain, new_inst))
  BY <1>1, <1>2, ExtendAgree DEF Good
<1>5. Wired(conn', Append(chain, new_inst))
  <2>1. CASE chain = <<>>
    <3>1. ~Real(conn'[<<new_inst, "CIN">>])
      BY <1>2, <2>1 DEF Inv, LoopInv
    <3> QED BY <1>1, <2>1, <3>1, ExtendWired DEF Good
  <2>2. CASE chain # <<>>
    <3>1. /\ LastNet = in_conn /\ in_conn # None /\ Back \in lcs /\ Back = chain[Len(chain)]
          /\ \A p \in DOMAIN conn : conn[p] = in_conn => p \in {<<Back, "COUT">>, <<c, "CI">>}
      BY <2>2, OursFacts, ChainIs
    <3>2. <<Back, "COUT">> \in DOMAIN conn /\ <<Back, "COUT">>[1] # c /\ conn[<<Back, "COUT">>] = in_conn
      BY <3>1, CarryPorts, LCPortIs DEF Inv, NetInv, LastNet
    <3>3. conn'[<<Back, "COUT">>] = in_conn
      BY <3>2 DEF Alone
    <3>4. ASSUME NEW p \in DOMAIN conn', conn'[p] = in_conn
          PROVE  p = <<Back, "COUT">> \/ p \in {new_inst} \X {"CIN", "I3"}
      <4>1. CASE p \in {new_inst} \X LCPort
        <5>1. PICK f \in LCPort : p = <<new_inst, f>>
          BY <4>1
        <5>2. /\ <<c, "I0">> \in DOMAIN conn /\ <<c, "I1">> \in DOMAIN conn
              /\ <<c, "I0">> \notin {<<Back, "COUT">>, <<c, "CI">>} /\ <<c, "I1">> \notin {<<Back, "COUT">>, <<c, "CI">>}
          BY CarryPorts DEF Inv, CarryPort
        <5>3. conn[<<c, "I0">>] # in_conn /\ conn[<<c, "I1">>] # in_conn
          BY <3>1, <5>2
        <5>4. f \in {"I1", "I2", "COUT"} => conn'[p] # in_conn
          BY <3>1, <5>1, <5>3 DEF Alone, OwnCell, Gone
        <5>5. f \in {"O"} \cup Control => conn'[p] # in_conn
          BY <3>1, <5>1 DEF Alone, OwnCell
        <5> QED BY <3>4, <5>1, <5>4, <5>5, LCPortIs
      <4>2. CASE p \in DOMAIN conn /\ p[1] # c
        <5>1. p \in {<<Back, "COUT">>, <<c, "CI">>}
          BY <3>1, <3>4, <4>2 DEF Alone
        <5> QED BY <4>2, <5>1
      <4> QED BY <4>1, <4>2 DEF Alone, OwnCell
    <3>5. /\ \A p \in DOMAIN conn' : conn'[p] = conn'[<<chain[Len(chain)], "COUT">>] =>
                p = <<chain[Len(chain)], "COUT">> \/ p \in {new_inst} \X {"CIN", "I3"}
          /\ conn'[<<new_inst, "CIN">>] \in {None, conn'[<<chain[Len(chain)], "COUT">>]}
      BY <1>2, <3>1, <3>3, <3>4
    <3> QED BY <1>1, <2>2, <3>5, ExtendWired DEF Good
  <2> QED BY <2>1, <2>2
<1> QED BY <1>3, <1>4, <1>5 DEF Good

LEMMA BehindGood ==
  ASSUME Inv, c \in carries, chain # <<>>, Behind
  PROVE  Good(conn', Append(chain, new_inst))
<1>1. Good(conn', chain) /\ chain \in Seq(Nat) /\ new_inst \in Nat /\ Back = chain[Len(chain)] /\ Back \in lcs
  BY BehindKept, GoodLines, ChainIs
<1>2. /\ conn'[<<Back, "COUT">>] = new_net /\ conn'[<<new_inst, "I3">>] = new_net
      /\ conn'[<<new_inst, "CIN">>] = new_net
      /\ \A f \in Control : conn'[<<new_inst, f>>] = None
  BY DEF Behind, OwnCell
<1>3. ASSUME NEW p \in DOMAIN conn', conn'[p] = new_net
      PROVE  p = <<Back, "COUT">> \/ p \in {new_inst} \X {"CIN", "I3"}
  <2>1. CASE p \in {new_inst} \X LCPort
    <3>1. PICK f \in LCPort : p = <<new_inst, f>>
      BY <2>1
    <3>2. LastNet # new_net /\ None # new_net
      BY <1>1, CarryPorts, NetDrivers, NewIsNew, LCPortIs DEF Inv, LastNet, None
    <3>3. /\ conn[<<c, "I0">>] # new_net /\ conn[<<c, "I1">>] # new_net /\ conn[<<c, "CO">>] # new_net
      BY CarryPorts, NewIsNew DEF Inv, CarryPort
    <3>4. f \in {"I1", "I2", "COUT", "O"} => conn'[p] # new_net
      BY <3>1, <3>2, <3>3 DEF Behind, OwnCell, Gone
    <3>5. f \in Control => conn'[p] # new_net
      BY <1>2, <3>1, <3>2
    <3> QED BY <1>3, <3>1, <3>4, <3>5, LCPortIs
  <2>2. CASE p \in DOMAIN conn /\ p[1] # c
    BY <1>3, <2>2, NewIsNew DEF Behind, Inv
  <2> QED BY <2>1, <2>2 DEF Behind, OwnCell
<1>4. Fed(conn', Append(chain, new_inst))
  BY <1>1, <1>2, ExtendFed DEF Good
<1>5. Agree(conn', Append(chain, new_inst))
  BY <1>1, <1>2, ExtendAgree DEF Good
<1>6. Wired(conn', Append(chain, new_inst))
  <2>1. /\ \A p \in DOMAIN conn' : conn'[p] = conn'[<<chain[Len(chain)], "COUT">>] =>
              p = <<chain[Len(chain)], "COUT">> \/ p \in {new_inst} \X {"CIN", "I3"}
        /\ conn'[<<new_inst, "CIN">>] \in {None, conn'[<<chain[Len(chain)], "COUT">>]}
    BY <1>1, <1>2, <1>3
  <2> QED BY <1>1, <2>1, ExtendWired DEF Good
<1> QED BY <1>4, <1>5, <1>6 DEF Good

(* The cell that uses the last carry, above it or on its own.              *)
LEMMA ConsumerGood ==
  ASSUME Inv, pc = "tail", NEW l \in Consumers
  PROVE  Suits(l) => Good(conn, Append(chain, l))
<1>1. /\ l \in lcs \ Used /\ chain # <<>> /\ LastNet # None /\ conn[<<l, "I3">>] = LastNet
      /\ \A p \in DOMAIN conn : conn[p] = LastNet => p \in {<<Back, "COUT">>, <<l, "I3">>}
  BY ConsumerFacts
<1>2. /\ Good(conn, chain) /\ chain \in Seq(Nat) /\ l \in Nat /\ Back = chain[Len(chain)]
      /\ conn[<<Back, "COUT">>] = LastNet /\ conn[<<l, "CIN">>] = None
  BY <1>1, ChainIs DEF Inv, FedInv, ControlInv, WireInv, Good, LastNet
<1>3. Fed(conn, Append(chain, l))
  BY <1>1, <1>2, ExtendFed DEF Good
<1>4. Suits(l) => Agree(conn, Append(chain, l))
  BY <1>2, SuitsAgrees, ExtendAgree DEF Good
<1>5. Wired(conn, Append(chain, l))
  <2>1. /\ \A p \in DOMAIN conn : conn[p] = conn[<<chain[Len(chain)], "COUT">>] =>
              p = <<chain[Len(chain)], "COUT">> \/ p \in {l} \X {"CIN", "I3"}
        /\ conn[<<l, "CIN">>] \in {None, conn[<<chain[Len(chain)], "COUT">>]}
    BY <1>1, <1>2
  <2> QED BY <1>1, <1>2, <2>1, ExtendWired DEF Good
<1> QED BY <1>3, <1>4, <1>5 DEF Good

LEMMA BrokenGood ==
  ASSUME Inv, pc = "tail", NEW l \in Consumers, Passed
  PROVE  Good(conn', <<l>>)
<1>1. /\ l \in lcs \ Used /\ chain # <<>> /\ LastNet # None /\ conn[<<l, "I3">>] = LastNet /\ l \in Nat
  BY ConsumerFacts, ChainIs
<1>2. /\ <<Back, "COUT">> \in DOMAIN conn /\ conn[<<Back, "COUT">>] = LastNet
      /\ \A p \in DOMAIN conn : p[2] \in Driver /\ conn[p] = LastNet => p = <<Back, "COUT">>
  BY <1>1, LastDriver
<1>3. conn'[<<l, "I3">>] = LastNet /\ conn'[<<l, "CIN">>] = None
  <2>1. /\ <<l, "I3">> \in DOMAIN conn /\ <<l, "CIN">> \in DOMAIN conn
        /\ <<l, "I3">> # <<Back, "COUT">> /\ <<l, "CIN">> # <<Back, "COUT">>
    BY <1>1, CarryPorts, LCPortIs DEF Inv
  <2> QED BY <1>1, <2>1 DEF Passed, Inv, FedInv
<1>4. ASSUME NEW p \in DOMAIN conn', p[2] \in {"COUT", "CO"} PROVE conn'[p] # LastNet
  <2>1. CASE p \in {new_inst} \X LCPort
    <3>1. p = <<new_inst, "COUT">>
      BY <1>4, <2>1, LCPortIs DEF Control
    <3> QED BY <1>1, <3>1, LCPortIs DEF Passed
  <2>2. CASE p \in DOMAIN conn
    <3>1. CASE p = <<Back, "COUT">>
      BY <1>2, <3>1, NewIsNew DEF Passed, Inv
    <3>2. CASE p # <<Back, "COUT">>
      BY <1>2, <1>4, <2>2, <3>2 DEF Passed, Driver
    <3> QED BY <3>1, <3>2
  <2> QED BY <2>1, <2>2 DEF Passed
<1>5. <<l>> = Append(<<>>, l) /\ <<>> \in Seq(Nat)
  BY <1>1
<1>6. Fed(conn', Append(<<>>, l))
  BY <1>1, <1>3, <1>4, <1>5, EmptyIsGood, ExtendFed DEF Good
<1>7. Agree(conn', Append(<<>>, l))
  <2>1. Agree(conn', <<>>) /\ DOMAIN (<<>>) = {}
    BY EmptyIsGood DEF Good
  <2> QED BY <1>1, <1>5, <2>1, ExtendAgree
<1>8. Wired(conn', Append(<<>>, l))
  BY <1>1, <1>3, <1>5, EmptyIsGood, ExtendWired DEF Good, Real
<1> QED BY <1>5, <1>6, <1>7, <1>8 DEF Good

-----------------------------------------------------------------------------
(* The cells that are used.                                                *)
LEMMA CellsAppend ==
  ASSUME NEW v \in Seq(Nat), NEW l \in Nat
  PROVE  CellsOf(Append(v, l)) = CellsOf(v) \cup {l} /\ CellsOf(<<>>) = {}
<1> DEFINE u == Append(v, l)
<1>1. /\ Len(v) \in Nat /\ DOMAIN v = 1 .. Len(v) /\ DOMAIN u = 1 .. Len(v) + 1
      /\ u[Len(v) + 1] = l /\ \A j \in 1 .. Len(v) : u[j] = v[j]
  BY AppendIs
<1> HIDE DEF u
<1>2. Len(v) + 1 \in DOMAIN u /\ DOMAIN u = DOMAIN v \cup {Len(v) + 1}
  BY <1>1
<1>3. CellsOf(u) = CellsOf(v) \cup {l}
  BY <1>1, <1>2 DEF CellsOf
<1>4. CellsOf(<<>>) = {}
  BY DEF CellsOf
<1> QED BY <1>3, <1>4 DEF u

LEMMA UsedIs ==
  ASSUME Inv
  PROVE  /\ Used = (UNION {CellsOf(v) : v \in AllChains}) \cup CellsOf(chain)
         /\ \A v \in {chains[i] : i \in DOMAIN chains} \cup {chain} : \A j \in DOMAIN v : v[j] \in Used
         /\ chains \in Seq(Seq(Nat)) /\ Distinct(Append(chains, chain)) /\ chain \in Seq(Nat)
<1>1. Used = (UNION {CellsOf(v) : v \in AllChains}) \cup CellsOf(chain)
  <2> HIDE DEF CellsOf
  <2> QED BY DEF Used, Lines
<1>2. \A v \in {chains[i] : i \in DOMAIN chains} \cup {chain} : \A j \in DOMAIN v : v[j] \in Used
  BY LinePorts DEF Lines, AllChains
<1> QED BY <1>1, <1>2 DEF Inv, PlacesInv, Started, LengthInv

LEMMA PlacesLonger ==
  ASSUME Inv, NEW l \in Nat, l \notin Used, chain' = Append(chain, l), chains' = chains,
         lcs \cup {l} \subseteq lcs',
         \A i \in DOMAIN packed' : \/ i \in DOMAIN packed /\ packed'[i] = packed[i]
                                   \/ i = c /\ packed'[i] = l
  PROVE  PlacesInv'
<1>1. Used' = Used \cup {l}
  BY LinesLonger
<1>2. Distinct(Started)'
  <2>1. Distinct(Append(chains, Append(chain, l)))
    <3>1. \A y \in {chains[i] : i \in DOMAIN chains} \cup {chain} : \A j \in DOMAIN y : y[j] # l
      BY UsedIs
    <3>2. chains \in Seq(Seq(Nat)) /\ Distinct(Append(chains, chain)) /\ chain \in Seq(Nat)
      BY UsedIs
    <3> QED BY <3>1, <3>2, DistinctExtend
  <2>2. Started' = Append(chains, Append(chain, l))
    BY DEF Started
  <2> QED BY <2>1, <2>2 DEF Distinct
<1>3. \A i, j \in DOMAIN packed' : packed'[i] = packed'[j] => i = j
  BY DEF Inv, PlacesInv
<1>4. Used' \subseteq lcs'
  BY <1>1 DEF Inv, PlacesInv
<1>5. \A i \in DOMAIN packed' : packed'[i] \in Used'
  BY <1>1 DEF Inv, PlacesInv
<1> QED BY <1>2, <1>3, <1>4, <1>5 DEF PlacesInv

LEMMA PlacesClosed ==
  ASSUME Inv, NEW u \in Seq(Nat), chains' = Append(chains, u), Distinct(Append(Append(chains, u), chain')),
         CellsOf(chain) \subseteq CellsOf(u), CellsOf(u) \cup CellsOf(chain') \subseteq lcs', lcs \subseteq lcs',
         packed' = packed
  PROVE  PlacesInv'
<1>1. /\ Used' = (UNION {CellsOf(v) : v \in AllChains}) \cup CellsOf(u) \cup CellsOf(chain')
      /\ Used = (UNION {CellsOf(v) : v \in AllChains}) \cup CellsOf(chain)
  BY LinesClosed, UsedIs
<1>2. Used \subseteq Used' /\ Used' \subseteq lcs'
  <2>1. Used \subseteq lcs
    BY DEF Inv, PlacesInv
  <2> HIDE DEF Used
  <2> QED BY <1>1, <2>1
<1>3. Distinct(Started)'
  <2>1. Started' = Append(Append(chains, u), chain')
    BY DEF Started
  <2> QED BY <2>1 DEF Distinct
<1>4. \A i, j \in DOMAIN packed' : packed'[i] = packed'[j] => i = j
  BY DEF Inv, PlacesInv
<1>5. \A i \in DOMAIN packed' : packed'[i] \in Used'
  BY <1>2 DEF Inv, PlacesInv
<1> QED BY <1>2, <1>3, <1>4, <1>5 DEF PlacesInv

-----------------------------------------------------------------------------
(* Tiles, and the control nets of the tile of the next cell.               *)
LEMMA SizeFacts ==
  TileSize \in Nat \ {0} /\ MaxChain \in Int /\ MaxChain > 2
<1>1. Height \in Nat /\ TileSize \in Nat /\ (Height - 2) * TileSize > 2
  BY SizeAssumption
<1>2. TileSize # 0
  <2> SUFFICES ASSUME TileSize = 0 PROVE FALSE
    OBVIOUS
  <2>1. (Height - 2) * 0 = 0
    BY <1>1
  <2> QED BY <1>1, <2>1
<1> QED BY <1>1, <1>2 DEF MaxChain

LEMMA TileFacts ==
  ASSUME NEW n \in Nat, NEW j \in 1 .. n
  PROVE  /\ SameTile(j, n + 2) => SameTile(j, n + 1)
         /\ n % TileSize = 0 => ~SameTile(j, n + 1)
<1>1. \A a, b \in Nat : a <= b => a \div TileSize <= b \div TileSize
  BY SizeFacts
<1>2. \A a, b \in Nat : a < b /\ b % TileSize = 0 => a \div TileSize # b \div TileSize
  BY SizeFacts
<1>3. \A a \in Nat : a \div TileSize \in Nat
  BY SizeFacts
<1>4. j - 1 \in Nat /\ n \in Nat /\ n + 1 \in Nat /\ j - 1 < n /\ n + 1 - 1 = n /\ n + 2 - 1 = n + 1
  OBVIOUS
<1>5. SameTile(j, n + 2) => SameTile(j, n + 1)
  <2>1. (j - 1) \div TileSize <= n \div TileSize /\ n \div TileSize <= (n + 1) \div TileSize
    BY <1>1, <1>4
  <2>2. (j - 1) \div TileSize \in Nat /\ n \div TileSize \in Nat /\ (n + 1) \div TileSize \in Nat
    BY <1>3, <1>4
  <2> QED BY <1>4, <2>1, <2>2 DEF SameTile
<1>6. n % TileSize = 0 => ~SameTile(j, n + 1)
  BY <1>2, <1>4 DEF SameTile
<1> QED BY <1>5, <1>6

LEMMA ControlLonger ==
  ASSUME Inv, Kept, pc \in {"break", "carry", "tail"}, NEW l \in Nat,
         \A f \in Control : /\ control[f] # None => control'[f] = control[f]
                            /\ conn'[<<l, f>>] # None => control'[f] = conn'[<<l, f>>],
         NEW v, v = Append(chain, l)
  PROVE  \A j \in DOMAIN v, f \in Control :
           SameTile(j, Len(v) + 1) /\ conn'[<<v[j], f>>] # None => control'[f] = conn'[<<v[j], f>>]
<1> SUFFICES ASSUME NEW j \in DOMAIN v, NEW f \in Control,
                    SameTile(j, Len(v) + 1), conn'[<<v[j], f>>] # None
             PROVE  control'[f] = conn'[<<v[j], f>>]
  OBVIOUS
<1>1. /\ Len(v) = Len(chain) + 1 /\ DOMAIN chain = 1 .. Len(chain) /\ Len(chain) \in Nat
      /\ DOMAIN v = 1 .. Len(chain) + 1
      /\ v[Len(chain) + 1] = l /\ \A k \in 1 .. Len(chain) : v[k] = chain[k]
  BY AppendIs, ChainIs
<1>2. CASE j = Len(chain) + 1
  BY <1>1, <1>2
<1>3. CASE j \in 1 .. Len(chain)
  <2>1. SameTile(j, Len(chain) + 1)
    <3>1. Len(v) + 1 = Len(chain) + 2
      BY <1>1
    <3> QED BY <1>1, <1>3, <3>1, TileFacts
  <2>2. conn'[<<chain[j], f>>] = conn[<<chain[j], f>>] /\ v[j] = chain[j]
    <3>1. chain \in Lines /\ j \in DOMAIN chain
      BY <1>1, <1>3, ChainIs
    <3>2. v[j] = chain[j]
      BY <1>1, <1>3
    <3>3. conn'[<<chain[j], f>>] = conn[<<chain[j], f>>]
      BY <3>1 DEF Kept
    <3> QED BY <3>2, <3>3
  <2>3. control[f] = conn[<<chain[j], f>>]
    BY <1>1, <1>3, <2>1, <2>2 DEF Inv, ControlInv
  <2> QED BY <2>2, <2>3
<1>4. j = Len(chain) + 1 \/ j \in 1 .. Len(chain)
  BY <1>1
<1> QED BY <1>2, <1>3, <1>4

-----------------------------------------------------------------------------
(* A carry is packed: which carries are ready, and how the loop goes on.   *)
LEMMA PackedCarries ==
  ASSUME Inv, pc = "carry", NEW l, Followed(l), Gone(l),
         \A i \in carries \ {c} : conn'[<<i, "CI">>] = conn[<<i, "CI">>] /\ conn'[<<i, "CO">>] = conn[<<i, "CO">>]
  PROVE  CarriesInv'
<1>1. /\ c \in carries /\ c \notin ready /\ \A d \in carries : ~Feeds(d, c)
      /\ carries' = carries \ {c} /\ design' = design
      /\ \A i \in carries \ {c} : i \in ready <=> \A d \in carries : ~Feeds(d, i)
      /\ \A i \in carries : conn[<<i, "CO">>] = design.conn[<<i, "CO">>]
      /\ \A i \in carries \ {c} : conn[<<i, "CI">>] = design.conn[<<i, "CI">>]
  BY DEF Inv, CarriesInv, Current, Gone, Followed
<1>2. \A i : i \in Followers <=> i \in carries \ {c} /\ Feeds(c, i)
  BY <1>1 DEF Followers, Feeds
<1>3. \A d \in carries : \A i : Feeds(d, i) /\ Feeds(c, i) => d = c
  <2>1. \A d \in carries : <<d, "CO">> \in DOMAIN conn /\ <<d, "CO">>[2] \in Driver
    BY CarryPorts DEF Inv, CarryPort, Driver
  <2> SUFFICES ASSUME NEW d \in carries, NEW i, Feeds(d, i), Feeds(c, i) PROVE d = c
    OBVIOUS
  <2>2. conn[<<d, "CO">>] = conn[<<c, "CO">>] /\ conn[<<c, "CO">>] # None
    BY <1>1 DEF Feeds
  <2>3. <<d, "CO">> = <<c, "CO">>
    BY <1>1, <2>1, <2>2, NetDrivers DEF Inv
  <2> QED BY <2>3
<1>4. /\ \A d, i : Feeds(d, i)' <=> Feeds(d, i)
      /\ pc' \in {"break", "tail", "end"}
      /\ (Followers # {} <=> pc' = "break") /\ (Followers # {} => c' \in Followers)
      /\ ready' = ready \cup (Followers \ {c'})
  BY <1>1 DEF Feeds, Followed
<1>5. Followers \cap ready = {}
  BY <1>1, <1>2
<1>6. Current' = IF Followers # {} THEN {c'} ELSE {}
  BY <1>4 DEF Current
<1>7. ready' \cup Current' = ready \cup Followers
  BY <1>4, <1>6
<1>8. ready' \subseteq carries' /\ Current' \subseteq carries' \ ready'
  <2>1. ready \subseteq carries
    BY DEF Inv, CarriesInv
  <2> QED BY <1>1, <1>2, <1>4, <1>5, <1>6, <2>1
<1>9. ASSUME NEW i \in carries' PROVE i \in ready' \cup Current' <=> \A d \in carries' : ~Feeds(d, i)'
  <2>1. i \in carries /\ i # c
    BY <1>1
  <2>2. CASE Feeds(c, i)
    <3>1. i \in Followers /\ \A d \in carries' : ~Feeds(d, i)
      BY <1>1, <1>2, <1>3, <2>1, <2>2
    <3> QED BY <1>4, <1>7, <3>1
  <2>3. CASE ~Feeds(c, i)
    <3>1. i \notin Followers
      BY <1>2, <2>3
    <3>2. (\A d \in carries : ~Feeds(d, i)) <=> \A d \in carries' : ~Feeds(d, i)
      BY <1>1, <2>3
    <3> QED BY <1>1, <1>4, <1>7, <2>1, <3>1, <3>2
  <2> QED BY <2>2, <2>3
<1>10. \A i \in carries' : /\ conn'[<<i, "CO">>] = design'.conn[<<i, "CO">>]
                           /\ conn'[<<i, "CI">>] = design'.conn[<<i, "CI">>]
  BY <1>1
<1>11. design' \in Designs /\ carries' \subseteq design'.carries /\ DOMAIN packed' = design'.carries \ carries'
  BY <1>1 DEF Inv, CarriesInv, Gone
<1>12. pc' # "carry" /\ pc' # "collect" /\ pc' # "packed" /\ pc' # "failed"
  BY <1>4
<1> QED BY <1>8, <1>9, <1>10, <1>11, <1>12 DEF CarriesInv

LEMMA PackedLoop ==
  ASSUME Inv, pc = "carry", NEW l \in Nat, Followed(l), conn'[<<l, "COUT">>] = conn[<<c, "CO">>],
         \A i \in carries \ {c} : conn'[<<i, "CI">>] = conn[<<i, "CI">>],
         control' \in [Control -> Nat]
  PROVE  LoopInv' /\ LengthInv'
<1>1. /\ pc' \in {"break", "tail", "end"}
      /\ pc' \in {"break", "tail"} => conn[<<c, "CO">>] # None
      /\ pc' = "end" => conn[<<c, "CO">>] = None
      /\ pc' = "break" => c' \in carries \ {c} /\ conn[<<c', "CI">>] = conn[<<c, "CO">>]
      /\ chain' = Append(chain, l) /\ out_conn' = conn[<<c, "CO">>] /\ chains' = chains
  BY DEF Followed, Followers
<1>2. /\ chain' \in Seq(Nat) /\ chain' # <<>> /\ Len(chain') = Len(chain) + 1
      /\ chain'[Len(chain')] = l /\ Len(chain) \in Nat
  BY <1>1, AppendIs, ChainIs
<1>3. LastNet' = conn[<<c, "CO">>]
  BY <1>2 DEF LastNet, Back
<1>4. pc' = "break" => in_conn' = conn[<<c, "CO">>]
  BY <1>1 DEF in_conn
<1>5. LoopInv'
  BY <1>1, <1>2, <1>3, <1>4 DEF LoopInv
<1>6. /\ Len(chain) < MaxChain /\ (conn[<<c, "CO">>] # None => Len(chain) < MaxChain - 1)
      /\ chains' \in Seq(Seq(Nat)) /\ AllChains' = AllChains /\ \A v \in AllChains : v # <<>> /\ Len(v) <= MaxChain
  BY <1>1 DEF Inv, LengthInv, AllChains
<1>7. LengthInv'
  <2>1. Len(chain') <= MaxChain /\ (conn[<<c, "CO">>] # None => Len(chain') < MaxChain)
    BY <1>2, <1>6, SizeFacts
  <2>2. \A v \in AllChains' : v # <<>> /\ Len(v) <= MaxChain
    BY <1>6
  <2>3. pc' \in {"break", "tail"} => Len(chain') < MaxChain
    BY <1>1, <2>1
  <2>4. pc' # "carry"
    BY <1>1
  <2> QED BY <1>2, <1>6, <2>1, <2>2, <2>3, <2>4 DEF LengthInv
<1> QED BY <1>5, <1>7

LEMMA LoopsKept ==
  ASSUME Inv, design' = design,
         \/ carries' = carries
         \/ pc = "carry" /\ carries' = carries \ {c}
  PROVE  LoopsInv'
<1>1. \A d, i : Feeds(d, i)' <=> Feeds(d, i)
  BY DEF Feeds
<1>2. ASSUME NEW S \in (SUBSET design.carries) \ {{}}, \A i \in S : \E d \in S : Feeds(d, i)
      PROVE  S \subseteq carries'
  <2>1. S \subseteq carries
    BY <1>2 DEF Inv, LoopsInv
  <2>2. CASE pc = "carry" /\ carries' = carries \ {c}
    <3>1. \A d \in carries : ~Feeds(d, c)
      BY <2>2 DEF Inv, CarriesInv, Current
    <3> QED BY <1>2, <2>1, <2>2, <3>1
  <2> QED BY <2>1, <2>2
<1> QED BY <1>1, <1>2 DEF LoopsInv

(* The lines after the chain has grown by a cell.                          *)
LEMMA LongerLines ==
  ASSUME Inv, Kept, NEW l \in Nat, chain' = Append(chain, l), chains' = chains, Good(conn', Append(chain, l))
  PROVE  /\ \A v \in Lines' : Good(conn', v)
         /\ \A v \in AllChains' : conn'[<<v[Len(v)], "COUT">>] = None
         /\ Used' = Used \cup {l}
<1>1. /\ AllChains' = AllChains /\ Lines' = AllChains \cup {Append(chain, l)}
      /\ Used' = Used \cup {l}
  BY LinesLonger
<1>2. /\ \A v \in Lines : Good(conn', v)
      /\ \A v \in AllChains : conn'[<<v[Len(v)], "COUT">>] = None
      /\ AllChains \subseteq Lines
  BY GoodLines DEF Lines
<1> QED BY <1>1, <1>2

LEMMA GoodParts ==
  ASSUME NEW w, NEW v, Good(w, v)
  PROVE  Fed(w, v) /\ Agree(w, v) /\ Wired(w, v)
BY DEF Good

LEMMA LongerParts ==
  ASSUME Inv, Kept, NEW l \in Nat, chain' = Append(chain, l), chains' = chains, Good(conn', Append(chain, l)),
         \A x \in lcs' \ (Used \cup {l}) : conn'[<<x, "CIN">>] = None /\ conn'[<<x, "COUT">>] = None,
         pc' \in {"break", "carry", "tail"} =>
           \A j \in DOMAIN chain', f \in Control :
             SameTile(j, Len(chain') + 1) /\ conn'[<<chain'[j], f>>] # None => control'[f] = conn'[<<chain'[j], f>>]
  PROVE  FedInv' /\ ControlInv' /\ WireInv'
<1>1. /\ \A v \in Lines' : Good(conn', v)
      /\ \A v \in AllChains' : conn'[<<v[Len(v)], "COUT">>] = None
      /\ Used' = Used \cup {l}
  BY LongerLines
<1>2. /\ \A v \in Lines' : Fed(conn', v)
      /\ \A v \in Lines' : Agree(conn', v)
      /\ \A v \in Lines' : Wired(conn', v)
  BY <1>1, GoodParts
<1>3. FedInv'
  BY <1>1, <1>2 DEF FedInv
<1>4. ControlInv'
  BY <1>2 DEF ControlInv
<1>5. WireInv'
  BY <1>1, <1>2 DEF WireInv
<1> QED BY <1>3, <1>4, <1>5

-----------------------------------------------------------------------------
(* Every step preserves the invariant.                                     *)
LEMMA WithLCStep ==
  ASSUME Inv, PackWithLC
  PROVE  Inv'
<1>1. PICK l \in CarryLCs : Suits(l) /\ TakeControl(l) /\ PackInto(conn, l)
  BY DEF PackWithLC
<1>2. pc = "carry" /\ UNCHANGED <<lcs, new_inst, new_net, bridges>>
  BY DEF PackWithLC
<1>3. c \in carries
  BY <1>2 DEF Inv, CarriesInv, Current
<1>4. l \in lcs \ Used /\ chain # <<>> /\ l \in Nat
  BY <1>2, <1>3, CarryLCFacts, ChainIs
<1>5. conn[<<c, "CO">>] # None => in_conn # conn[<<c, "CO">>]
  BY <1>2, <1>3, NotFedByItself, ChainIs DEF Inv
<1>6. Joined(l) /\ Followed(l)
  BY <1>1, <1>2, <1>3, <1>4, <1>5, JoinedEffect DEF Inv
<1>7. Kept /\ Good(conn', Append(chain, l))
  BY <1>1, <1>2, <1>3, <1>4, <1>5, <1>6, JoinedKept, JoinedGood
<1>8. NetInv'
  BY <1>3, <1>4, <1>6, JoinedNet
<1>9. /\ Gone(l) /\ chain' = Append(chain, l) /\ chains' = chains /\ design' = design /\ lcs' = lcs
      /\ carries' = carries \ {c} /\ conn'[<<l, "COUT">>] = conn[<<c, "CO">>]
  BY <1>2, <1>6 DEF Joined, Followed, Gone
<1>10. \A i \in carries \ {c} : conn'[<<i, "CI">>] = conn[<<i, "CI">>] /\ conn'[<<i, "CO">>] = conn[<<i, "CO">>]
  <2> TAKE i \in carries \ {c}
  <2>1. <<i, "CI">> \in DOMAIN conn /\ <<i, "CO">> \in DOMAIN conn /\ <<i, "CI">>[1] # c /\ <<i, "CO">>[1] # c
    BY CarryPorts DEF Inv, CarryPort
  <2>2. <<i, "CI">> \notin {<<l, "CIN">>, <<l, "COUT">>} /\ <<i, "CO">> \notin {<<l, "CIN">>, <<l, "COUT">>}
    OBVIOUS
  <2> QED BY <1>6, <2>1, <2>2 DEF Joined
<1>11. control' \in [Control -> Nat]
  <2>1. \A f \in Control : conn[<<l, f>>] \in Nat
    BY <1>4, CarryPorts, NetDrivers, LCPortIs DEF Inv
  <2> QED BY <1>1, <2>1 DEF TakeControl, Inv, LoopInv
<1>12. LoopInv' /\ LengthInv'
  BY <1>2, <1>4, <1>6, <1>9, <1>10, <1>11, PackedLoop
<1>13. CarriesInv'
  BY <1>2, <1>6, <1>9, <1>10, PackedCarries
<1>14. PlacesInv'
  BY <1>4, <1>9, PlacesLonger DEF Gone
<1>15. \A x \in lcs' \ (Used \cup {l}) : conn'[<<x, "CIN">>] = None /\ conn'[<<x, "COUT">>] = None
  <2> TAKE x \in lcs' \ (Used \cup {l})
  <2>1. x \in lcs \ Used /\ x # l /\ x # c
    BY <1>3, <1>9 DEF Inv, NetInv
  <2>2. /\ <<x, "CIN">> \in DOMAIN conn /\ <<x, "COUT">> \in DOMAIN conn
        /\ conn[<<x, "CIN">>] = None /\ conn[<<x, "COUT">>] = None
    BY <2>1, CarryPorts, LCPortIs DEF Inv, FedInv
  <2>3. /\ <<x, "CIN">>[1] # c /\ <<x, "CIN">> # <<l, "CIN">> /\ <<x, "CIN">> # <<l, "COUT">>
        /\ <<x, "COUT">>[1] # c /\ <<x, "COUT">> # <<l, "CIN">> /\ <<x, "COUT">> # <<l, "COUT">>
    BY <2>1
  <2> QED BY <1>6, <2>2, <2>3 DEF Joined
<1>16. \A f \in Control : /\ control[f] # None => control'[f] = control[f]
                          /\ conn'[<<l, f>>] # None => control'[f] = conn'[<<l, f>>]
  <2> TAKE f \in Control
  <2>1. <<l, f>> \in DOMAIN conn /\ <<l, f>>[1] # c /\ <<l, f>> # <<l, "CIN">> /\ <<l, f>> # <<l, "COUT">>
    BY <1>3, <1>4, CarryPorts, LCPortIs DEF Inv, NetInv, Control
  <2>2. conn'[<<l, f>>] = conn[<<l, f>>]
    BY <1>6, <2>1 DEF Joined
  <2> QED BY <1>1, <2>2 DEF Suits, TakeControl
<1>17. \A j \in DOMAIN chain', f \in Control :
         SameTile(j, Len(chain') + 1) /\ conn'[<<chain'[j], f>>] # None => control'[f] = conn'[<<chain'[j], f>>]
  <2>1. pc \in {"break", "carry", "tail"} /\ l \in Nat /\ Kept
    BY <1>2, <1>4, <1>7
  <2>2. chain' = Append(chain, l)
    BY <1>9
  <2>3. \A v : v = Append(chain, l) =>
          \A j \in DOMAIN v, f \in Control :
            SameTile(j, Len(v) + 1) /\ conn'[<<v[j], f>>] # None => control'[f] = conn'[<<v[j], f>>]
    BY <1>16, <2>1, ControlLonger
  <2> QED BY <2>2, <2>3, SMTT(30)
<1>18. FedInv' /\ ControlInv' /\ WireInv'
  BY <1>4, <1>7, <1>9, <1>15, <1>17, LongerParts
<1>19. LoopsInv'
  BY <1>2, <1>9, LoopsKept
<1> QED BY <1>8, <1>12, <1>13, <1>14, <1>18, <1>19 DEF Inv

LEMMA AloneStep ==
  ASSUME Inv, PackAlone
  PROVE  Inv'
<1>1. pc = "carry" /\ lcs' = lcs \cup {new_inst} /\ NextInst /\ UNCHANGED control
  BY DEF PackAlone, NextInst
<1>2. c \in carries
  BY <1>1 DEF Inv, CarriesInv, Current
<1>3. conn[<<c, "CO">>] # None => in_conn # conn[<<c, "CO">>]
  BY <1>1, <1>2, NotFedByItself, ChainIs DEF Inv
<1>4. /\ OwnCell /\ Followed(new_inst) /\ Kept /\ Good(conn', Append(chain, new_inst)) /\ NetInv'
      /\ \A p \in DOMAIN conn : p[1] # c /\ (chain # <<>> => p # <<Back, "COUT">>) => conn'[p] = conn[p]
  <2>1. CASE CarryIsOurs
    <3>1. PackInto(WithLC(conn, new_inst, Operands), new_inst) /\ UNCHANGED <<bridges, new_net>>
      BY <2>1 DEF PackAlone
    <3>2. Alone /\ Followed(new_inst)
      BY <1>1, <1>2, <1>3, <3>1, AloneEffect DEF Inv
    <3>3. Kept /\ Good(conn', Append(chain, new_inst)) /\ NetInv'
      BY <1>1, <1>2, <1>3, <2>1, <3>2, AloneKept, AloneGood, AloneNet
    <3>4. \A p \in DOMAIN conn : p[1] # c /\ (chain # <<>> => p # <<Back, "COUT">>) => conn'[p] = conn[p]
      BY <3>2 DEF Alone
    <3>5. OwnCell /\ Followed(new_inst) /\ Kept /\ Good(conn', Append(chain, new_inst)) /\ NetInv'
      BY <3>2, <3>3 DEF Alone
    <3> QED BY <3>4, <3>5
  <2>2. CASE ~CarryIsOurs
    <3>1. chain # <<>> /\ Back \in lcs
      BY <1>1, <2>2, ChainIs DEF Inv, LoopInv, CarryIsOurs, Real
    <3>2. /\ PackInto([PassThrough(conn, Back, new_inst, Operands) EXCEPT ![<<c, "CI">>] = new_net], new_inst)
          /\ bridges' = bridges \cup {<<new_inst, "I3", "O">>} /\ NextNet
      BY <2>2 DEF PackAlone, NextNet
    <3>3. Behind /\ Followed(new_inst)
      BY <1>1, <1>2, <3>1, <3>2, BehindEffect DEF Inv
    <3>4. Kept /\ Good(conn', Append(chain, new_inst)) /\ NetInv'
      BY <1>2, <3>1, <3>3, BehindKept, BehindGood, BehindNet
    <3>5. \A p \in DOMAIN conn : p[1] # c /\ (chain # <<>> => p # <<Back, "COUT">>) => conn'[p] = conn[p]
      BY <3>1, <3>3 DEF Behind
    <3> QED BY <3>3, <3>4, <3>5 DEF Behind
  <2> QED BY <2>1, <2>2
<1>5. /\ Gone(new_inst) /\ chain' = Append(chain, new_inst) /\ chains' = chains /\ design' = design
      /\ carries' = carries \ {c} /\ conn'[<<new_inst, "COUT">>] = conn[<<c, "CO">>]
      /\ \A f \in Control : conn'[<<new_inst, f>>] = None
  BY <1>4 DEF OwnCell, Followed, Gone
<1>6. new_inst \in Nat /\ new_inst \notin Used /\ new_inst \notin lcs
  BY ChainIs
<1>7. \A i \in carries \ {c} : conn'[<<i, "CI">>] = conn[<<i, "CI">>] /\ conn'[<<i, "CO">>] = conn[<<i, "CO">>]
  <2> TAKE i \in carries \ {c}
  <2>1. <<i, "CI">> \in DOMAIN conn /\ <<i, "CO">> \in DOMAIN conn /\ <<i, "CI">>[1] # c /\ <<i, "CO">>[1] # c
    BY CarryPorts DEF Inv, CarryPort
  <2>2. <<i, "CI">> # <<Back, "COUT">> /\ <<i, "CO">> # <<Back, "COUT">>
    OBVIOUS
  <2> QED BY <1>4, <2>1, <2>2
<1>8. control' \in [Control -> Nat]
  BY <1>1 DEF Inv, LoopInv
<1>9. LoopInv' /\ LengthInv'
  BY <1>1, <1>4, <1>5, <1>6, <1>7, <1>8, PackedLoop
<1>10. CarriesInv'
  BY <1>1, <1>4, <1>5, <1>7, PackedCarries
<1>11. PlacesInv'
  BY <1>1, <1>5, <1>6, PlacesLonger DEF Gone
<1>12. \A x \in lcs' \ (Used \cup {new_inst}) : conn'[<<x, "CIN">>] = None /\ conn'[<<x, "COUT">>] = None
  <2> TAKE x \in lcs' \ (Used \cup {new_inst})
  <2>1. x \in lcs \ Used /\ x # c
    BY <1>1, <1>2 DEF Inv, NetInv
  <2>2. /\ <<x, "CIN">> \in DOMAIN conn /\ <<x, "COUT">> \in DOMAIN conn
        /\ conn[<<x, "CIN">>] = None /\ conn[<<x, "COUT">>] = None
    BY <2>1, CarryPorts, LCPortIs DEF Inv, FedInv
  <2>3. <<x, "CIN">>[1] # c /\ <<x, "COUT">>[1] # c /\ (chain # <<>> => x # Back)
    BY <2>1, ChainIs
  <2>4. chain # <<>> => <<x, "CIN">> # <<Back, "COUT">> /\ <<x, "COUT">> # <<Back, "COUT">>
    BY <2>3
  <2> QED BY <1>4, <2>2, <2>3, <2>4
<1>13. \A j \in DOMAIN chain', f \in Control :
         SameTile(j, Len(chain') + 1) /\ conn'[<<chain'[j], f>>] # None => control'[f] = conn'[<<chain'[j], f>>]
  <2>1. pc \in {"break", "carry", "tail"} /\ chain' = Append(chain, new_inst)
    BY <1>1, <1>5
  <2>2. \A f \in Control : /\ control[f] # None => control'[f] = control[f]
                           /\ conn'[<<new_inst, f>>] # None => control'[f] = conn'[<<new_inst, f>>]
    BY <1>1, <1>5
  <2> QED BY <1>4, <1>6, <2>1, <2>2, ControlLonger, SMTT(30)
<1>14. FedInv' /\ ControlInv' /\ WireInv'
  BY <1>4, <1>5, <1>6, <1>12, <1>13, LongerParts
<1>15. LoopsInv'
  BY <1>1, <1>5, LoopsKept
<1> QED BY <1>4, <1>9, <1>10, <1>11, <1>14, <1>15 DEF Inv

(* A step that changes neither the netlist nor the chains.                 *)
LEMMA StillParts ==
  ASSUME Inv, UNCHANGED <<design, netVars, chains, chain>>
  PROVE  /\ NetInv' /\ PlacesInv' /\ FedInv' /\ WireInv' /\ LoopsInv'
         /\ \A v \in Lines' : Agree(conn', v)
<1>1. /\ conn' = conn /\ lcs' = lcs /\ carries' = carries /\ new_inst' = new_inst /\ new_net' = new_net
      /\ packed' = packed /\ chains' = chains /\ chain' = chain /\ design' = design
  BY DEF netVars
<1>2. NetInv'
  BY <1>1 DEF Inv, NetInv
<1>3. Lines' = Lines /\ AllChains' = AllChains /\ Used' = Used /\ Started' = Started
  BY <1>1 DEF Lines, AllChains, Used, Started
<1>4. PlacesInv'
  BY <1>1, <1>3 DEF Inv, PlacesInv
<1>5. FedInv'
  BY <1>1, <1>3 DEF Inv, FedInv
<1>6. WireInv'
  BY <1>1, <1>3 DEF Inv, WireInv
<1>7. LoopsInv'
  BY <1>1, LoopsKept
<1>8. \A v \in Lines' : Agree(conn', v)
  BY <1>1, <1>3 DEF Inv, ControlInv
<1> QED BY <1>2, <1>4, <1>5, <1>6, <1>7, <1>8

LEMMA CollectStep ==
  ASSUME Inv, Collect
  PROVE  Inv'
<1>1. /\ pc = "collect" /\ pc' = "front" /\ carries' = carries /\ conn' = conn /\ packed' = packed
      /\ chains' = chains /\ chain' = chain /\ control' = control /\ design' = design
      /\ UNCHANGED <<design, netVars, chains, chain>>
  BY DEF Collect, netVars
<1>2. /\ NetInv' /\ PlacesInv' /\ FedInv' /\ WireInv' /\ LoopsInv'
      /\ \A v \in Lines' : Agree(conn', v)
  BY <1>1, StillParts
<1>3. LoopInv'
  BY <1>1 DEF Inv, LoopInv
<1>4. LengthInv'
  BY <1>1 DEF Inv, LengthInv, AllChains
<1>5. ControlInv'
  BY <1>1, <1>2 DEF ControlInv
<1>6. CarriesInv'
  <2>1. /\ \A d, i : Feeds(d, i)' <=> Feeds(d, i)
        /\ Current' = {} /\ ready = {} /\ carries = design.carries
        /\ \A i \in carries : conn[<<i, "CO">>] = design.conn[<<i, "CO">>] /\ conn[<<i, "CI">>] = design.conn[<<i, "CI">>]
    BY <1>1 DEF Inv, CarriesInv, Feeds, Current
  <2>2. ready' = {i \in carries : \A d \in carries : conn[<<d, "CO">>] = None \/ conn[<<d, "CO">>] # conn[<<i, "CI">>]}
    BY DEF Collect
  <2>3. \A i \in carries : i \in ready' <=> \A d \in carries : ~Feeds(d, i)
    BY <2>1, <2>2 DEF Feeds
  <2>4. ready' \subseteq carries'
    BY <1>1, <2>2
  <2>5. design' \in Designs /\ carries' \subseteq design'.carries /\ DOMAIN packed' = design'.carries \ carries'
    BY <1>1 DEF Inv, CarriesInv
  <2> QED BY <1>1, <2>1, <2>3, <2>4, <2>5 DEF CarriesInv
<1> QED BY <1>2, <1>3, <1>4, <1>5, <1>6 DEF Inv

LEMMA TakeReadyStep ==
  ASSUME Inv, TakeReady
  PROVE  Inv'
<1>1. /\ pc = "front" /\ pc' = "break" /\ carries' = carries /\ conn' = conn /\ packed' = packed
      /\ chains' = chains /\ chain' = chain /\ control' = NoControl /\ design' = design
      /\ UNCHANGED <<design, netVars, chains, chain>>
      /\ ready # {} /\ c' = Min(ready) /\ ready' = ready \ {c'}
  BY DEF TakeReady, netVars
<1>2. /\ NetInv' /\ PlacesInv' /\ FedInv' /\ WireInv' /\ LoopsInv'
      /\ \A v \in Lines' : Agree(conn', v)
  BY <1>1, StillParts
<1>3. chain = <<>> /\ Len(chain) = 0 /\ DOMAIN chain = {}
  <2>1. chain = <<>> /\ DOMAIN (<<>>) = {}
    BY <1>1 DEF Inv, LoopInv
  <2> QED BY <2>1
<1>4. control' \in [Control -> Nat]
  BY <1>1 DEF NoControl, None
<1>5. LoopInv'
  BY <1>1, <1>3, <1>4 DEF LoopInv
<1>6. LengthInv'
  BY <1>1, <1>3, SizeFacts DEF Inv, LengthInv, AllChains
<1>7. ControlInv'
  BY <1>1, <1>2, <1>3 DEF ControlInv
<1>8. CarriesInv'
  <2>1. /\ \A d, i : Feeds(d, i)' <=> Feeds(d, i)
        /\ Current' = {c'} /\ Current = {} /\ ready \subseteq carries
        /\ \A i \in carries : i \in ready <=> \A d \in carries : ~Feeds(d, i)
    BY <1>1 DEF Inv, CarriesInv, Feeds, Current
  <2>2. c' \in ready
    <3>1. ready \in SUBSET Nat
      BY <2>1, CarryPorts DEF Inv
    <3> QED BY <1>1, <3>1, MinProperty
  <2>3. \A i \in carries : i \in ready' \cup Current' <=> \A d \in carries : ~Feeds(d, i)
    BY <1>1, <2>1, <2>2
  <2>4. ready' \subseteq carries' /\ Current' \subseteq carries' \ ready'
    BY <1>1, <2>1, <2>2
  <2>5. design' \in Designs /\ carries' \subseteq design'.carries /\ DOMAIN packed' = design'.carries \ carries'
    BY <1>1 DEF Inv, CarriesInv
  <2>6. \A i \in carries : conn[<<i, "CO">>] = design.conn[<<i, "CO">>] /\ conn[<<i, "CI">>] = design.conn[<<i, "CI">>]
    BY <1>1 DEF Inv, CarriesInv
  <2> QED BY <1>1, <2>1, <2>3, <2>4, <2>5, <2>6 DEF CarriesInv
<1> QED BY <1>2, <1>5, <1>6, <1>7, <1>8 DEF Inv

LEMMA FinishStep ==
  ASSUME Inv, Finish
  PROVE  Inv'
<1>1. /\ pc = "front" /\ pc' = (IF carries = {} THEN "packed" ELSE "failed")
      /\ carries' = carries /\ conn' = conn /\ packed' = packed
      /\ chains' = chains /\ chain' = chain /\ control' = control /\ design' = design
      /\ UNCHANGED <<design, netVars, chains, chain>> /\ ready = {} /\ ready' = ready
  BY DEF Finish, netVars
<1>2. /\ NetInv' /\ PlacesInv' /\ FedInv' /\ WireInv' /\ LoopsInv'
      /\ \A v \in Lines' : Agree(conn', v)
  BY <1>1, StillParts
<1>3. LoopInv'
  BY <1>1 DEF Inv, LoopInv
<1>4. LengthInv'
  BY <1>1 DEF Inv, LengthInv, AllChains
<1>5. ControlInv'
  BY <1>1, <1>2 DEF ControlInv
<1>6. CarriesInv'
  <2>1. /\ \A d, i : Feeds(d, i)' <=> Feeds(d, i)
        /\ Current' = {} /\ Current = {}
    BY <1>1 DEF Feeds, Current
  <2> QED BY <1>1, <2>1 DEF Inv, CarriesInv
<1> QED BY <1>2, <1>3, <1>4, <1>5, <1>6 DEF Inv

LEMMA ContinueStep ==
  ASSUME Inv, ContinueChain
  PROVE  Inv'
<1>1. /\ pc = "break" /\ ~TooLong /\ carries' = carries /\ conn' = conn /\ packed' = packed
      /\ chains' = chains /\ chain' = chain /\ design' = design /\ c' = c /\ ready' = ready
      /\ UNCHANGED <<design, netVars, chains, chain>>
      /\ control' = IF Len(chain) % TileSize = 0 THEN NoControl ELSE control
      /\ pc' = IF chain = <<>> /\ Real(in_conn) THEN "carryin" ELSE "carry"
  BY DEF ContinueChain, Begin, netVars, Real
<1>2. /\ NetInv' /\ PlacesInv' /\ FedInv' /\ WireInv' /\ LoopsInv'
      /\ \A v \in Lines' : Agree(conn', v)
  BY <1>1, StillParts
<1>3. in_conn' = in_conn /\ LastNet' = LastNet
  BY <1>1 DEF in_conn, LastNet, Back
<1>4. control' \in [Control -> Nat]
  BY <1>1 DEF NoControl, None, Inv, LoopInv
<1>5. LoopInv'
  BY <1>1, <1>3, <1>4 DEF Inv, LoopInv
<1>6. LengthInv'
  <2>1. Len(chain) < MaxChain /\ Len(chain) \in Nat /\ MaxChain \in Int
    BY <1>1, SizeFacts, ChainIs DEF Inv, LengthInv
  <2>2. conn[<<c, "CO">>] # None => Len(chain) < MaxChain - 1
    BY <1>1, <2>1 DEF TooLong
  <2>3. pc' \in {"carryin", "carry"}
    BY <1>1
  <2> QED BY <1>1, <2>1, <2>2, <2>3 DEF Inv, LengthInv, AllChains
<1>7. ControlInv'
  <2>1. ASSUME NEW j \in DOMAIN chain, NEW f \in Control,
               SameTile(j, Len(chain) + 1), conn[<<chain[j], f>>] # None
        PROVE  control'[f] = conn[<<chain[j], f>>]
    <3>1. Len(chain) % TileSize # 0
      BY <2>1, TileFacts, ChainIs
    <3> QED BY <1>1, <2>1, <3>1 DEF Inv, ControlInv
  <2> QED BY <1>1, <1>2, <2>1 DEF ControlInv
<1>8. CarriesInv'
  <2>1. /\ \A d, i : Feeds(d, i)' <=> Feeds(d, i)
        /\ Current' = {c} /\ Current = {c}
    BY <1>1 DEF Feeds, Current
  <2>2. pc' \in {"carryin", "carry"}
    BY <1>1
  <2> QED BY <1>1, <2>1, <2>2 DEF Inv, CarriesInv
<1> QED BY <1>2, <1>5, <1>6, <1>7, <1>8 DEF Inv

LEMMA StoppedStep ==
  ASSUME Inv, UNCHANGED vars
  PROVE  Inv'
<1>1. /\ UNCHANGED <<design, netVars, chains, chain>>
      /\ pc' = pc /\ carries' = carries /\ conn' = conn /\ packed' = packed /\ ready' = ready /\ c' = c
      /\ chains' = chains /\ chain' = chain /\ control' = control /\ design' = design /\ out_conn' = out_conn
  BY DEF vars, netVars
<1>2. /\ NetInv' /\ PlacesInv' /\ FedInv' /\ WireInv' /\ LoopsInv'
      /\ \A v \in Lines' : Agree(conn', v)
  BY <1>1, StillParts
<1>3. LoopInv'
  BY <1>1 DEF Inv, LoopInv, LastNet, Back, in_conn
<1>4. LengthInv'
  BY <1>1 DEF Inv, LengthInv, AllChains
<1>5. ControlInv'
  BY <1>1, <1>2 DEF Inv, ControlInv
<1>6. CarriesInv'
  <2>1. (\A d, i : Feeds(d, i)' <=> Feeds(d, i)) /\ Current' = Current
    BY <1>1 DEF Feeds, Current
  <2> QED BY <1>1, <2>1 DEF Inv, CarriesInv
<1> QED BY <1>2, <1>3, <1>4, <1>5, <1>6 DEF Inv

(* A step that packs no carry.                                             *)
LEMMA CarriesStill ==
  ASSUME Inv, UNCHANGED <<design, carries, ready, packed, c>>, Current' = Current,
         pc \notin {"collect", "carry"}, pc' \notin {"collect", "packed", "failed"},
         \A i \in carries : /\ conn'[<<i, "CO">>] = conn[<<i, "CO">>]
                            /\ pc' # "carry" \/ i # c => conn'[<<i, "CI">>] = conn[<<i, "CI">>]
  PROVE  CarriesInv'
<1>1. \A d, i : Feeds(d, i)' <=> Feeds(d, i)
  BY DEF Feeds
<1>2. \A i \in carries : conn[<<i, "CO">>] = design.conn[<<i, "CO">>] /\ conn[<<i, "CI">>] = design.conn[<<i, "CI">>]
  BY DEF Inv, CarriesInv
<1>3. \A i \in carries : i \in ready \cup Current <=> \A d \in carries : ~Feeds(d, i)
  BY DEF Inv, CarriesInv
<1>4. design \in Designs /\ carries \subseteq design.carries /\ ready \subseteq carries
      /\ Current \subseteq carries \ ready /\ DOMAIN packed = design.carries \ carries
  BY DEF Inv, CarriesInv
<1> QED BY <1>1, <1>2, <1>3, <1>4 DEF CarriesInv

(* A cell in no chain has no carries after a cell has passed one out.      *)
LEMMA PassedUnused ==
  ASSUME Inv, Passed, chain # <<>>
  PROVE  \A x \in lcs' \ (Used \cup {new_inst}) : conn'[<<x, "CIN">>] = None /\ conn'[<<x, "COUT">>] = None
<1> TAKE x \in lcs' \ (Used \cup {new_inst})
<1>1. x \in lcs \ Used /\ Back \in Used
  BY ChainIs DEF Passed
<1>2. /\ <<x, "CIN">> \in DOMAIN conn /\ <<x, "COUT">> \in DOMAIN conn
      /\ conn[<<x, "CIN">>] = None /\ conn[<<x, "COUT">>] = None
  BY <1>1, CarryPorts, LCPortIs DEF Inv, FedInv
<1>3. <<x, "CIN">> # <<Back, "COUT">> /\ <<x, "COUT">> # <<Back, "COUT">>
  BY <1>1
<1> QED BY <1>2, <1>3 DEF Passed

LEMMA PassedCarries ==
  ASSUME Inv, Passed
  PROVE  \A i \in carries : conn'[<<i, "CO">>] = conn[<<i, "CO">>] /\ conn'[<<i, "CI">>] = conn[<<i, "CI">>]
<1> TAKE i \in carries
<1>1. <<i, "CI">> \in DOMAIN conn /\ <<i, "CO">> \in DOMAIN conn
  BY CarryPorts DEF Inv, CarryPort
<1>2. <<i, "CI">> # <<Back, "COUT">> /\ <<i, "CO">> # <<Back, "COUT">>
  OBVIOUS
<1> QED BY <1>1, <1>2 DEF Passed

LEMMA CarryInStep ==
  ASSUME Inv, CarryIn
  PROVE  Inv'
<1>1. /\ pc = "carryin" /\ pc' = "carry" /\ chain' = <<new_inst>> /\ c' = c /\ control' = control
      /\ UNCHANGED <<design, carries, packed, ready, chains>> /\ lcs' = lcs \cup {new_inst}
  BY DEF CarryIn
<1>2. c \in carries /\ chain = <<>> /\ control \in [Control -> Nat]
  BY <1>1 DEF Inv, CarriesInv, LoopInv, Current
<1>3. Begun
  BY <1>2, BegunEffect DEF Inv
<1>4. /\ chain' = Append(chain, new_inst) /\ chain' \in Seq(Nat) /\ Len(chain') = 1 /\ chain'[1] = new_inst
      /\ DOMAIN chain' = {1} /\ new_inst \in Nat /\ new_inst \notin Used
  BY <1>1, <1>2, ChainIs
<1>5. Kept /\ Good(conn', Append(chain, new_inst)) /\ NetInv'
  BY <1>2, <1>3, BegunKept, BegunGood, BegunNet
<1>6. /\ \A f \in Control : conn'[<<new_inst, f>>] = None
      /\ conn'[<<c, "CI">>] = new_net /\ conn'[<<new_inst, "COUT">>] = new_net
      /\ \A p \in DOMAIN conn : p # <<c, "CI">> => conn'[p] = conn[p]
  BY <1>3 DEF Begun
<1>7. new_net \in Nat /\ new_net > 2
  BY NetDrivers DEF Inv
<1>8. in_conn' = new_net /\ LastNet' = new_net /\ new_net # None /\ chain' # <<>>
  BY <1>1, <1>4, <1>6, <1>7 DEF in_conn, LastNet, Back, None
<1>9. LoopInv'
  BY <1>1, <1>2, <1>8 DEF LoopInv
<1>10. LengthInv'
  BY <1>1, <1>4, SizeFacts DEF Inv, LengthInv, AllChains
<1>11. CarriesInv'
  <2>1. Current' = Current
    BY <1>1 DEF Current
  <2>2. \A i \in carries : conn'[<<i, "CO">>] = conn[<<i, "CO">>] /\ (i # c => conn'[<<i, "CI">>] = conn[<<i, "CI">>])
    <3> TAKE i \in carries
    <3>1. <<i, "CI">> \in DOMAIN conn /\ <<i, "CO">> \in DOMAIN conn
      BY CarryPorts DEF Inv, CarryPort
    <3> QED BY <1>6, <3>1
  <2> QED BY <1>1, <2>1, <2>2, CarriesStill
<1>12. PlacesInv'
  BY <1>1, <1>4, PlacesLonger
<1>13. \A x \in lcs' \ (Used \cup {new_inst}) : conn'[<<x, "CIN">>] = None /\ conn'[<<x, "COUT">>] = None
  <2> TAKE x \in lcs' \ (Used \cup {new_inst})
  <2>1. x \in lcs \ Used
    BY <1>1
  <2>2. /\ <<x, "CIN">> \in DOMAIN conn /\ <<x, "COUT">> \in DOMAIN conn
        /\ conn[<<x, "CIN">>] = None /\ conn[<<x, "COUT">>] = None
    BY <2>1, CarryPorts, LCPortIs DEF Inv, FedInv
  <2> QED BY <1>6, <2>2
<1>14. \A j \in DOMAIN chain', f \in Control : conn'[<<chain'[j], f>>] = None
  BY <1>4, <1>6
<1>15. FedInv' /\ ControlInv' /\ WireInv'
  BY <1>1, <1>4, <1>5, <1>13, <1>14, LongerParts
<1>16. LoopsInv'
  BY <1>1, LoopsKept
<1> QED BY <1>5, <1>9, <1>10, <1>11, <1>12, <1>15, <1>16 DEF Inv

LEMMA TailAppendStep ==
  ASSUME Inv, TailAppend
  PROVE  Inv'
<1>1. PICK l \in Consumers : Suits(l) /\ chain' = Append(chain, l)
  BY DEF TailAppend
<1>2. /\ pc = "tail" /\ pc' = "end" /\ chains' = chains /\ control' = control /\ conn' = conn /\ lcs' = lcs
      /\ new_inst' = new_inst /\ new_net' = new_net
      /\ UNCHANGED <<design, carries, ready, packed, c>>
  BY DEF TailAppend, netVars
<1>3. l \in lcs \ Used /\ chain # <<>> /\ l \in Nat
  BY <1>2, ConsumerFacts, ChainIs
<1>4. Kept
  BY <1>2 DEF Kept
<1>5. Good(conn', Append(chain, l))
  BY <1>1, <1>2, ConsumerGood
<1>6. NetInv'
  BY <1>2 DEF Inv, NetInv
<1>7. /\ Len(chain') = Len(chain) + 1 /\ chain'[Len(chain')] = l /\ chain' # <<>> /\ chain' \in Seq(Nat)
      /\ Len(chain) \in Nat
  BY <1>1, <1>3, AppendIs, ChainIs
<1>8. LastNet' = None
  <2>1. LastNet' = conn[<<l, "COUT">>]
    BY <1>2, <1>7 DEF LastNet, Back
  <2> QED BY <1>3, <2>1 DEF Inv, FedInv
<1>9. LoopInv'
  BY <1>2, <1>7, <1>8 DEF Inv, LoopInv
<1>10. LengthInv'
  <2>1. Len(chain) < MaxChain
    BY <1>2 DEF Inv, LengthInv
  <2>2. Len(chain') <= MaxChain
    BY <1>7, <2>1, SizeFacts
  <2> QED BY <1>2, <1>7, <2>2 DEF Inv, LengthInv, AllChains
<1>11. CarriesInv'
  <2>1. Current' = Current
    BY <1>2 DEF Current
  <2> QED BY <1>2, <2>1, CarriesStill
<1>12. PlacesInv'
  BY <1>1, <1>2, <1>3, PlacesLonger
<1>13. \A x \in lcs' \ (Used \cup {l}) : conn'[<<x, "CIN">>] = None /\ conn'[<<x, "COUT">>] = None
  BY <1>2 DEF Inv, FedInv
<1>14. FedInv' /\ ControlInv' /\ WireInv'
  BY <1>1, <1>2, <1>3, <1>4, <1>5, <1>13, LongerParts
<1>15. LoopsInv'
  BY <1>2, LoopsKept
<1> QED BY <1>6, <1>9, <1>10, <1>11, <1>12, <1>14, <1>15 DEF Inv

LEMMA TailPassThroughStep ==
  ASSUME Inv, TailPassThrough
  PROVE  Inv'
<1>1. /\ pc = "tail" /\ pc' = "end" /\ chain' = Append(chain, new_inst) /\ chains' = chains /\ control' = control
      /\ UNCHANGED <<design, carries, ready, packed, c>> /\ lcs' = lcs \cup {new_inst}
  BY DEF TailPassThrough
<1>2. chain # <<>>
  BY <1>1 DEF Inv, LoopInv
<1>3. /\ new_inst \in Nat /\ new_inst \notin Used /\ Back \in lcs
  BY <1>2, ChainIs
<1>4. Passed
  BY <1>1, <1>3, PassedEffect DEF Inv, TailPassThrough, NextInst, NextNet
<1>5. Kept /\ Good(conn', Append(chain, new_inst)) /\ conn'[<<new_inst, "COUT">>] = None /\ NetInv'
  BY <1>2, <1>4, PassedKept, PassedGood, PassedNet
<1>6. /\ Len(chain') = Len(chain) + 1 /\ chain'[Len(chain')] = new_inst /\ chain' # <<>> /\ chain' \in Seq(Nat)
      /\ Len(chain) \in Nat
  BY <1>1, <1>3, AppendIs, ChainIs
<1>7. LastNet' = None
  BY <1>5, <1>6 DEF LastNet, Back
<1>8. LoopInv'
  BY <1>1, <1>6, <1>7 DEF Inv, LoopInv
<1>9. LengthInv'
  <2>1. Len(chain) < MaxChain
    BY <1>1 DEF Inv, LengthInv
  <2>2. Len(chain') <= MaxChain
    BY <1>6, <2>1, SizeFacts
  <2> QED BY <1>1, <1>6, <2>2 DEF Inv, LengthInv, AllChains
<1>10. CarriesInv'
  <2>1. Current' = Current
    BY <1>1 DEF Current
  <2> QED BY <1>1, <1>4, <2>1, PassedCarries, CarriesStill
<1>11. PlacesInv'
  BY <1>1, <1>3, PlacesLonger
<1>12. FedInv' /\ ControlInv' /\ WireInv'
  BY <1>1, <1>2, <1>3, <1>4, <1>5, PassedUnused, LongerParts
<1>13. LoopsInv'
  BY <1>1, LoopsKept
<1> QED BY <1>5, <1>8, <1>9, <1>10, <1>11, <1>12, <1>13 DEF Inv

(* The parts about the chains after the chain u has been finished.         *)
LEMMA ClosedParts ==
  ASSUME Inv, Kept, NEW u \in Seq(Nat), chains' = Append(chains, u), Good(conn', u), Good(conn', chain'),
         conn'[<<u[Len(u)], "COUT">>] = None, CellsOf(chain) \subseteq CellsOf(u),
         \A x \in lcs' \ (Used \cup CellsOf(u) \cup CellsOf(chain')) :
           conn'[<<x, "CIN">>] = None /\ conn'[<<x, "COUT">>] = None,
         pc' \in {"break", "carry", "tail"} => DOMAIN chain' = {}
  PROVE  FedInv' /\ ControlInv' /\ WireInv'
<1>1. /\ AllChains' = AllChains \cup {u} /\ Lines' = AllChains \cup {u, chain'}
      /\ Used' = (UNION {CellsOf(v) : v \in AllChains}) \cup CellsOf(u) \cup CellsOf(chain')
  BY LinesClosed
<1>2. Used = (UNION {CellsOf(v) : v \in AllChains}) \cup CellsOf(chain)
  BY UsedIs
<1>3. \A v \in Lines' : Good(conn', v)
  BY <1>1, GoodLines DEF Lines
<1>4. \A v \in AllChains' : conn'[<<v[Len(v)], "COUT">>] = None
  BY <1>1, GoodLines
<1>5. /\ \A v \in Lines' : Fed(conn', v)
      /\ \A v \in Lines' : Agree(conn', v)
      /\ \A v \in Lines' : Wired(conn', v)
  BY <1>3, GoodParts
<1>6. \A x \in lcs' \ Used' : conn'[<<x, "CIN">>] = None /\ conn'[<<x, "COUT">>] = None
  <2>1. \A x : x \notin Used' => x \notin Used \cup CellsOf(u) \cup CellsOf(chain')
    <3> HIDE DEF Used
    <3> QED BY <1>1, <1>2
  <2> QED BY <2>1
<1>7. FedInv'
  BY <1>5, <1>6 DEF FedInv
<1>8. ControlInv'
  BY <1>5 DEF ControlInv
<1>9. WireInv'
  BY <1>4, <1>5 DEF WireInv
<1> QED BY <1>7, <1>8, <1>9

LEMMA EndChainStep ==
  ASSUME Inv, EndChain
  PROVE  Inv'
<1>1. /\ pc = "end" /\ pc' = "front" /\ chain' = <<>> /\ chains' = Append(chains, chain) /\ control' = control
      /\ conn' = conn /\ lcs' = lcs /\ new_inst' = new_inst /\ new_net' = new_net
      /\ UNCHANGED <<design, carries, ready, packed, c>>
  BY DEF EndChain, netVars
<1>2. /\ chain # <<>> /\ LastNet = None /\ chain \in Seq(Nat) /\ chains \in Seq(Seq(Nat)) /\ Back = chain[Len(chain)]
  BY <1>1, ChainIs DEF Inv, LoopInv, LengthInv
<1>3. Kept
  BY <1>1 DEF Kept
<1>4. Good(conn', chain) /\ Good(conn', chain') /\ conn'[<<chain[Len(chain)], "COUT">>] = None
  BY <1>1, <1>2, <1>3, GoodLines, ChainIs, EmptyIsGood DEF LastNet
<1>5. NetInv'
  BY <1>1 DEF Inv, NetInv
<1>6. LoopInv'
  BY <1>1 DEF Inv, LoopInv
<1>7. LengthInv'
  <2>1. AllChains' = AllChains \cup {chain}
    BY <1>1, <1>2, LinesClosed
  <2>2. Len(chain) <= MaxChain /\ \A v \in AllChains : v # <<>> /\ Len(v) <= MaxChain
    BY DEF Inv, LengthInv
  <2>3. chains' \in Seq(Seq(Nat)) /\ chain' \in Seq(Nat) /\ Len(chain') = 0
    BY <1>1, <1>2, AppendLines
  <2>4. 0 <= MaxChain
    BY SizeFacts
  <2> QED BY <1>1, <1>2, <2>1, <2>2, <2>3, <2>4 DEF LengthInv
<1>8. CarriesInv'
  <2>1. Current' = Current
    BY <1>1 DEF Current
  <2> QED BY <1>1, <2>1, CarriesStill
<1>9. CellsOf(chain') = {}
  BY <1>1 DEF CellsOf
<1>10. PlacesInv'
  <2>1. Distinct(Append(Append(chains, chain), <<>>))
    <3>1. Distinct(Append(chains, chain)) /\ Append(chains, chain) \in Seq(Seq(Nat))
      BY <1>2, UsedIs, AppendLines
    <3> QED BY <3>1, DistinctClose
  <2>2. CellsOf(chain) \subseteq lcs
    BY LinePorts, ChainIs DEF CellsOf
  <2> QED BY <1>1, <1>2, <1>9, <2>1, <2>2, PlacesClosed
<1>11. \A x \in lcs' \ (Used \cup CellsOf(chain) \cup CellsOf(chain')) :
         conn'[<<x, "CIN">>] = None /\ conn'[<<x, "COUT">>] = None
  BY <1>1 DEF Inv, FedInv
<1>12. FedInv' /\ ControlInv' /\ WireInv'
  BY <1>1, <1>2, <1>3, <1>4, <1>11, ClosedParts
<1>13. LoopsInv'
  BY <1>1, LoopsKept
<1> QED BY <1>5, <1>6, <1>7, <1>8, <1>10, <1>12, <1>13 DEF Inv

(* A chain that ends with a cell that passes its carry out.                *)
LEMMA EndedChain ==
  ASSUME Inv, chain # <<>>, EndWithPassThrough, NEW u, u = Append(chain, new_inst)
  PROVE  /\ Passed /\ Kept /\ NetInv' /\ chains' = Append(chains, u)
         /\ u \in Seq(Nat) /\ Len(u) = Len(chain) + 1 /\ u # <<>> /\ u[Len(u)] = new_inst
         /\ Good(conn', u) /\ conn'[<<u[Len(u)], "COUT">>] = None
         /\ CellsOf(u) = CellsOf(chain) \cup {new_inst} /\ CellsOf(u) \subseteq lcs' /\ lcs \subseteq lcs'
         /\ Distinct(Append(chains, u)) /\ Append(chains, u) \in Seq(Seq(Nat))
<1>1. /\ new_inst \in Nat /\ new_inst \notin Used /\ Back \in lcs /\ chain \in Seq(Nat)
  BY ChainIs
<1>2. Passed
  BY <1>1, PassedEffect DEF Inv, EndWithPassThrough, NextInst, NextNet
<1>3. Kept /\ Good(conn', u) /\ conn'[<<new_inst, "COUT">>] = None /\ NetInv'
  BY <1>2, PassedKept, PassedGood, PassedNet
<1>4. u \in Seq(Nat) /\ Len(u) = Len(chain) + 1 /\ u # <<>> /\ u[Len(u)] = new_inst
  BY <1>1, AppendIs
<1>5. lcs' = lcs \cup {new_inst} /\ chains' = Append(chains, u)
  BY DEF EndWithPassThrough
<1>6. CellsOf(u) = CellsOf(chain) \cup {new_inst} /\ CellsOf(chain) \subseteq lcs
  <2>1. CellsOf(chain) \subseteq lcs
    BY LinePorts, ChainIs DEF CellsOf
  <2> QED BY <1>1, <2>1, CellsAppend
<1>7. Distinct(Append(chains, u)) /\ Append(chains, u) \in Seq(Seq(Nat))
  <2>1. chains \in Seq(Seq(Nat)) /\ Distinct(Append(chains, chain))
    BY UsedIs
  <2>2. \A y \in {chains[i] : i \in DOMAIN chains} \cup {chain} : \A j \in DOMAIN y : y[j] # new_inst
    BY <1>1, UsedIs
  <2>3. Distinct(Append(chains, Append(chain, new_inst)))
    BY <1>1, <2>1, <2>2, DistinctExtend
  <2> QED BY <1>4, <2>1, <2>3, AppendLines
<1>8. CellsOf(u) \subseteq lcs' /\ lcs \subseteq lcs'
  BY <1>5, <1>6
<1> QED BY <1>2, <1>3, <1>4, <1>5, <1>6, <1>7, <1>8

LEMMA BreakStep ==
  ASSUME Inv, BreakChain
  PROVE  Inv'
<1>1. /\ pc = "break" /\ TooLong /\ EndWithPassThrough /\ chain' = <<>> /\ c' = c
      /\ UNCHANGED <<design, ready, carries, packed>> /\ lcs' = lcs \cup {new_inst}
      /\ pc' = IF Real(in_conn) THEN "carryin" ELSE "carry"
  BY DEF BreakChain, BreakTo, Begin, EndWithPassThrough, Real
<1>2. Len(chain) = MaxChain - 1 /\ chain # <<>> /\ Len(chain) \in Nat
  <2>1. Len(chain) = MaxChain - 1 /\ Len(chain) \in Nat
    BY <1>1, ChainIs DEF TooLong
  <2>2. Len(chain) # 0
    BY <2>1, SizeFacts
  <2>3. chain # <<>>
    <3>1. chain = <<>> => Len(chain) = 0
      OBVIOUS
    <3> QED BY <2>2, <3>1
  <2> QED BY <2>1, <2>3
<1> DEFINE u == Append(chain, new_inst)
<1>3. /\ Passed /\ Kept /\ NetInv' /\ chains' = Append(chains, u)
      /\ u \in Seq(Nat) /\ Len(u) = Len(chain) + 1 /\ u # <<>> /\ u[Len(u)] = new_inst
      /\ Good(conn', u) /\ conn'[<<u[Len(u)], "COUT">>] = None
      /\ CellsOf(u) = CellsOf(chain) \cup {new_inst} /\ CellsOf(u) \subseteq lcs' /\ lcs \subseteq lcs'
      /\ Distinct(Append(chains, u)) /\ Append(chains, u) \in Seq(Seq(Nat))
  BY <1>1, <1>2, EndedChain
<1> HIDE DEF u
<1>4. c \in carries
  BY <1>1 DEF Inv, CarriesInv, Current
<1>5. in_conn' = in_conn
  BY <1>1, <1>3, <1>4, PassedCarries DEF in_conn
<1>6. control' = NoControl
  <2>1. Len(<<>>) % TileSize = 0
    <3>1. 0 % TileSize = 0 /\ Len(<<>>) = 0
      BY SizeFacts
    <3> QED BY <3>1
  <2> QED BY <2>1 DEF BreakChain, BreakTo, Begin
<1>7. control' \in [Control -> Nat]
  BY <1>6 DEF NoControl, None
<1>8. LoopInv'
  BY <1>1, <1>5, <1>7 DEF LoopInv
<1>9. LengthInv'
  <2>1. AllChains' = AllChains \cup {u}
    BY <1>3, LinesClosed
  <2>2. \A v \in AllChains : v # <<>> /\ Len(v) <= MaxChain
    BY DEF Inv, LengthInv
  <2>3. Len(u) <= MaxChain /\ 0 < MaxChain - 1 /\ 0 < MaxChain /\ 0 <= MaxChain
    BY <1>2, <1>3, SizeFacts
  <2>4. chains' \in Seq(Seq(Nat)) /\ chain' \in Seq(Nat) /\ Len(chain') = 0
    BY <1>1, <1>3
  <2> QED BY <1>1, <1>3, <2>1, <2>2, <2>3, <2>4 DEF LengthInv
<1>10. CarriesInv'
  <2>1. Current' = Current
    BY <1>1 DEF Current
  <2> QED BY <1>1, <1>3, <2>1, PassedCarries, CarriesStill
<1>11. CellsOf(chain') = {} /\ DOMAIN chain' = {}
  <2>1. DOMAIN (<<>>) = {}
    OBVIOUS
  <2> QED BY <1>1, <2>1 DEF CellsOf
<1>12. PlacesInv'
  <2>1. Distinct(Append(Append(chains, u), <<>>))
    BY <1>3, DistinctClose
  <2> QED BY <1>1, <1>3, <1>11, <2>1, PlacesClosed
<1>13. \A x \in lcs' \ (Used \cup CellsOf(u) \cup CellsOf(chain')) :
         conn'[<<x, "CIN">>] = None /\ conn'[<<x, "COUT">>] = None
  BY <1>2, <1>3, PassedUnused
<1>14. FedInv' /\ ControlInv' /\ WireInv'
  <2>1. Good(conn', chain')
    BY <1>1, EmptyIsGood
  <2> QED BY <1>3, <1>11, <1>13, <2>1, ClosedParts
<1>15. LoopsInv'
  BY <1>1, LoopsKept
<1> QED BY <1>3, <1>8, <1>9, <1>10, <1>12, <1>14, <1>15 DEF Inv

LEMMA TailBreakStep ==
  ASSUME Inv, TailBreak
  PROVE  Inv'
<1>1. PICK l \in Consumers : EndWithPassThrough /\ chain' = <<l>>
  BY DEF TailBreak
<1>2. /\ pc = "tail" /\ pc' = "end" /\ c' = c /\ control' = control
      /\ UNCHANGED <<design, ready, carries, packed>> /\ lcs' = lcs \cup {new_inst}
  BY <1>1 DEF TailBreak, EndWithPassThrough
<1>3. chain # <<>> /\ l \in lcs \ Used /\ l \in Nat /\ l # new_inst
  BY <1>2, ConsumerFacts, ChainIs
<1> DEFINE u == Append(chain, new_inst)
<1>4. /\ Passed /\ Kept /\ NetInv' /\ chains' = Append(chains, u)
      /\ u \in Seq(Nat) /\ Len(u) = Len(chain) + 1 /\ u # <<>> /\ u[Len(u)] = new_inst
      /\ Good(conn', u) /\ conn'[<<u[Len(u)], "COUT">>] = None
      /\ CellsOf(u) = CellsOf(chain) \cup {new_inst} /\ CellsOf(u) \subseteq lcs' /\ lcs \subseteq lcs'
      /\ Distinct(Append(chains, u)) /\ Append(chains, u) \in Seq(Seq(Nat))
  BY <1>1, <1>3, EndedChain
<1> HIDE DEF u
<1>5. /\ chain' = Append(<<>>, l) /\ chain' \in Seq(Nat) /\ Len(chain') = 1 /\ chain'[1] = l /\ DOMAIN chain' = {1}
      /\ chain' # <<>> /\ CellsOf(chain') = {l}
  BY <1>1, <1>3 DEF CellsOf
<1>6. LastNet' = None
  <2>1. LastNet' = conn'[<<l, "COUT">>]
    BY <1>5 DEF LastNet, Back
  <2>2. l \in lcs' \ (Used \cup {new_inst})
    BY <1>2, <1>3
  <2> QED BY <1>3, <1>4, <2>1, <2>2, PassedUnused
<1>7. LoopInv'
  BY <1>2, <1>5, <1>6 DEF Inv, LoopInv
<1>8. LengthInv'
  <2>1. AllChains' = AllChains \cup {u}
    BY <1>4, LinesClosed
  <2>2. Len(chain) < MaxChain /\ \A v \in AllChains : v # <<>> /\ Len(v) <= MaxChain
    BY <1>2 DEF Inv, LengthInv
  <2>3. Len(u) <= MaxChain /\ 1 <= MaxChain
    BY <1>4, <2>2, SizeFacts, ChainIs
  <2>4. chains' \in Seq(Seq(Nat)) /\ Len(chain') <= MaxChain
    BY <1>4, <1>5, <2>3
  <2> QED BY <1>2, <1>4, <1>5, <2>1, <2>2, <2>3, <2>4 DEF LengthInv
<1>9. CarriesInv'
  <2>1. Current' = Current
    BY <1>2 DEF Current
  <2> QED BY <1>2, <1>4, <2>1, PassedCarries, CarriesStill
<1>10. PlacesInv'
  <2>1. Distinct(Append(Append(chains, u), <<>>))
    BY <1>4, DistinctClose
  <2>2. \A y \in {Append(chains, u)[i] : i \in DOMAIN Append(chains, u)} \cup {<<>>} : \A j \in DOMAIN y : y[j] # l
    <3>1. \A i \in DOMAIN Append(chains, u) : Append(chains, u)[i] \in AllChains \cup {u}
      BY <1>4, LinesClosed DEF AllChains
    <3>2. \A y \in AllChains : \A j \in DOMAIN y : y[j] # l
      BY <1>3, LinePorts DEF Lines
    <3>3. \A j \in DOMAIN u : u[j] \in CellsOf(u)
      BY DEF CellsOf
    <3>4. l \notin CellsOf(u)
      <4>1. CellsOf(chain) \subseteq Used
        BY LinePorts, ChainIs DEF CellsOf
      <4> QED BY <1>3, <1>4, <4>1
    <3>5. DOMAIN (<<>>) = {}
      OBVIOUS
    <3>6. \A j \in DOMAIN u : u[j] # l
      BY <3>3, <3>4
    <3> QED BY <3>1, <3>2, <3>5, <3>6
  <2>3. Distinct(Append(Append(chains, u), Append(<<>>, l)))
    <3>1. <<>> \in Seq(Nat)
      OBVIOUS
    <3> QED BY <1>3, <1>4, <2>1, <2>2, <3>1, DistinctExtend
  <2>4. Distinct(Append(Append(chains, u), chain'))
    BY <1>5, <2>3
  <2>5. CellsOf(u) \cup CellsOf(chain') \subseteq lcs' /\ CellsOf(chain) \subseteq CellsOf(u)
    BY <1>3, <1>4, <1>5
  <2> QED BY <1>2, <1>4, <2>4, <2>5, PlacesClosed
<1>11. \A x \in lcs' \ (Used \cup CellsOf(u) \cup CellsOf(chain')) :
         conn'[<<x, "CIN">>] = None /\ conn'[<<x, "COUT">>] = None
  BY <1>3, <1>4, PassedUnused
<1>12. FedInv' /\ ControlInv' /\ WireInv'
  <2>1. Good(conn', chain')
    BY <1>1, <1>2, <1>4, BrokenGood
  <2>2. pc' \notin {"break", "carry", "tail"} /\ CellsOf(chain) \subseteq CellsOf(u)
    BY <1>2, <1>4
  <2> QED BY <1>4, <1>11, <2>1, <2>2, ClosedParts
<1>13. LoopsInv'
  BY <1>2, LoopsKept
<1> QED BY <1>4, <1>7, <1>8, <1>9, <1>10, <1>12, <1>13 DEF Inv

(* The images of a finite set under a function are finitely many.          *)
LEMMA FiniteImages ==
  ASSUME NEW S, IsFiniteSet(S), NEW f, DOMAIN f = S
  PROVE  IsFiniteSet({f[x] : x \in S})
<1> DEFINE T == {f[x] : x \in S}
           g == [x \in S |-> f[x]]
<1>1. g \in Surjection(S, T)
  BY DEF Surjection
<1> QED BY <1>1, FS_Surjection

LEMMA InitNet ==
  ASSUME Init
  PROVE  NetInv
<1>1. design \in Designs /\ conn = design.conn /\ lcs = design.lcs /\ carries = design.carries
  BY DEF Init
<1>2. /\ IsFiniteSet(DOMAIN conn) /\ DOMAIN conn \subseteq Nat \X STRING /\ conn \in [DOMAIN conn -> Nat]
      /\ lcs \cap carries = {} /\ 0 \notin lcs \cup carries
      /\ (lcs \X LCPort) \cup (carries \X CarryPort) \subseteq DOMAIN conn
      /\ \A p \in DOMAIN conn : /\ p[1] \in lcs => p[2] \in LCPort
                                /\ p[1] \in carries => p[2] \in CarryPort
                                /\ p[1] \notin lcs \cup carries => p[2] \notin LCPort \cup CarryPort
      /\ \A p \in DOMAIN conn : p[2] \in Driver =>
           /\ ~IsConstant(conn[p])
           /\ \A q \in DOMAIN conn : q[2] \in Driver /\ conn[p] = conn[q] /\ conn[p] # None => p = q
  BY <1>1, DesignAssumption
<1> DEFINE I == {p[1] : p \in DOMAIN conn} \cup {0}
           N == {conn[p] : p \in DOMAIN conn} \cup {Const1}
<1>3. I \in SUBSET Nat /\ IsFiniteSet(I) /\ I # {}
  <2> DEFINE f == [p \in DOMAIN conn |-> p[1]]
  <2>1. DOMAIN f = DOMAIN conn
    OBVIOUS
  <2>2. {f[p] : p \in DOMAIN conn} = {p[1] : p \in DOMAIN conn}
    OBVIOUS
  <2>3. IsFiniteSet({f[p] : p \in DOMAIN conn})
    <3> HIDE DEF f
    <3> QED BY <1>2, <2>1, FiniteImages
  <2>4. IsFiniteSet(I)
    BY <2>2, <2>3, FS_AddElement
  <2>5. \A p \in DOMAIN conn : p[1] \in Nat
    BY <1>2
  <2> QED BY <2>4, <2>5
<1>4. N \in SUBSET Nat /\ IsFiniteSet(N) /\ N # {}
  <2>1. IsFiniteSet({conn[p] : p \in DOMAIN conn})
    BY <1>2, FiniteImages
  <2>2. IsFiniteSet(N)
    BY <2>1, FS_AddElement
  <2> QED BY <1>2, <2>2 DEF Const1
<1>5. new_inst = Max(I) + 1 /\ new_net = Max(N) + 1
  BY DEF Init
<1>6. Max(I) \in Nat /\ \A y \in I : Max(I) >= y
  BY <1>3, MaxProperty
<1>7. Max(N) \in Nat /\ \A y \in N : Max(N) >= y
  BY <1>4, MaxProperty
<1>8. /\ \A p \in DOMAIN conn : p = <<p[1], p[2]>> /\ p[1] \in Nat /\ p[1] \in I
      /\ \A p \in DOMAIN conn : conn[p] \in Nat /\ conn[p] \in N
      /\ Const1 \in N
  BY <1>2
<1> HIDE DEF I, N
<1>9. \A y \in I : y \in Nat /\ y < new_inst
  BY <1>3, <1>5, <1>6
<1>10. \A y \in N : y \in 0 .. new_net - 1
  BY <1>4, <1>5, <1>7
<1>11. new_inst \in Nat \ {0} /\ new_net \in Nat
  BY <1>5, <1>6, <1>7
<1>12. new_net > Const1
  BY <1>8, <1>10, <1>11 DEF Const1
<1>13. \A p \in DOMAIN conn : p = <<p[1], p[2]>> /\ p[1] \in Nat /\ p[1] < new_inst
  BY <1>8, <1>9
<1>14. \A p \in DOMAIN conn : conn[p] \in 0 .. new_net - 1
  BY <1>8, <1>10
<1>15. lcs \subseteq 1 .. new_inst - 1 /\ carries \subseteq 1 .. new_inst - 1
  <2> DEFINE D == DOMAIN conn
  <2>0. lcs \X LCPort \subseteq D /\ carries \X CarryPort \subseteq D
    BY <1>2
  <2> HIDE DEF D
  <2>1. \A l \in lcs : <<l, "O">> \in D /\ <<l, "O">>[1] = l
    BY <2>0 DEF LCPort
  <2>2. \A i \in carries : <<i, "CO">> \in D /\ <<i, "CO">>[1] = i
    BY <2>0 DEF CarryPort
  <2>3. (\A p \in D : p[1] \in Nat /\ p[1] < new_inst) /\ 0 \notin lcs \cup carries
    BY <1>2, <1>13 DEF D
  <2>4. \A i \in lcs \cup carries : i \in Nat /\ i < new_inst /\ i # 0
    <3> TAKE i \in lcs \cup carries
    <3>1. PICK f : <<i, f>> \in D /\ <<i, f>>[1] = i
      BY <2>1, <2>2
    <3> QED BY <2>3, <3>1
  <2> QED BY <1>11, <2>4
<1> QED BY <1>2, <1>11, <1>12, <1>13, <1>14, <1>15 DEF NetInv

LEMMA InitInv ==
  ASSUME Init
  PROVE  Inv
<1>1. /\ design \in Designs /\ pc = "collect" /\ conn = design.conn /\ lcs = design.lcs /\ carries = design.carries
      /\ ready = {} /\ chains = <<>> /\ chain = <<>> /\ control = NoControl /\ packed = <<>>
  BY DEF Init
<1>2. DOMAIN (<<>>) = {} /\ <<>> \in Seq(Nat) /\ <<>> \in Seq(Seq(Nat)) /\ Len(<<>>) = 0
  OBVIOUS
<1>3. AllChains = {} /\ Lines = {<<>>} /\ Used = {}
  <2>1. AllChains = {}
    BY <1>1, <1>2 DEF AllChains
  <2>2. CellsOf(<<>>) = {}
    BY <1>2 DEF CellsOf
  <2> QED BY <1>1, <2>1, <2>2 DEF Lines, Used
<1>4. NetInv
  BY InitNet
<1>5. control \in [Control -> Nat]
  BY <1>1 DEF NoControl, None
<1>6. LoopInv
  BY <1>1, <1>5 DEF LoopInv
<1>7. LengthInv
  BY <1>1, <1>2, <1>3, SizeFacts DEF LengthInv
<1>8. CarriesInv
  BY <1>1, <1>2 DEF CarriesInv, Current
<1>9. PlacesInv
  <2>1. Distinct(<<>>)
    BY <1>2 DEF Distinct
  <2>2. Distinct(Started)
    BY <1>1, <1>2, <2>1, DistinctClose DEF Started
  <2> QED BY <1>1, <1>2, <1>3, <2>2 DEF PlacesInv
<1>10. Fed(conn, <<>>) /\ Agree(conn, <<>>) /\ Wired(conn, <<>>)
  BY EmptyIsGood, GoodParts
<1>11. FedInv
  BY <1>1, <1>3, <1>10, DesignAssumption DEF FedInv
<1>12. ControlInv
  BY <1>1, <1>3, <1>10 DEF ControlInv
<1>13. WireInv
  BY <1>3, <1>10 DEF WireInv
<1>14. LoopsInv
  BY <1>1 DEF LoopsInv
<1> QED BY <1>4, <1>6, <1>7, <1>8, <1>9, <1>11, <1>12, <1>13, <1>14 DEF Inv

(* The inductive invariant.                                                *)
LEMMA NextInv ==
  ASSUME Inv, [Next]_vars
  PROVE  Inv'
<1>1. CASE Collect BY <1>1, CollectStep
<1>2. CASE TakeReady BY <1>2, TakeReadyStep
<1>3. CASE Finish BY <1>3, FinishStep
<1>4. CASE ContinueChain BY <1>4, ContinueStep
<1>5. CASE BreakChain BY <1>5, BreakStep
<1>6. CASE CarryIn BY <1>6, CarryInStep
<1>7. CASE PackWithLC BY <1>7, WithLCStep
<1>8. CASE PackAlone BY <1>8, AloneStep
<1>9. CASE TailAppend BY <1>9, TailAppendStep
<1>10. CASE TailPassThrough BY <1>10, TailPassThroughStep
<1>11. CASE TailBreak BY <1>11, TailBreakStep
<1>12. CASE EndChain BY <1>12, EndChainStep
<1>13. CASE UNCHANGED vars BY <1>13, StoppedStep
<1> QED BY <1>1, <1>2, <1>3, <1>4, <1>5, <1>6, <1>7, <1>8, <1>9, <1>10, <1>11, <1>12, <1>13 DEF Next, Stopped

THEOREM Invariance == Spec => []Inv
<1>1. Init => Inv
  BY InitInv
<1>2. Inv /\ [Next]_vars => Inv'
  BY NextInv
<1> QED BY <1>1, <1>2, PTL DEF Spec

-----------------------------------------------------------------------------
(* What the runs check.                                                    *)

(* Type correctness.                                                       *)
THEOREM TypeCorrect == Spec => []TypeOK
<1>1. Inv => TypeOK
  <2> SUFFICES ASSUME Inv PROVE TypeOK
    OBVIOUS
  <2>1. /\ design \in Designs /\ carries \subseteq design.carries /\ ready \subseteq carries
        /\ DOMAIN packed = design.carries \ carries
        /\ pc \in {"break", "carryin", "carry"} => c \in carries \ ready
    BY DEF Inv, CarriesInv, Current
  <2>2. /\ pc \in {"collect", "front", "break", "carryin", "carry", "tail", "end", "packed", "failed"}
        /\ \A f \in Control : control[f] \in Nat
    BY DEF Inv, LoopInv
  <2>3. (\A p \in DOMAIN conn : p[1] \in Nat /\ conn[p] \in 0 .. new_net - 1) /\ lcs \subseteq 1 .. new_inst - 1
    BY DEF Inv, NetInv
  <2>4. \A v \in AllChains \cup {chain} : \A j \in DOMAIN v : v[j] \in lcs
    BY LinePorts DEF Lines
  <2> QED BY <2>1, <2>2, <2>3, <2>4 DEF TypeOK
<1> QED BY <1>1, Invariance, PTL

(* The assertions of pack_carries_from() hold and every chain fits a       *)
(* column.                                                                 *)
THEOREM AssertionsHold == Spec => []Asserts
<1>1. Inv => Asserts
  <2> SUFFICES ASSUME Inv PROVE Asserts
    OBVIOUS
  <2>1. \A v \in AllChains \cup {chain} : Len(v) <= MaxChain
    BY DEF Inv, LengthInv
  <2>2. ASSUME pc = "carry", conn[<<c, "CO">>] # None
        PROVE  Carries(conn, conn[<<c, "CO">>]) \cap ready = {}
    <3> SUFFICES ASSUME NEW i \in Carries(conn, conn[<<c, "CO">>]), i \in ready PROVE FALSE
      OBVIOUS
    <3>1. i \in carries /\ c \in carries /\ c \notin ready /\ \A d \in carries : ~Feeds(d, i)
      BY <2>2 DEF Inv, CarriesInv, Current
    <3>2. conn[<<i, "CI">>] = conn[<<c, "CO">>]
      <4>1. PICK q \in Connections(conn, conn[<<c, "CO">>]) : q[2] = "CI" /\ i = q[1]
        BY DEF Carries
      <4>2. q \in DOMAIN conn /\ conn[q] = conn[<<c, "CO">>] /\ q = <<i, "CI">>
        BY <4>1, NewIsNew DEF Connections, Inv
      <4> QED BY <4>2
    <3>3. conn[<<i, "CI">>] = design.conn[<<i, "CI">>] /\ conn[<<c, "CO">>] = design.conn[<<c, "CO">>]
      BY <3>1 DEF Inv, CarriesInv
    <3>4. Feeds(c, i)
      BY <2>2, <3>2, <3>3 DEF Feeds
    <3> QED BY <3>1, <3>4
  <2>3. pc = "tail" => Len(chain) < MaxChain /\ conn[<<Back, "COUT">>] = out_conn
    BY DEF Inv, LengthInv, LoopInv, LastNet
  <2>4. pc = "carry" /\ ~CarryIsOurs => conn[<<Back, "COUT">>] = in_conn
    BY DEF Inv, LoopInv, LastNet, CarryIsOurs, Real
  <2> QED BY <2>1, <2>2, <2>3, <2>4 DEF Asserts
<1> QED BY <1>1, Invariance, PTL

(* Every carry is packed into one cell, and no cell is at two positions.   *)
THEOREM CellsPackedOnce == Spec => []CellsOnce
<1>1. Inv => CellsOnce
  <2> SUFFICES ASSUME Inv PROVE CellsOnce
    OBVIOUS
  <2>1. \A i, k \in DOMAIN Started : \A j \in DOMAIN Started[i], l \in DOMAIN Started[k] :
          Started[i][j] = Started[k][l] => i = k /\ j = l
    BY DEF Inv, PlacesInv, Distinct
  <2>2. \A i, j \in DOMAIN packed : packed[i] = packed[j] => i = j
    BY DEF Inv, PlacesInv
  <2>3. ASSUME NEW i \in DOMAIN packed PROVE \E k \in DOMAIN Started : packed[i] \in CellsOf(Started[k])
    <3>1. PICK v \in Lines : \E j \in DOMAIN v : packed[i] = v[j]
      BY UsedCells DEF Inv, PlacesInv
    <3>2. packed[i] \in CellsOf(v)
      BY <3>1 DEF CellsOf
    <3>3. \E k \in DOMAIN Started : v = Started[k]
      BY StartedLines DEF Inv
    <3> QED BY <3>2, <3>3
  <2> QED BY <2>1, <2>2, <2>3 DEF CellsOnce
<1> QED BY <1>1, Invariance, PTL

(* Carries go only where the column has a wire for them.                   *)
THEOREM CarriesDedicated == Spec => []DedicatedWires
<1>1. Inv => DedicatedWires
  <2> SUFFICES ASSUME Inv, NEW v \in AllChains
               PROVE  /\ conn[<<v[1], "CIN">>] \in {None, Const0, Const1}
                      /\ \A j \in DOMAIN v :
                           LET n == conn[<<v[j], "COUT">>]
                           IN n # None =>
                                /\ j < Len(v)
                                /\ Connections(conn, n) \subseteq {<<v[j], "COUT">>} \cup ({v[j + 1]} \X {"CIN", "I3"})
                      /\ \A j \in 2 .. Len(v) : conn[<<v[j], "CIN">>] \in {None, conn[<<v[j - 1], "COUT">>]}
    BY DEF DedicatedWires
  <2>1. /\ Wired(conn, v) /\ v # <<>> /\ conn[<<v[Len(v)], "COUT">>] = None
        /\ Len(v) \in Nat /\ DOMAIN v = 1 .. Len(v)
    BY StartedLines DEF Inv, WireInv, LengthInv, Lines
  <2>2. conn[<<v[1], "CIN">>] \in {None, Const0, Const1}
    BY <2>1 DEF Wired, Real, IsConstant
  <2>3. ASSUME NEW j \in DOMAIN v, conn[<<v[j], "COUT">>] # None
        PROVE  /\ j < Len(v)
               /\ Connections(conn, conn[<<v[j], "COUT">>])
                    \subseteq {<<v[j], "COUT">>} \cup ({v[j + 1]} \X {"CIN", "I3"})
    <3>1. j < Len(v)
      BY <2>1, <2>3
    <3>2. \A p \in DOMAIN conn : conn[p] = conn[<<v[j], "COUT">>] =>
            p = <<v[j], "COUT">> \/ p \in {v[j + 1]} \X {"CIN", "I3"}
      BY <2>1, <2>3, <3>1 DEF Wired
    <3> QED BY <3>1, <3>2 DEF Connections
  <2>4. ASSUME NEW j \in 2 .. Len(v)
        PROVE  conn[<<v[j], "CIN">>] \in {None, conn[<<v[j - 1], "COUT">>]}
    <3>1. PICK k \in DOMAIN v : k < Len(v) /\ j = k + 1 /\ k = j - 1
      BY <2>1
    <3>2. conn[<<v[k + 1], "CIN">>] \in {None, conn[<<v[k], "COUT">>]}
      BY <2>1, <3>1 DEF Wired
    <3> QED BY <3>1, <3>2
  <2> QED BY <2>2, <2>3, <2>4
<1> QED BY <1>1, Invariance, PTL

(* The cells of a tile agree on their control nets.                        *)
THEOREM TilesAgree == Spec => []ControlsAgree
<1>1. Inv => ControlsAgree
  BY DEF Inv, ControlInv, Agree, ControlsAgree, Lines
<1> QED BY <1>1, Invariance, PTL

(* A loop of carries is reported, and nothing else is.                     *)
THEOREM LoopsFound == Spec => []LoopsReported
<1>1. Inv => LoopsReported
  <2> SUFFICES ASSUME Inv PROVE LoopsReported
    OBVIOUS
  <2> DEFINE IsLoop(S) == \A i \in S : \E d \in S : Feeds(d, i)
             loops == {S \in (SUBSET design.carries) \ {{}} :
                         \A i \in S : \E d \in S : design.conn[<<i, "CI">>] = design.conn[<<d, "CO">>]
                                                   /\ design.conn[<<i, "CI">>] # None}
  <2>1. \A S : S \in loops <=> S \in (SUBSET design.carries) \ {{}} /\ IsLoop(S)
    BY DEF Feeds
  <2>2. ASSUME pc = "packed" PROVE loops = {}
    <3>1. carries = {}
      BY <2>2 DEF Inv, CarriesInv
    <3> SUFFICES ASSUME NEW S \in loops PROVE FALSE
      OBVIOUS
    <3>2. S \in (SUBSET design.carries) \ {{}} /\ IsLoop(S)
      BY <2>1
    <3> HIDE DEF loops
    <3>3. S \subseteq carries
      BY <3>2 DEF Inv, LoopsInv
    <3> QED BY <3>1, <3>2, <3>3
  <2>3. ASSUME pc = "failed" PROVE loops # {}
    <3>1. carries # {} /\ carries \subseteq design.carries
      BY <2>3 DEF Inv, CarriesInv
    <3>2. IsLoop(carries)
      BY <2>3 DEF Inv, CarriesInv, Current
    <3>3. carries \in loops
      <4> HIDE DEF loops, IsLoop
      <4> QED BY <2>1, <3>1, <3>2
    <3> QED BY <3>3
  <2> QED BY <2>2, <2>3 DEF LoopsReported
<1> QED BY <1>1, Invariance, PTL

-----------------------------------------------------------------------------
(* Nets that are copies of others, through the cells of bridges.           *)
CopyOf(w, B, n) ==
  LET b == {x \in B : w[<<x[1], x[3]>>] = n}
  IN IF b = {} THEN n ELSE LET x == CHOOSE x \in b : TRUE IN w[<<x[1], x[2]>>]
OriginOf(w, B, n) == CopyOf(w, B, CopyOf(w, B, n))

DesignNets == {design.conn[p] : p \in DOMAIN design.conn}
Out(x) == conn[<<x[1], x[3]>>]
In(x) == conn[<<x[1], x[2]>>]

(* A cell that passes a carry out copies a net that is no copy itself, one *)
(* that feeds a chain copies a net of the design to a net that is new.     *)
CopyInv ==
  /\ \A x \in bridges : x[1] \in Used /\ Out(x) # None
  /\ \A x \in bridges : (x[2] = "I3" /\ x[3] = "O") \/ (x[2] = "I1" /\ x[3] = "COUT")
  /\ \A x, y \in bridges : x[3] = "O" => Out(y) # In(x)
  /\ \A x \in bridges : x[3] = "COUT" => In(x) \in DesignNets /\ Out(x) \notin DesignNets /\ x[1] \notin Range(packed)
  /\ \A n \in DesignNets : n \in Nat /\ n < new_net
  /\ pc \in {"break", "tail"} /\ chain # <<>> => Back \in Range(packed)
  /\ pc = "carry" /\ chain # <<>> /\ Back \notin Range(packed) =>
       \A p \in DOMAIN conn : conn[p] = in_conn => p \in {<<Back, "COUT">>, <<c, "CI">>}

(* The ports of cell l have the nets of carry i of the netlist D.          *)
SamePorts(w, B, D, i, l, I0, I1, CI, CO) ==
  /\ w[<<l, I0>>] = D[<<i, "I0">>]
  /\ w[<<l, I1>>] = D[<<i, "I1">>]
  /\ OriginOf(w, B, w[<<l, CI>>]) = OriginOf(w, B, D[<<i, "CI">>])
  /\ w[<<l, CO>>] = OriginOf(w, B, D[<<i, "CO">>])
LogicInv ==
  /\ \A i \in carries : SamePorts(conn, bridges, design.conn, i, i, "I0", "I1", "CI", "CO")
  /\ \A i \in DOMAIN packed : SamePorts(conn, bridges, design.conn, i, packed[i], "I1", "I2", "CIN", "COUT")
  /\ \A p \in DOMAIN design.conn :
       p[1] \notin design.carries /\ p[2] \notin {"CIN", "COUT"} => p \in DOMAIN conn /\ conn[p] = design.conn[p]

LEMMA CopyOfIs ==
  ASSUME NEW w, NEW B,
         \A x, y \in B : w[<<x[1], x[3]>>] = w[<<y[1], y[3]>>] => w[<<x[1], x[2]>>] = w[<<y[1], y[2]>>]
  PROVE  /\ \A x \in B : CopyOf(w, B, w[<<x[1], x[3]>>]) = w[<<x[1], x[2]>>]
         /\ \A n : (\A x \in B : w[<<x[1], x[3]>>] # n) => CopyOf(w, B, n) = n
<1>1. ASSUME NEW x \in B PROVE CopyOf(w, B, w[<<x[1], x[3]>>]) = w[<<x[1], x[2]>>]
  <2> DEFINE b == {y \in B : w[<<y[1], y[3]>>] = w[<<x[1], x[3]>>]}
             z == CHOOSE y \in b : TRUE
  <2>1. x \in b
    OBVIOUS
  <2>2. z \in b
    BY <2>1
  <2>3. w[<<z[1], z[2]>>] = w[<<x[1], x[2]>>]
    BY <2>2
  <2> QED BY <2>1, <2>3 DEF CopyOf
<1>2. ASSUME NEW n, \A x \in B : w[<<x[1], x[3]>>] # n PROVE CopyOf(w, B, n) = n
  BY <1>2 DEF CopyOf
<1> QED BY <1>1, <1>2

(* The ports of the cells that copy.                                       *)
LEMMA BridgePorts ==
  ASSUME Inv, CopyInv
  PROVE  /\ \A x \in bridges : /\ x[1] \in lcs /\ x[1] \notin carries /\ x[1] # new_inst
                               /\ <<x[1], x[2]>> \in DOMAIN conn /\ <<x[1], x[3]>> \in DOMAIN conn
                               /\ x[3] \in Driver
                               /\ Out(x) \in Nat /\ Out(x) < new_net /\ In(x) \in Nat /\ In(x) < new_net
         /\ \A x, y \in bridges : Out(x) = Out(y) => In(x) = In(y)
<1>1. ASSUME NEW x \in bridges
      PROVE  /\ x[1] \in lcs /\ x[1] \notin carries /\ x[1] # new_inst
             /\ <<x[1], x[2]>> \in DOMAIN conn /\ <<x[1], x[3]>> \in DOMAIN conn /\ x[3] \in Driver
  <2>1. x[1] \in Used /\ x[1] \in lcs
    BY DEF CopyInv, Inv, PlacesInv
  <2>2. x[1] \notin carries /\ x[1] # new_inst
    BY <2>1, ChainIs DEF Inv, NetInv
  <2>3. x[2] \in LCPort /\ x[3] \in LCPort /\ x[3] \in Driver
    BY DEF CopyInv, LCPort, Driver
  <2> QED BY <2>1, <2>2, <2>3, CarryPorts DEF Inv
<1>2. \A x \in bridges : Out(x) \in Nat /\ Out(x) < new_net /\ In(x) \in Nat /\ In(x) < new_net
  BY <1>1, NetDrivers DEF Inv, Out, In
<1>3. ASSUME NEW x \in bridges, NEW y \in bridges, Out(x) = Out(y) PROVE In(x) = In(y)
  <2>1. <<x[1], x[3]>> = <<y[1], y[3]>>
    <3>1. Out(x) # None
      BY DEF CopyInv
    <3>2. /\ <<x[1], x[3]>> \in DOMAIN conn /\ <<x[1], x[3]>>[2] \in Driver
          /\ <<y[1], y[3]>> \in DOMAIN conn /\ <<y[1], y[3]>>[2] \in Driver
      BY <1>1
    <3> QED BY <1>3, <3>1, <3>2, NetDrivers DEF Inv, Out
  <2>2. x[1] = y[1] /\ x[2] = y[2]
    BY <2>1 DEF CopyInv
  <2> QED BY <2>2 DEF In
<1> QED BY <1>1, <1>2, <1>3

LEMMA CopiedIs ==
  ASSUME Inv, CopyInv
  PROVE  /\ \A x \in bridges : CopyOf(conn, bridges, Out(x)) = In(x)
         /\ \A n : (\A x \in bridges : Out(x) # n) => CopyOf(conn, bridges, n) = n
         /\ \A n \in Nat : n < new_net => CopyOf(conn, bridges, n) \in Nat /\ CopyOf(conn, bridges, n) < new_net
         /\ CopyOf(conn, bridges, new_net) = new_net
<1>1. /\ \A x \in bridges : CopyOf(conn, bridges, Out(x)) = In(x)
      /\ \A n : (\A x \in bridges : Out(x) # n) => CopyOf(conn, bridges, n) = n
  BY BridgePorts, CopyOfIs DEF Out, In
<1>2. ASSUME NEW n \in Nat, n < new_net
      PROVE  CopyOf(conn, bridges, n) \in Nat /\ CopyOf(conn, bridges, n) < new_net
  <2>1. CASE \E x \in bridges : Out(x) = n
    <3>1. PICK x \in bridges : Out(x) = n
      BY <2>1
    <3>2. CopyOf(conn, bridges, n) = In(x)
      BY <1>1, <3>1
    <3> QED BY <3>2, BridgePorts
  <2>2. CASE \A x \in bridges : Out(x) # n
    BY <1>1, <1>2, <2>2
  <2> QED BY <2>1, <2>2
<1>3. CopyOf(conn, bridges, new_net) = new_net
  <2>1. \A x \in bridges : Out(x) # new_net
    <3>1. \A x \in bridges : Out(x) \in Nat /\ Out(x) < new_net
      BY BridgePorts
    <3>2. \A k \in Nat : k < new_net => k # new_net
      BY NetDrivers DEF Inv
    <3> QED BY <3>1, <3>2
  <2> QED BY <1>1, <2>1
<1> QED BY <1>1, <1>2, <1>3

(* One more cell that copies.                                              *)
LEMMA CopiesGrow ==
  ASSUME Inv, CopyInv, NEW x, bridges' = bridges \cup {x}, NEW n, n = conn'[<<x[1], x[3]>>],
         \A y \in bridges : /\ conn'[<<y[1], y[3]>>] = Out(y) /\ conn'[<<y[1], y[2]>>] = In(y)
                            /\ Out(y) # n
  PROVE  /\ CopyOf(conn', bridges', n) = conn'[<<x[1], x[2]>>]
         /\ \A m : m # n => CopyOf(conn', bridges', m) = CopyOf(conn, bridges, m)
<1>1. \A y, z \in bridges' : conn'[<<y[1], y[3]>>] = conn'[<<z[1], z[3]>>] =>
                               conn'[<<y[1], y[2]>>] = conn'[<<z[1], z[2]>>]
  BY BridgePorts
<1>2. /\ \A y \in bridges' : CopyOf(conn', bridges', conn'[<<y[1], y[3]>>]) = conn'[<<y[1], y[2]>>]
      /\ \A m : (\A y \in bridges' : conn'[<<y[1], y[3]>>] # m) => CopyOf(conn', bridges', m) = m
  BY <1>1, CopyOfIs
<1>3. ASSUME NEW m, m # n PROVE CopyOf(conn', bridges', m) = CopyOf(conn, bridges, m)
  <2>1. CASE \E y \in bridges : Out(y) = m
    <3>1. PICK y \in bridges : Out(y) = m
      BY <2>1
    <3>2. CopyOf(conn, bridges, m) = In(y)
      BY <3>1, CopiedIs
    <3>3. CopyOf(conn', bridges', m) = In(y)
      BY <1>2, <3>1
    <3> QED BY <3>2, <3>3
  <2>2. CASE \A y \in bridges : Out(y) # m
    BY <1>2, <1>3, <2>2, CopiedIs, ZenonT(60)
  <2> QED BY <2>1, <2>2
<1> QED BY <1>2, <1>3

LEMMA CopiesKept ==
  ASSUME Inv, CopyInv, bridges' = bridges,
         \A y \in bridges : conn'[<<y[1], y[3]>>] = Out(y) /\ conn'[<<y[1], y[2]>>] = In(y)
  PROVE  \A n : OriginOf(conn', bridges', n) = OriginOf(conn, bridges, n)
<1>1. /\ \A y \in bridges' : CopyOf(conn', bridges', conn'[<<y[1], y[3]>>]) = conn'[<<y[1], y[2]>>]
      /\ \A m : (\A y \in bridges' : conn'[<<y[1], y[3]>>] # m) => CopyOf(conn', bridges', m) = m
  BY BridgePorts, CopyOfIs
<1>2. ASSUME NEW m PROVE CopyOf(conn', bridges', m) = CopyOf(conn, bridges, m)
  <2>1. CASE \E y \in bridges : Out(y) = m
    BY <1>1, <2>1, CopiedIs
  <2>2. CASE \A y \in bridges : Out(y) # m
    BY <1>1, <2>2, CopiedIs, ZenonT(60)
  <2> QED BY <2>1, <2>2
<1> QED BY <1>2 DEF OriginOf

(* The net of the last cell is no copy, and no cell of a chain copies it.  *)
LEMMA LastIsNoCopy ==
  ASSUME Inv, CopyInv, chain # <<>>, LastNet # None, Back \in Range(packed)
  PROVE  /\ \A x \in bridges : <<x[1], x[2]>> # <<Back, "COUT">> /\ <<x[1], x[3]>> # <<Back, "COUT">>
         /\ \A x \in bridges : Out(x) # LastNet /\ (x[3] = "O" => In(x) # LastNet)
<1>1. \A x \in bridges : <<x[1], x[2]>> # <<Back, "COUT">> /\ <<x[1], x[3]>> # <<Back, "COUT">>
  BY DEF CopyInv
<1>2. ASSUME NEW x \in bridges PROVE Out(x) # LastNet
  <2>1. <<x[1], x[3]>> \in DOMAIN conn /\ <<x[1], x[3]>>[2] \in Driver
    BY BridgePorts
  <2> QED BY <1>1, <2>1, LastDriver DEF Out
<1>3. ASSUME NEW x \in bridges, x[3] = "O" PROVE In(x) # LastNet
  <2>1. x[2] = "I3" /\ x[1] \in Used /\ x[1] \in lcs
    BY <1>3, BridgePorts DEF CopyInv
  <2> QED BY <2>1, UserUnused DEF In
<1> QED BY <1>1, <1>2, <1>3

Moved ==
  /\ \A n \in Nat : n < new_net =>
       OriginOf(conn', bridges', n) =
         IF OriginOf(conn, bridges, n) = LastNet THEN new_net ELSE OriginOf(conn, bridges, n)
  /\ OriginOf(conn', bridges', new_net) = new_net

(* A cell that passes the last carry out makes its old net a copy.         *)
LEMMA MovedOrigins ==
  ASSUME Inv, CopyInv, chain # <<>>, LastNet # None, Back \in Range(packed),
         bridges' = bridges \cup {<<new_inst, "I3", "O">>},
         conn'[<<new_inst, "I3">>] = new_net, conn'[<<new_inst, "O">>] = LastNet,
         \A y \in bridges : conn'[<<y[1], y[3]>>] = Out(y) /\ conn'[<<y[1], y[2]>>] = In(y)
  PROVE  Moved /\ OriginOf(conn, bridges, LastNet) = LastNet
<1> DEFINE Cp(n) == CopyOf(conn, bridges, n)
           Cq(n) == CopyOf(conn', bridges', n)
<1>1. LastNet \in Nat /\ LastNet < new_net /\ LastNet # new_net /\ new_net \in Nat
  <2>1. <<Back, "COUT">> \in DOMAIN conn /\ conn[<<Back, "COUT">>] = LastNet
    BY LastDriver
  <2>2. LastNet \in Nat /\ LastNet < new_net /\ new_net \in Nat
    BY <2>1, NetDrivers DEF Inv
  <2> QED BY <2>2
<1>2. Cq(LastNet) = new_net /\ \A m : m # LastNet => Cq(m) = Cp(m)
  <2> DEFINE x == <<new_inst, "I3", "O">>
  <2>1. bridges' = bridges \cup {x} /\ LastNet = conn'[<<x[1], x[3]>>] /\ conn'[<<x[1], x[2]>>] = new_net
    OBVIOUS
  <2>2. \A y \in bridges : /\ conn'[<<y[1], y[3]>>] = Out(y) /\ conn'[<<y[1], y[2]>>] = In(y)
                           /\ Out(y) # LastNet
    BY LastIsNoCopy
  <2> HIDE DEF x
  <2> QED BY <2>1, <2>2, CopiesGrow, ZenonT(60)
<1>3. Cp(LastNet) = LastNet /\ Cp(new_net) = new_net
  BY LastIsNoCopy, CopiedIs
<1>4. /\ \A x \in bridges : Cp(Out(x)) = In(x)
      /\ \A n : (\A x \in bridges : Out(x) # n) => Cp(n) = n
      /\ \A n \in Nat : n < new_net => Cp(n) \in Nat /\ Cp(n) < new_net
  BY CopiedIs
<1> HIDE DEF Cp, Cq
<1>5. ASSUME NEW n, Cp(n) # LastNet PROVE Cp(Cp(n)) # LastNet
  <2> SUFFICES ASSUME Cp(Cp(n)) = LastNet PROVE FALSE
    OBVIOUS
  <2>1. PICK y \in bridges : Out(y) = Cp(n)
    BY <1>4, <1>5
  <2>2. In(y) = LastNet
    BY <1>4, <2>1
  <2>3. y[3] = "COUT" /\ Out(y) \notin DesignNets
    BY <2>2, LastIsNoCopy DEF CopyInv
  <2>4. Cp(n) # n
    BY <1>5
  <2>5. PICK x \in bridges : Out(x) = n
    BY <1>4, <2>4
  <2>6. In(x) = Out(y)
    BY <1>4, <2>1, <2>5
  <2>7. x[3] # "O"
    BY <2>6 DEF CopyInv
  <2>8. In(x) \in DesignNets
    BY <2>7 DEF CopyInv
  <2> QED BY <2>3, <2>6, <2>8
<1>6. ASSUME NEW n \in Nat, n < new_net
      PROVE  Cq(Cq(n)) = IF Cp(Cp(n)) = LastNet THEN new_net ELSE Cp(Cp(n))
  <2>1. Cq(new_net) = new_net
    BY <1>1, <1>2, <1>3
  <2>2. CASE n = LastNet
    BY <1>2, <1>3, <2>1, <2>2
  <2>3. CASE n # LastNet /\ Cp(n) = LastNet
    BY <1>2, <1>3, <2>3
  <2>4. CASE n # LastNet /\ Cp(n) # LastNet
    <3>1. Cq(n) = Cp(n) /\ Cq(Cp(n)) = Cp(Cp(n))
      BY <1>2, <2>4
    <3> QED BY <1>5, <2>4, <3>1
  <2> QED BY <2>2, <2>3, <2>4
<1>7. Cq(Cq(new_net)) = new_net
  BY <1>1, <1>2, <1>3
<1>8. Cp(Cp(LastNet)) = LastNet
  BY <1>3
<1> QED BY <1>6, <1>7, <1>8 DEF Moved, OriginOf, Cp, Cq

(* The carries of the design.                                              *)
LEMMA DesignPorts ==
  ASSUME Inv, CopyInv
  PROVE  /\ \A i \in design.carries, f \in CarryPort :
              /\ design.conn[<<i, f>>] \in DesignNets
              /\ design.conn[<<i, f>>] \in Nat /\ design.conn[<<i, f>>] < new_net
         /\ carries \subseteq design.carries /\ DOMAIN packed = design.carries \ carries
<1>1. design \in Designs /\ carries \subseteq design.carries /\ DOMAIN packed = design.carries \ carries
  BY DEF Inv, CarriesInv
<1>2. \A i \in design.carries, f \in CarryPort : <<i, f>> \in DOMAIN design.conn
  BY <1>1, DesignAssumption
<1>3. \A i \in design.carries, f \in CarryPort : design.conn[<<i, f>>] \in DesignNets
  BY <1>2 DEF DesignNets
<1> QED BY <1>1, <1>3 DEF CopyInv

LEMMA MovedPorts ==
  ASSUME Inv, CopyInv, Moved, NEW i \in design.carries, NEW l, NEW I0, NEW I1, NEW CI, NEW CO,
         SamePorts(conn, bridges, design.conn, i, l, I0, I1, CI, CO),
         conn'[<<l, I0>>] = conn[<<l, I0>>], conn'[<<l, I1>>] = conn[<<l, I1>>], conn'[<<l, CI>>] = conn[<<l, CI>>],
         conn'[<<l, CO>>] = IF conn[<<l, CO>>] = LastNet THEN new_net ELSE conn[<<l, CO>>],
         conn[<<l, CI>>] \in Nat, conn[<<l, CI>>] < new_net
  PROVE  SamePorts(conn', bridges', design.conn, i, l, I0, I1, CI, CO)
<1>1. /\ design.conn[<<i, "CI">>] \in Nat /\ design.conn[<<i, "CI">>] < new_net
      /\ design.conn[<<i, "CO">>] \in Nat /\ design.conn[<<i, "CO">>] < new_net
  BY DesignPorts DEF CarryPort
<1>2. OriginOf(conn', bridges', conn'[<<l, CI>>]) = OriginOf(conn', bridges', design.conn[<<i, "CI">>])
  BY <1>1 DEF Moved, SamePorts
<1>3. conn'[<<l, CO>>] = OriginOf(conn', bridges', design.conn[<<i, "CO">>])
  BY <1>1 DEF Moved, SamePorts
<1> QED BY <1>2, <1>3 DEF SamePorts

LEMMA KeptPorts ==
  ASSUME \A n \in Nat : n < new_net => OriginOf(conn', bridges', n) = OriginOf(conn, bridges, n),
         Inv, CopyInv, NEW i \in design.carries, NEW l, NEW I0, NEW I1, NEW CI, NEW CO,
         SamePorts(conn, bridges, design.conn, i, l, I0, I1, CI, CO),
         conn'[<<l, I0>>] = conn[<<l, I0>>], conn'[<<l, I1>>] = conn[<<l, I1>>],
         conn'[<<l, CI>>] = conn[<<l, CI>>], conn'[<<l, CO>>] = conn[<<l, CO>>],
         conn[<<l, CI>>] \in Nat, conn[<<l, CI>>] < new_net
  PROVE  SamePorts(conn', bridges', design.conn, i, l, I0, I1, CI, CO)
<1>1. /\ design.conn[<<i, "CI">>] \in Nat /\ design.conn[<<i, "CI">>] < new_net
      /\ design.conn[<<i, "CO">>] \in Nat /\ design.conn[<<i, "CO">>] < new_net
  BY DesignPorts DEF CarryPort
<1> QED BY <1>1 DEF SamePorts

LEMMA CopyKept ==
  ASSUME Inv, CopyInv, design' = design, new_net' \in {new_net, new_net + 1}, Used \subseteq Used',
         NEW X, bridges' = bridges \cup X,
         \A y \in bridges : conn'[<<y[1], y[3]>>] = Out(y) /\ conn'[<<y[1], y[2]>>] = In(y),
         \A y \in bridges \cup X : y[3] = "COUT" => y[1] \notin Range(packed'),
         \A x \in X : x[1] \in Used' /\ conn'[<<x[1], x[3]>>] # None,
         \A x \in X : (x[2] = "I3" /\ x[3] = "O") \/ (x[2] = "I1" /\ x[3] = "COUT"),
         \A x \in X, y \in bridges : y[3] = "O" => conn'[<<x[1], x[3]>>] # In(y),
         \A x \in X, y \in bridges' : x[3] = "O" => conn'[<<y[1], y[3]>>] # conn'[<<x[1], x[2]>>],
         \A x \in X : x[3] = "COUT" => conn'[<<x[1], x[2]>>] \in DesignNets /\ conn'[<<x[1], x[3]>>] \notin DesignNets,
         pc' \in {"break", "tail"} /\ chain' # <<>> => Back' \in Range(packed'),
         pc' = "carry" /\ chain' # <<>> /\ Back' \notin Range(packed') =>
           \A p \in DOMAIN conn' : conn'[p] = in_conn' => p \in {<<Back', "COUT">>, <<c', "CI">>}
  PROVE  CopyInv'
<1>1. \A y \in bridges : Out(y)' = Out(y) /\ In(y)' = In(y)
  BY DEF Out, In
<1>2. \A x \in X : Out(x)' = conn'[<<x[1], x[3]>>] /\ In(x)' = conn'[<<x[1], x[2]>>]
  BY DEF Out, In
<1>3. DesignNets' = DesignNets
  BY DEF DesignNets
<1>4. /\ \A x \in bridges : x[1] \in Used /\ Out(x) # None
      /\ \A x \in bridges : (x[2] = "I3" /\ x[3] = "O") \/ (x[2] = "I1" /\ x[3] = "COUT")
      /\ \A x, y \in bridges : x[3] = "O" => Out(y) # In(x)
      /\ \A x \in bridges : x[3] = "COUT" => In(x) \in DesignNets /\ Out(x) \notin DesignNets
      /\ \A n \in DesignNets : n \in Nat /\ n < new_net
  BY DEF CopyInv
<1>5. \A x \in bridges' : x[1] \in Used' /\ Out(x)' # None
  <2> HIDE DEF Used
  <2> QED BY <1>1, <1>2, <1>4, ZenonT(60)
<1>6. \A x \in bridges' : (x[2] = "I3" /\ x[3] = "O") \/ (x[2] = "I1" /\ x[3] = "COUT")
  BY <1>4
<1>7. \A x, y \in bridges' : x[3] = "O" => Out(y)' # In(x)'
  <2> TAKE x \in bridges', y \in bridges'
  <2> HAVE x[3] = "O"
  <2>1. CASE x \in X
    <3>1. conn'[<<y[1], y[3]>>] # conn'[<<x[1], x[2]>>]
      BY <2>1
    <3> QED BY <3>1 DEF Out, In
  <2>2. CASE x \in bridges /\ y \in bridges
    BY <1>1, <1>4, <2>2
  <2>3. CASE x \in bridges /\ y \in X
    <3>1. conn'[<<y[1], y[3]>>] # In(x)
      BY <2>3
    <3> QED BY <1>1, <1>2, <2>3, <3>1, ZenonT(60)
  <2> QED BY <2>1, <2>2, <2>3
<1>8. \A x \in bridges' : x[3] = "COUT" => In(x)' \in DesignNets /\ Out(x)' \notin DesignNets
  BY <1>1, <1>2, <1>4
<1>9. \A n \in DesignNets : n \in Nat /\ n < new_net'
  <2>1. new_net \in Nat
    BY NetDrivers DEF Inv
  <2> QED BY <1>4, <2>1
<1>10. \A x \in bridges' : x[3] = "COUT" => x[1] \notin Range(packed')
  OBVIOUS
<1> QED BY <1>3, <1>5, <1>6, <1>7, <1>8, <1>9, <1>10 DEF CopyInv

(* A step that leaves the netlist and the packed carries as they are.      *)
LEMMA StillLogic ==
  ASSUME Inv, CopyInv, LogicInv, UNCHANGED <<conn, bridges, packed, carries, design, new_net>>, Used \subseteq Used',
         pc' \in {"break", "tail"} /\ chain' # <<>> => Back' \in Range(packed'),
         pc' = "carry" /\ chain' # <<>> /\ Back' \notin Range(packed') =>
           \A p \in DOMAIN conn' : conn'[p] = in_conn' => p \in {<<Back', "COUT">>, <<c', "CI">>}
  PROVE  CopyInv' /\ LogicInv'
<1>1. LogicInv'
  BY DEF LogicInv
<1>2. \A y \in bridges : conn'[<<y[1], y[3]>>] = Out(y) /\ conn'[<<y[1], y[2]>>] = In(y)
  BY DEF Out, In
<1>3. \A y \in bridges : y[3] = "COUT" => y[1] \notin Range(packed')
  BY DEF CopyInv
<1>4. Out(0)' = Out(0) /\ DesignNets' = DesignNets /\ \A x : Out(x)' = Out(x) /\ In(x)' = In(x)
  BY DEF Out, In, DesignNets
<1>5. \A x \in bridges : x[1] \in Used'
  <2>1. \A x \in bridges : x[1] \in Used
    BY DEF CopyInv
  <2> QED BY <2>1
<1>6. CopyInv'
  <2> HIDE DEF Used
  <2> QED BY <1>3, <1>4, <1>5 DEF CopyInv
<1> QED BY <1>1, <1>6

(* The last carry is passed out.                                           *)
LEMMA PassedLogic ==
  ASSUME Inv, CopyInv, LogicInv, Passed, design' = design, chain # <<>>, LastNet # None, Back \in Range(packed),
         Used \cup {new_inst} \subseteq Used', pc' \notin {"break", "tail"}, pc' = "carry" => chain' = <<>>
  PROVE  CopyInv' /\ LogicInv'
<1>1. \A y \in bridges : conn'[<<y[1], y[3]>>] = Out(y) /\ conn'[<<y[1], y[2]>>] = In(y)
  BY LastIsNoCopy, BridgePorts DEF Passed, Out, In
<1>2. /\ bridges' = bridges \cup {<<new_inst, "I3", "O">>}
      /\ conn'[<<new_inst, "I3">>] = new_net /\ conn'[<<new_inst, "O">>] = LastNet
      /\ new_net' \in {new_net, new_net + 1} /\ packed' = packed /\ carries' = carries
      /\ conn'[<<Back, "COUT">>] = new_net
      /\ \A p \in DOMAIN conn : p # <<Back, "COUT">> => p \in DOMAIN conn' /\ conn'[p] = conn[p]
  BY DEF Passed, NextNet
<1>3. Moved
  BY <1>1, <1>2, MovedOrigins
<1>4. LastNet # new_net /\ \A p \in DOMAIN conn : conn[p] \in Nat /\ conn[p] < new_net
  <2>1. <<Back, "COUT">> \in DOMAIN conn /\ conn[<<Back, "COUT">>] = LastNet
    BY LastDriver
  <2>2. \A p \in DOMAIN conn : conn[p] \in Nat /\ conn[p] < new_net
    BY NetDrivers DEF Inv
  <2>3. \A k \in Nat : k < new_net => k # new_net
    BY NetDrivers DEF Inv
  <2> QED BY <2>1, <2>2, <2>3
<1>5. CopyInv'
  <2> DEFINE x == <<new_inst, "I3", "O">>
  <2>1. /\ x[1] = new_inst /\ x[2] = "I3" /\ x[3] = "O" /\ bridges' = bridges \cup {x}
        /\ conn'[<<x[1], x[2]>>] = new_net /\ conn'[<<x[1], x[3]>>] = LastNet
    BY <1>2
  <2> HIDE DEF x
  <2> DEFINE X == {x}
  <2>2. \A y \in bridges \cup X : y[3] = "COUT" => y[1] \notin Range(packed')
    BY <1>2, <2>1 DEF CopyInv
  <2>3. \A z \in X : z[1] \in Used' /\ conn'[<<z[1], z[3]>>] # None
    <3> HIDE DEF Used
    <3> QED BY <2>1
  <2>4. \A z \in X, y \in bridges : y[3] = "O" => conn'[<<z[1], z[3]>>] # In(y)
    BY <2>1, LastIsNoCopy
  <2>5. \A z \in X, y \in bridges' : z[3] = "O" => conn'[<<y[1], y[3]>>] # conn'[<<z[1], z[2]>>]
    <3>1. \A y \in bridges : Out(y) # new_net
      <4>1. \A y \in bridges : <<y[1], y[3]>> \in DOMAIN conn
        BY BridgePorts
      <4>2. \A p \in DOMAIN conn : conn[p] # new_net
        BY NewIsNew DEF Inv
      <4> QED BY <4>1, <4>2 DEF Out
    <3> QED BY <1>1, <1>4, <2>1, <3>1
  <2>6. Used \subseteq Used'
    <3> HIDE DEF Used
    <3> QED OBVIOUS
  <2>7. \A z \in X : z[2] = "I3" /\ z[3] = "O"
    BY <2>1
  <2>8. ~(pc' = "carry" /\ chain' # <<>>) /\ pc' \notin {"break", "tail"}
    OBVIOUS
  <2>9. bridges' = bridges \cup X /\ new_net' \in {new_net, new_net + 1}
    BY <1>2, <2>1
  <2>10. \A z \in X : z[3] # "COUT"
    BY <2>1
  <2> HIDE DEF X, Used
  <2> QED BY <1>1, <2>2, <2>3, <2>4, <2>5, <2>6, <2>7, <2>8, <2>9, <2>10, CopyKept
<1>6. \A i \in carries' : SamePorts(conn', bridges', design'.conn, i, i, "I0", "I1", "CI", "CO")
  <2> TAKE i \in carries'
  <2>1. i \in carries /\ i \in design.carries /\ SamePorts(conn, bridges, design.conn, i, i, "I0", "I1", "CI", "CO")
    BY <1>2, DesignPorts DEF LogicInv
  <2>2. \A f \in CarryPort : <<i, f>> \in DOMAIN conn /\ conn'[<<i, f>>] = conn[<<i, f>>]
    <3>1. \A f \in CarryPort : <<i, f>> \in DOMAIN conn /\ f # "COUT"
      BY <2>1, CarryPorts DEF Inv, CarryPort
    <3> QED BY <1>2, <3>1
  <2>3. conn[<<i, "CO">>] # LastNet
    <3>1. <<i, "CO">> \in DOMAIN conn /\ <<i, "CO">>[2] \in Driver /\ <<i, "CO">> # <<Back, "COUT">>
      BY <2>2 DEF CarryPort, Driver
    <3> QED BY <3>1, LastDriver
  <2>4. {"I0", "I1", "CI", "CO"} \subseteq CarryPort
    BY DEF CarryPort
  <2> QED BY <1>3, <1>4, <2>1, <2>2, <2>3, <2>4, MovedPorts
<1>7. \A i \in DOMAIN packed' : SamePorts(conn', bridges', design'.conn, i, packed'[i], "I1", "I2", "CIN", "COUT")
  <2> TAKE i \in DOMAIN packed'
  <2> DEFINE l == packed[i]
  <2>1. /\ i \in design.carries /\ SamePorts(conn, bridges, design.conn, i, l, "I1", "I2", "CIN", "COUT")
        /\ l \in lcs /\ packed'[i] = l
    BY <1>2, DesignPorts DEF LogicInv, Inv, PlacesInv
  <2> HIDE DEF l
  <2>2. \A f \in LCPort : <<l, f>> \in DOMAIN conn
    BY <2>1, CarryPorts DEF Inv
  <2>3. \A f \in {"I1", "I2", "CIN"} : <<l, f>> \in DOMAIN conn /\ conn'[<<l, f>>] = conn[<<l, f>>]
    BY <1>2, <2>2 DEF LCPort
  <2>4. conn'[<<l, "COUT">>] = IF conn[<<l, "COUT">>] = LastNet THEN new_net ELSE conn[<<l, "COUT">>]
    <3>1. <<l, "COUT">> \in DOMAIN conn /\ <<l, "COUT">>[2] \in Driver
      BY <2>2 DEF LCPort, Driver
    <3>2. CASE l = Back
      BY <1>2, <3>2 DEF LastNet
    <3>3. CASE l # Back
      <4>1. <<l, "COUT">> # <<Back, "COUT">>
        BY <3>3
      <4> QED BY <1>2, <3>1, <4>1, LastDriver
    <3> QED BY <3>2, <3>3
  <2> QED BY <1>3, <1>4, <2>1, <2>3, <2>4, MovedPorts
<1>8. \A p \in DOMAIN design.conn :
        p[1] \notin design.carries /\ p[2] \notin {"CIN", "COUT"} => p \in DOMAIN conn' /\ conn'[p] = design.conn[p]
  BY <1>2 DEF LogicInv
<1>9. LogicInv'
  BY <1>6, <1>7, <1>8 DEF LogicInv
<1> QED BY <1>5, <1>9

(* A cell in no chain copies nothing.                                      *)
LEMMA UnusedCopiesNothing ==
  ASSUME Inv, CopyInv, NEW l, l \notin Used
  PROVE  /\ \A x \in bridges : x[1] # l
         /\ \A i \in DOMAIN packed : packed[i] \in Used /\ packed[i] \in lcs /\ packed[i] # l
BY DEF CopyInv, Inv, PlacesInv

LEMMA PackedRange ==
  ASSUME NEW l, Gone(l)
  PROVE  l \in Range(packed') /\ \A k \in Range(packed') : k \in Range(packed) \/ k = l
<1>1. c \in DOMAIN packed' /\ packed'[c] = l
  BY DEF Gone
<1>2. \A i \in DOMAIN packed' : packed'[i] = l \/ (i \in DOMAIN packed /\ packed'[i] = packed[i])
  BY DEF Gone
<1> QED BY <1>1, <1>2 DEF Range

(* A carry becomes part of a cell, without a cell that copies.             *)
LEMMA PackedLogic ==
  ASSUME Inv, CopyInv, LogicInv, c \in carries, NEW l, l \notin Used, l \notin carries, Gone(l), Followed(l),
         bridges' = bridges, design' = design, new_net' = new_net, Used \subseteq Used', Back' = l,
         conn'[<<l, "CIN">>] = in_conn, conn'[<<l, "I1">>] = conn[<<c, "I0">>], conn'[<<l, "I2">>] = conn[<<c, "I1">>],
         SamePorts(conn, bridges, design.conn, c, c, "I0", "I1", "CI", "CO"),
         \A p \in DOMAIN conn : p[1] # c /\ (p[2] \notin {"CIN", "COUT"} \/ p[1] # l) => 
                                  p \in DOMAIN conn' /\ conn'[p] = conn[p]
  PROVE  CopyInv' /\ LogicInv'
<1>1. \A y \in bridges : conn'[<<y[1], y[3]>>] = Out(y) /\ conn'[<<y[1], y[2]>>] = In(y)
  <2> TAKE y \in bridges
  <2>1. /\ y[1] # l /\ y[1] # c /\ <<y[1], y[2]>> \in DOMAIN conn /\ <<y[1], y[3]>> \in DOMAIN conn
    BY UnusedCopiesNothing, BridgePorts
  <2> QED BY <2>1 DEF Out, In
<1>2. \A n \in Nat : n < new_net => OriginOf(conn', bridges', n) = OriginOf(conn, bridges, n)
  BY <1>1, CopiesKept
<1>3. carries' = carries \ {c} /\ DOMAIN packed' = DOMAIN packed \cup {c} /\ packed'[c] = l
      /\ conn'[<<l, "COUT">>] = conn[<<c, "CO">>] /\ \A i \in DOMAIN packed : i # c => packed'[i] = packed[i]
  BY DEF Gone
<1>4. CopyInv'
  <2> DEFINE X == {}
  <2>1. \A y \in bridges \cup X : y[3] = "COUT" => y[1] \notin Range(packed')
    BY PackedRange, UnusedCopiesNothing DEF CopyInv
  <2>2. bridges' = bridges \cup X /\ Back' \in Range(packed') /\ pc' # "carry" /\ \A x : x \notin X
    BY PackedRange DEF Followed
  <2> HIDE DEF X, Used
  <2> QED BY <1>1, <2>1, <2>2, CopyKept
<1>5. \A p \in DOMAIN conn : conn[p] \in Nat /\ conn[p] < new_net
  BY NetDrivers DEF Inv
<1>6. \A i \in carries' : SamePorts(conn', bridges', design'.conn, i, i, "I0", "I1", "CI", "CO")
  <2> TAKE i \in carries'
  <2>1. /\ i \in carries /\ i \in design.carries /\ i # c /\ i # l
        /\ SamePorts(conn, bridges, design.conn, i, i, "I0", "I1", "CI", "CO")
    BY <1>3, DesignPorts DEF LogicInv
  <2>2. \A f \in CarryPort : <<i, f>> \in DOMAIN conn /\ conn'[<<i, f>>] = conn[<<i, f>>]
    <3>1. \A f \in CarryPort : <<i, f>> \in DOMAIN conn
      BY <2>1, CarryPorts DEF Inv
    <3> QED BY <2>1, <3>1
  <2>3. {"I0", "I1", "CI", "CO"} \subseteq CarryPort
    BY DEF CarryPort
  <2>4. /\ conn'[<<i, "I0">>] = conn[<<i, "I0">>] /\ conn'[<<i, "I1">>] = conn[<<i, "I1">>]
        /\ conn'[<<i, "CI">>] = conn[<<i, "CI">>] /\ conn'[<<i, "CO">>] = conn[<<i, "CO">>]
        /\ conn[<<i, "CI">>] \in Nat /\ conn[<<i, "CI">>] < new_net
    BY <1>5, <2>2, <2>3
  <2> QED BY <1>2, <2>1, <2>4, KeptPorts
<1>7. \A i \in DOMAIN packed' : SamePorts(conn', bridges', design'.conn, i, packed'[i], "I1", "I2", "CIN", "COUT")
  <2> TAKE i \in DOMAIN packed'
  <2>1. CASE i = c
    <3>1. /\ design.conn[<<c, "CI">>] \in Nat /\ design.conn[<<c, "CI">>] < new_net
          /\ design.conn[<<c, "CO">>] \in Nat /\ design.conn[<<c, "CO">>] < new_net
      BY DesignPorts DEF CarryPort
    <3>2. in_conn \in Nat /\ in_conn < new_net
      <4>1. <<c, "CI">> \in DOMAIN conn
        BY CarryPorts DEF Inv
      <4> QED BY <1>5, <4>1 DEF in_conn
    <3>3. conn'[<<l, "CIN">>] = conn[<<c, "CI">>]
      BY DEF in_conn
    <3> QED BY <1>2, <1>3, <2>1, <3>1, <3>2, <3>3 DEF SamePorts, in_conn
  <2>2. CASE i # c
    <3> DEFINE k == packed[i]
    <3>1. /\ i \in design.carries /\ SamePorts(conn, bridges, design.conn, i, k, "I1", "I2", "CIN", "COUT")
          /\ k \in lcs /\ k # l /\ k # c /\ packed'[i] = k
      <4>1. i \in DOMAIN packed
        BY <1>3, <2>2
      <4>2. lcs \cap carries = {}
        BY DEF Inv, NetInv
      <4> QED BY <1>3, <2>2, <4>1, <4>2, DesignPorts, UnusedCopiesNothing DEF LogicInv
    <3> HIDE DEF k
    <3>2. \A f \in LCPort : <<k, f>> \in DOMAIN conn /\ conn'[<<k, f>>] = conn[<<k, f>>]
      <4>1. \A f \in LCPort : <<k, f>> \in DOMAIN conn
        BY <3>1, CarryPorts DEF Inv
      <4> QED BY <3>1, <4>1
    <3>3. {"I1", "I2", "CIN", "COUT"} \subseteq LCPort
      BY DEF LCPort
    <3>4. /\ conn'[<<k, "I1">>] = conn[<<k, "I1">>] /\ conn'[<<k, "I2">>] = conn[<<k, "I2">>]
          /\ conn'[<<k, "CIN">>] = conn[<<k, "CIN">>] /\ conn'[<<k, "COUT">>] = conn[<<k, "COUT">>]
          /\ conn[<<k, "CIN">>] \in Nat /\ conn[<<k, "CIN">>] < new_net
      BY <1>5, <3>2, <3>3
    <3> QED BY <1>2, <3>1, <3>4, KeptPorts
  <2> QED BY <2>1, <2>2
<1>8. \A p \in DOMAIN design.conn :
        p[1] \notin design.carries /\ p[2] \notin {"CIN", "COUT"} => p \in DOMAIN conn' /\ conn'[p] = design.conn[p]
  <2>1. c \in design.carries
    BY DesignPorts
  <2> QED BY <2>1 DEF LogicInv
<1>9. LogicInv'
  BY <1>6, <1>7, <1>8 DEF LogicInv
<1> QED BY <1>4, <1>9

(* A carry becomes part of a cell that passes the last carry out.          *)
LEMMA BehindLogic ==
  ASSUME Inv, CopyInv, LogicInv, c \in carries, chain # <<>>, LastNet # None, LastNet = in_conn,
         Back \in Range(packed), Behind, Followed(new_inst),
         design' = design, Used \cup {new_inst} \subseteq Used', Back' = new_inst
  PROVE  CopyInv' /\ LogicInv'
<1>1. /\ bridges' = bridges \cup {<<new_inst, "I3", "O">>} /\ new_net' \in {new_net, new_net + 1}
      /\ conn'[<<new_inst, "I3">>] = new_net /\ conn'[<<new_inst, "O">>] = LastNet
      /\ conn'[<<new_inst, "CIN">>] = new_net /\ conn'[<<Back, "COUT">>] = new_net
      /\ \A p \in DOMAIN conn : p[1] # c /\ p # <<Back, "COUT">> => conn'[p] = conn[p]
      /\ Gone(new_inst)
  BY DEF Behind, NextNet, OwnCell
<1>2. /\ \A p \in DOMAIN conn : p[1] # c => p \in DOMAIN conn'
      /\ conn'[<<new_inst, "I1">>] = conn[<<c, "I0">>] /\ conn'[<<new_inst, "I2">>] = conn[<<c, "I1">>]
  BY DEF Behind, OwnCell
<1>3. /\ carries' = carries \ {c} /\ DOMAIN packed' = DOMAIN packed \cup {c} /\ packed'[c] = new_inst
      /\ conn'[<<new_inst, "COUT">>] = conn[<<c, "CO">>]
      /\ \A i \in DOMAIN packed : i # c => packed'[i] = packed[i]
  BY <1>1 DEF Gone
<1>4. \A y \in bridges : conn'[<<y[1], y[3]>>] = Out(y) /\ conn'[<<y[1], y[2]>>] = In(y)
  <2> TAKE y \in bridges
  <2>1. /\ y[1] # c /\ <<y[1], y[2]>> \in DOMAIN conn /\ <<y[1], y[3]>> \in DOMAIN conn
        /\ <<y[1], y[2]>> # <<Back, "COUT">> /\ <<y[1], y[3]>> # <<Back, "COUT">>
    BY BridgePorts, LastIsNoCopy
  <2> QED BY <1>1, <2>1 DEF Out, In
<1>5. Moved /\ OriginOf(conn, bridges, LastNet) = LastNet
  BY <1>1, <1>4, MovedOrigins
<1>6. \A p \in DOMAIN conn : conn[p] \in Nat /\ conn[p] < new_net /\ conn[p] # new_net
  BY NetDrivers, NewIsNew DEF Inv
<1>7. LastNet # new_net /\ new_inst \notin Used /\ new_inst \notin carries
  <2>1. <<Back, "COUT">> \in DOMAIN conn /\ conn[<<Back, "COUT">>] = LastNet
    BY LastDriver
  <2> QED BY <1>6, <2>1, ChainIs, NewIsNew DEF Inv
<1>8. CopyInv'
  <2> DEFINE x == <<new_inst, "I3", "O">>
  <2>1. /\ x[1] = new_inst /\ x[2] = "I3" /\ x[3] = "O" /\ bridges' = bridges \cup {x}
        /\ conn'[<<x[1], x[2]>>] = new_net /\ conn'[<<x[1], x[3]>>] = LastNet
    BY <1>1
  <2> HIDE DEF x
  <2> DEFINE X == {x}
  <2>2. \A y \in bridges \cup X : y[3] = "COUT" => y[1] \notin Range(packed')
    BY <1>1, <1>7, <2>1, PackedRange, UnusedCopiesNothing DEF CopyInv
  <2>3. \A z \in X : z[1] \in Used' /\ conn'[<<z[1], z[3]>>] # None
    <3> HIDE DEF Used
    <3> QED BY <2>1
  <2>4. \A z \in X, y \in bridges : y[3] = "O" => conn'[<<z[1], z[3]>>] # In(y)
    BY <2>1, LastIsNoCopy
  <2>5. \A z \in X, y \in bridges' : z[3] = "O" => conn'[<<y[1], y[3]>>] # conn'[<<z[1], z[2]>>]
    <3>1. \A y \in bridges : Out(y) # new_net
      BY <1>6, BridgePorts DEF Out
    <3> QED BY <1>4, <1>7, <2>1, <3>1
  <2>6. Used \subseteq Used'
    <3> HIDE DEF Used
    <3> QED OBVIOUS
  <2>7. \A z \in X : z[2] = "I3" /\ z[3] = "O"
    BY <2>1
  <2>8. Back' \in Range(packed') /\ pc' # "carry"
    BY <1>1, PackedRange DEF Followed
  <2>9. bridges' = bridges \cup X /\ new_net' \in {new_net, new_net + 1}
    BY <1>1, <2>1
  <2>10. \A z \in X : z[3] # "COUT"
    BY <2>1
  <2> HIDE DEF X, Used
  <2> QED BY <1>4, <2>2, <2>3, <2>4, <2>5, <2>6, <2>7, <2>8, <2>9, <2>10, CopyKept
<1>9. \A i \in carries : <<i, "CO">> \in DOMAIN conn /\ conn[<<i, "CO">>] # LastNet
  <2> TAKE i \in carries
  <2>1. <<i, "CO">> \in DOMAIN conn /\ <<i, "CO">>[2] \in Driver /\ <<i, "CO">> # <<Back, "COUT">>
    BY CarryPorts DEF Inv, CarryPort, Driver
  <2> QED BY <2>1, LastDriver
<1>10. \A i \in carries' : SamePorts(conn', bridges', design'.conn, i, i, "I0", "I1", "CI", "CO")
  <2> TAKE i \in carries'
  <2>1. /\ i \in carries /\ i \in design.carries /\ i # c
        /\ SamePorts(conn, bridges, design.conn, i, i, "I0", "I1", "CI", "CO")
    BY <1>3, DesignPorts DEF LogicInv
  <2>2. \A f \in CarryPort : <<i, f>> \in DOMAIN conn /\ conn'[<<i, f>>] = conn[<<i, f>>]
    <3>1. \A f \in CarryPort : <<i, f>> \in DOMAIN conn /\ f # "COUT"
      BY <2>1, CarryPorts DEF Inv, CarryPort
    <3> QED BY <1>1, <2>1, <3>1
  <2>3. {"I0", "I1", "CI", "CO"} \subseteq CarryPort
    BY DEF CarryPort
  <2>4. /\ conn'[<<i, "I0">>] = conn[<<i, "I0">>] /\ conn'[<<i, "I1">>] = conn[<<i, "I1">>]
        /\ conn'[<<i, "CI">>] = conn[<<i, "CI">>] /\ conn[<<i, "CI">>] \in Nat /\ conn[<<i, "CI">>] < new_net
        /\ conn'[<<i, "CO">>] = IF conn[<<i, "CO">>] = LastNet THEN new_net ELSE conn[<<i, "CO">>]
    BY <1>6, <1>9, <2>1, <2>2, <2>3
  <2> QED BY <1>5, <2>1, <2>4, MovedPorts
<1>11. \A i \in DOMAIN packed' : SamePorts(conn', bridges', design'.conn, i, packed'[i], "I1", "I2", "CIN", "COUT")
  <2> TAKE i \in DOMAIN packed'
  <2>1. CASE i = c
    <3>1. /\ design.conn[<<c, "CI">>] \in Nat /\ design.conn[<<c, "CI">>] < new_net
          /\ design.conn[<<c, "CO">>] \in Nat /\ design.conn[<<c, "CO">>] < new_net
      BY DesignPorts DEF CarryPort
    <3>2. SamePorts(conn, bridges, design.conn, c, c, "I0", "I1", "CI", "CO")
      BY DEF LogicInv
    <3>3. OriginOf(conn', bridges', design.conn[<<c, "CI">>]) = new_net
      <4>1. OriginOf(conn, bridges, design.conn[<<c, "CI">>]) = LastNet
        BY <1>5, <3>2 DEF SamePorts, in_conn
      <4> QED BY <1>5, <3>1, <4>1 DEF Moved
    <3>4. OriginOf(conn', bridges', conn'[<<new_inst, "CIN">>]) = new_net
      BY <1>1, <1>5 DEF Moved
    <3>5. OriginOf(conn', bridges', design.conn[<<c, "CO">>]) = conn[<<c, "CO">>]
      <4>1. OriginOf(conn, bridges, design.conn[<<c, "CO">>]) = conn[<<c, "CO">>]
        BY <3>2 DEF SamePorts
      <4> QED BY <1>5, <1>9, <3>1, <4>1 DEF Moved
    <3>6. conn[<<c, "I0">>] = design.conn[<<c, "I0">>] /\ conn[<<c, "I1">>] = design.conn[<<c, "I1">>]
      BY <3>2 DEF SamePorts
    <3> QED BY <1>2, <1>3, <2>1, <3>3, <3>4, <3>5, <3>6 DEF SamePorts
  <2>2. CASE i # c
    <3> DEFINE k == packed[i]
    <3>1. /\ i \in design.carries /\ SamePorts(conn, bridges, design.conn, i, k, "I1", "I2", "CIN", "COUT")
          /\ k \in lcs /\ k # c /\ packed'[i] = k
      <4>1. i \in DOMAIN packed
        BY <1>3, <2>2
      <4>2. lcs \cap carries = {}
        BY DEF Inv, NetInv
      <4> QED BY <1>3, <1>7, <2>2, <4>1, <4>2, DesignPorts, UnusedCopiesNothing DEF LogicInv
    <3> HIDE DEF k
    <3>2. \A f \in LCPort : <<k, f>> \in DOMAIN conn
      BY <3>1, CarryPorts DEF Inv
    <3>3. \A f \in {"I1", "I2", "CIN"} : <<k, f>> \in DOMAIN conn /\ conn'[<<k, f>>] = conn[<<k, f>>]
      BY <1>1, <3>1, <3>2 DEF LCPort
    <3>4. conn'[<<k, "COUT">>] = IF conn[<<k, "COUT">>] = LastNet THEN new_net ELSE conn[<<k, "COUT">>]
      <4>1. <<k, "COUT">> \in DOMAIN conn /\ <<k, "COUT">>[2] \in Driver
        BY <3>2 DEF LCPort, Driver
      <4>2. CASE k = Back
        BY <1>1, <4>2 DEF LastNet
      <4>3. CASE k # Back
        <5>1. <<k, "COUT">> # <<Back, "COUT">>
          BY <4>3
        <5> QED BY <1>1, <3>1, <4>1, <5>1, LastDriver
      <4> QED BY <4>2, <4>3
    <3> QED BY <1>5, <1>6, <3>1, <3>3, <3>4, MovedPorts
  <2> QED BY <2>1, <2>2
<1>12. \A p \in DOMAIN design.conn :
        p[1] \notin design.carries /\ p[2] \notin {"CIN", "COUT"} => p \in DOMAIN conn' /\ conn'[p] = design.conn[p]
  <2>1. c \in design.carries
    BY DesignPorts
  <2> QED BY <1>1, <1>2, <2>1 DEF LogicInv
<1>13. LogicInv'
  BY <1>10, <1>11, <1>12 DEF LogicInv
<1> QED BY <1>8, <1>13

(* A chain is fed through a cell of its own.                               *)
LEMMA BegunLogic ==
  ASSUME Inv, CopyInv, LogicInv, pc = "carryin", c \in carries, Begun, chain' = <<new_inst>>, pc' = "carry",
         c' = c, design' = design, Used \cup {new_inst} \subseteq Used'
  PROVE  CopyInv' /\ LogicInv'
<1>1. /\ bridges' = bridges \cup {<<new_inst, "I1", "COUT">>} /\ new_net' \in {new_net, new_net + 1}
      /\ conn'[<<new_inst, "I1">>] = in_conn /\ conn'[<<new_inst, "COUT">>] = new_net
      /\ conn'[<<c, "CI">>] = new_net
      /\ \A p \in DOMAIN conn : p # <<c, "CI">> => p \in DOMAIN conn' /\ conn'[p] = conn[p]
      /\ packed' = packed /\ carries' = carries
  BY DEF Begun, NextNet
<1>2. \A y \in bridges : conn'[<<y[1], y[3]>>] = Out(y) /\ conn'[<<y[1], y[2]>>] = In(y)
  <2> TAKE y \in bridges
  <2>1. y[1] # c /\ <<y[1], y[2]>> \in DOMAIN conn /\ <<y[1], y[3]>> \in DOMAIN conn
    BY BridgePorts
  <2> QED BY <1>1, <2>1 DEF Out, In
<1>3. \A p \in DOMAIN conn : conn[p] \in Nat /\ conn[p] < new_net /\ conn[p] # new_net
  BY NetDrivers, NewIsNew DEF Inv
<1>4. in_conn \in DesignNets /\ in_conn \in Nat /\ in_conn < new_net /\ in_conn # new_net
  <2>1. in_conn = design.conn[<<c, "CI">>]
    BY DEF Inv, CarriesInv, in_conn
  <2>2. in_conn # new_net
    <3>1. <<c, "CI">> \in DOMAIN conn
      BY CarryPorts DEF Inv
    <3> QED BY <1>3, <3>1 DEF in_conn
  <2> QED BY <2>1, <2>2, DesignPorts DEF CarryPort
<1>5. \A y \in bridges : Out(y) # new_net /\ In(y) # new_net
  BY <1>3, BridgePorts DEF Out, In
<1> DEFINE Cp(n) == CopyOf(conn, bridges, n)
           Cq(n) == CopyOf(conn', bridges', n)
<1>6. Cq(new_net) = in_conn /\ \A m : m # new_net => Cq(m) = Cp(m)
  <2> DEFINE x == <<new_inst, "I1", "COUT">>
  <2>1. bridges' = bridges \cup {x} /\ new_net = conn'[<<x[1], x[3]>>] /\ conn'[<<x[1], x[2]>>] = in_conn
    BY <1>1
  <2> HIDE DEF x
  <2> QED BY <1>2, <1>5, <2>1, CopiesGrow
<1>7. /\ \A x \in bridges : Cp(Out(x)) = In(x)
      /\ \A n : (\A x \in bridges : Out(x) # n) => Cp(n) = n
      /\ \A n \in Nat : n < new_net => Cp(n) \in Nat /\ Cp(n) < new_net
  BY CopiedIs
<1> HIDE DEF Cp, Cq
<1>8. \A n \in Nat : n < new_net => n # new_net
  BY NetDrivers DEF Inv
<1>9. \A n \in Nat : n < new_net => Cq(Cq(n)) = Cp(Cp(n))
  BY <1>6, <1>7, <1>8
<1>10. Cp(Cp(in_conn)) = Cp(in_conn)
  <2>1. CASE \A x \in bridges : Out(x) # in_conn
    BY <1>7, <2>1
  <2>2. CASE \E x \in bridges : Out(x) = in_conn
    <3>1. PICK x \in bridges : Out(x) = in_conn
      BY <2>2
    <3>2. Cp(in_conn) = In(x) /\ x[3] = "O"
      BY <1>4, <1>7, <3>1 DEF CopyInv
    <3>3. \A y \in bridges : Out(y) # In(x)
      BY <3>2 DEF CopyInv
    <3> QED BY <1>7, <3>2, <3>3
  <2> QED BY <2>1, <2>2
<1>11. Cq(Cq(new_net)) = Cp(Cp(in_conn))
  BY <1>4, <1>6, <1>10
<1>12. /\ \A n \in Nat : n < new_net => OriginOf(conn', bridges', n) = OriginOf(conn, bridges, n)
       /\ OriginOf(conn', bridges', new_net) = OriginOf(conn, bridges, in_conn)
  BY <1>9, <1>11 DEF OriginOf, Cp, Cq
<1>13. CopyInv'
  <2> DEFINE x == <<new_inst, "I1", "COUT">>
  <2>1. /\ x[1] = new_inst /\ x[2] = "I1" /\ x[3] = "COUT" /\ bridges' = bridges \cup {x}
        /\ conn'[<<x[1], x[2]>>] = in_conn /\ conn'[<<x[1], x[3]>>] = new_net
    BY <1>1
  <2> HIDE DEF x
  <2> DEFINE X == {x}
  <2>2. \A y \in bridges \cup X : y[3] = "COUT" => y[1] \notin Range(packed')
    <3>1. \A k \in Range(packed) : k # new_inst
      BY ChainIs, UnusedCopiesNothing DEF Range
    <3> QED BY <1>1, <2>1, <3>1 DEF CopyInv
  <2>3. \A z \in X : z[1] \in Used' /\ conn'[<<z[1], z[3]>>] # None
    <3>1. new_net # None
      BY NetDrivers DEF Inv, None
    <3> HIDE DEF Used
    <3> QED BY <2>1, <3>1
  <2>4. \A z \in X, y \in bridges : y[3] = "O" => conn'[<<z[1], z[3]>>] # In(y)
    BY <1>5, <2>1
  <2>5. \A z \in X : z[3] # "O" /\ z[2] = "I1" /\ z[3] = "COUT"
    BY <2>1
  <2>6. Used \subseteq Used'
    <3> HIDE DEF Used
    <3> QED OBVIOUS
  <2>7. \A z \in X : conn'[<<z[1], z[2]>>] \in DesignNets /\ conn'[<<z[1], z[3]>>] \notin DesignNets
    <3>1. new_net \notin DesignNets
      BY <1>8 DEF CopyInv
    <3> QED BY <1>4, <2>1, <3>1
  <2>8. \A p \in DOMAIN conn' : conn'[p] = in_conn' => p \in {<<Back', "COUT">>, <<c', "CI">>}
    <3>1. in_conn' = new_net /\ Back' = new_inst
      BY <1>1 DEF in_conn, Back
    <3>2. \A p \in DOMAIN conn' : p \in {new_inst} \X LCPort \/ p \in DOMAIN conn
      BY DEF Begun
    <3>3. ASSUME NEW f \in LCPort, f # "COUT" PROVE conn'[<<new_inst, f>>] # new_net
      <4>1. new_net \in Nat /\ new_net > 2
        BY NetDrivers DEF Inv
      <4>2. new_net \notin {None, Const0, Const1}
        BY <4>1 DEF None, Const0, Const1
      <4>3. conn'[<<new_inst, f>>] \in {in_conn, None, Const0, Const1}
        BY <3>3, LCPortIs DEF Begun
      <4> QED BY <1>4, <4>2, <4>3
    <3>4. \A p \in DOMAIN conn : p # <<c, "CI">> => conn'[p] # new_net
      BY <1>1, <1>3
    <3> QED BY <3>1, <3>2, <3>3, <3>4
  <2>9. bridges' = bridges \cup X /\ new_net' \in {new_net, new_net + 1} /\ pc' \notin {"break", "tail"}
    BY <1>1, <2>1
  <2> HIDE DEF X, Used
  <2> QED BY <1>2, <2>2, <2>3, <2>4, <2>5, <2>6, <2>7, <2>8, <2>9, CopyKept
<1>14. \A i \in carries' : SamePorts(conn', bridges', design'.conn, i, i, "I0", "I1", "CI", "CO")
  <2> TAKE i \in carries'
  <2>1. /\ i \in carries /\ i \in design.carries
        /\ SamePorts(conn, bridges, design.conn, i, i, "I0", "I1", "CI", "CO")
    BY <1>1, DesignPorts DEF LogicInv
  <2>2. \A f \in CarryPort : <<i, f>> \in DOMAIN conn /\ (f # "CI" \/ i # c => conn'[<<i, f>>] = conn[<<i, f>>])
    <3>1. \A f \in CarryPort : <<i, f>> \in DOMAIN conn
      BY <2>1, CarryPorts DEF Inv
    <3> QED BY <1>1, <3>1
  <2>3. /\ conn'[<<i, "I0">>] = conn[<<i, "I0">>] /\ conn'[<<i, "I1">>] = conn[<<i, "I1">>]
        /\ (i # c => conn'[<<i, "CI">>] = conn[<<i, "CI">>]) /\ conn'[<<i, "CO">>] = conn[<<i, "CO">>]
        /\ conn[<<i, "CI">>] \in Nat /\ conn[<<i, "CI">>] < new_net
    BY <1>3, <2>2 DEF CarryPort
  <2>4. CASE i # c
    BY <1>12, <2>1, <2>3, <2>4, KeptPorts
  <2>5. CASE i = c
    <3>1. /\ design.conn[<<c, "CI">>] \in Nat /\ design.conn[<<c, "CI">>] < new_net
          /\ design.conn[<<c, "CO">>] \in Nat /\ design.conn[<<c, "CO">>] < new_net
      BY DesignPorts DEF CarryPort
    <3>2. OriginOf(conn', bridges', conn'[<<c, "CI">>]) = OriginOf(conn', bridges', design.conn[<<c, "CI">>])
      BY <1>1, <1>12, <2>1, <2>5, <3>1 DEF SamePorts, in_conn
    <3> QED BY <1>12, <2>1, <2>3, <2>5, <3>1, <3>2 DEF SamePorts
  <2> QED BY <2>4, <2>5
<1>15. \A i \in DOMAIN packed' : SamePorts(conn', bridges', design'.conn, i, packed'[i], "I1", "I2", "CIN", "COUT")
  <2> TAKE i \in DOMAIN packed'
  <2> DEFINE k == packed[i]
  <2>1. /\ i \in design.carries /\ SamePorts(conn, bridges, design.conn, i, k, "I1", "I2", "CIN", "COUT")
        /\ k \in lcs /\ k # c /\ packed'[i] = k
    <3>1. lcs \cap carries = {} /\ i \in DOMAIN packed
      BY <1>1 DEF Inv, NetInv
    <3> QED BY <1>1, <3>1, DesignPorts DEF LogicInv, Inv, PlacesInv
  <2> HIDE DEF k
  <2>2. \A f \in LCPort : <<k, f>> \in DOMAIN conn /\ conn'[<<k, f>>] = conn[<<k, f>>]
    <3>1. \A f \in LCPort : <<k, f>> \in DOMAIN conn /\ <<k, f>> # <<c, "CI">>
      BY <2>1, CarryPorts DEF Inv
    <3> QED BY <1>1, <3>1
  <2>3. /\ conn'[<<k, "I1">>] = conn[<<k, "I1">>] /\ conn'[<<k, "I2">>] = conn[<<k, "I2">>]
        /\ conn'[<<k, "CIN">>] = conn[<<k, "CIN">>] /\ conn'[<<k, "COUT">>] = conn[<<k, "COUT">>]
        /\ conn[<<k, "CIN">>] \in Nat /\ conn[<<k, "CIN">>] < new_net
    BY <1>3, <2>2 DEF LCPort
  <2> QED BY <1>12, <2>1, <2>3, KeptPorts
<1>16. \A p \in DOMAIN design.conn :
        p[1] \notin design.carries /\ p[2] \notin {"CIN", "COUT"} => p \in DOMAIN conn' /\ conn'[p] = design.conn[p]
  <2>1. c \in design.carries
    BY DesignPorts
  <2> QED BY <1>1, <2>1 DEF LogicInv
<1>17. LogicInv'
  BY <1>14, <1>15, <1>16 DEF LogicInv
<1> QED BY <1>13, <1>17

(* Used cells stay used.                                                   *)
LEMMA UsedStays ==
  ASSUME Inv
  PROVE  /\ chains' = chains /\ chain' = chain => Used' = Used
         /\ \A l \in Nat : chain' = Append(chain, l) /\ chains' = chains => Used' = Used \cup {l}
         /\ \A u \in Seq(Nat) : chains' = Append(chains, u) /\ CellsOf(chain) \subseteq CellsOf(u)
                                  => Used \cup CellsOf(u) \subseteq Used'
<1>1. chains' = chains /\ chain' = chain => Used' = Used
  BY DEF Used, Lines, AllChains
<1>2. \A l \in Nat : chain' = Append(chain, l) /\ chains' = chains => Used' = Used \cup {l}
  BY LinesLonger
<1>3. ASSUME NEW u \in Seq(Nat), chains' = Append(chains, u), CellsOf(chain) \subseteq CellsOf(u)
      PROVE  Used \cup CellsOf(u) \subseteq Used'
  <2>1. Used' = (UNION {CellsOf(v) : v \in AllChains}) \cup CellsOf(u) \cup CellsOf(chain')
    BY <1>3, LinesClosed
  <2>2. Used = (UNION {CellsOf(v) : v \in AllChains}) \cup CellsOf(chain)
    BY UsedIs
  <2> HIDE DEF Used
  <2> QED BY <1>3, <2>1, <2>2
<1> QED BY <1>1, <1>2, <1>3

LEMMA StillLogicStep ==
  ASSUME Inv, CopyInv, LogicInv, Collect \/ TakeReady \/ Finish \/ ContinueChain \/ UNCHANGED vars
  PROVE  CopyInv' /\ LogicInv'
<1>1. UNCHANGED <<conn, bridges, packed, carries, design, new_net>> /\ chains' = chains /\ chain' = chain
  BY DEF Collect, TakeReady, Finish, ContinueChain, Begin, vars, netVars
<1>2. Used \subseteq Used'
  <2>1. Used' = Used
    BY <1>1, UsedStays
  <2> HIDE DEF Used
  <2> QED BY <2>1
<1>3. Back' = Back
  BY <1>1 DEF Back
<1>4. CASE Collect \/ Finish
  <2>1. pc' \in {"front", "packed", "failed"}
    BY <1>4 DEF Collect, Finish
  <2> QED BY <1>1, <1>2, <2>1, StillLogic
<1>5. CASE TakeReady
  <2>1. chain' = <<>>
    BY <1>1, <1>5 DEF TakeReady, Inv, LoopInv
  <2> QED BY <1>1, <1>2, <2>1, StillLogic
<1>6. CASE ContinueChain
  <2>1. pc = "break" /\ pc' \in {"carryin", "carry"}
    BY <1>6 DEF ContinueChain, Begin
  <2>2. chain' # <<>> => Back' \in Range(packed')
    BY <1>1, <1>3, <2>1 DEF CopyInv
  <2> QED BY <1>1, <1>2, <2>1, <2>2, StillLogic
<1>7. CASE UNCHANGED vars
  <2>1. pc' = pc /\ c' = c /\ in_conn' = in_conn
    BY <1>7 DEF vars, netVars, in_conn
  <2>2. pc' \in {"break", "tail"} /\ chain' # <<>> => Back' \in Range(packed')
    BY <1>1, <1>3, <2>1 DEF CopyInv
  <2>3. pc' = "carry" /\ chain' # <<>> /\ Back' \notin Range(packed') =>
          \A p \in DOMAIN conn' : conn'[p] = in_conn' => p \in {<<Back', "COUT">>, <<c', "CI">>}
    BY <1>1, <1>3, <2>1 DEF CopyInv
  <2> QED BY <1>1, <1>2, <2>2, <2>3, StillLogic
<1> QED BY <1>4, <1>5, <1>6, <1>7

LEMMA ChainsLogicStep ==
  ASSUME Inv, CopyInv, LogicInv, TailAppend \/ EndChain
  PROVE  CopyInv' /\ LogicInv'
<1>1. /\ UNCHANGED <<conn, bridges, packed, carries, design, new_net>> /\ pc' \in {"end", "front"}
  BY DEF TailAppend, EndChain, netVars
<1>2. Used \subseteq Used'
  <2>1. CASE TailAppend
    <3>1. PICK l \in Consumers : chain' = Append(chain, l)
      BY <2>1 DEF TailAppend
    <3>2. l \in Nat /\ chains' = chains
      BY <2>1, ConsumerFacts, ChainIs DEF TailAppend
    <3>3. Used' = Used \cup {l}
      BY <3>1, <3>2, UsedStays
    <3> HIDE DEF Used
    <3> QED BY <3>3
  <2>2. CASE EndChain
    <3>1. chains' = Append(chains, chain) /\ chain \in Seq(Nat)
      BY <2>2, ChainIs DEF EndChain
    <3>2. Used \cup CellsOf(chain) \subseteq Used'
      BY <3>1, UsedStays
    <3> HIDE DEF Used
    <3> QED BY <3>2
  <2> QED BY <2>1, <2>2
<1> QED BY <1>1, <1>2, StillLogic

LEMMA CarryInLogicStep ==
  ASSUME Inv, CopyInv, LogicInv, CarryIn
  PROVE  CopyInv' /\ LogicInv'
<1>1. /\ pc = "carryin" /\ pc' = "carry" /\ chain' = <<new_inst>> /\ c' = c /\ design' = design /\ chains' = chains
  BY DEF CarryIn
<1>2. c \in carries /\ chain = <<>>
  BY <1>1 DEF Inv, CarriesInv, LoopInv, Current
<1>3. Begun
  BY <1>2, BegunEffect DEF Inv
<1>4. Used \cup {new_inst} \subseteq Used'
  <2>1. chain' = Append(chain, new_inst) /\ new_inst \in Nat
    BY <1>1, <1>2, ChainIs
  <2>2. Used' = Used \cup {new_inst}
    BY <1>1, <2>1, UsedStays
  <2> HIDE DEF Used
  <2> QED BY <2>2
<1> QED BY <1>1, <1>2, <1>3, <1>4, BegunLogic

LEMMA PassedLogicStep ==
  ASSUME Inv, CopyInv, LogicInv, BreakChain \/ TailPassThrough \/ TailBreak
  PROVE  CopyInv' /\ LogicInv'
<1>1. pc \in {"break", "tail"} /\ design' = design
  BY DEF BreakChain, BreakTo, TailPassThrough, TailBreak
<1>2. chain # <<>>
  <2>1. CASE pc = "break"
    <3>1. Len(chain) = MaxChain - 1
      BY <2>1 DEF BreakChain, BreakTo, TailPassThrough, TailBreak, TooLong
    <3>2. chain = <<>> => Len(chain) = 0
      OBVIOUS
    <3> QED BY <3>1, <3>2, SizeFacts
  <2>2. CASE pc = "tail"
    BY <2>2 DEF Inv, LoopInv
  <2> QED BY <1>1, <2>1, <2>2
<1>3. LastNet # None /\ Back \in Range(packed)
  BY <1>1, <1>2 DEF Inv, LoopInv, CopyInv
<1>4. Passed /\ Used \cup {new_inst} \subseteq Used'
  <2>1. CASE TailPassThrough
    <3>1. Passed
      BY <1>2, <2>1, PassedEffect, ChainIs, SMTT(30) DEF Inv, TailPassThrough, NextInst, NextNet
    <3>2. Used' = Used \cup {new_inst}
      BY <2>1, UsedStays, ChainIs DEF TailPassThrough
    <3> HIDE DEF Used
    <3> QED BY <3>1, <3>2
  <2>2. CASE BreakChain \/ TailBreak
    <3>1. EndWithPassThrough
      BY <2>2 DEF BreakChain, BreakTo, TailBreak
    <3> DEFINE u == Append(chain, new_inst)
    <3>2. Passed /\ chains' = Append(chains, u) /\ u \in Seq(Nat) /\ CellsOf(u) = CellsOf(chain) \cup {new_inst}
      BY <1>2, <3>1, EndedChain
    <3> HIDE DEF u
    <3>3. Used \cup CellsOf(u) \subseteq Used'
      BY <3>2, UsedStays
    <3> HIDE DEF Used
    <3> QED BY <3>2, <3>3
  <2> QED BY <2>1, <2>2
<1>5. pc' \notin {"break", "tail"} /\ (pc' = "carry" => chain' = <<>>)
  BY DEF BreakChain, BreakTo, Begin, TailPassThrough, TailBreak
<1> QED BY <1>1, <1>2, <1>3, <1>4, <1>5, PassedLogic

LEMMA WithLCLogicStep ==
  ASSUME Inv, CopyInv, LogicInv, PackWithLC
  PROVE  CopyInv' /\ LogicInv'
<1>1. PICK l \in CarryLCs : PackInto(conn, l)
  BY DEF PackWithLC
<1>2. pc = "carry" /\ UNCHANGED <<lcs, new_inst, new_net, bridges>>
  BY DEF PackWithLC
<1>3. c \in carries
  BY <1>2 DEF Inv, CarriesInv, Current
<1>4. l \in lcs \ Used /\ l \in Nat /\ l \notin carries
  BY <1>2, <1>3, CarryLCFacts, ChainIs DEF Inv, NetInv
<1>5. conn[<<c, "CO">>] # None => in_conn # conn[<<c, "CO">>]
  BY <1>2, <1>3, NotFedByItself, ChainIs DEF Inv
<1>6. Joined(l) /\ Followed(l)
  BY <1>1, <1>2, <1>3, <1>4, <1>5, JoinedEffect DEF Inv
<1>7. /\ Gone(l) /\ chain' = Append(chain, l) /\ chains' = chains /\ design' = design
      /\ conn'[<<l, "CIN">>] = in_conn
  BY <1>6 DEF Joined, Followed
<1>8. \A p \in DOMAIN conn : p[1] # c /\ (p[2] \notin {"CIN", "COUT"} \/ p[1] # l) =>
                               p \in DOMAIN conn' /\ conn'[p] = conn[p]
  BY <1>6 DEF Joined
<1>9. conn'[<<l, "I1">>] = conn[<<c, "I0">>] /\ conn'[<<l, "I2">>] = conn[<<c, "I1">>]
  <2>1. conn[<<c, "I0">>] = conn[<<l, "I1">>] /\ conn[<<c, "I1">>] = conn[<<l, "I2">>]
    BY DEF CarryLCs
  <2>2. <<l, "I1">> \in DOMAIN conn /\ <<l, "I2">> \in DOMAIN conn /\ l # c
    BY <1>3, <1>4, CarryPorts DEF Inv, LCPort
  <2> QED BY <1>8, <2>1, <2>2
<1>10. Used \subseteq Used' /\ Back' = l
  <2>1. Used' = Used \cup {l}
    BY <1>4, <1>7, UsedStays
  <2>2. Len(chain') = Len(chain) + 1 /\ chain'[Len(chain) + 1] = l
    BY <1>4, <1>7, AppendIs, ChainIs
  <2> HIDE DEF Used
  <2> QED BY <2>1, <2>2 DEF Back
<1>11. SamePorts(conn, bridges, design.conn, c, c, "I0", "I1", "CI", "CO")
  BY <1>3 DEF LogicInv
<1> QED BY <1>2, <1>3, <1>4, <1>6, <1>7, <1>8, <1>9, <1>10, <1>11, PackedLogic

LEMMA AloneLogicStep ==
  ASSUME Inv, CopyInv, LogicInv, PackAlone
  PROVE  CopyInv' /\ LogicInv'
<1>1. pc = "carry" /\ lcs' = lcs \cup {new_inst} /\ NextInst
  BY DEF PackAlone, NextInst
<1>2. c \in carries
  BY <1>1 DEF Inv, CarriesInv, Current
<1>3. conn[<<c, "CO">>] # None => in_conn # conn[<<c, "CO">>]
  BY <1>1, <1>2, NotFedByItself, ChainIs DEF Inv
<1>4. new_inst \in Nat /\ new_inst \notin Used /\ new_inst \notin carries
  BY ChainIs, NewIsNew DEF Inv
<1>5. ASSUME Followed(new_inst) PROVE design' = design /\ Used \cup {new_inst} \subseteq Used' /\ Back' = new_inst
  <2>1. chain' = Append(chain, new_inst) /\ chains' = chains /\ design' = design
    BY <1>5 DEF Followed
  <2>2. Used' = Used \cup {new_inst}
    BY <1>4, <2>1, UsedStays
  <2>3. Len(chain') = Len(chain) + 1 /\ chain'[Len(chain) + 1] = new_inst
    BY <1>4, <2>1, AppendIs, ChainIs
  <2> HIDE DEF Used
  <2> QED BY <2>1, <2>2, <2>3 DEF Back
<1>6. CASE CarryIsOurs
  <2>1. PackInto(WithLC(conn, new_inst, Operands), new_inst) /\ UNCHANGED <<bridges, new_net>>
    BY <1>6 DEF PackAlone
  <2>2. Alone /\ Followed(new_inst)
    BY <1>1, <1>2, <1>3, <2>1, AloneEffect DEF Inv
  <2>3. /\ Gone(new_inst) /\ conn'[<<new_inst, "CIN">>] = in_conn
        /\ conn'[<<new_inst, "I1">>] = conn[<<c, "I0">>] /\ conn'[<<new_inst, "I2">>] = conn[<<c, "I1">>]
        /\ \A p \in DOMAIN conn : p[1] # c => p \in DOMAIN conn' /\ conn'[p] = conn[p]
    BY <2>2 DEF Alone, OwnCell
  <2>4. SamePorts(conn, bridges, design.conn, c, c, "I0", "I1", "CI", "CO")
    BY <1>2 DEF LogicInv
  <2>5. Used \subseteq Used' /\ Back' = new_inst /\ design' = design
    <3> HIDE DEF Used
    <3> QED BY <1>5, <2>2
  <2>6. bridges' = bridges /\ new_net' = new_net
    BY <2>1
  <2> QED BY <1>2, <1>4, <2>2, <2>3, <2>4, <2>5, <2>6, PackedLogic
<1>7. CASE ~CarryIsOurs
  <2>1. chain # <<>> /\ Back \in lcs /\ in_conn # None /\ LastNet = in_conn
    BY <1>1, <1>7, ChainIs DEF Inv, LoopInv, CarryIsOurs, Real
  <2>2. Back \in Range(packed)
    <3> SUFFICES ASSUME Back \notin Range(packed) PROVE FALSE
      OBVIOUS
    <3>1. \A p \in DOMAIN conn : conn[p] = in_conn => p \in {<<Back, "COUT">>, <<c, "CI">>}
      BY <1>1, <2>1 DEF CopyInv
    <3>2. <<Back, "COUT">> \in DOMAIN conn /\ <<c, "CI">> \in DOMAIN conn
      BY <1>2, <2>1, CarryPorts, LCPortIs DEF Inv
    <3>3. Connections(conn, in_conn) = {<<Back, "COUT">>} \cup {<<c, "CI">>}
      BY <2>1, <3>1, <3>2 DEF Connections, LastNet, in_conn
    <3>4. Cardinality({<<Back, "COUT">>} \cup {<<c, "CI">>}) = 2
      <4>1. IsFiniteSet({<<Back, "COUT">>}) /\ Cardinality({<<Back, "COUT">>}) = 1
        BY FS_Singleton
      <4>2. <<c, "CI">> \notin {<<Back, "COUT">>}
        OBVIOUS
      <4>3. Cardinality({<<Back, "COUT">>} \cup {<<c, "CI">>}) = 1 + 1
        BY <4>1, <4>2, FS_AddElement
      <4> QED BY <4>3
    <3> QED BY <1>7, <3>3, <3>4 DEF CarryIsOurs
  <2>3. /\ PackInto([PassThrough(conn, Back, new_inst, Operands) EXCEPT ![<<c, "CI">>] = new_net], new_inst)
        /\ bridges' = bridges \cup {<<new_inst, "I3", "O">>} /\ NextNet
    BY <1>7 DEF PackAlone, NextNet
  <2>4. Behind /\ Followed(new_inst)
    BY <1>1, <1>2, <2>1, <2>3, BehindEffect DEF Inv
  <2>5. Used \cup {new_inst} \subseteq Used' /\ Back' = new_inst /\ design' = design
    <3> HIDE DEF Used
    <3> QED BY <1>5, <2>4
  <2> QED BY <1>2, <2>1, <2>2, <2>4, <2>5, BehindLogic
<1> QED BY <1>6, <1>7

LEMMA InitLogic ==
  ASSUME Init
  PROVE  CopyInv /\ LogicInv
<1>1. /\ design \in Designs /\ pc = "collect" /\ conn = design.conn /\ carries = design.carries
      /\ bridges = {} /\ packed = <<>>
  BY DEF Init
<1>2. \A p \in DOMAIN conn : conn[p] \in Nat /\ conn[p] < new_net
  BY InitNet, NetDrivers
<1>3. CopyInv
  <2>1. ASSUME NEW n \in DesignNets PROVE n \in Nat /\ n < new_net
    <3>1. PICK p \in DOMAIN design.conn : n = design.conn[p] BY DEF DesignNets
    <3> QED BY <1>1, <1>2, <3>1
  <2>2. pc \notin {"break", "tail", "carry"} BY <1>1
  <2> QED BY <1>1, <2>1, <2>2 DEF CopyInv
<1>4. ASSUME NEW n PROVE OriginOf(conn, bridges, n) = n
  <2>1. CopyOf(conn, bridges, n) = n BY <1>1 DEF CopyOf
  <2> QED BY <2>1 DEF OriginOf
<1>5. \A i \in carries : conn[<<i, "CO">>] = OriginOf(conn, bridges, design.conn[<<i, "CO">>])
  BY <1>1, <1>4
<1>6. DOMAIN packed = {}
  BY <1>1
<1>7. LogicInv
  BY <1>1, <1>5, <1>6 DEF LogicInv, SamePorts
<1> QED BY <1>3, <1>7

LEMMA NextLogic ==
  ASSUME Inv, CopyInv, LogicInv, [Next]_vars
  PROVE  CopyInv' /\ LogicInv'
<1>1. CASE Collect \/ TakeReady \/ Finish \/ ContinueChain \/ UNCHANGED vars BY <1>1, StillLogicStep
<1>2. CASE TailAppend \/ EndChain BY <1>2, ChainsLogicStep
<1>3. CASE CarryIn BY <1>3, CarryInLogicStep
<1>4. CASE BreakChain \/ TailPassThrough \/ TailBreak BY <1>4, PassedLogicStep
<1>5. CASE PackWithLC BY <1>5, WithLCLogicStep
<1>6. CASE PackAlone BY <1>6, AloneLogicStep
<1> QED BY <1>1, <1>2, <1>3, <1>4, <1>5, <1>6 DEF Next, Stopped

(* Packing does not change what the netlist computes.                      *)
THEOREM LogicKept == Spec => []SameLogic
<1>1. Spec => [](Inv /\ CopyInv /\ LogicInv)
  <2>1. Init => Inv /\ CopyInv /\ LogicInv
    BY InitInv, InitLogic
  <2>2. Inv /\ CopyInv /\ LogicInv /\ [Next]_vars => (Inv /\ CopyInv /\ LogicInv)'
    BY NextInv, NextLogic
  <2> QED BY <2>1, <2>2, PTL DEF Spec
<1>2. Inv /\ CopyInv /\ LogicInv => SameLogic
  <2> SUFFICES ASSUME Inv, CopyInv, LogicInv PROVE SameLogic
    OBVIOUS
  <2>1. \A p, q \in {p \in DOMAIN conn : p[2] \in {"O", "COUT", "CO"}} :
          conn[p] # None /\ conn[p] = conn[q] => p = q
    BY NetDrivers DEF Inv, Driver
  <2>2. \A n : Origin(n) = OriginOf(conn, bridges, n)
    BY DEF Origin, Copied, OriginOf, CopyOf
  <2>3. ASSUME NEW i \in design.carries
        PROVE  LET l == IF i \in carries THEN i ELSE packed[i]
                   Port(name) == <<l, IF i \in carries THEN name[1] ELSE name[2]>>
               IN /\ conn[Port(<<"I0", "I1">>)] = design.conn[<<i, "I0">>]
                  /\ conn[Port(<<"I1", "I2">>)] = design.conn[<<i, "I1">>]
                  /\ Origin(conn[Port(<<"CI", "CIN">>)]) = Origin(design.conn[<<i, "CI">>])
                  /\ conn[Port(<<"CO", "COUT">>)] = Origin(design.conn[<<i, "CO">>])
    <3>1. CASE i \in carries
      <4>1. SamePorts(conn, bridges, design.conn, i, i, "I0", "I1", "CI", "CO")
        BY <3>1 DEF LogicInv
      <4> QED BY <2>2, <3>1, <4>1 DEF SamePorts
    <3>2. CASE i \notin carries
      <4>1. SamePorts(conn, bridges, design.conn, i, packed[i], "I1", "I2", "CIN", "COUT")
        BY <3>2, DesignPorts DEF LogicInv
      <4> QED BY <2>2, <3>2, <4>1 DEF SamePorts
    <3> QED BY <3>1, <3>2
  <2>4. \A p \in DOMAIN design.conn :
          p[1] \notin design.carries /\ p[2] \notin {"CIN", "COUT"} => conn[p] = design.conn[p]
    BY DEF LogicInv
  <2> QED BY <2>1, <2>3, <2>4 DEF SameLogic
<1> QED BY <1>1, <1>2, PTL
=============================================================================
