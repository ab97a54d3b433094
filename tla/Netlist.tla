------------------------------- MODULE Netlist -------------------------------
(***************************************************************************)
(* The netlist of netlist.cc: a top model with ports, gates (instances of  *)
(* library models) and nets.  A port is <<node, name>>, the node being a   *)
(* gate's number or Top; nets are numbered, too, and a top-level port is   *)
(* named after the net it is declared with.  A design d is a record        *)
(*   conn   the net of every connected port                                *)
(*   nets   Model::m_nets, const  the value of the constant ones           *)
(*   dir    the direction of every top-level port                          *)
(*   gate   the model and the parameters of every gate                     *)
(*   temps  how many nets and gates were made up, for their numbers        *)
(* Operations are functions from designs to designs.  What the code keeps  *)
(* on both sides, ports of a net and net of a port, is the one relation.   *)
(*                                                                         *)
(* The library: SB_LUT4, SB_DFF (all variants, the suffix decoded in p),   *)
(* $_TBUF_, SB_IO, SB_IO_OD, and ICESTORM_LC.  The port names of the       *)
(* models do not clash.                                                    *)
(***************************************************************************)
EXTENDS Integers, Sequences, Functions

CONSTANT NName   \* files number their nets and gates from 1 to NName

ASSUME NameAssumption == NName \in Nat

Top == 0
None == 0

(* f where it is defined, else g (the prover cannot expand @@ of TLC).     *)
Over(f, g) == [x \in DOMAIN f \cup DOMAIN g |-> IF x \in DOMAIN f THEN f[x] ELSE g[x]]
Put(f, x, v) == Over([y \in {x} |-> v], f)

Conn(d, p) == IF p \in DOMAIN d.conn THEN d.conn[p] ELSE None
Connections(d, n) == {p \in DOMAIN d.conn : d.conn[p] = n}

(* The other port of a net that has two, if it has two.                    *)
OtherPort(d, p) ==
  IF Conn(d, p) = None THEN {}
  ELSE {q \in Connections(d, Conn(d, p)) \ {p} : Connections(d, Conn(d, p)) = {p, q}}

(* The ports of the library's models that are used here, and those that    *)
(* are no inputs.                                                          *)
LutIn == {"I0", "I1", "I2", "I3"}
PortsOf(model) ==
  CASE model = "SB_LUT4" -> LutIn \cup {"O"}
    [] model = "SB_DFF" -> {"D", "C", "E", "S", "R", "Q"}
    [] model = "$_TBUF_" -> {"A", "E", "Y"}
    [] model \in {"SB_IO", "SB_IO_OD_A"} -> {"PACKAGE_PIN", "OUTPUT_ENABLE", "D_OUT_0", "D_IN_0", "CLOCK_ENABLE"}
    [] model = "SB_IO_OD" -> {"PACKAGEPIN", "OUTPUTENABLE", "DOUT0", "DIN0", "CLOCKENABLE"}
    [] model = "ICESTORM_LC" -> LutIn \cup {"O", "CLK", "CEN", "SR"}
InoutPorts == {"PACKAGE_PIN", "PACKAGEPIN"}
OutputPorts == {"O", "Q", "Y", "D_IN_0", "DIN0"}
OpenAtOne == {"CEN", "CLOCK_ENABLE", "CLOCKENABLE"}

IsBidir(d, p) == IF p[1] = Top THEN d.dir[p[2]] = "INOUT" ELSE p[2] \in InoutPorts
IsOutput(d, p) == IF p[1] = Top THEN d.dir[p[2]] = "IN" ELSE p[2] \in OutputPorts
IsInput(d, p) == ~IsBidir(d, p) /\ ~IsOutput(d, p)

(* The value of a port that is left open; X, of $_TBUF_, is read as 0.     *)
Undriven(d, p) ==
  IF p[1] # Top /\ (p[2] \in OpenAtOne \/ (p[2] = "E" /\ d.gate[p[1]].model = "SB_DFF")) THEN 1 ELSE 0

(* Connects the ports in f, each to its net or None, and disconnects them  *)
(* from where they were.                                                   *)
ConnectAll(d, f) ==
  LET net(p) == IF p \in DOMAIN f THEN f[p] ELSE d.conn[p]
      ports == {p \in DOMAIN d.conn \cup DOMAIN f : net(p) # None}
  IN [d EXCEPT !.conn = [p \in ports |-> net(p)]]

Replace(d, n, r) == ConnectAll(d, [p \in Connections(d, n) |-> r])

NewNet(d) == NName + 1 + d.temps
NewGate(d) == NewNet(d)
AddNet(d) == [d EXCEPT !.nets = @ \cup {NewNet(d)}, !.temps = @ + 1]

(* The nets N are deleted, and their ports left open.                      *)
RemoveNets(d, N) ==
  [d EXCEPT !.nets = @ \ N, !.const = Restrict(@, DOMAIN @ \ N),
            !.conn = Restrict(@, {p \in DOMAIN @ : @[p] \notin N})]

SetGate(d, g, model, p) ==
  [d EXCEPT !.gate = [h \in DOMAIN @ \cup {g} |-> IF h = g THEN [model |-> model, p |-> p] ELSE @[h]]]
RemoveGates(d, G) ==
  [d EXCEPT !.gate = Restrict(@, DOMAIN @ \ G), !.conn = Restrict(@, {p \in DOMAIN @ : p[1] \notin G})]

(* Gate g becomes another model's, with the connections in f and no other. *)
Become(d, g, model, p, f) ==
  ConnectAll(SetGate(RemoveGates(d, {g}), g, model, p), [q \in {<<g, x>> : x \in DOMAIN f} |-> f[q[2]]])

GatesOf(d, model) == {g \in DOMAIN d.gate : d.gate[g].model = model}
TopPorts(d) == DOMAIN d.dir

-----------------------------------------------------------------------------
(* Model::is_physical_port(), boundary_nets(), check_boundary_nets() *)

IsPad(d, p) == p[1] # Top /\ p[2] = "PACKAGE_PIN" /\ d.gate[p[1]].model \in {"SB_IO", "SB_IO_OD_A"}
IsPhysical(d, p) == p[1] # Top /\ (p[2] = "Y" \/ IsPad(d, p))

BoundaryNets(d) ==
  {Conn(d, <<Top, x>>) : x \in {x \in TopPorts(d) : \E q \in OtherPort(d, <<Top, x>>) : IsPhysical(d, q)}}

BadBoundary(d) ==
  \E x \in TopPorts(d) :
    /\ Conn(d, <<Top, x>>) # None
    /\ \E q \in Connections(d, Conn(d, <<Top, x>>)) : IsPhysical(d, q)
    /\ OtherPort(d, <<Top, x>>) = {}

-----------------------------------------------------------------------------
(* Model::prune(), Model::check() *)

(* A constant counts as one more driver and one more port of its net.      *)
Tied(d, n) == IF n \in DOMAIN d.const THEN {<<>>} ELSE {}
Drivers(d, n) == {p \in Connections(d, n) : IsOutput(d, p)}
Several(S) == \E p, q \in S : p # q
ManyDrivers(d, n) == Several(Drivers(d, n) \cup Tied(d, n))

Used(d, n) ==
  LET ports == Connections(d, n)
  IN /\ \E p \in ports : ~IsOutput(d, p)
     /\ n \in DOMAIN d.const \/ \E p \in ports : ~IsInput(d, p)
     /\ Several(ports \cup Tied(d, n))

Prune(d) == RemoveNets(d, {n \in d.nets : ~Used(d, n)})

Check(d) ==
  /\ \A x \in TopPorts(d) :
       d.dir[x] = "INOUT" /\ Conn(d, <<Top, x>>) # None =>
         \E q \in OtherPort(d, <<Top, x>>) : IsPhysical(d, q)
  /\ \A n \in d.nets : Connections(d, n) # {}
  /\ \A n \in d.nets \ BoundaryNets(d) :
       /\ Drivers(d, n) \cup Tied(d, n) # {} /\ ~ManyDrivers(d, n)
       /\ \E p \in Connections(d, n) : IsInput(d, p)
       /\ \A p \in Connections(d, n) : ~IsBidir(d, p)
=============================================================================
