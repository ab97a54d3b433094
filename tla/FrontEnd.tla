------------------------------ MODULE FrontEnd -------------------------------
(***************************************************************************)
(* The stages that rewrite the netlist before the placement: read_blif(),  *)
(* with its unification of nets, prune(), instantiate_io(), the LUTs and   *)
(* flip-flops of pack(), and realize_constants(); in arachne-pnr.cc, with  *)
(* Model::check() after each.  Carries (module Packer), constraints and    *)
(* global networks, whose stages lie between, are left out here, and so    *)
(* are the models without a role in them: RAMs, PLLs and other blocks.     *)
(*                                                                         *)
(* A LUT's LUT_INIT is the set of those sets of inputs at 1 for which its  *)
(* output is 1; p.full says that all 16 bits were given.  An I/O pad's     *)
(* PIN_TYPE is "in", "out" or "tristate".                                  *)
(***************************************************************************)
EXTENDS Netlist

CONSTANT Files   \* the files considered, each the set of its possible lines

(* What the parser accepts; every .gate line is a gate of its own.         *)
ASSUME FilesAssumption ==
  \A F \in Files : \A l \in F :
    IF l.cmd = "gate"
    THEN /\ l.id \in 1 .. NName /\ \A k \in F : k.cmd = "gate" /\ k.id = l.id => k = l
         /\ l.model \in {"SB_LUT4", "SB_DFF", "$_TBUF_", "SB_IO", "SB_IO_OD"}
         /\ DOMAIN l.ports \subseteq PortsOf(l.model) /\ \A x \in DOMAIN l.ports : l.ports[x] \in 1 .. NName
    ELSE /\ l.cmd \in {"IN", "OUT", "constant", "names"} /\ l.net \in 1 .. NName
         /\ l.cmd = "constant" => l.value \in {0, 1}
         /\ l.cmd = "names" => l.to \in 1 .. NName

VARIABLES
  file, read,    \* the lines that there may be, and those that were read
  pc, d,
  unify,         \* pairs of nets of .names lines: the first drives the second
  replacement,   \* of the unified nets
  todo,          \* top-level ports that instantiate_io() has not handled
  meaning        \* what the file says (see Meaning)

vars == <<file, read, pc, d, unify, replacement, todo, meaning>>

Init ==
  /\ file \in Files /\ read = {}
  /\ pc = "read"
  /\ d = [conn |-> <<>>, nets |-> {}, const |-> <<>>, dir |-> <<>>, gate |-> <<>>, temps |-> 0]
  /\ unify = <<>> /\ replacement = <<>>
  /\ todo = {} /\ meaning = <<>>

(* The stage after this one is to be next; a failing one ends the program. *)
Go(next) == pc' = next /\ UNCHANGED <<file, read, meaning>>
Fatal(why) == Go(why) /\ UNCHANGED <<d, unify, replacement, todo>>

-----------------------------------------------------------------------------
(* BlifParser::parse(): the lines.  meaning is set at the end of the file, *)
(* in terms of the operators at the end of this module.                    *)

Reading(line) ==
  /\ pc = "read" /\ line \in file \ read
  /\ read' = read \cup {line}
  /\ UNCHANGED <<file, pc, replacement, todo, meaning>>

(* A port that is declared both ways is bidirectional.                     *)
ReadPort(line) ==
  /\ Reading(line) /\ line.cmd \in {"IN", "OUT"}
  /\ d' = [d EXCEPT !.dir = Put(@, line.net, IF line.net \in DOMAIN @ /\ @[line.net] # line.cmd
                                             THEN "INOUT" ELSE line.cmd),
                    !.nets = @ \cup {line.net},
                    !.conn = Put(@, <<Top, line.net>>, line.net)]
  /\ UNCHANGED unify

ReadConstant(line) ==
  /\ Reading(line) /\ line.cmd = "constant"
  /\ d' = [d EXCEPT !.const = Put(@, line.net, line.value), !.nets = @ \cup {line.net}]
  /\ UNCHANGED unify

ReadNames(line) ==
  /\ Reading(line) /\ line.cmd = "names"
  /\ d' = [d EXCEPT !.nets = @ \cup {line.net, line.to}]
  /\ unify' = Append(unify, <<line.net, line.to>>)

ReadGate(line) ==
  /\ Reading(line) /\ line.cmd = "gate"
  /\ d' = ConnectAll([SetGate(d, line.id, line.model, line.p) EXCEPT !.nets = @ \cup Range(line.ports)],
                     [p \in {<<line.id, x>> : x \in DOMAIN line.ports} |-> line.ports[p[2]]])
  /\ UNCHANGED unify

-----------------------------------------------------------------------------
(* BlifParser::parse(): unification *)

(* Pairs of nets, each of which drives the other: those on the way from n  *)
(* to what drives it in the end, which every set that has n and, with a    *)
(* net, its driver, contains; and the last of them.                        *)
Driven(E) == {q[2] : q \in E}
Way(E, n) ==
  LET nets == {n} \cup {q[1] : q \in E}
  IN {m \in nets : \A S \in SUBSET nets :
                      n \in S /\ (\A q \in E : q[2] \in S => q[1] \in S) => m \in S}
Origin(E, n) == CHOOSE m \in Way(E, n) : m \notin Driven(E)

Replaced == {<<replacement[n], n>> : n \in DOMAIN replacement}

(* Mutant: the representative is not followed further than one step. *)
RootOneStep(n) == IF n \in DOMAIN replacement THEN replacement[n] ELSE n

Root(n) == Origin(Replaced, n)

(* The nets on the way from n to its root, whose replacement is shortened. *)
OnPath(n) == Way(Replaced, n) \cap DOMAIN replacement

Unify ==
  /\ pc = "unify" /\ unify # <<>>
  /\ LET n2 == Head(unify)[2]
         r == Root(Head(unify)[1])
         now == OnPath(Head(unify)[1]) \cup {n2}
     IN \/ n2 = r /\ Fatal("cycle")
        \/ n2 # r /\ n2 \in DOMAIN replacement /\ Fatal("conflict")
        \/ /\ n2 # r /\ n2 \notin DOMAIN replacement
           /\ d' = Replace(d, n2, r)
           /\ replacement' = [n \in DOMAIN replacement \cup {n2} |-> IF n \in now THEN r ELSE replacement[n]]
           /\ unify' = Tail(unify)
           /\ Go("unify") /\ UNCHANGED todo

(* With the replaced nets goes what they were set to.                      *)
RemoveReplaced ==
  /\ pc = "unify" /\ unify = <<>>
  /\ d' = RemoveNets(d, DOMAIN replacement)
  /\ Go("open_drain") /\ UNCHANGED <<unify, replacement, todo>>

-----------------------------------------------------------------------------
(* BlifParser::parse(): pads and drivers *)

(* SB_IO_OD becomes SB_IO_OD_A, with the port names of SB_IO.              *)
NamesOfOd == [PACKAGE_PIN |-> "PACKAGEPIN", OUTPUT_ENABLE |-> "OUTPUTENABLE", D_OUT_0 |-> "DOUT0",
              D_IN_0 |-> "DIN0", CLOCK_ENABLE |-> "CLOCKENABLE"]
ReplaceOpenDrain ==
  /\ pc = "open_drain"
  /\ \/ /\ GatesOf(d, "SB_IO_OD") = {}
        /\ Go("inouts") /\ UNCHANGED d
     \/ \E g \in GatesOf(d, "SB_IO_OD") :
          /\ d' = Become(d, g, "SB_IO_OD_A", d.gate[g].p, [x \in DOMAIN NamesOfOd |-> Conn(d, <<g, NamesOfOd[x]>>)])
          /\ Go("open_drain")
  /\ UNCHANGED <<unify, replacement, todo>>

(* A bidirectional port keeps its direction only if a tristate buffer or a *)
(* pad drives it.                                                          *)
Others(x) == Connections(d, Conn(d, <<Top, x>>)) \ {<<Top, x>>}
HasInput(x) == \E q \in Others(x) : IsInput(d, q)
HasOutput(x) == \E q \in Others(x) : IsOutput(d, q)
HasTristate(x) == \E q \in Others(x) : IsPhysical(d, q)
Inouts == {x \in TopPorts(d) : d.dir[x] = "INOUT" /\ Conn(d, <<Top, x>>) # None}
Redirected(x) ==
  IF x \notin Inouts THEN d.dir[x]
  ELSE IF HasOutput(x) /\ ~HasTristate(x) THEN "OUT"
  ELSE IF ~HasOutput(x) THEN "IN" ELSE "INOUT"

RedirectInouts ==
  /\ pc = "inouts"
  /\ \/ (\E x \in Inouts : HasInput(x) /\ HasTristate(x)) /\ Fatal("tristate")
     \/ /\ \A x \in Inouts : ~(HasInput(x) /\ HasTristate(x))
        /\ d' = [d EXCEPT !.dir = [x \in DOMAIN @ |-> Redirected(x)]]
        /\ Go("drivers") /\ UNCHANGED <<unify, replacement, todo>>

PadNets == {Conn(d, <<g, "PACKAGE_PIN">>) : g \in GatesOf(d, "SB_IO")}
PadWithoutPort ==
  \E g \in GatesOf(d, "SB_IO") : \A q \in OtherPort(d, <<g, "PACKAGE_PIN">>) : q[1] # Top

(* The end of read_blif(), followed by prune() and check_boundary_nets().  *)
CheckDrivers ==
  /\ pc = "drivers"
  /\ \/ PadWithoutPort /\ Fatal("pad")
     \/ ~PadWithoutPort /\ (\E n \in d.nets \ PadNets : ManyDrivers(d, n)) /\ Fatal("drivers_many")
     \/ /\ ~PadWithoutPort /\ (\A n \in d.nets \ PadNets : ~ManyDrivers(d, n))
        /\ IF BadBoundary(Prune(d)) THEN Fatal("boundary")
           ELSE d' = Prune(d) /\ Go("tbufs") /\ UNCHANGED <<unify, replacement, todo>>

-----------------------------------------------------------------------------
(* instantiate_io() *)

DrivenPorts(y) ==
  {q \in Connections(d, Conn(d, y)) : q[1] = Top /\ d.dir[q[2]] \in {"OUT", "INOUT"}}
CheckTbufs ==
  /\ pc = "tbufs"
  /\ IF \A g \in GatesOf(d, "$_TBUF_") : \E q \in DrivenPorts(<<g, "Y">>) : DrivenPorts(<<g, "Y">>) = {q}
     THEN todo' = TopPorts(d) /\ Go("io") /\ UNCHANGED <<d, unify, replacement>>
     ELSE Fatal("tbuf")

HasPad(x) == \E q \in OtherPort(d, <<Top, x>>) : IsPad(d, q)
TbufOf(x) == {q[1] : q \in {q \in Others(x) : q[1] # Top /\ q[2] = "Y"}}

(* The pad of port x is a new gate, on a net of its own.                   *)
PutPad(x, type, f) ==
  LET io == NewGate(d)
  IN ConnectAll(SetGate(AddNet(d), io, "SB_IO", [pin |-> type]),
                Over([p \in {<<Top, x>>, <<io, "PACKAGE_PIN">>} |-> NewNet(d)],
                     [p \in {<<io, y>> : y \in DOMAIN f} |-> f[p[2]]]))

(* A bidirectional port has a tristate buffer here, of those that the      *)
(* earlier stages let pass: the refusal is never reached.                  *)
InstantiateIo(x) ==
  /\ pc = "io" /\ x \in todo
  /\ LET n == Conn(d, <<Top, x>>)
     IN \/ HasPad(x) /\ UNCHANGED d /\ Go("io")
        \/ /\ ~HasPad(x) /\ d.dir[x] = "IN"
           /\ d' = PutPad(x, "in", [D_IN_0 |-> n]) /\ Go("io")
        \/ /\ ~HasPad(x) /\ d.dir[x] # "IN" /\ n # None /\ TbufOf(x) # {}
           /\ \E g \in TbufOf(x) :
                d' = RemoveGates(PutPad(x, "tristate", [D_OUT_0 |-> Conn(d, <<g, "A">>), D_IN_0 |-> n,
                                                        OUTPUT_ENABLE |-> Conn(d, <<g, "E">>)]), {g})
           /\ Go("io")
        \/ /\ ~HasPad(x) /\ d.dir[x] # "IN" /\ (n = None \/ TbufOf(x) = {})
           /\ IF d.dir[x] = "INOUT" THEN UNCHANGED d /\ Go("inout_undriven")
              ELSE d' = PutPad(x, "out", [D_OUT_0 |-> n]) /\ Go("io")
  /\ todo' = todo \ {x}
  /\ UNCHANGED <<unify, replacement>>

IoDone ==
  /\ pc = "io" /\ todo = {}
  /\ d' = Prune(d)
  /\ Go("luts") /\ UNCHANGED <<unify, replacement, todo>>

-----------------------------------------------------------------------------
(* Packer::Packer(), optimize_luts(), pack_dffs(), pack_luts() *)

WithConst(e, v) ==
  IF \E n \in DOMAIN e.const : e.const[n] = v THEN e
  ELSE [AddNet(e) EXCEPT !.const = Put(@, NewNet(e), v)]
ConstNet(e, v) == CHOOSE n \in DOMAIN e.const : e.const[n] = v

(* Inputs of LUTs at a constant 1 are moved to a constant 0, and the table *)
(* is read at 1 for them.                                                  *)
Ones(g) == {x \in LutIn : Conn(d, <<g, x>>) \in DOMAIN d.const /\ d.const[Conn(d, <<g, x>>)] = 1}
(* Mutant: the table is read at 0. *)
TableAtZero(init, ones) == {S \in SUBSET LutIn : S \ ones \in init}
Table(init, ones) == {S \in SUBSET LutIn : S \cup ones \in init}

OptimizeLuts ==
  /\ pc = "luts"
  /\ LET e == WithConst(WithConst(d, 0), 1)
         G == {g \in GatesOf(d, "SB_LUT4") : d.gate[g].p.full}
         table(g) == Table(e.gate[g].p.init, Ones(g))
         gate == [g \in DOMAIN e.gate |-> IF g \in G THEN [e.gate[g] EXCEPT !.p.init = table(g)] ELSE e.gate[g]]
     IN d' = ConnectAll([e EXCEPT !.gate = gate],
                        [q \in {q \in G \X LutIn : q[2] \in Ones(q[1])} |-> ConstNet(e, 0)])
  /\ Go("dffs") /\ UNCHANGED <<unify, replacement, todo>>

LcP(init, dff, neg, set, async) ==
  [init |-> init, dff |-> dff, neg |-> neg, set |-> set, async |-> async]

(* A flip-flop takes the LUT that drives its D, if it drives nothing else; *)
(* else its LUT passes I0.  Enable and reset are constant if it has none.  *)
LutBefore(g) ==
  {q[1] : q \in {q \in OtherPort(d, <<g, "D">>) :
                   q[1] # Top /\ d.gate[q[1]].model = "SB_LUT4" /\ q[2] = "O"}}
FromDff(g) ==
  LET p == d.gate[g].p
  IN [O |-> Conn(d, <<g, "Q">>), CLK |-> Conn(d, <<g, "C">>),
      CEN |-> IF p.cen THEN Conn(d, <<g, "E">>) ELSE ConstNet(d, 1),
      SR |-> IF p.sr = "" THEN ConstNet(d, 0)
             ELSE Conn(d, <<g, IF p.sr \in {"S", "SS"} THEN "S" ELSE "R">>)]
FromLut(g) == [x \in LutIn |-> Conn(d, <<g, x>>)]
PassThrough(g) == [x \in LutIn |-> IF x = "I0" THEN Conn(d, <<g, "D">>) ELSE ConstNet(d, 0)]
DffP(init, p) == LcP(init, TRUE, p.neg, p.sr \in {"S", "SS"}, p.sr \in {"S", "R"})

PackDff ==
  /\ pc = "dffs"
  /\ \E g \in GatesOf(d, "SB_DFF") :
       IF LutBefore(g) = {}
       THEN d' = Become(d, g, "ICESTORM_LC", DffP({{"I0"}}, d.gate[g].p), Over(FromDff(g), PassThrough(g)))
       ELSE \E lut \in LutBefore(g) :
              d' = RemoveGates(Become(d, g, "ICESTORM_LC", DffP(d.gate[lut].p.init, d.gate[g].p),
                                      Over(FromDff(g), FromLut(lut))), {lut})
  /\ Go("dffs") /\ UNCHANGED <<unify, replacement, todo>>

(* The rest of the LUTs; the end of pack() prunes.                         *)
PackLut ==
  /\ pc = "dffs" /\ GatesOf(d, "SB_DFF") = {}
  /\ \E g \in GatesOf(d, "SB_LUT4") :
       d' = Become(d, g, "ICESTORM_LC", LcP(d.gate[g].p.init, FALSE, FALSE, FALSE, FALSE),
                   Over(FromLut(g), [O |-> Conn(d, <<g, "O">>)]))
  /\ Go("dffs") /\ UNCHANGED <<unify, replacement, todo>>

EndPack ==
  /\ pc = "dffs" /\ GatesOf(d, "SB_DFF") \cup GatesOf(d, "SB_LUT4") = {}
  /\ d' = Prune(d)
  /\ Go("constants") /\ UNCHANGED <<unify, replacement, todo>>

-----------------------------------------------------------------------------
(* realize_constants() *)

(* The inputs at constant v that do not read v when they are left open.    *)
Unreadable(v) ==
  {p \in DOMAIN d.conn :
     /\ p[1] # Top /\ p[2] # "CIN" /\ ~(p[2] = "PACKAGE_PIN" /\ d.gate[p[1]].model = "SB_IO")
     /\ d.conn[p] \in DOMAIN d.const /\ d.const[d.conn[p]] = v
     /\ Undriven(d, p) # v \/ p[2] = "PACKAGE_PIN"}

(* A logic cell that computes v, for the ports S.                          *)
Realize(e, v, S) ==
  IF S = {} THEN e
  ELSE LET f == WithConst(e, 0)
           g == NewGate(f)
       IN ConnectAll(SetGate(AddNet(f), g, "ICESTORM_LC",
                             LcP(IF v = 1 THEN {{}} ELSE {}, FALSE, FALSE, FALSE, FALSE)),
                     Over([p \in {<<g, x>> : x \in LutIn} |-> ConstNet(f, 0)],
                          [p \in {<<g, "O">>} \cup S |-> NewNet(f)]))

(* Mutant: only inputs at a constant 1 are looked at. *)
RealizedOnes == Realize(d, 1, Unreadable(1))

Realized == Realize(Realize(d, 0, Unreadable(0)), 1, Unreadable(1))

RealizeConstants ==
  /\ pc = "constants"
  /\ d' = RemoveNets(Realized, {n \in DOMAIN Realized.const : Connections(Realized, n) = {}})
  /\ Go("done") /\ UNCHANGED <<unify, replacement, todo>>

-----------------------------------------------------------------------------
(* The logic of a netlist, for given values v of the top-level ports and   *)
(* the flip-flops: the value 2 is that of a net that nothing drives.       *)

Sources(e) == {<<Top, x>> : x \in TopPorts(e)} \cup {<<g, "Q">> : g \in GatesOf(e, "SB_DFF")}
OnNet(e, n) == {x \in TopPorts(e) : Conn(e, <<Top, x>>) = n}

In(e, val, p) == IF Conn(e, p) = None \/ val[Conn(e, p)] = 2 THEN Undriven(e, p) ELSE val[Conn(e, p)]

Values(e, v) ==
  LET val[n \in e.nets \cup {None}] ==
        IF n \in DOMAIN e.const THEN e.const[n]
        ELSE IF Drivers(e, n) # {}
        THEN LET p == CHOOSE p \in Drivers(e, n) : TRUE
                 g == p[1]
                 at1 == {x \in LutIn : LET m == Conn(e, <<g, x>>) IN m # None /\ val[m] = 1}
             IN IF g = Top THEN v[p]
                ELSE CASE e.gate[g].model = "SB_DFF" -> v[<<g, "Q">>]
                       [] e.gate[g].model = "SB_LUT4" -> IF at1 \in e.gate[g].p.init THEN 1 ELSE 0
                       [] e.gate[g].model = "ICESTORM_LC" ->
                            IF e.gate[g].p.dff THEN v[<<g, "Q">>]
                            ELSE IF at1 \in e.gate[g].p.init THEN 1 ELSE 0
                       [] OTHER -> LET pin == IF p[2] = "Y" THEN n
                                              ELSE Conn(e, <<g, IF p[2] = "DIN0" THEN "PACKAGEPIN" ELSE "PACKAGE_PIN">>)
                                   IN IF pin # None /\ OnNet(e, pin) # {}
                                      THEN v[<<Top, CHOOSE x \in OnNet(e, pin) : TRUE>>] ELSE 2
        ELSE IF n # None /\ OnNet(e, n) # {} /\ \A x \in OnNet(e, n) : e.dir[x] = "INOUT"
        THEN v[<<Top, CHOOSE x \in OnNet(e, n) : TRUE>>]
        ELSE 2
  IN val

(* What a port puts out: a value and whether it is enabled.                *)
PadOut(e, val, g, out, enable) ==
  CASE e.gate[g].p.pin = "in" -> <<0, 0>>
    [] e.gate[g].p.pin = "out" -> <<In(e, val, <<g, out>>), 1>>
    [] e.gate[g].p.pin = "tristate" -> <<In(e, val, <<g, out>>), In(e, val, <<g, enable>>)>>
PortOut(e, val, x) ==
  LET n == Conn(e, <<Top, x>>)
      other == IF n = None THEN {} ELSE Connections(e, n) \ {<<Top, x>>}
      With(name) == {q[1] : q \in {q \in other : q[1] # Top /\ q[2] = name}}
  IN IF With("PACKAGE_PIN") # {}
     THEN PadOut(e, val, CHOOSE g \in With("PACKAGE_PIN") : TRUE, "D_OUT_0", "OUTPUT_ENABLE")
     ELSE IF With("PACKAGEPIN") # {}
     THEN PadOut(e, val, CHOOSE g \in With("PACKAGEPIN") : TRUE, "DOUT0", "OUTPUTENABLE")
     ELSE IF With("Y") # {}
     THEN LET g == CHOOSE g \in With("Y") : TRUE
          IN <<In(e, val, <<g, "A">>), In(e, val, <<g, "E">>)>>
     ELSE IF e.dir[x] = "OUT" \/ (e.dir[x] = "INOUT" /\ n # None /\ Drivers(e, n) # {})
     THEN <<In(e, val, <<Top, x>>), 1>>
     ELSE <<0, 0>>

(* What a flip-flop sees, and its kind.                                    *)
FlipFlop(e, val, g) ==
  LET p == e.gate[g].p
      at(x) == In(e, val, <<g, x>>)
  IN IF e.gate[g].model = "SB_DFF"
     THEN [d |-> at("D"), c |-> at("C"), e |-> IF p.cen THEN at("E") ELSE 1,
           sr |-> IF p.sr = "" THEN 0 ELSE at(IF p.sr \in {"S", "SS"} THEN "S" ELSE "R"),
           neg |-> p.neg, set |-> p.sr \in {"S", "SS"}, async |-> p.sr \in {"S", "R"}]
     ELSE [d |-> IF {x \in LutIn : at(x) = 1} \in p.init THEN 1 ELSE 0,
           c |-> at("CLK"), e |-> at("CEN"), sr |-> at("SR"),
           neg |-> p.neg, set |-> p.set, async |-> p.async]

Meaning(e, sources) ==
  LET ffs == {s[1] : s \in {s \in sources : s[1] # Top}}
  IN [v \in [sources -> {0, 1}] |->
        LET val == Values(e, v)
        IN <<[x \in TopPorts(e) |-> PortOut(e, val, x)], [g \in ffs |-> FlipFlop(e, val, g)]>>]

(* The nets of a file whose .names lines make a forest: every net is at    *)
(* most one line's output, and no net drives itself, so that in any set of *)
(* driven nets there is one whose driver is not in it.                     *)
Loopless(E) ==
  \A S \in (SUBSET Driven(E)) \ {{}} : \E n \in S : \A q \in E : q[2] = n => q[1] \notin S
Forest ==
  /\ \A i, j \in DOMAIN unify : i # j => unify[i][2] # unify[j][2]
  /\ Loopless(Range(unify))
Unified ==
  RemoveNets([d EXCEPT !.conn = [p \in DOMAIN @ |-> Origin(Range(unify), @[p])]], Driven(Range(unify)))

EndOfFile ==
  /\ pc = "read" /\ pc' = "unify"
  /\ meaning' = IF Forest THEN <<Sources(d), Meaning(Unified, Sources(d))>> ELSE <<>>
  /\ UNCHANGED <<file, read, d, unify, replacement, todo>>

Running == {"read", "unify", "open_drain", "inouts", "drivers", "tbufs", "io", "luts", "dffs", "constants"}
Stopped == pc \notin Running /\ UNCHANGED vars

Next ==
  \/ \E line \in file : ReadPort(line) \/ ReadConstant(line) \/ ReadNames(line) \/ ReadGate(line)
  \/ EndOfFile \/ Unify \/ RemoveReplaced \/ ReplaceOpenDrain \/ RedirectInouts \/ CheckDrivers
  \/ CheckTbufs \/ (\E x \in todo : InstantiateIo(x)) \/ IoDone
  \/ OptimizeLuts \/ PackDff \/ PackLut \/ EndPack \/ RealizeConstants \/ Stopped

Spec == Init /\ [][Next]_vars
-----------------------------------------------------------------------------
(* Properties *)

(* What the .names lines say does not depend on their order: unification   *)
(* refuses a file exactly if two lines drive one net or a net drives       *)
(* itself, whichever lines come first.                                     *)
RefusesConflicts ==
  /\ pc \in {"cycle", "conflict"} => meaning = <<>>
  /\ pc \notin {"read", "unify", "cycle", "conflict"} => meaning # <<>>

(* The logic is preserved: after every stage that the program completes,   *)
(* every port and every flip-flop computes what the file says, for all     *)
(* values of ports and flip-flops, though nets are unified, buffers become *)
(* pads, LUTs are merged into flip-flops, and constants are moved between  *)
(* tables, undriven inputs and cells.                                      *)
SameLogic ==
  pc \in {"tbufs", "luts", "constants", "done"} =>
    Meaning(d, meaning[1]) = meaning[2]

(* The assertions after each stage (Model::check()), and that of the       *)
(* router: what is left at a constant net is an input that reads this      *)
(* value when it is not driven, the carry ins excepted.                    *)
Asserts ==
  /\ pc \in {"tbufs", "luts", "constants", "done"} => Check(d)
  /\ pc = "done" =>
       \A p \in DOMAIN d.conn :
         d.conn[p] \in DOMAIN d.const \ BoundaryNets(d) =>
           /\ p[1] # Top /\ IsInput(d, p)
           /\ p[2] = "CIN" \/ Undriven(d, p) = d.const[d.conn[p]]
=============================================================================
