------------------------------ MODULE Promoter ------------------------------
(***************************************************************************)
(* promote_globals() of global.cc: nets with many clock, enable or reset   *)
(* inputs are moved from the fabric to the global networks of the chip.    *)
(* Each network reaches only some kinds of inputs, so a class of inputs    *)
(* has the set of networks that reach it (the masks gc_clk, gc_cen, ...).  *)
(* The quota gc_used counts per class how many of its networks are taken,  *)
(* although which network a buffer gets is decided only by the placer.     *)
(*                                                                         *)
(* A net is its inputs, counted by kind: global[n] are those on a global   *)
(* network, local[n] those in the fabric (behind a pass-through cell, or   *)
(* on the original net of a promoted one).                                 *)
(***************************************************************************)
EXTENDS Integers, Sequences, FiniteSets, FiniteSetsExt

CONSTANTS
  Network,     \* the global networks
  Classes,     \* the networks of each class, in the order of the masks
  do_promote,  \* unless option -g
  Designs      \* the sequences of nets considered

(* Networks are the bits of the masks, and there is some class.            *)
ASSUME ClassAssumption ==
  /\ IsFiniteSet(Network) /\ Network \subseteq Nat
  /\ Classes \in Seq(SUBSET Network) \ {<<>>}

Class == DOMAIN Classes
Lut == 0           \* inputs of lookup tables
Other == -1        \* all other inputs
Kind == Class \cup {Lut, Other}
gc_clk == Network

(* A net that index_nets() numbers: its driver, described below, and how   *)
(* many inputs of each kind it has.                                        *)
IndexedNet ==
  [driver : {"gb", "pad", "osc", "pll", "fabric", "none"}, at : Nat, inputs : [Kind -> Nat]]

(* A design has some net: the constructor adds const0 if there is none.    *)
ASSUME DesignAssumption == Designs \subseteq Seq(IndexedNet) \ {<<>>}

(* port_gc(): what has a class, and what also can be reached. *)
Reached(kind) ==
  IF kind \in Class THEN Classes[kind] ELSE IF kind = Lut THEN gc_clk ELSE {}

VARIABLES
  design,         \* the inputs and the driver of each net
  pc,             \* the loop promote() is in
  i,              \* the net of its next turn
  local, global,
  gc_used,
  gc,             \* the class of the buffer of a net (gb_inst_gc), 0 for none
  promote_q       \* the nets that may be promoted

vars == <<design, pc, i, local, global, gc_used, gc, promote_q>>

(* Drivers: "gb" is a buffer that is not placed yet; "pad" (a pad with a   *)
(* global output), "osc" (an oscillator) and "pll" are placed and drive    *)
(* network at, which is no network if a pad has none; "fabric" is any      *)
(* other instance, "none" means that the net is skipped.                   *)
Nets == DOMAIN design
Driver(n) == design[n].driver
IsFixed(n) == Driver(n) \in {"pad", "osc", "pll"}
IsGlobal(n) == Driver(n) = "gb" \/ IsFixed(n)
Nothing == [k \in Kind |-> 0]

Init ==
  /\ design \in Designs
  /\ pc = "fixed"
  /\ i = 1
  /\ local = [n \in Nets |-> IF IsGlobal(n) THEN Nothing ELSE design[n].inputs]
  /\ global = [n \in Nets |-> IF IsGlobal(n) THEN design[n].inputs ELSE Nothing]
  /\ gc_used = [X \in Class |-> 0]
  /\ gc = [n \in Nets |-> 0]
  /\ promote_q = {}

-----------------------------------------------------------------------------
Keep(inputs, good) == [k \in Kind |-> IF k \in good THEN inputs[k] ELSE 0]
Plus(a, b) == [k \in Kind |-> a[k] + b[k]]
One(kind) == [k \in Kind |-> IF k = kind THEN 1 ELSE 0]

(* routable(): all of the networks must reach the input. *)
Routable(networks) == {k \in Kind : networks \subseteq Reached(k)}

(* make_routable(): the inputs that the networks do not reach are moved    *)
(* behind one new cell that is driven through a lookup table.              *)
MakeRoutable(n, networks) ==
  LET good == Routable(networks)
      moved == {k \in Kind \ good : global[n][k] > 0}
  IN /\ local' = [local EXCEPT ![n] = Plus(@, Keep(global[n], moved))]
     /\ global' = [global EXCEPT ![n] = IF moved = {} THEN @ ELSE Plus(Keep(@, good), One(Lut))]

Turn(last) ==
  IF i < Len(design) THEN i' = i + 1 /\ UNCHANGED pc ELSE i' = 1 /\ pc' = last

Refused(n) == IsFixed(n) /\ design[n].at \notin Network

(* Mutant: what is placed is counted by the second loop only. *)
CountFixedLater ==
  /\ pc = "fixed" /\ ~Refused(i)
  /\ IF IsFixed(i) THEN MakeRoutable(i, {design[i].at}) ELSE UNCHANGED <<local, global>>
  /\ Turn("scan")
  /\ UNCHANGED <<design, gc_used, gc, promote_q>>

(* The first loop: what is placed takes its network from the quota of      *)
(* every class that has it.                                                *)
CountFixed ==
  /\ pc = "fixed" /\ ~Refused(i)
  /\ IF IsFixed(i)
     THEN /\ gc_used' = [X \in Class |-> gc_used[X]
                                           + IF design[i].at \in Classes[X] THEN 1 ELSE 0]
          /\ MakeRoutable(i, {design[i].at})
     ELSE UNCHANGED <<gc_used, local, global>>
  /\ Turn("scan")
  /\ UNCHANGED <<design, gc, promote_q>>

(* fatal(): constraints put a global pad where there is no network.        *)
RefusePad ==
  /\ pc = "fixed" /\ Refused(i)
  /\ pc' = "failed"
  /\ UNCHANGED <<design, i, local, global, gc_used, gc, promote_q>>

Most(inputs) == Max({inputs[k] : k \in Class})
(* Mutant: inputs without a class take part. *)
MaxClassAny(inputs) == Min({k \in Kind : inputs[k] = Most(inputs)})

(* The class most inputs have, the least mask if there are several.        *)
MaxClass(inputs) == Min({k \in Class : inputs[k] = Most(inputs)})
ClkClass == Max(Class)

(* Mutant: the classes around it are not charged. *)
ChargeOwn(X) == gc_used' = [gc_used EXCEPT ![X] = @ + 1]

Charge(X) == gc_used' = [Y \in Class |-> gc_used[Y] + IF Classes[X] \subseteq Classes[Y] THEN 1 ELSE 0]

(* The second loop: networks that are used already (those of pads and PLLs *)
(* are counted again), and what would be worth a network.                  *)
ScanGlobal ==
  LET X == IF Most(global[i]) > 0 THEN MaxClass(global[i]) ELSE ClkClass
  IN /\ pc = "scan" /\ IsGlobal(i)
     /\ IF Driver(i) = "pll"
        THEN UNCHANGED <<local, global, gc>>
        ELSE MakeRoutable(i, Classes[X]) /\ gc' = [gc EXCEPT ![i] = X]
     /\ Charge(X)
     /\ Turn("promote")
     /\ UNCHANGED <<design, promote_q>>

ScanFabric ==
  /\ pc = "scan" /\ ~IsGlobal(i)
  /\ promote_q' = IF do_promote /\ Driver(i) = "fabric" /\ Most(local[i]) > 4
                  THEN promote_q \cup {<<Most(local[i]), i, MaxClass(local[i])>>}
                  ELSE promote_q
  /\ Turn("promote")
  /\ UNCHANGED <<design, local, global, gc_used, gc>>

(* Mutant: looks at the quota of the class alone. *)
HasQuotaOwn(X) == gc_used[X] < Cardinality(Classes[X])

HasQuota(X) ==
  \A Y \in Class : Classes[X] \subseteq Classes[Y] => gc_used[Y] < Cardinality(Classes[Y])

IsFirst(e) == \A f \in promote_q : f[1] < e[1] \/ (f[1] = e[1] /\ f[2] <= e[2])

(* Mutant: moves what some network of the class reaches. *)
SomeReach(X) == {k \in Kind : Classes[X] \cap Reached(k) # {}}

AllReach(X) == Routable(Classes[X])

(* The third loop, from the most inputs to the fewest: a buffer drives the *)
(* inputs that all networks of its class reach.                            *)
Promote(e) ==
  LET n == e[2]
      X == e[3]
      moved == Keep(local[n], AllReach(X))
  IN /\ pc = "promote" /\ IsFirst(e) /\ HasQuota(X)
     /\ global' = [global EXCEPT ![n] = moved]
     /\ local' = [local EXCEPT ![n] = Plus(Keep(@, Kind \ AllReach(X)), One(Other))]
     /\ gc' = [gc EXCEPT ![n] = X]
     /\ Charge(X)
     /\ promote_q' = promote_q \ {e}
     /\ UNCHANGED <<design, pc, i>>

Leave(e) ==
  /\ pc = "promote" /\ IsFirst(e) /\ ~HasQuota(e[3])
  /\ promote_q' = promote_q \ {e}
  /\ UNCHANGED <<design, pc, i, local, global, gc_used, gc>>

Finish ==
  /\ pc = "promote" /\ promote_q = {}
  /\ pc' = "promoted"
  /\ UNCHANGED <<design, i, local, global, gc_used, gc, promote_q>>

Next ==
  \/ CountFixed \/ RefusePad \/ ScanGlobal \/ ScanFabric
  \/ \E e \in promote_q : Promote(e) \/ Leave(e)
  \/ Finish

Spec == Init /\ [][Next]_vars
-----------------------------------------------------------------------------
(* Properties *)

TypeOK ==
  /\ design \in Designs
  /\ pc \in {"fixed", "scan", "promote", "promoted", "failed"}
  /\ i \in Nets
  /\ local \in [Nets -> [Kind -> Nat]] /\ global \in [Nets -> [Kind -> Nat]]
  /\ gc_used \in [Class -> Nat]
  /\ gc \in [Nets -> Class \cup {0}]
  /\ promote_q \subseteq Nat \X Nets \X Class

(* The networks of class X that are taken, or will be when the buffers of  *)
(* classes within X are placed.                                            *)
Buffers == {n \in Nets : gc[n] # 0 /\ ~IsFixed(n)}
Takers(X) == {n \in Nets : IsFixed(n) /\ design[n].at \in Classes[X]}
               \cup {n \in Buffers : Classes[gc[n]] \subseteq Classes[X]}
Demand(X) == Cardinality(Takers(X))

(* The quota is never behind what is taken: when nets are promoted, it     *)
(* counts everything that was there before and every promotion, for the    *)
(* class of the net and for all classes around it.                         *)
QuotaCounts == pc \in {"promote", "promoted"} => \A X \in Class : Demand(X) <= gc_used[X]

(* A promotion never takes more networks of any class than the class has.  *)
(* (What the design brings may, and is then found out by the placer.)      *)
NoOverbooking ==
  [][\A X \in Class : pc = "promote" /\ Demand(X)' # Demand(X)
                        => Demand(X)' <= Cardinality(Classes[X])]_vars

(* The networks that may carry net n. *)
Carriers(n) == IF IsFixed(n) THEN {design[n].at} ELSE Classes[gc[n]]

(* Every input on a global network is reached by whichever network it will *)
(* be: the router cannot repair what is wrong here.                        *)
InputsReached ==
  pc \in {"promote", "promoted"} =>
    \A n \in Nets : IsGlobal(n) \/ gc[n] # 0 =>
      \A k \in Kind : global[n][k] > 0 => Carriers(n) \subseteq Reached(k)
=============================================================================
