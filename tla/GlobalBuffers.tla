--------------------------- MODULE GlobalBuffers ----------------------------
(***************************************************************************)
(* Promotion, followed by the placement of the buffers: place_initial()    *)
(* takes the buffers in the order of their class masks and puts each on    *)
(* the first free network of its class.  Nothing is ever taken back, so it *)
(* depends on the quota and on the order whether all of them find one.     *)
(***************************************************************************)
EXTENDS Promoter

CONSTANT Blocked   \* the network whose buffer lies in the tile of the pad of a network

(* The masks overlap only by nesting, and the wider mask is the greater    *)
(* number.                                                                 *)
ASSUME MaskAssumption ==
  \A X, Y \in Class : X < Y => Classes[X] \subseteq Classes[Y] \/ Classes[X] \cap Classes[Y] = {}

VARIABLES
  placed,   \* the buffers that are placed
  used      \* the networks they got

allVars == <<vars, placed, used>>

(* A network of another driver, or of a buffer beside a global pad. *)
Taken ==
  {design[n].at : n \in {m \in Nets : IsFixed(m)}}
    \cup {Blocked[design[n].at] : n \in {m \in Nets : Driver(m) = "pad"}}
    \cup used

Waiting == Buffers \ placed

(* Mutant: the widest class first. *)
NextBufferWidest(n) == \A m \in Waiting : gc[m] < gc[n] \/ (gc[m] = gc[n] /\ n <= m)

NextBuffer(n) == \A m \in Waiting : gc[n] < gc[m] \/ (gc[n] = gc[m] /\ n <= m)

(* The order in which the networks are tried is that of the chip's tables. *)
PlaceBuffer(n) ==
  /\ pc = "promoted" /\ NextBuffer(n)
  /\ \E g \in Classes[gc[n]] \ Taken : used' = used \cup {g}
  /\ placed' = placed \cup {n}
  /\ UNCHANGED vars

BuffersInit == Init /\ placed = {} /\ used = {}

(* place() goes on, or fatal("failed to place: ..."). *)
Stopped ==
  /\ pc \in {"promoted", "failed"}
  /\ pc = "failed" \/ Waiting = {} \/ \E n \in Waiting : NextBuffer(n) /\ Classes[gc[n]] \subseteq Taken
  /\ UNCHANGED allVars

BuffersNext ==
  \/ Next /\ UNCHANGED <<placed, used>>
  \/ \E n \in Waiting : PlaceBuffer(n)
  \/ Stopped

BuffersSpec == BuffersInit /\ [][BuffersNext]_allVars
-----------------------------------------------------------------------------
(* The networks of class X that no buffer can get. *)
Lost(X) ==
  Classes[X] \cap ({design[n].at : n \in {m \in Nets : IsFixed(m)}}
                     \cup {Blocked[design[n].at] : n \in {m \in Nets : Driver(m) = "pad"}})
Wanted(X) == {n \in Buffers : Classes[gc[n]] \subseteq Classes[X]}

(* If every class has as many networks as it needs, every buffer finds one *)
(* in whatever order the networks are tried: the greedy choice of the      *)
(* placer never takes the last network of a narrower class.                *)
BuffersFit ==
  pc = "promoted" /\ (\A X \in Class : Cardinality(Wanted(X)) + Cardinality(Lost(X)) <= Cardinality(Classes[X]))
    => \A n \in Waiting : NextBuffer(n) => ~(Classes[gc[n]] \subseteq Taken)

(* Promotion is safe: where no global pad blocks a buffer and the design's *)
(* own buffers fit, the placer finds a network for all buffers, promoted   *)
(* ones included.                                                          *)
PromotedFit ==
  LET own == {n \in Buffers : Driver(n) = "gb"}
      fit == \A X \in Class : Cardinality({n \in own : Classes[gc[n]] \subseteq Classes[X]})
                                + Cardinality(Lost(X)) <= Cardinality(Classes[X])
  IN pc = "promoted" /\ fit /\ (\A n \in Nets : Driver(n) # "pad")
       => \A n \in Waiting : NextBuffer(n) => ~(Classes[gc[n]] \subseteq Taken)
=============================================================================
