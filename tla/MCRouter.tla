------------------------------ MODULE MCRouter ------------------------------
(* Model of Router: three nets on small fabrics. *)
EXTENDS Router, SequencesExt

(* Cnets 0 to 2 are the sources, 7 to 10 the targets, the others wires:    *)
(* net 0 goes to 7 and 8, net 1 to 9, net 2 to 10.                         *)
MCSource == [n \in Net |-> n]
MCTargets == [n \in Net |-> IF n = 0 THEN {7, 8} ELSE {n + 8}]

Fabric(switches) ==
  [outs |-> [i \in Cnet |-> {e[2] : e \in {s \in switches : s[1] = i}}],
   source |-> MCSource,
   targets |-> MCTargets]

(* A crossing where three nets meet on wires 3 and 4, with some of the     *)
(* ways around them.                                                       *)
Crossing == {<<0, 3>>, <<1, 3>>, <<3, 7>>, <<3, 9>>, <<0, 4>>, <<2, 4>>, <<4, 10>>, <<5, 6>>, <<6, 8>>}
WaysAround == {<<3, 8>>, <<4, 8>>, <<4, 5>>, <<5, 7>>, <<0, 6>>, <<6, 7>>, <<1, 5>>, <<5, 9>>}

(* A short wire 3 that nets 0 and 1 want, and a detour of four wires that  *)
(* costs as much as 3 when it is shared: only the history of congestion    *)
(* makes a net take the detour, in the third pass.                         *)
Detour == {<<0, 3>>, <<1, 3>>, <<3, 7>>, <<3, 8>>, <<3, 9>>, <<4, 5>>, <<5, 6>>, <<6, 11>>, <<2, 10>>}
DetourEnds == {<<0, 4>>, <<1, 4>>, <<11, 7>>, <<11, 8>>, <<11, 9>>}

MCProblems ==
  {p \in {Fabric(Crossing \cup S) : S \in SUBSET WaysAround}
         \cup {Fabric(Detour \cup S) : S \in SUBSET DetourEnds} : WellFormed(p)}

(***************************************************************************)
(* Reference: the least cost of a path from the source or the finished     *)
(* branches to every cnet, by relaxing all switches NCnet times.           *)
(***************************************************************************)
Unreachable == 1000000000
Least(a, b) == IF a < b THEN a ELSE b
Roots == {source} \cup Driven(Tree(current_net))
Relax(D) ==
  [c \in Cnet |-> FoldSet(Least, D[c], {D[b] + StepCost(c) : b \in {b \in Cnet : c \in outs[b]}})]
Distance ==
  FoldLeftDomain(LAMBDA D, i : Relax(D),
                 [c \in Cnet |-> IF c \in Roots THEN 0 ELSE Unreachable],
                 [i \in 1 .. NCnet |-> i])

(* The search connects the target that is cheapest to reach, at its least  *)
(* cost: relaxing frontier entries in place, leaving stale queue entries   *)
(* behind and restarting from a grown tree lose no cheaper path.           *)
NearestTargetFirst ==
  [][pc = "search" /\ pc' = "traceback" =>
       LET D == Distance
       IN cost[cn'] = D[cn'] /\ \A t \in unrouted : D[cn'] <= D[t]]_vars
=============================================================================
