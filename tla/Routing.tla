------------------------------ MODULE Routing -------------------------------
(***************************************************************************)
(* What the router promises, whatever order it searches in and whatever    *)
(* its costs are: each net owns a tree of switches that grows by whole     *)
(* branches, is torn up only because it shares a cnet with another net,    *)
(* and the outcome is decided only when all nets are connected.            *)
(***************************************************************************)
EXTENDS Integers

CONSTANTS NCnet, NNet, max_passes

Cnet == 0 .. NCnet - 1
Net == 0 .. NNet - 1

VARIABLES problem, trees, status

Driven(T) == {e[2] : e \in T}

IsRouteTree(T, n) ==
  /\ \A e \in T : e[2] \in problem.outs[e[1]]
  /\ \A d, e \in T : d[2] = e[2] => d = e
  /\ problem.source[n] \notin Driven(T)
  /\ \A e \in T : e[1] \in Driven(T) \cup {problem.source[n]}
  /\ \A S \in (SUBSET Driven(T)) \ {{}} : \E e \in T : e[2] \in S /\ e[1] \notin S

Unreached(n) == problem.targets[n] \ Driven(trees[n])
Shares(m, n) == Driven(trees[m]) \cap Driven(trees[n]) # {}
AllConnected == \A n \in Net : Unreached(n) = {}
Legal == \A m, n \in Net : m # n => ~Shares(m, n)

Init ==
  /\ trees = [n \in Net |-> {}]
  /\ status = IF max_passes > 0 THEN "routing" ELSE "routed"

(* The tree of n gains a branch that reaches a target. *)
Connect(n) ==
  /\ status = "routing" /\ UNCHANGED <<problem, status>>
  /\ trees[n] \subseteq trees'[n] /\ trees' = [trees EXCEPT ![n] = trees'[n]]
  /\ IsRouteTree(trees'[n], n)
  /\ Unreached(n) \ Driven(trees'[n]) # Unreached(n)

(* Every net is connected, but not all on cnets of their own: one that     *)
(* stands in another's way may be torn up.                                 *)
RipUp(n) ==
  /\ status = "routing" /\ UNCHANGED <<problem, status>>
  /\ AllConnected
  /\ \E m \in Net \ {n} : Shares(m, n)
  /\ trees' = [trees EXCEPT ![n] = {}]

Succeed ==
  /\ status = "routing" /\ status' = "routed"
  /\ AllConnected /\ Legal
  /\ UNCHANGED <<problem, trees>>

GiveUp ==
  /\ status = "routing" /\ status' = "failed"
  /\ AllConnected /\ ~Legal
  /\ UNCHANGED <<problem, trees>>

Next ==
  \/ \E n \in Net : Connect(n)
  \/ \E n \in Net : RipUp(n)
  \/ Succeed
  \/ GiveUp

Spec == Init /\ [][Next]_<<problem, trees, status>>
=============================================================================
