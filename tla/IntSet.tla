------------------------------- MODULE IntSet -------------------------------
(***************************************************************************)
(* What UllmanSet promises its clients (the router's unrouted, visited and *)
(* frontier, the placer's changed_tiles, recompute and tmp_local_np): a    *)
(* set of integers of 0 .. Cap-1.  This is also the std::set that          *)
(* tests/test_us.cc runs beside an UllmanSet.                              *)
(***************************************************************************)
EXTENDS Integers

CONSTANT Cap

Key == 0 .. Cap - 1

VARIABLE members

Init == members = {}

Insert(k) == members' = members \cup {k}

Erase(k) == members' = members \ {k}

Clear == members' = {}

Next == Clear \/ \E k \in Key : Insert(k) \/ Erase(k)

Spec == Init /\ [][Next]_members
=============================================================================
