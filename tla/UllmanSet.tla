----------------------------- MODULE UllmanSet ------------------------------
(***************************************************************************)
(* The sparse set of ullmanset.hh: the members are key[0 .. n-1] and       *)
(* pos[k] says where member k is.  clear() only resets n, and erase()      *)
(* fills the hole with the last member, so both arrays keep stale entries  *)
(* of former members; contains() has to see through them.                  *)
(***************************************************************************)
EXTENDS Integers, FiniteSets

CONSTANT Cap   \* capacity(), given to the constructor

ASSUME CapAssumption == Cap \in Nat

Key == 0 .. Cap - 1

VARIABLES
  n,     \* size()
  key,   \* key[p] is the member at position p, for p < n
  pos    \* pos[k] is the position of k, if k is a member

vars == <<n, key, pos>>

TypeOK ==
  /\ n \in 0 .. Cap
  /\ key \in [Key -> Key]
  /\ pos \in [Key -> Key]

(* std::vector value-initialises both arrays. *)
Init ==
  /\ n = 0
  /\ key = [p \in Key |-> 0]
  /\ pos = [k \in Key |-> 0]

-----------------------------------------------------------------------------
(* Mutant: trusts pos[k] and does not look who sits there now. *)
ContainsUnchecked(k) == pos[k] < n

Contains(k) == pos[k] < n /\ key[pos[k]] = k

(* The tail insert() and extend() share. *)
Push(k) ==
  /\ key' = [key EXCEPT ![n] = k]
  /\ pos' = [pos EXCEPT ![k] = n]
  /\ n' = n + 1

(* Mutant: insert() without its early return for a member. *)
InsertTwice(k) == Push(k)

Insert(k) ==
  IF Contains(k) THEN UNCHANGED vars ELSE Push(k)

(* extend() asserts that k is new: its callers may only extend by a new k. *)
Extend(k) ==
  /\ ~Contains(k)
  /\ Push(k)

(* Mutant: moves the last member without updating its pos. *)
EraseNoPos(k) ==
  IF Contains(k)
  THEN /\ n' = n - 1
       /\ key' = [key EXCEPT ![pos[k]] = key[n - 1]]
       /\ UNCHANGED pos
  ELSE UNCHANGED vars

(* The last member moves to the position of k; when k is the last member   *)
(* nothing moves.                                                          *)
Erase(k) ==
  IF Contains(k)
  THEN LET p == pos[k]
           ell == key[n - 1]
       IN /\ n' = n - 1
          /\ IF p # n - 1
             THEN /\ pos' = [pos EXCEPT ![ell] = p]
                  /\ key' = [key EXCEPT ![p] = ell]
             ELSE UNCHANGED <<key, pos>>
  ELSE UNCHANGED vars

Clear == n' = 0 /\ UNCHANGED <<key, pos>>

Next ==
  \/ Clear
  \/ \E k \in Key : Insert(k)
  \/ \E k \in Key : Extend(k)
  \/ \E k \in Key : Erase(k)

Spec == Init /\ [][Next]_vars

-----------------------------------------------------------------------------
(* The members in the order ith(0) .. ith(size()-1) enumerates them. *)
Members == {key[p] : p \in 0 .. n - 1}

(***************************************************************************)
(* key and pos are inverse to each other below n, whatever stale entries   *)
(* lie above it.                                                           *)
(***************************************************************************)
MutuallyInverse == \A p \in 0 .. n - 1 : pos[key[p]] = p

(***************************************************************************)
(* contains(k) tells exactly the keys that ith() enumerates, and size()    *)
(* counts each of them once, so that an enumeration by ith() (the placer's *)
(* loops over recompute and changed_tiles) meets every member once: the    *)
(* comparison a == a2 and a.size() == b.size() of tests/test_us.cc.        *)
(***************************************************************************)
ContainsIsMembership ==
  /\ \A k \in Key : Contains(k) <=> k \in Members
  /\ n = Cardinality(Members)

Set == INSTANCE IntSet WITH members <- Members

CallByCall ==
  /\ Clear => Set!Clear
  /\ \A k \in Key : /\ Insert(k) \/ Extend(k) => Set!Insert(k)
                    /\ Erase(k) => Set!Erase(k)

(* UllmanSet implements the mathematical set, and does so call by call:    *)
(* each function does to Members what its namesake does to the set, and    *)
(* not what some other function would do.                                  *)
ImplementsSet == Set!Spec /\ [][CallByCall]_vars
=============================================================================
