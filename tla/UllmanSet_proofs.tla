-------------------------- MODULE UllmanSet_proofs --------------------------
(* Proofs about UllmanSet for every capacity. *)
EXTENDS UllmanSet, FunctionTheorems, FiniteSetTheorems, TLAPS

IInv == TypeOK /\ MutuallyInverse

(* The positions 0 .. n-1 are in bijection with the members. *)
LEMMA MembersCardinality ==
  ASSUME IInv
  PROVE  /\ IsFiniteSet(Members)
         /\ Cardinality(Members) = n
<1> USE CapAssumption DEF IInv, TypeOK, MutuallyInverse, Key
<1>1. n \in Nat /\ 0 \in Int /\ n - 1 \in Int
  OBVIOUS
<1>2. IsFiniteSet(0 .. n - 1) /\ Cardinality(0 .. n - 1) = n
  <2>1. IsFiniteSet(0 .. n - 1)
    BY <1>1, FS_Interval
  <2>2. Cardinality(0 .. n - 1) = IF 0 > n - 1 THEN 0 ELSE (n - 1) - 0 + 1
    BY <1>1, FS_Interval
  <2> QED BY <1>1, <2>1, <2>2
<1> DEFINE f == [p \in 0 .. n - 1 |-> key[p]]
<1>3. f \in Bijection(0 .. n - 1, Members)
  <2>1. f \in [0 .. n - 1 -> Members]
    BY DEF Members
  <2>2. \A p, q \in 0 .. n - 1 : f[p] = f[q] => p = q
    OBVIOUS
  <2>3. \A m \in Members : \E p \in 0 .. n - 1 : f[p] = m
    BY DEF Members
  <2> HIDE DEF f
  <2> QED BY <2>1, <2>2, <2>3, Fun_IsBij
<1> HIDE DEF f
<1> QED BY <1>2, <1>3, FS_Bijection DEF ExistsBijection

(* What the invariant says of one position and of one key. *)
LEMMA Facts ==
  ASSUME IInv
  PROVE  /\ n \in Nat /\ n <= Cap
         /\ \A p \in 0 .. n - 1 : /\ p \in Key /\ key[p] \in Key
                                  /\ key[p] \in Members /\ pos[key[p]] = p
         /\ \A p, q \in 0 .. n - 1 : key[p] = key[q] => p = q
         /\ \A k \in Key : pos[k] \in Key /\ pos[k] \in Nat
<1>1. n \in Nat /\ n <= Cap
  BY CapAssumption DEF IInv, TypeOK
<1>2. \A p \in 0 .. n - 1 : p \in Key
  BY <1>1, CapAssumption DEF Key
<1>3. \A k \in Key : pos[k] \in Key /\ pos[k] \in Nat
  <2>1. \A k \in Key : k \in Nat
    BY CapAssumption DEF Key
  <2> QED BY <2>1 DEF IInv, TypeOK
<1> QED BY <1>1, <1>2, <1>3 DEF IInv, TypeOK, MutuallyInverse, Members

(* contains() answers membership exactly. *)
LEMMA ContainsCorrect ==
  ASSUME IInv, NEW k \in Key
  PROVE  Contains(k) <=> k \in Members
<1>1. ASSUME Contains(k) PROVE k \in Members
  <2>1. pos[k] \in 0 .. n - 1 /\ k = key[pos[k]]
    BY <1>1, Facts DEF Contains
  <2> QED BY <2>1 DEF Members
<1>2. ASSUME NEW p \in 0 .. n - 1, k = key[p] PROVE Contains(k)
  <2>1. pos[k] = p /\ p < n
    BY <1>2, Facts
  <2> QED BY <1>2, <2>1 DEF Contains
<1> QED BY <1>1, <1>2 DEF Members

(* There is always room for a new member: insert() never writes past the   *)
(* end of key.                                                             *)
LEMMA RoomForNew ==
  ASSUME IInv, NEW k \in Key, ~Contains(k)
  PROVE  n < Cap
<1> USE CapAssumption
<1>1. Members \subseteq Key \ {k}
  BY Facts, ContainsCorrect DEF Members
<1>2. IsFiniteSet(Key) /\ Cardinality(Key) = Cap
  <2>1. Cap \in Nat /\ Cap - 1 \in Int /\ 0 \in Int
    OBVIOUS
  <2>2. IsFiniteSet(0 .. Cap - 1)
    BY <2>1, FS_Interval
  <2>3. Cardinality(0 .. Cap - 1) = IF 0 > Cap - 1 THEN 0 ELSE (Cap - 1) - 0 + 1
    BY <2>1, FS_Interval
  <2> QED BY <2>1, <2>2, <2>3 DEF Key
<1>3. IsFiniteSet(Key \ {k}) /\ Cardinality(Key \ {k}) = Cap - 1
  BY <1>2, FS_RemoveElement
<1>4. Cardinality(Members) <= Cardinality(Key \ {k})
  BY <1>1, <1>3, FS_Subset
<1> QED BY <1>3, <1>4, MembersCardinality DEF IInv, TypeOK

-----------------------------------------------------------------------------
(* One lemma per operation: it keeps the representation invariant and does *)
(* to Members what the abstract operation does.                            *)
LEMMA PushStep ==
  ASSUME IInv, NEW k \in Key, ~Contains(k), Push(k)
  PROVE  IInv' /\ Members' = Members \cup {k}
<1> USE CapAssumption
<1>1. n < Cap
  BY RoomForNew
<1>2. k \notin Members
  BY ContainsCorrect
<1>3. TypeOK'
  <2>1. n \in Key /\ n' \in 0 .. Cap
    BY <1>1 DEF IInv, TypeOK, Push, Key
  <2> QED BY <2>1 DEF IInv, TypeOK, Push
<1>4. \A p \in 0 .. n - 1 : key'[p] = key[p] /\ pos'[key[p]] = p
  <2> SUFFICES ASSUME NEW p \in 0 .. n - 1
               PROVE  key'[p] = key[p] /\ pos'[key[p]] = p
    OBVIOUS
  <2>1. p \in Key /\ p # n /\ n \in Key
    BY <1>1 DEF IInv, TypeOK, Key
  <2>2. key[p] \in Key /\ key[p] # k
    BY <1>2, <2>1 DEF IInv, TypeOK, Members
  <2> QED BY <2>1, <2>2 DEF IInv, TypeOK, MutuallyInverse, Push
<1>5. key'[n] = k /\ pos'[k] = n /\ n' = n + 1 /\ n \in Nat
  <2>1. n \in Key
    BY <1>1, Facts DEF Key
  <2> QED BY <2>1, Facts DEF IInv, TypeOK, Push
<1>6. MutuallyInverse'
  <2> SUFFICES ASSUME NEW p \in 0 .. n PROVE pos'[key'[p]] = p
    BY <1>5 DEF MutuallyInverse
  <2>1. p = n \/ p \in 0 .. n - 1
    BY <1>5
  <2> QED BY <1>4, <1>5, <2>1
<1>7. Members' = Members \cup {k}
  <2>1. Members' = {key'[p] : p \in 0 .. n}
    BY <1>5 DEF Members
  <2>2. 0 .. n = (0 .. n - 1) \cup {n}
    BY <1>5
  <2> QED BY <1>4, <1>5, <2>1, <2>2 DEF Members
<1> QED BY <1>3, <1>6, <1>7 DEF IInv

LEMMA EraseStep ==
  ASSUME IInv, NEW k \in Key, Erase(k)
  PROVE  IInv' /\ Members' = Members \ {k}
<1>1. CASE ~Contains(k)
  <2>1. k \notin Members /\ UNCHANGED vars
    BY <1>1, ContainsCorrect DEF Erase
  <2> QED BY <2>1 DEF IInv, TypeOK, MutuallyInverse, Members, vars
<1>2. CASE Contains(k)
  <2> DEFINE p == pos[k]
             ell == key[n - 1]
  <2>1. /\ p \in 0 .. n - 1 /\ n - 1 \in 0 .. n - 1
        /\ key[p] = k /\ n' = n - 1 /\ n - 1 \in 0 .. Cap
    BY <1>2, Facts, CapAssumption DEF Contains, Erase
  <2>2. ell \in Key /\ pos[ell] = n - 1 /\ p \in Key
    BY <2>1, Facts
  <2>3. n' - 1 = n - 2 /\ 0 .. n - 1 = (0 .. n - 2) \cup {n - 1} /\ n - 1 \notin 0 .. n - 2
    BY <2>1, Facts
  <2>4. CASE p = n - 1
    <3>1. UNCHANGED <<key, pos>>
      BY <1>2, <2>4 DEF Erase
    <3>2. Members' = {key[q] : q \in 0 .. n - 2}
      BY <2>3, <3>1 DEF Members
    <3>3. \A q \in 0 .. n - 2 : key[q] # k
      BY <2>1, <2>3, <2>4, Facts
    <3>4. Members' = Members \ {k}
      BY <2>1, <2>3, <2>4, <3>2, <3>3 DEF Members
    <3> QED BY <2>1, <2>3, <3>1, <3>4 DEF IInv, TypeOK, MutuallyInverse
  <2>5. CASE p # n - 1
    <3>1. /\ pos' = [pos EXCEPT ![ell] = p]
          /\ key' = [key EXCEPT ![p] = ell]
      BY <1>2, <2>5 DEF Erase
    <3>2. TypeOK'
      BY <2>1, <2>2, <3>1 DEF IInv, TypeOK
    <3>3. p \in 0 .. n - 2
      BY <2>1, <2>3, <2>5
    <3>4. \A q \in 0 .. n - 2 : key'[q] = IF q = p THEN ell ELSE key[q]
      BY <2>2, <2>3, <3>1, Facts DEF IInv, TypeOK
    <3>5. \A q \in 0 .. n - 2 : key[q] # ell /\ (q # p => key[q] # k)
      BY <2>1, <2>3, Facts
    <3>6. MutuallyInverse'
      <4> SUFFICES ASSUME NEW q \in 0 .. n - 2
                   PROVE  pos'[key'[q]] = q
        BY <2>3 DEF MutuallyInverse
      <4>1. CASE q = p
        BY <2>2, <3>1, <3>4, <4>1 DEF IInv, TypeOK
      <4>2. CASE q # p
        BY <2>2, <2>3, <3>1, <3>4, <3>5, <4>2, Facts DEF IInv, TypeOK
      <4> QED BY <4>1, <4>2
    <3>7. Members' = {key'[q] : q \in 0 .. n - 2}
      BY <2>3 DEF Members
    <3>8. ASSUME NEW q \in 0 .. n - 2 PROVE key'[q] \in Members \ {k}
      BY <2>1, <2>3, <2>5, <3>4, <3>5, Facts DEF Members
    <3>9. ASSUME NEW m \in Members \ {k} PROVE m \in Members'
      <4>1. PICK r \in 0 .. n - 1 : m = key[r]
        BY DEF Members
      <4>2. r # p
        BY <2>1, <4>1
      <4>3. CASE r = n - 1
        BY <3>3, <3>4, <3>7, <4>1, <4>3
      <4>4. CASE r # n - 1
        BY <2>3, <3>4, <3>7, <4>1, <4>2, <4>4
      <4> QED BY <4>3, <4>4
    <3> QED BY <3>2, <3>6, <3>7, <3>8, <3>9 DEF IInv
  <2> QED BY <2>4, <2>5
<1> QED BY <1>1, <1>2

LEMMA ClearStep ==
  ASSUME IInv, Clear
  PROVE  IInv' /\ Members' = {}
BY CapAssumption DEF IInv, TypeOK, MutuallyInverse, Members, Clear, Key

LEMMA InitStep ==
  ASSUME Init
  PROVE  IInv /\ Members = {}
BY CapAssumption DEF Init, IInv, TypeOK, MutuallyInverse, Members, Key

-----------------------------------------------------------------------------
(* Every step keeps the invariant and is a step, or a stutter, of the set. *)
LEMMA NextStep ==
  ASSUME IInv, [Next]_vars
  PROVE  IInv' /\ [Set!Next]_Members
<1>1. CASE UNCHANGED vars
  BY <1>1 DEF IInv, TypeOK, MutuallyInverse, Members, vars
<1>2. CASE Clear
  BY <1>2, ClearStep DEF Set!Next, Set!Clear
<1>3. ASSUME NEW k \in Key, Insert(k)
      PROVE  IInv' /\ [Set!Next]_Members
  <2>1. CASE Contains(k)
    BY <1>3, <2>1 DEF Insert, IInv, TypeOK, MutuallyInverse, Members, vars
  <2>2. CASE ~Contains(k)
    BY <1>3, <2>2, PushStep DEF Insert, Set!Next, Set!Insert, Set!Key, Key
  <2> QED BY <2>1, <2>2
<1>4. ASSUME NEW k \in Key, Extend(k)
      PROVE  IInv' /\ [Set!Next]_Members
  BY <1>4, PushStep DEF Extend, Set!Next, Set!Insert, Set!Key, Key
<1>5. ASSUME NEW k \in Key, Erase(k)
      PROVE  IInv' /\ [Set!Next]_Members
  BY <1>5, EraseStep DEF Set!Next, Set!Erase, Set!Key, Key
<1> QED BY <1>1, <1>2, <1>3, <1>4, <1>5 DEF Next

(* Each function has the effect of its namesake. *)
LEMMA CallStep ==
  ASSUME IInv
  PROVE  CallByCall
<1>1. Clear => Set!Clear
  BY ClearStep DEF Set!Clear
<1>2. ASSUME NEW k \in Key, Insert(k) \/ Extend(k)
      PROVE  Set!Insert(k)
  <2>1. CASE Contains(k)
    <3>1. Members' = Members
      BY <1>2, <2>1 DEF Insert, Extend, Members, vars
    <3>2. k \in Members
      BY <2>1, ContainsCorrect
    <3> QED BY <3>1, <3>2 DEF Set!Insert
  <2>2. CASE ~Contains(k)
    BY <1>2, <2>2, PushStep DEF Insert, Extend, Set!Insert
  <2> QED BY <2>1, <2>2
<1>3. ASSUME NEW k \in Key, Erase(k)
      PROVE  Set!Erase(k)
  BY <1>3, EraseStep DEF Set!Erase
<1> QED BY <1>1, <1>2, <1>3 DEF CallByCall

(* The representation invariant of UllmanSet holds in every reachable      *)
(* state: sizes and indices in range, key and pos inverse below n.         *)
THEOREM RepresentationInvariant == Spec => []IInv
<1>1. Init => IInv
  BY InitStep
<1>2. IInv /\ [Next]_vars => IInv'
  BY NextStep
<1> QED BY <1>1, <1>2, PTL DEF Spec

(* n never exceeds the capacity and no array is indexed out of range.      *)
THEOREM TypeCorrect == Spec => []TypeOK
<1>1. IInv => TypeOK
  BY DEF IInv
<1> QED BY <1>1, RepresentationInvariant, PTL

(* contains() and ith() agree, and size() counts what ith() enumerates.    *)
THEOREM ContainsCorrectness == Spec => []ContainsIsMembership
<1>1. IInv => ContainsIsMembership
  BY ContainsCorrect, MembersCardinality DEF ContainsIsMembership
<1> QED BY <1>1, RepresentationInvariant, PTL

(* UllmanSet implements the set its clients take it for, call by call.     *)
THEOREM Refinement == Spec => ImplementsSet
<1>1. Init => Set!Init
  BY InitStep DEF Set!Init
<1>2. IInv /\ [Next]_vars => [Set!Next]_Members
  BY NextStep
<1>3. IInv /\ [Next]_vars => [CallByCall]_vars
  BY CallStep
<1> QED BY <1>1, <1>2, <1>3, RepresentationInvariant, PTL DEF Spec, ImplementsSet, Set!Spec
=============================================================================
