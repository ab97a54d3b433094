------------------------ MODULE GlobalBuffers_proofs ------------------------
(* Proofs about Promoter and GlobalBuffers, for every set of networks,     *)
(* every family of classes of them and every design: the promoter's quota  *)
(* is never behind what is taken, and the placer's greedy choice finds a   *)
(* network for every buffer that the quota admitted.                       *)
EXTENDS GlobalBuffers, FiniteSetTheorems, WellFoundedInduction, TLAPS

-----------------------------------------------------------------------------
(* The promoter.                                                           *)

(* What the quota covers: the turns of the first loop up to now.           *)
Counted(X) == {n \in Takers(X) : pc = "fixed" => n < i}

(* QuotaCounts in all loops, with the nets that can have a buffer there.   *)
QuotaInv ==
  /\ pc # "failed" => \A X \in Class : Cardinality(Counted(X)) <= gc_used[X]
  /\ \A n \in Nets : gc[n] # 0 => pc # "fixed" /\ (IsGlobal(n) \/ pc \in {"promote", "promoted"})

(* A net in the queue is not on a network, and is there once.              *)
QueueInv ==
  /\ pc = "fixed" => promote_q = {}
  /\ \A e \in promote_q : ~IsGlobal(e[2]) /\ gc[e[2]] = 0 /\ (pc = "scan" => e[2] < i)
  /\ \A e, f \in promote_q : e[2] = f[2] => e = f

(* The inputs of net n that are on a network are reached by all of N.      *)
Reach(n, N) == \A k \in Kind : global[n][k] > 0 => N \subseteq Reached(k)

(* InputsReached for the nets whose turn is over, loop by loop.            *)
ReachInv ==
  /\ \A n \in Nets : IsFixed(n) /\ pc # "failed" /\ (pc = "fixed" => n < i)
                       => design[n].at \in Network /\ Reach(n, {design[n].at})
  /\ \A n \in Nets : ~IsFixed(n) /\ gc[n] # 0 => Reach(n, Classes[gc[n]])
  /\ \A n \in Nets : Driver(n) = "gb" /\ pc \in {"scan", "promote", "promoted"} /\ (pc = "scan" => n < i)
                       => gc[n] # 0

(* Where a net was promoted, the class has a network for everything that   *)
(* takes one; elsewhere all buffers are the design's own.                  *)
FitInv ==
  \A X \in Class : \/ Demand(X) <= Cardinality(Classes[X])
                   \/ \A n \in Buffers : Classes[gc[n]] \subseteq Classes[X] => Driver(n) = "gb"

PInv == TypeOK /\ QuotaInv /\ QueueInv /\ ReachInv /\ FitInv
-----------------------------------------------------------------------------
(* Least and greatest elements.                                            *)
LEMMA MinProperty ==
  ASSUME NEW S \in SUBSET Nat, S # {}
  PROVE  Min(S) \in S /\ \A y \in S : Min(S) <= y
<1> DEFINE Below(x) == {y \in S : y < x}
           T == {Below(x) : x \in S}
<1>1. T # {} /\ T \subseteq FiniteSubsetsOf(S)
  <2>1. ASSUME NEW x \in S PROVE IsFiniteSet(Below(x)) /\ Below(x) \in SUBSET S
    <3>1. Below(x) \in SUBSET Nat /\ Below(x) \in SUBSET S /\ x \in Nat
      OBVIOUS
    <3>2. \A y \in Below(x) : y <= x
      BY <3>1
    <3> QED BY <3>1, <3>2, FS_BoundedSetOfNaturals
  <2> QED BY <2>1 DEF FiniteSubsetsOf
<1>2. PICK A \in T : \A B \in T : ~(<<B, A>> \in StrictSubsetOrdering(S))
  <2> HIDE DEF T
  <2> QED BY <1>1, FS_StrictSubsetOrderingWellFounded, WFMin
<1>3. PICK x \in S : A = Below(x)
  OBVIOUS
<1>4. \A y \in S : x <= y
  <2> SUFFICES ASSUME NEW y \in S, ~(x <= y) PROVE FALSE
    OBVIOUS
  <2>1. x \in Nat /\ y \in Nat /\ y < x
    OBVIOUS
  <2>2. /\ y \in Below(x) /\ y \notin Below(y)
        /\ \A z \in Below(y) : z \in Nat /\ z \in S /\ z < y
    BY <2>1
  <2>3. Below(y) \subseteq Below(x)
    <3>1. \A z \in Below(y) : z \in S /\ z < x
      BY <2>1, <2>2
    <3> QED BY <3>1
  <2>4. <<Below(y), A>> \in StrictSubsetOrdering(S)
    BY <2>2, <2>3, <1>3 DEF StrictSubsetOrdering
  <2> QED BY <2>4, <1>2
<1> QED BY <1>4 DEF Min

LEMMA MaxProperty ==
  ASSUME NEW S \in SUBSET Nat, S # {}, IsFiniteSet(S)
  PROVE  Max(S) \in S /\ \A y \in S : Max(S) >= y
<1> DEFINE Above(x) == {y \in S : y > x}
           T == {Above(x) : x \in S}
<1>1. T # {} /\ T \subseteq FiniteSubsetsOf(S)
  <2>1. ASSUME NEW x \in S PROVE IsFiniteSet(Above(x)) /\ Above(x) \in SUBSET S
    <3>1. Above(x) \in SUBSET S
      OBVIOUS
    <3> QED BY <3>1, FS_Subset
  <2> QED BY <2>1 DEF FiniteSubsetsOf
<1>2. PICK A \in T : \A B \in T : ~(<<B, A>> \in StrictSubsetOrdering(S))
  <2> HIDE DEF T
  <2> QED BY <1>1, FS_StrictSubsetOrderingWellFounded, WFMin
<1>3. PICK x \in S : A = Above(x)
  OBVIOUS
<1>4. \A y \in S : x >= y
  <2> SUFFICES ASSUME NEW y \in S, ~(x >= y) PROVE FALSE
    OBVIOUS
  <2>1. x \in Nat /\ y \in Nat /\ y > x
    OBVIOUS
  <2>2. /\ y \in Above(x) /\ y \notin Above(y)
        /\ \A z \in Above(y) : z \in Nat /\ z \in S /\ z > y
    BY <2>1
  <2>3. Above(y) \subseteq Above(x)
    <3>1. \A z \in Above(y) : z \in S /\ z > x
      BY <2>1, <2>2
    <3> QED BY <3>1
  <2>4. <<Above(y), A>> \in StrictSubsetOrdering(S)
    BY <2>2, <2>3, <1>3 DEF StrictSubsetOrdering
  <2> QED BY <2>4, <1>2
<1> QED BY <1>4 DEF Max

-----------------------------------------------------------------------------
LEMMA ConstantFacts ==
  /\ Class = 1 .. Len(Classes) /\ Len(Classes) \in Nat \ {0}
  /\ Class \subseteq Nat /\ Class # {} /\ IsFiniteSet(Class)
  /\ \A X \in Class : /\ Classes[X] \subseteq Network /\ IsFiniteSet(Classes[X])
                      /\ Cardinality(Classes[X]) \in Nat
  /\ Lut \in Kind /\ Reached(Lut) = Network /\ 0 \notin Class
<1>1. Classes \in Seq(SUBSET Network) /\ Classes # <<>> /\ Len(Classes) \in Nat \ {0}
  BY ClassAssumption
<1>2. Class = 1 .. Len(Classes)
  BY <1>1 DEF Class
<1>3. IsFiniteSet(Class)
  BY <1>1, <1>2, FS_Interval
<1>4. 1 \in Class /\ Class \subseteq Nat /\ 0 \notin Class
  BY <1>1, <1>2
<1>5. ASSUME NEW X \in Class
      PROVE  /\ Classes[X] \subseteq Network /\ IsFiniteSet(Classes[X])
             /\ Cardinality(Classes[X]) \in Nat
  <2>1. Classes[X] \in SUBSET Network
    BY <1>1, <1>2
  <2> QED BY <2>1, ClassAssumption, FS_Subset, FS_CardinalityType
<1>6. Lut \in Kind /\ Reached(Lut) = Network
  BY <1>4 DEF Lut, Kind, Reached, gc_clk
<1> QED BY <1>1, <1>2, <1>3, <1>4, <1>5, <1>6

LEMMA DesignFacts ==
  ASSUME NEW d \in Designs
  PROVE  /\ DOMAIN d = 1 .. Len(d) /\ Len(d) \in Nat \ {0}
         /\ \A n \in DOMAIN d : d[n].inputs \in [Kind -> Nat]
<1>1. d \in Seq(IndexedNet) /\ d # <<>>
  BY DesignAssumption
<1>2. DOMAIN d = 1 .. Len(d) /\ Len(d) \in Nat \ {0} /\ \A n \in DOMAIN d : d[n] \in IndexedNet
  BY <1>1
<1> QED BY <1>2 DEF IndexedNet

(* The class most inputs have, for any count of inputs.                    *)
LEMMA MaxClassFacts ==
  ASSUME NEW inputs \in [Kind -> Nat]
  PROVE  Most(inputs) \in Nat /\ MaxClass(inputs) \in Class /\ ClkClass \in Class
<1> DEFINE S == {inputs[k] : k \in Class}
           f == [k \in Class |-> inputs[k]]
           M == {k \in Class : inputs[k] = Most(inputs)}
<1>1. S \in SUBSET Nat /\ S # {}
  BY ConstantFacts DEF Kind
<1>2. f \in Surjection(Class, S)
  BY DEF Surjection
<1>3. IsFiniteSet(S)
  <2> HIDE DEF S, f
  <2> QED BY <1>2, ConstantFacts, FS_Surjection
<1>4. Max(S) \in S
  <2> HIDE DEF S
  <2> QED BY <1>1, <1>3, MaxProperty
<1>5. Most(inputs) = Max(S)
  BY DEF Most
<1>6. M \in SUBSET Nat /\ M # {}
  <2>1. Most(inputs) \in S
    BY <1>4, <1>5
  <2> HIDE DEF Most
  <2> QED BY <2>1, ConstantFacts
<1>7. Min(M) \in M
  <2> HIDE DEF M
  <2> QED BY <1>6, MinProperty
<1>8. MaxClass(inputs) \in Class
  BY <1>7 DEF MaxClass
<1>9. ClkClass \in Class
  BY ConstantFacts, MaxProperty DEF ClkClass
<1> QED BY <1>1, <1>4, <1>5, <1>8, <1>9

-----------------------------------------------------------------------------
Counts == [Kind -> Nat]

LEMMA CountFacts ==
  ASSUME NEW a \in Counts, NEW b \in Counts, NEW S, NEW kind
  PROVE  Keep(a, S) \in Counts /\ Plus(a, b) \in Counts /\ One(kind) \in Counts
<1>1. \A k \in Kind : a[k] \in Nat /\ b[k] \in Nat
  BY DEF Counts
<1>2. Keep(a, S) \in Counts /\ One(kind) \in Counts
  BY <1>1 DEF Counts, Keep, One
<1>3. \A k \in Kind : a[k] + b[k] \in Nat
  BY <1>1
<1> QED BY <1>2, <1>3 DEF Counts, Plus

(* What is left on the net of n is reached by all of N, except that the    *)
(* new cell was put on it.                                                 *)
LEMMA MakeRoutableFacts ==
  ASSUME TypeOK, NEW n \in Nets, NEW N, MakeRoutable(n, N)
  PROVE  /\ local' \in [Nets -> Counts] /\ global' \in [Nets -> Counts]
         /\ \A m \in Nets : m # n => global'[m] = global[m]
         /\ \A k \in Kind : global'[n][k] > 0
                              => k = Lut \/ (N \subseteq Reached(k) /\ global[n][k] > 0)
<1> DEFINE good == Routable(N)
           moved == {k \in Kind \ good : global[n][k] > 0}
           l == Plus(local[n], Keep(global[n], moved))
           g == IF moved = {} THEN global[n] ELSE Plus(Keep(global[n], good), One(Lut))
<1>1. local \in [Nets -> Counts] /\ global \in [Nets -> Counts]
  BY DEF TypeOK, Counts
<1>2. local[n] \in Counts /\ global[n] \in Counts
  BY <1>1
<1>3. local' = [local EXCEPT ![n] = l] /\ global' = [global EXCEPT ![n] = g]
  BY Zenon DEF MakeRoutable
<1>4. l \in Counts
  <2> HIDE DEF moved
  <2> QED BY <1>2, CountFacts
<1>5. g \in Counts
  <2> HIDE DEF moved, good
  <2>1. Keep(global[n], good) \in Counts /\ One(Lut) \in Counts
    BY <1>2, CountFacts
  <2> QED BY <1>2, <2>1, CountFacts
<1>6. ASSUME NEW k \in Kind, g[k] > 0
      PROVE  k = Lut \/ (N \subseteq Reached(k) /\ global[n][k] > 0)
  <2>1. global[n][k] \in Nat
    BY <1>2 DEF Counts
  <2>2. CASE moved = {}
    BY <2>1, <2>2, <1>6 DEF Routable
  <2>3. CASE moved # {} /\ k # Lut
    <3>1. g[k] = Keep(global[n], good)[k] + One(Lut)[k]
      BY <2>3 DEF Plus
    <3>2. One(Lut)[k] = 0
      BY <2>3 DEF One
    <3>3. k \in good /\ global[n][k] > 0
      BY <3>1, <3>2, <2>1, <1>6 DEF Keep
    <3> QED BY <3>3 DEF Routable
  <2> QED BY <2>2, <2>3
<1> HIDE DEF l, g
<1> QED BY <1>1, <1>3, <1>4, <1>5, <1>6

LEMMA TurnFacts ==
  ASSUME TypeOK, NEW last, Turn(last), UNCHANGED design
  PROVE  /\ i \in Nat /\ i' \in Nets /\ Nets = 1 .. Len(design)
         /\ \/ i < Len(design) /\ i' = i + 1 /\ pc' = pc
            \/ i = Len(design) /\ i' = 1 /\ pc' = last
<1>1. Nets = 1 .. Len(design) /\ Len(design) \in Nat \ {0}
  BY DesignFacts DEF TypeOK, Nets
<1>2. i \in 1 .. Len(design)
  BY <1>1 DEF TypeOK
<1> QED BY <1>1, <1>2 DEF Turn

(* The entry of net i in the queue.                                        *)
LEMMA CandidateFacts ==
  ASSUME TypeOK
  PROVE  /\ Most(local[i]) \in Nat /\ MaxClass(local[i]) \in Class
         /\ MaxClass(global[i]) \in Class
<1>1. local[i] \in Counts /\ global[i] \in Counts
  BY DEF TypeOK, Counts
<1> QED BY <1>1, MaxClassFacts DEF Counts

LEMMA ChargeFacts ==
  ASSUME TypeOK, NEW X \in Class, Charge(X)
  PROVE  /\ gc_used' \in [Class -> Nat]
         /\ \A Y \in Class : gc_used'[Y] = gc_used[Y]
                               + IF Classes[X] \subseteq Classes[Y] THEN 1 ELSE 0
<1>1. \A Y \in Class : gc_used[Y] \in Nat
  BY DEF TypeOK
<1>2. \A Y \in Class : gc_used[Y] + (IF Classes[X] \subseteq Classes[Y] THEN 1 ELSE 0) \in Nat
  BY <1>1
<1> QED BY <1>2 DEF Charge

-----------------------------------------------------------------------------
(* The class that ScanGlobal gives the net of its turn.                    *)
ScanClass == IF Most(global[i]) > 0 THEN MaxClass(global[i]) ELSE ClkClass

LEMMA ScanClassType ==
  ASSUME TypeOK
  PROVE  ScanClass \in Class
<1>1. global[i] \in [Kind -> Nat]
  BY DEF TypeOK
<1> QED BY <1>1, MaxClassFacts DEF ScanClass

LEMMA ScanGlobalFacts ==
  ASSUME ScanGlobal
  PROVE  /\ pc = "scan" /\ IsGlobal(i) /\ Charge(ScanClass) /\ Turn("promote")
         /\ UNCHANGED <<design, promote_q>>
         /\ \/ Driver(i) = "pll" /\ UNCHANGED <<local, global, gc>>
            \/ /\ Driver(i) # "pll" /\ MakeRoutable(i, Classes[ScanClass])
               /\ gc' = [gc EXCEPT ![i] = ScanClass]
BY Zenon DEF ScanGlobal, ScanClass

LEMMA PromoteFacts ==
  ASSUME NEW e \in promote_q, Promote(e)
  PROVE  /\ pc = "promote" /\ HasQuota(e[3]) /\ Charge(e[3])
         /\ promote_q' = promote_q \ {e} /\ UNCHANGED <<design, pc, i>>
         /\ global' = [global EXCEPT ![e[2]] = Keep(local[e[2]], AllReach(e[3]))]
         /\ local' = [local EXCEPT ![e[2]] = Plus(Keep(@, Kind \ AllReach(e[3])), One(Other))]
         /\ gc' = [gc EXCEPT ![e[2]] = e[3]]
BY Zenon DEF Promote

LEMMA QueueType ==
  ASSUME TypeOK, NEW e \in promote_q
  PROVE  e[1] \in Nat /\ e[2] \in Nets /\ e[3] \in Class /\ e = <<e[1], e[2], e[3]>>
BY DEF TypeOK

LEMMA TypeStep ==
  ASSUME TypeOK, [Next]_vars
  PROVE  TypeOK'
<1> USE DEF Counts
<1>1. CASE CountFixed
  <2>1. UNCHANGED <<design, gc, promote_q>> /\ Turn("scan") /\ pc = "fixed"
    BY <1>1 DEF CountFixed
  <2>2. i' \in Nets /\ pc' \in {"fixed", "scan"}
    BY <2>1, TurnFacts
  <2>3. /\ local' \in [Nets -> [Kind -> Nat]] /\ global' \in [Nets -> [Kind -> Nat]]
        /\ gc_used' \in [Class -> Nat]
    <3>1. CASE IsFixed(i)
      <4>1. MakeRoutable(i, {design[i].at}) /\ i \in Nets
        BY <1>1, <3>1 DEF CountFixed, TypeOK
      <4>2. \A X \in Class : gc_used[X] + (IF design[i].at \in Classes[X] THEN 1 ELSE 0) \in Nat
        BY DEF TypeOK
      <4> QED BY <1>1, <3>1, <4>1, <4>2, MakeRoutableFacts DEF CountFixed
    <3>2. CASE ~IsFixed(i)
      BY <1>1, <3>2 DEF CountFixed, TypeOK
    <3> QED BY <3>1, <3>2
  <2> QED BY <2>1, <2>2, <2>3 DEF TypeOK, Nets
<1>2. CASE RefusePad
  BY <1>2 DEF RefusePad, TypeOK, Nets
<1>3. CASE ScanGlobal
  <2>1. /\ pc = "scan" /\ Turn("promote") /\ Charge(ScanClass) /\ ScanClass \in Class
        /\ UNCHANGED <<design, promote_q>>
    BY <1>3, ScanGlobalFacts, ScanClassType
  <2>2. i' \in Nets /\ pc' \in {"scan", "promote"}
    BY <2>1, TurnFacts
  <2>3. gc_used' \in [Class -> Nat]
    BY <2>1, ChargeFacts
  <2>4. /\ local' \in [Nets -> [Kind -> Nat]] /\ global' \in [Nets -> [Kind -> Nat]]
        /\ gc' \in [Nets -> Class \cup {0}]
    <3>1. CASE UNCHANGED <<local, global, gc>>
      BY <3>1 DEF TypeOK
    <3>2. CASE MakeRoutable(i, Classes[ScanClass]) /\ gc' = [gc EXCEPT ![i] = ScanClass]
      <4>1. i \in Nets /\ gc \in [Nets -> Class \cup {0}]
        BY DEF TypeOK
      <4>2. gc' \in [Nets -> Class \cup {0}]
        BY <4>1, <3>2, <2>1
      <4> QED BY <3>2, <4>1, <4>2, MakeRoutableFacts
    <3> QED BY <1>3, <3>1, <3>2, ScanGlobalFacts
  <2> QED BY <2>1, <2>2, <2>3, <2>4 DEF TypeOK, Nets
<1>4. CASE ScanFabric
  <2>1. pc = "scan" /\ Turn("promote") /\ UNCHANGED <<design, local, global, gc_used, gc>>
    BY <1>4 DEF ScanFabric
  <2>2. i' \in Nets /\ pc' \in {"scan", "promote"}
    BY <2>1, TurnFacts
  <2>3. <<Most(local[i]), i, MaxClass(local[i])>> \in Nat \X Nets \X Class
    <3>1. i \in Nets
      BY DEF TypeOK
    <3> QED BY <3>1, CandidateFacts
  <2>4. promote_q' \subseteq Nat \X Nets \X Class
    <3> HIDE DEF Counts
    <3>1. promote_q \subseteq Nat \X Nets \X Class
      BY DEF TypeOK
    <3>2. \/ promote_q' = promote_q
          \/ promote_q' = promote_q \cup {<<Most(local[i]), i, MaxClass(local[i])>>}
      BY Zenon, <1>4 DEF ScanFabric
    <3> QED BY <2>3, <3>1, <3>2
  <2> QED BY <2>1, <2>2, <2>4 DEF TypeOK, Nets
<1>5. ASSUME NEW e \in promote_q, Promote(e)
      PROVE  TypeOK'
  <2>1. e[2] \in Nets /\ e[3] \in Class
    BY QueueType
  <2>2. /\ UNCHANGED <<design, pc, i>> /\ promote_q' \subseteq promote_q /\ Charge(e[3])
        /\ gc' = [gc EXCEPT ![e[2]] = e[3]]
    BY <1>5, PromoteFacts
  <2>3. gc_used' \in [Class -> Nat]
    BY <2>1, <2>2, ChargeFacts
  <2>4. local[e[2]] \in Counts
    BY <2>1 DEF TypeOK
  <2>5. /\ Keep(local[e[2]], AllReach(e[3])) \in Counts
        /\ Plus(Keep(local[e[2]], Kind \ AllReach(e[3])), One(Other)) \in Counts
    <3> HIDE DEF Counts
    <3>1. /\ Keep(local[e[2]], AllReach(e[3])) \in Counts
          /\ Keep(local[e[2]], Kind \ AllReach(e[3])) \in Counts /\ One(Other) \in Counts
      BY <2>4, CountFacts
    <3> QED BY <3>1, CountFacts
  <2>6. local' \in [Nets -> Counts] /\ global' \in [Nets -> Counts]
    <3> HIDE DEF Counts
    <3>1. local \in [Nets -> Counts] /\ global \in [Nets -> Counts]
      BY DEF TypeOK, Counts
    <3>2. /\ global' = [global EXCEPT ![e[2]] = Keep(local[e[2]], AllReach(e[3]))]
          /\ local' = [local EXCEPT ![e[2]] = Plus(Keep(local[e[2]], Kind \ AllReach(e[3])), One(Other))]
      BY Zenon, <1>5, <3>1, PromoteFacts
    <3> QED BY <3>1, <3>2, <2>5
  <2>7. gc' \in [Nets -> Class \cup {0}]
    BY <2>1, <2>2 DEF TypeOK
  <2> QED BY <2>2, <2>3, <2>6, <2>7 DEF TypeOK, Nets
<1>6. ASSUME NEW e \in promote_q, Leave(e)
      PROVE  TypeOK'
  BY <1>6 DEF Leave, TypeOK, Nets
<1>7. CASE Finish
  BY <1>7 DEF Finish, TypeOK, Nets
<1>8. CASE UNCHANGED vars
  BY <1>8 DEF vars, TypeOK, Nets
<1> QED BY <1>1, <1>2, <1>3, <1>4, <1>5, <1>6, <1>7, <1>8 DEF Next

LEMMA InitType == Init => TypeOK
<1> SUFFICES ASSUME Init PROVE TypeOK
  OBVIOUS
<1>1. Nets = 1 .. Len(design) /\ Len(design) \in Nat \ {0}
  BY DesignFacts DEF Init, Nets
<1>2. i \in Nets
  BY <1>1 DEF Init
<1>3. \A n \in Nets : design[n].inputs \in [Kind -> Nat] /\ Nothing \in [Kind -> Nat]
  BY DesignFacts DEF Init, Nets, Nothing
<1>4. local \in [Nets -> [Kind -> Nat]] /\ global \in [Nets -> [Kind -> Nat]]
  BY <1>3 DEF Init
<1> QED BY <1>2, <1>4 DEF Init, TypeOK

-----------------------------------------------------------------------------
LEMMA OneMore ==
  ASSUME NEW S, NEW T, NEW x, IsFiniteSet(S), T \subseteq S \cup {x}
  PROVE  IsFiniteSet(T) /\ Cardinality(T) \in Nat /\ Cardinality(T) <= Cardinality(S) + 1
<1>1. /\ IsFiniteSet(S \cup {x}) /\ Cardinality(S) \in Nat
      /\ Cardinality(S \cup {x}) = IF x \in S THEN Cardinality(S) ELSE Cardinality(S) + 1
  BY FS_AddElement, FS_CardinalityType
<1>2. IsFiniteSet(T) /\ Cardinality(T) <= Cardinality(S \cup {x}) /\ Cardinality(T) \in Nat
  BY <1>1, FS_Subset, FS_CardinalityType
<1> QED BY <1>1, <1>2

LEMMA TakersFacts ==
  ASSUME TypeOK, NEW X
  PROVE  /\ Takers(X) \subseteq Nets /\ IsFiniteSet(Takers(X)) /\ Demand(X) \in Nat
         /\ Counted(X) \subseteq Takers(X) /\ IsFiniteSet(Counted(X))
         /\ Cardinality(Counted(X)) \in Nat
<1>1. IsFiniteSet(Nets)
  <2>1. Nets = 1 .. Len(design) /\ Len(design) \in Nat
    BY DesignFacts DEF TypeOK, Nets
  <2> QED BY <2>1, FS_Interval
<1>2. Takers(X) \subseteq Nets /\ Counted(X) \subseteq Takers(X)
  BY DEF Takers, Buffers, Counted
<1>3. IsFiniteSet(Takers(X)) /\ IsFiniteSet(Counted(X))
  BY <1>1, <1>2, FS_Subset
<1> QED BY <1>2, <1>3, FS_CardinalityType DEF Demand

(* How a step that gives net n the class X changes who takes a network.    *)
LEMMA TakersGrow ==
  ASSUME TypeOK, NEW n \in Nets, NEW X \in Class,
         gc' = [gc EXCEPT ![n] = X], UNCHANGED design, NEW Y \in Class
  PROVE  /\ Classes[X] \subseteq Classes[Y] => Takers(Y)' \subseteq Takers(Y) \cup {n}
         /\ ~(Classes[X] \subseteq Classes[Y]) \/ IsFixed(n) => Takers(Y)' \subseteq Takers(Y)
<1>1. X # 0 /\ gc'[n] = X /\ \A m \in Nets : m # n => gc'[m] = gc[m]
  BY ConstantFacts DEF TypeOK
<1>2. Nets' = Nets /\ \A m \in Nets : IsFixed(m)' = IsFixed(m)
  BY DEF Nets, IsFixed, Driver
<1> QED BY <1>1, <1>2 DEF Takers, Buffers

LEMMA TakersKept ==
  ASSUME UNCHANGED <<design, gc>>, NEW X
  PROVE  Takers(X)' = Takers(X) /\ Buffers' = Buffers /\ Demand(X)' = Demand(X)
BY DEF Takers, Buffers, Nets, IsFixed, Driver, Demand

(* After the first loop, all takers are counted.                           *)
LEMMA AllCounted ==
  ASSUME NEW X, pc # "fixed"
  PROVE  Counted(X) = Takers(X)
BY DEF Counted

(* A step that gives at most one net a network charges the quota for it.   *)
LEMMA TakersCharged ==
  ASSUME TypeOK, QuotaInv, pc \in {"scan", "promote"}, NEW n \in Nets, NEW X \in Class,
         Charge(X), UNCHANGED design, gc' = gc \/ gc' = [gc EXCEPT ![n] = X], NEW Y \in Class
  PROVE  Cardinality(Takers(Y)') <= gc_used'[Y]
<1>1. /\ Cardinality(Takers(Y)) <= gc_used[Y] /\ gc_used[Y] \in Nat
      /\ Cardinality(Takers(Y)) \in Nat /\ IsFiniteSet(Takers(Y))
  BY AllCounted, TakersFacts DEF QuotaInv, TypeOK, Demand
<1>2. /\ Classes[X] \subseteq Classes[Y] => Takers(Y)' \subseteq Takers(Y) \cup {n}
      /\ ~(Classes[X] \subseteq Classes[Y]) => Takers(Y)' \subseteq Takers(Y)
  BY TakersGrow, TakersKept
<1>3. CASE Classes[X] \subseteq Classes[Y]
  <2>1. gc_used'[Y] = gc_used[Y] + 1
    BY <1>3, ChargeFacts
  <2>2. Cardinality(Takers(Y)') <= Cardinality(Takers(Y)) + 1 /\ Cardinality(Takers(Y)') \in Nat
    BY <1>1, <1>2, <1>3, OneMore
  <2> QED BY <2>1, <2>2, <1>1
<1>4. CASE ~(Classes[X] \subseteq Classes[Y])
  <2>1. gc_used'[Y] = gc_used[Y]
    BY <1>4, <1>1, ChargeFacts
  <2>2. Cardinality(Takers(Y)') <= Cardinality(Takers(Y)) /\ Cardinality(Takers(Y)') \in Nat
    BY <1>1, <1>2, <1>4, FS_Subset, FS_CardinalityType
  <2> QED BY <2>1, <2>2, <1>1
<1> QED BY <1>3, <1>4

LEMMA QuotaStep ==
  ASSUME TypeOK, QuotaInv, QueueInv, [Next]_vars
  PROVE  QuotaInv'
<1>0. TypeOK'
  BY TypeStep
<1>1. CASE CountFixed
  <2>1. /\ UNCHANGED <<design, gc>> /\ Turn("scan") /\ pc = "fixed" /\ i \in Nets
        /\ Nets' = Nets /\ \A n \in Nets : gc[n] = 0
    BY <1>1 DEF CountFixed, Nets, QuotaInv, TypeOK
  <2>2. ASSUME NEW X \in Class
        PROVE  Cardinality(Counted(X)') <= gc_used'[X]
    <3>1. \A n \in Counted(X)' : n \in Counted(X) \/ n = i
      <4>1. \A n \in Nets : (pc' = "fixed" => n < i') => n < i \/ n = i
        BY <2>1, TurnFacts
      <4> QED BY <2>1, <4>1, TakersKept, TakersFacts DEF Counted
    <3>2. /\ Cardinality(Counted(X)) <= gc_used[X] /\ gc_used[X] \in Nat
          /\ Cardinality(Counted(X)) \in Nat /\ IsFiniteSet(Counted(X))
      BY <2>1, TakersFacts DEF QuotaInv, TypeOK
    <3>3. CASE IsFixed(i) /\ design[i].at \in Classes[X]
      <4>1. gc_used'[X] = gc_used[X] + 1
        BY <1>1, <3>3 DEF CountFixed
      <4>2. Cardinality(Counted(X)') <= Cardinality(Counted(X)) + 1
        BY <3>1, <3>2, OneMore
      <4>3. Cardinality(Counted(X)') \in Nat
        BY <3>1, <3>2, OneMore
      <4> QED BY <4>1, <4>2, <4>3, <3>2
    <3>4. CASE ~(IsFixed(i) /\ design[i].at \in Classes[X])
      <4>1. gc_used'[X] = gc_used[X]
        BY <1>1, <3>4, <3>2 DEF CountFixed
      <4>2. i \notin Takers(X)
        BY <3>4, <2>1 DEF Takers, Buffers
      <4>3. Counted(X)' \subseteq Counted(X)
        BY <3>1, <4>2, <2>1, TakersKept DEF Counted
      <4>4. Cardinality(Counted(X)') <= Cardinality(Counted(X)) /\ Cardinality(Counted(X)') \in Nat
        BY <3>2, <4>3, FS_Subset, FS_CardinalityType
      <4> QED BY <4>1, <4>4, <3>2
    <3> QED BY <3>3, <3>4
  <2> QED BY <2>1, <2>2 DEF QuotaInv
<1>2. CASE RefusePad
  BY <1>2 DEF RefusePad, QuotaInv, Nets
<1>3. CASE ScanGlobal
  <2>1. /\ pc = "scan" /\ pc' \in {"scan", "promote"} /\ UNCHANGED design /\ Charge(ScanClass)
        /\ ScanClass \in Class /\ IsGlobal(i) /\ i \in Nets
    BY <1>3, ScanGlobalFacts, ScanClassType DEF Turn, TypeOK
  <2>2. /\ Nets' = Nets /\ \A n \in Nets : IsGlobal(n)' = IsGlobal(n)
    BY <2>1 DEF Nets, IsGlobal, IsFixed, Driver
  <2>3. ASSUME NEW n \in Nets, gc'[n] # 0 PROVE IsGlobal(n)
    <3>1. gc'[n] = gc[n] \/ n = i
      BY <1>3, ScanGlobalFacts DEF TypeOK
    <3> QED BY <3>1, <2>1, <2>3 DEF QuotaInv
  <2>4. \A Y \in Class : Cardinality(Counted(Y)') <= gc_used'[Y]
    <3>1. gc' = gc \/ gc' = [gc EXCEPT ![i] = ScanClass]
      BY <1>3, ScanGlobalFacts
    <3>2. \A Y \in Class : Counted(Y)' = Takers(Y)'
      BY <2>1 DEF Counted
    <3> QED BY <2>1, <3>1, <3>2, TakersCharged
  <2> QED BY <2>1, <2>2, <2>3, <2>4 DEF QuotaInv
<1>4. CASE ScanFabric
  <2>1. /\ pc = "scan" /\ pc' \in {"scan", "promote"} /\ UNCHANGED <<design, gc_used, gc>>
    BY <1>4 DEF ScanFabric, Turn
  <2>2. Nets' = Nets /\ \A n \in Nets : IsGlobal(n)' = IsGlobal(n)
    BY <2>1 DEF Nets, IsGlobal, IsFixed, Driver
  <2>3. \A X \in Class : Counted(X)' = Counted(X)
    BY <2>1, TakersKept DEF Counted
  <2> QED BY <2>1, <2>2, <2>3 DEF QuotaInv
<1>5. ASSUME NEW e \in promote_q, Promote(e)
      PROVE  QuotaInv'
  <2>1. /\ pc = "promote" /\ pc' = "promote" /\ UNCHANGED design /\ Charge(e[3])
        /\ e[3] \in Class /\ e[2] \in Nets /\ gc' = [gc EXCEPT ![e[2]] = e[3]]
    BY <1>5, PromoteFacts, QueueType
  <2>2. \A Y \in Class : Cardinality(Counted(Y)') <= gc_used'[Y]
    <3>1. \A Y \in Class : Counted(Y)' = Takers(Y)'
      BY <2>1 DEF Counted
    <3> QED BY <2>1, <3>1, TakersCharged
  <2> QED BY <2>1, <2>2 DEF QuotaInv
<1>6. CASE (\E e \in promote_q : Leave(e)) \/ Finish \/ UNCHANGED vars
  <2>1. /\ UNCHANGED <<design, i, gc, gc_used>>
        /\ pc' = pc \/ (pc = "promote" /\ pc' = "promoted")
    BY <1>6 DEF Leave, Finish, vars
  <2>2. Nets' = Nets /\ \A n \in Nets : IsGlobal(n)' = IsGlobal(n)
    BY <2>1 DEF Nets, IsGlobal, IsFixed, Driver
  <2>3. \A X \in Class : Counted(X)' = Counted(X)
    BY <2>1, TakersKept DEF Counted
  <2> QED BY <2>1, <2>2, <2>3 DEF QuotaInv
<1> QED BY <1>1, <1>2, <1>3, <1>4, <1>5, <1>6 DEF Next

-----------------------------------------------------------------------------
LEMMA QueueStep ==
  ASSUME TypeOK, QuotaInv, QueueInv, [Next]_vars
  PROVE  QueueInv'
<1>0. \A e \in promote_q : e[2] \in Nets
  BY QueueType
<1>1. CASE CountFixed \/ RefusePad
  <2>1. /\ UNCHANGED <<design, gc, promote_q>> /\ pc = "fixed"
    BY <1>1 DEF CountFixed, RefusePad
  <2> QED BY <2>1 DEF QueueInv
<1>2. CASE ScanGlobal
  <2>1. /\ pc = "scan" /\ IsGlobal(i) /\ i \in Nets /\ Turn("promote")
        /\ UNCHANGED <<design, promote_q>>
        /\ gc' = gc \/ gc' = [gc EXCEPT ![i] = ScanClass]
    BY <1>2, ScanGlobalFacts DEF TypeOK
  <2>2. i \in Nat /\ pc' \in {"scan", "promote"} /\ (pc' = "scan" => i' = i + 1)
    BY <2>1, TurnFacts
  <2>3. ASSUME NEW e \in promote_q
        PROVE  ~IsGlobal(e[2])' /\ gc'[e[2]] = 0 /\ (pc' = "scan" => e[2] < i')
    <3>1. ~IsGlobal(e[2]) /\ gc[e[2]] = 0 /\ e[2] < i /\ e[2] \in Nets
      BY <2>1, <1>0 DEF QueueInv
    <3>2. e[2] # i
      BY <2>1, <3>1
    <3>3. gc'[e[2]] = gc[e[2]]
      BY <2>1, <3>1, <3>2 DEF TypeOK
    <3>4. pc' = "scan" => e[2] < i'
      <4>1. Nets = 1 .. Len(design) /\ (i' = i + 1 \/ pc' = "promote") /\ Len(design) \in Nat
        BY <2>1, TurnFacts, DesignFacts DEF TypeOK
      <4> QED BY <4>1, <3>1, <2>2
    <3> QED BY <2>1, <3>1, <3>3, <3>4 DEF IsGlobal, IsFixed, Driver
  <2> QED BY <2>1, <2>2, <2>3 DEF QueueInv
<1>3. CASE ScanFabric
  <2> DEFINE c == <<Most(local[i]), i, MaxClass(local[i])>>
  <2>1. /\ pc = "scan" /\ ~IsGlobal(i) /\ i \in Nets /\ Turn("promote")
        /\ UNCHANGED <<design, gc>> /\ promote_q' \subseteq promote_q \cup {c} /\ c[2] = i
    BY <1>3 DEF ScanFabric, TypeOK
  <2>2. i \in Nat /\ Nets = 1 .. Len(design) /\ (i' = i + 1 \/ pc' = "promote") /\ Len(design) \in Nat
        /\ pc' \in {"scan", "promote"}
    BY <2>1, TurnFacts, DesignFacts DEF TypeOK
  <2>3. gc[i] = 0
    BY <2>1 DEF QuotaInv
  <2> HIDE DEF c
  <2>4. ASSUME NEW e \in promote_q'
        PROVE  ~IsGlobal(e[2])' /\ gc'[e[2]] = 0 /\ (pc' = "scan" => e[2] < i')
    <3>1. \/ e = c
          \/ e \in promote_q /\ ~IsGlobal(e[2]) /\ gc[e[2]] = 0 /\ e[2] < i /\ e[2] \in Nets
      BY <2>1, <1>0 DEF QueueInv
    <3>2. ~IsGlobal(e[2]) /\ gc[e[2]] = 0
      BY <2>1, <2>3, <3>1
    <3>3. pc' = "scan" => e[2] < i'
      BY <2>1, <2>2, <3>1
    <3> QED BY <2>1, <3>2, <3>3 DEF IsGlobal, IsFixed, Driver
  <2>5. ASSUME NEW e \in promote_q', NEW f \in promote_q', e[2] = f[2]
        PROVE  e = f
    <3>1. \A g \in promote_q : g[2] # i
      BY <2>1, <2>2, <1>0 DEF QueueInv
    <3> QED BY <2>1, <2>5, <3>1 DEF QueueInv
  <2> QED BY <2>2, <2>4, <2>5 DEF QueueInv
<1>4. ASSUME NEW e \in promote_q, Promote(e)
      PROVE  QueueInv'
  <2>1. /\ pc = "promote" /\ UNCHANGED <<design, pc, i>> /\ promote_q' = promote_q \ {e}
        /\ gc' = [gc EXCEPT ![e[2]] = e[3]]
    BY <1>4, PromoteFacts
  <2>2. ASSUME NEW f \in promote_q'
        PROVE  gc'[f[2]] = 0
    <3>1. f \in promote_q /\ f[2] # e[2] /\ f[2] \in Nets /\ gc[f[2]] = 0
      BY <2>1, <1>0 DEF QueueInv
    <3> QED BY <2>1, <3>1 DEF TypeOK
  <2> QED BY <2>1, <2>2 DEF QueueInv, IsGlobal, IsFixed, Driver
<1>5. CASE (\E e \in promote_q : Leave(e)) \/ Finish \/ UNCHANGED vars
  <2>1. /\ UNCHANGED <<design, i, gc>> /\ promote_q' \subseteq promote_q
        /\ pc' = pc \/ (pc = "promote" /\ pc' = "promoted")
    BY <1>5 DEF Leave, Finish, vars
  <2> QED BY <2>1 DEF QueueInv, IsGlobal, IsFixed, Driver
<1> QED BY <1>1, <1>2, <1>3, <1>4, <1>5 DEF Next

-----------------------------------------------------------------------------
LEMMA ReachStep ==
  ASSUME TypeOK, QuotaInv, QueueInv, ReachInv, [Next]_vars
  PROVE  ReachInv'
<1>1. CASE CountFixed
  <2>1. /\ UNCHANGED <<design, gc>> /\ Turn("scan") /\ pc = "fixed" /\ ~Refused(i) /\ i \in Nets
        /\ Nets' = Nets /\ \A n \in Nets : gc[n] = 0
    BY <1>1 DEF CountFixed, Nets, QuotaInv, TypeOK
  <2>2. \A n \in Nets : IsFixed(n)' = IsFixed(n) /\ (Driver(n) = Driver(n)')
    BY <2>1 DEF IsFixed, Driver
  <2>3. ASSUME NEW n \in Nets, IsFixed(n), pc' = "fixed" => n < i'
        PROVE  design[n].at \in Network /\ Reach(n, {design[n].at})'
    <3>1. CASE n = i
      <4>1. MakeRoutable(i, {design[i].at}) /\ design[i].at \in Network
        BY <1>1, <2>1, <2>3, <3>1 DEF CountFixed, Refused
      <4>2. \A k \in Kind : global'[n][k] > 0 => k = Lut \/ {design[n].at} \subseteq Reached(k)
        BY <2>1, <4>1, <3>1, MakeRoutableFacts
      <4>3. \A k \in Kind : global'[n][k] > 0 => {design[n].at} \subseteq Reached(k)
        BY <4>1, <4>2, <3>1, ConstantFacts
      <4>4. design' = design
        BY <2>1
      <4>5. Reach(n, {design[n].at})'
        BY <4>3, <4>4 DEF Reach
      <4> QED BY <4>1, <4>5, <3>1
    <3>2. CASE n # i
      <4>1. n < i
        BY <2>1, <2>3, <3>2, TurnFacts
      <4>2. global'[n] = global[n]
        <5>1. CASE IsFixed(i)
          BY <1>1, <2>1, <3>2, <5>1, MakeRoutableFacts DEF CountFixed
        <5>2. CASE ~IsFixed(i)
          BY <1>1, <5>2 DEF CountFixed
        <5> QED BY <5>1, <5>2
      <4> QED BY <2>1, <2>3, <4>1, <4>2 DEF ReachInv, Reach
    <3> QED BY <3>1, <3>2
  <2>4. \A n \in Nets : Driver(n) = "gb" /\ pc' = "scan" => ~(n < i')
    <3>1. pc' = "scan" => i' = 1
      BY <2>1, TurnFacts
    <3>2. Nets \subseteq Nat \ {0}
      BY <2>1, TurnFacts
    <3> QED BY <3>1, <3>2
  <2>5. pc' \in {"fixed", "scan"}
    BY <2>1 DEF Turn
  <2> QED BY <2>1, <2>2, <2>3, <2>4, <2>5 DEF ReachInv
<1>2. CASE RefusePad
  <2>1. pc = "fixed" /\ pc' = "failed" /\ UNCHANGED <<design, gc, global>>
    BY <1>2 DEF RefusePad
  <2>2. Nets' = Nets /\ \A n \in Nets : gc[n] = 0
    BY <2>1 DEF Nets, QuotaInv
  <2> QED BY <2>1, <2>2 DEF ReachInv
<1>3. CASE ScanGlobal
  <2>1. /\ pc = "scan" /\ pc' \in {"scan", "promote"} /\ UNCHANGED design /\ i \in Nets
        /\ ScanClass \in Class /\ IsGlobal(i) /\ Nets' = Nets /\ Turn("promote")
    BY <1>3, ScanGlobalFacts, ScanClassType DEF Turn, TypeOK, Nets
  <2>2. \A n \in Nets : IsFixed(n)' = IsFixed(n) /\ (Driver(n) = Driver(n)')
    BY <2>1 DEF IsFixed, Driver
  <2>3. \A n \in Nets : n # i => global'[n] = global[n] /\ gc'[n] = gc[n]
    <3>1. CASE UNCHANGED <<global, gc>>
      BY <3>1
    <3>2. CASE MakeRoutable(i, Classes[ScanClass]) /\ gc' = [gc EXCEPT ![i] = ScanClass]
      <4>1. \A n \in Nets : n # i => global'[n] = global[n]
        BY <3>2, <2>1, MakeRoutableFacts
      <4> QED BY <3>2, <4>1, <2>1 DEF TypeOK
    <3> QED BY <1>3, <3>1, <3>2, ScanGlobalFacts
  <2>4. \/ Driver(i) = "pll" /\ global'[i] = global[i] /\ gc'[i] = gc[i]
        \/ /\ Driver(i) # "pll" /\ gc'[i] = ScanClass
           /\ \A k \in Kind : global'[i][k] > 0
                => k = Lut \/ (Classes[ScanClass] \subseteq Reached(k) /\ global[i][k] > 0)
    <3>1. CASE MakeRoutable(i, Classes[ScanClass])
      <4>1. \A k \in Kind : global'[i][k] > 0
                => k = Lut \/ (Classes[ScanClass] \subseteq Reached(k) /\ global[i][k] > 0)
        BY <3>1, <2>1, MakeRoutableFacts
      <4> QED BY <1>3, <4>1, <2>1, ScanGlobalFacts DEF TypeOK
    <3> QED BY <1>3, <3>1, ScanGlobalFacts
  <2>5. ASSUME NEW n \in Nets, IsFixed(n)
        PROVE  design[n].at \in Network /\ Reach(n, {design[n].at})'
    <3>1. design[n].at \in Network /\ Reach(n, {design[n].at})
      BY <2>1, <2>5 DEF ReachInv
    <3>2. \A k \in Kind : global'[n][k] > 0 => k = Lut \/ global[n][k] > 0
      BY <2>3, <2>4
    <3>3. \A k \in Kind : global'[n][k] > 0 => {design[n].at} \subseteq Reached(k)
      BY <3>1, <3>2, ConstantFacts DEF Reach
    <3>4. design' = design
      BY <2>1
    <3>5. Reach(n, {design[n].at})'
      BY <3>3, <3>4 DEF Reach
    <3> QED BY <3>1, <3>5
  <2>6. ASSUME NEW n \in Nets, ~IsFixed(n), gc'[n] # 0
        PROVE  Reach(n, Classes[gc[n]])'
    <3>1. CASE n = i
      <4>1. /\ gc'[n] = ScanClass
            /\ \A k \in Kind : global'[n][k] > 0 => k = Lut \/ Classes[ScanClass] \subseteq Reached(k)
        BY <2>4, <2>6, <3>1 DEF IsFixed
      <4> QED BY <4>1, <2>1, ConstantFacts DEF Reach
    <3>2. CASE n # i
      BY <2>3, <2>6, <3>2 DEF ReachInv, Reach
    <3> QED BY <3>1, <3>2
  <2>7. ASSUME NEW n \in Nets, Driver(n) = "gb", pc' = "scan" => n < i'
        PROVE  gc'[n] # 0
    <3>1. CASE n = i
      BY <2>1, <2>4, <2>7, <3>1, ConstantFacts
    <3>2. CASE n # i
      <4>1. n < i
        BY <2>1, <2>7, <3>2, TurnFacts
      <4> QED BY <2>1, <2>3, <2>7, <3>2, <4>1 DEF ReachInv
    <3> QED BY <3>1, <3>2
  <2> QED BY <2>1, <2>2, <2>5, <2>6, <2>7 DEF ReachInv
<1>4. CASE ScanFabric
  <2>1. /\ pc = "scan" /\ pc' \in {"scan", "promote"} /\ UNCHANGED <<design, global, gc>>
        /\ ~IsGlobal(i) /\ i \in Nets /\ Turn("promote") /\ Nets' = Nets
    BY <1>4 DEF ScanFabric, Turn, TypeOK, Nets
  <2>2. \A n \in Nets : IsFixed(n)' = IsFixed(n) /\ (Driver(n) = Driver(n)')
    BY <2>1 DEF IsFixed, Driver
  <2>3. ASSUME NEW n \in Nets, Driver(n) = "gb", pc' = "scan" => n < i'
        PROVE  gc'[n] # 0
    <3>1. n # i
      BY <2>1, <2>3 DEF IsGlobal
    <3>2. n < i
      BY <2>1, <2>3, <3>1, TurnFacts
    <3> QED BY <2>1, <2>3, <3>2 DEF ReachInv
  <2> QED BY <2>1, <2>2, <2>3 DEF ReachInv, Reach
<1>5. ASSUME NEW e \in promote_q, Promote(e)
      PROVE  ReachInv'
  <2>1. /\ pc = "promote" /\ UNCHANGED <<design, pc, i>> /\ Nets' = Nets
        /\ e[2] \in Nets /\ e[3] \in Class /\ ~IsGlobal(e[2]) /\ gc[e[2]] = 0
    BY <1>5, PromoteFacts, QueueType DEF Nets, QueueInv
  <2>2. /\ gc'[e[2]] = e[3] /\ global'[e[2]] = Keep(local[e[2]], AllReach(e[3]))
        /\ \A n \in Nets : n # e[2] => global'[n] = global[n] /\ gc'[n] = gc[n]
    BY <1>5, <2>1, PromoteFacts DEF TypeOK
  <2>3. \A n \in Nets : IsFixed(n)' = IsFixed(n) /\ (Driver(n) = Driver(n)')
    BY <2>1 DEF IsFixed, Driver
  <2>4. Reach(e[2], Classes[e[3]])'
    <3>1. \A k \in Kind : global'[e[2]][k] > 0 => k \in AllReach(e[3])
      BY <2>2 DEF Keep
    <3> QED BY <3>1 DEF Reach, AllReach, Routable
  <2>5. ASSUME NEW n \in Nets, IsFixed(n)
        PROVE  design[n].at \in Network /\ Reach(n, {design[n].at})'
    <3>1. n # e[2]
      BY <2>1, <2>5 DEF IsGlobal
    <3> QED BY <2>1, <2>2, <2>5, <3>1 DEF ReachInv, Reach
  <2>6. ASSUME NEW n \in Nets, ~IsFixed(n), gc'[n] # 0
        PROVE  Reach(n, Classes[gc[n]])'
    BY <2>2, <2>4, <2>6 DEF ReachInv, Reach
  <2>7. ASSUME NEW n \in Nets, Driver(n) = "gb"
        PROVE  gc'[n] # 0
    BY <2>1, <2>2, <2>7, ConstantFacts DEF ReachInv
  <2> QED BY <2>1, <2>3, <2>5, <2>6, <2>7 DEF ReachInv
<1>6. CASE (\E e \in promote_q : Leave(e)) \/ Finish \/ UNCHANGED vars
  <2>1. /\ UNCHANGED <<design, i, gc, global>>
        /\ pc' = pc \/ (pc = "promote" /\ pc' = "promoted")
    BY <1>6 DEF Leave, Finish, vars
  <2>2. Nets' = Nets /\ \A n \in Nets : IsFixed(n)' = IsFixed(n) /\ (Driver(n) = Driver(n)')
    BY <2>1 DEF Nets, IsFixed, Driver
  <2> QED BY <2>1, <2>2 DEF ReachInv, Reach
<1> QED BY <1>1, <1>2, <1>3, <1>4, <1>5, <1>6 DEF Next

-----------------------------------------------------------------------------
(* A promotion changes the demand only for the classes around its own, and *)
(* there it stays within the class.                                        *)
LEMMA PromotionFits ==
  ASSUME TypeOK, QuotaInv, QueueInv, NEW e \in promote_q, Promote(e), NEW Y \in Class
  PROVE  /\ Classes[e[3]] \subseteq Classes[Y] => Cardinality(Takers(Y)') <= Cardinality(Classes[Y])
         /\ ~(Classes[e[3]] \subseteq Classes[Y]) => Takers(Y)' = Takers(Y)
<1>1. /\ pc = "promote" /\ HasQuota(e[3]) /\ UNCHANGED design /\ gc' = [gc EXCEPT ![e[2]] = e[3]]
      /\ e[2] \in Nets /\ e[3] \in Class /\ gc[e[2]] = 0 /\ ~IsFixed(e[2])
  BY PromoteFacts, QueueType DEF QueueInv, IsGlobal
<1>2. /\ Cardinality(Takers(Y)) <= gc_used[Y] /\ gc_used[Y] \in Nat
      /\ Cardinality(Takers(Y)) \in Nat /\ IsFiniteSet(Takers(Y))
  BY <1>1, AllCounted, TakersFacts DEF QuotaInv, TypeOK, Demand
<1>3. ASSUME Classes[e[3]] \subseteq Classes[Y]
      PROVE  Cardinality(Takers(Y)') <= Cardinality(Classes[Y])
  <2>1. gc_used[Y] < Cardinality(Classes[Y]) /\ Cardinality(Classes[Y]) \in Nat
    BY <1>1, <1>3, ConstantFacts DEF HasQuota
  <2>2. Takers(Y)' \subseteq Takers(Y) \cup {e[2]}
    BY <1>1, <1>3, TakersGrow
  <2>3. Cardinality(Takers(Y)') <= Cardinality(Takers(Y)) + 1 /\ Cardinality(Takers(Y)') \in Nat
    BY <1>2, <2>2, OneMore
  <2> QED BY <1>2, <2>1, <2>3
<1>4. ASSUME ~(Classes[e[3]] \subseteq Classes[Y])
      PROVE  Takers(Y)' = Takers(Y)
  <2>1. \A m \in Nets : m # e[2] => gc'[m] = gc[m]
    BY <1>1 DEF TypeOK
  <2>2. Nets' = Nets /\ \A m \in Nets : IsFixed(m)' = IsFixed(m)
    BY <1>1 DEF Nets, IsFixed, Driver
  <2>3. e[2] \notin Takers(Y) /\ gc'[e[2]] = e[3]
    BY <1>1 DEF Takers, Buffers, TypeOK
  <2> QED BY <1>1, <1>4, <2>1, <2>2, <2>3 DEF Takers, Buffers
<1> QED BY <1>3, <1>4

LEMMA FitStep ==
  ASSUME TypeOK, QuotaInv, QueueInv, FitInv, [Next]_vars
  PROVE  FitInv'
<1>1. CASE CountFixed \/ RefusePad \/ ScanFabric \/ Finish \/ UNCHANGED vars
           \/ \E e \in promote_q : Leave(e)
  <2>1. UNCHANGED <<design, gc>>
    BY <1>1 DEF CountFixed, RefusePad, ScanFabric, Finish, Leave, vars
  <2>2. Buffers' = Buffers /\ \A X : Demand(X)' = Demand(X)
    BY <2>1, TakersKept
  <2> QED BY <2>1, <2>2 DEF FitInv, Driver
<1>2. CASE ScanGlobal
  <2>1. /\ pc = "scan" /\ UNCHANGED design /\ IsGlobal(i) /\ i \in Nets
        /\ gc' = gc \/ gc' = [gc EXCEPT ![i] = ScanClass]
    BY <1>2, ScanGlobalFacts DEF TypeOK
  <2>2. \A n \in Nets : gc'[n] # 0 => IsGlobal(n)
    BY <2>1 DEF QuotaInv, TypeOK
  <2>3. \A n \in Buffers' : Driver(n)' = "gb"
    BY <2>1, <2>2 DEF Buffers, IsGlobal, IsFixed, Driver, Nets
  <2> QED BY <2>3 DEF FitInv
<1>3. ASSUME NEW e \in promote_q, Promote(e)
      PROVE  FitInv'
  <2>1. UNCHANGED design /\ gc' = [gc EXCEPT ![e[2]] = e[3]] /\ e[2] \in Nets
    BY <1>3, PromoteFacts, QueueType
  <2>2. ASSUME NEW Y \in Class, ~(Classes[e[3]] \subseteq Classes[Y])
        PROVE  \/ Demand(Y)' <= Cardinality(Classes[Y])
               \/ \A n \in Buffers' : Classes[gc'[n]] \subseteq Classes[Y] => Driver(n)' = "gb"
    <3>1. Demand(Y)' = Demand(Y)
      BY <1>3, <2>2, PromotionFits DEF Demand
    <3>2. ASSUME NEW n \in Buffers', Classes[gc'[n]] \subseteq Classes[Y]
          PROVE  n \in Buffers /\ gc'[n] = gc[n] /\ Driver(n)' = Driver(n)
      BY <2>1, <2>2, <3>2 DEF Buffers, IsFixed, Driver, Nets, TypeOK
    <3> QED BY <3>1, <3>2 DEF FitInv
  <2>3. ASSUME NEW Y \in Class, Classes[e[3]] \subseteq Classes[Y]
        PROVE  Demand(Y)' <= Cardinality(Classes[Y])
    BY <1>3, <2>3, PromotionFits DEF Demand
  <2> QED BY <2>2, <2>3 DEF FitInv
<1> QED BY <1>1, <1>2, <1>3 DEF Next

-----------------------------------------------------------------------------
LEMMA InitPromoter == Init => PInv
<1> SUFFICES ASSUME Init PROVE PInv
  OBVIOUS
<1>1. TypeOK
  BY InitType
<1>2. pc = "fixed" /\ i = 1 /\ promote_q = {} /\ Nets \subseteq Nat \ {0}
      /\ \A n \in Nets : gc[n] = 0
  BY DesignFacts DEF Init, Nets
<1>3. \A X \in Class : Counted(X) = {} /\ gc_used[X] = 0
  <2>1. \A n \in Nets : ~(n < i)
    BY <1>2
  <2> QED BY <2>1, <1>2 DEF Counted, Takers, Buffers, Init
<1>4. QuotaInv
  BY <1>2, <1>3, FS_EmptySet DEF QuotaInv
<1>5. QueueInv /\ ReachInv /\ FitInv
  BY <1>2 DEF QueueInv, ReachInv, FitInv, Buffers
<1> QED BY <1>1, <1>4, <1>5 DEF PInv

LEMMA NextPromoter == PInv /\ [Next]_vars => PInv'
<1> SUFFICES ASSUME PInv, [Next]_vars PROVE PInv'
  OBVIOUS
<1>1. TypeOK /\ QuotaInv /\ QueueInv /\ ReachInv /\ FitInv
  BY DEF PInv
<1>2. TypeOK' /\ QuotaInv' /\ QueueInv' /\ ReachInv' /\ FitInv'
  BY <1>1, TypeStep, QuotaStep, QueueStep, ReachStep, FitStep
<1> QED BY <1>2 DEF PInv

LEMMA PromoterInvariant == Spec => []PInv
BY InitPromoter, NextPromoter, PTL DEF Spec

(* Every variable keeps its type: entries of the queue name nets and       *)
(* classes, counts never become negative.                                  *)
THEOREM PromoterTypes == Spec => []TypeOK
<1>1. PInv => TypeOK
  BY DEF PInv
<1> QED BY <1>1, PromoterInvariant, PTL

(* When promotion starts, and ever after, the quota covers every network   *)
(* that is taken or will be, for every class that contains it.             *)
THEOREM QuotaNeverBehind == Spec => []QuotaCounts
<1>1. PInv => QuotaCounts
  BY AllCounted DEF PInv, QuotaInv, QuotaCounts, Demand
<1> QED BY <1>1, PromoterInvariant, PTL

(* No promotion takes more networks of any class than the class has.       *)
THEOREM PromotionsWithinQuota == Spec => NoOverbooking
<1> DEFINE Within == \A X \in Class : pc = "promote" /\ Demand(X)' # Demand(X)
                                        => Demand(X)' <= Cardinality(Classes[X])
<1>1. PInv /\ [Next]_vars => [Within]_vars
  <2> SUFFICES ASSUME PInv, Next, NEW X \in Class, pc = "promote", Demand(X)' # Demand(X)
               PROVE  Demand(X)' <= Cardinality(Classes[X])
    OBVIOUS
  <2>1. CASE Finish \/ \E e \in promote_q : Leave(e)
    BY <2>1, TakersKept DEF Finish, Leave
  <2>2. ASSUME NEW e \in promote_q, Promote(e)
        PROVE  Demand(X)' <= Cardinality(Classes[X])
    BY <2>2, PromotionFits DEF PInv, Demand
  <2> QED BY <2>1, <2>2 DEF Next, CountFixed, RefusePad, ScanGlobal, ScanFabric
<1>2. Spec => [][Within]_vars
  BY <1>1, PromoterInvariant, PTL DEF Spec
<1> QED BY <1>2 DEF NoOverbooking

(* Whatever network the placer picks for a net, it reaches all inputs that *)
(* were left on the net.                                                   *)
THEOREM PromotedInputsReached == Spec => []InputsReached
<1>1. PInv => InputsReached
  <2> SUFFICES ASSUME PInv, pc \in {"promote", "promoted"}, NEW n \in Nets,
                      IsGlobal(n) \/ gc[n] # 0, NEW k \in Kind, global[n][k] > 0
               PROVE  Carriers(n) \subseteq Reached(k)
    BY DEF InputsReached
  <2>1. CASE IsFixed(n)
    BY <2>1 DEF PInv, ReachInv, Reach, Carriers
  <2>2. CASE ~IsFixed(n)
    BY <2>2 DEF PInv, ReachInv, Reach, Carriers, IsGlobal
  <2> QED BY <2>1, <2>2
<1> QED BY <1>1, PromoterInvariant, PTL

-----------------------------------------------------------------------------
(* The placement of the buffers.                                           *)

(* The placed buffers whose class lies within X. *)
Within(X) == {m \in placed : Classes[gc[m]] \subseteq Classes[X]}

(* Buffers are placed class by class; as long as no wider class than X was *)
(* reached, only buffers within X have taken networks of X.                *)
BuffersInv ==
  /\ pc # "promoted" => placed = {} /\ used = {}
  /\ placed \subseteq Buffers /\ used \subseteq Network
  /\ \A m \in placed, n \in Waiting : gc[m] <= gc[n]
  /\ \A X \in Class : (\A m \in placed : gc[m] <= X)
                        => Cardinality(used \cap Classes[X]) <= Cardinality(Within(X))

-----------------------------------------------------------------------------
(* GlobalBuffers only adds to Promoter.                                    *)
LEMMA BuffersPromote == BuffersSpec => Spec
<1>1. BuffersInit => Init
  BY DEF BuffersInit
<1>2. [BuffersNext]_allVars => [Next]_vars
  BY DEF BuffersNext, allVars, vars, PlaceBuffer, Stopped
<1> QED BY <1>1, <1>2, PTL DEF BuffersSpec, Spec

LEMMA BufferFacts ==
  ASSUME PInv
  PROVE  /\ Buffers \subseteq Nets /\ IsFiniteSet(Buffers)
         /\ \A n \in Buffers : gc[n] \in Class /\ gc[n] \in Nat
<1>1. TypeOK
  BY DEF PInv
<1>2. Nets = 1 .. Len(design) /\ Len(design) \in Nat
  BY <1>1, DesignFacts DEF TypeOK, Nets
<1>3. IsFiniteSet(Nets)
  BY <1>2, FS_Interval
<1>4. Buffers \subseteq Nets
  BY DEF Buffers
<1>5. IsFiniteSet(Buffers)
  BY <1>3, <1>4, FS_Subset
<1>6. \A n \in Buffers : gc[n] \in Class
  BY <1>1 DEF Buffers, TypeOK
<1> QED BY <1>4, <1>5, <1>6, ConstantFacts

LEMMA FiniteFacts ==
  ASSUME PInv, BuffersInv, NEW X \in Class
  PROVE  /\ IsFiniteSet(used \cap Classes[X]) /\ Cardinality(used \cap Classes[X]) \in Nat
         /\ IsFiniteSet(Within(X)) /\ Cardinality(Within(X)) \in Nat
<1>1. IsFiniteSet(used \cap Classes[X])
  BY ConstantFacts, FS_Subset
<1>2. Within(X) \subseteq Buffers
  BY DEF Within, BuffersInv
<1>3. IsFiniteSet(Within(X))
  BY <1>2, BufferFacts, FS_Subset
<1> QED BY <1>1, <1>3, FS_CardinalityType

LEMMA BuffersStep ==
  ASSUME PInv, BuffersInv, [BuffersNext]_allVars
  PROVE  BuffersInv'
<1>1. CASE Next /\ UNCHANGED <<placed, used>>
  <2>1. pc # "promoted"
    BY <1>1 DEF Next, CountFixed, RefusePad, ScanGlobal, ScanFabric, Promote, Leave, Finish
  <2>2. placed' = {} /\ used' = {}
    BY <2>1, <1>1 DEF BuffersInv
  <2>3. \A X \in Class : Within(X)' = {} /\ used' \cap Classes[X] = {}
    BY <2>2 DEF Within
  <2>4. Cardinality({}) <= Cardinality({})
    BY FS_EmptySet
  <2> QED BY <2>2, <2>3, <2>4 DEF BuffersInv
<1>2. CASE UNCHANGED allVars
  BY <1>2 DEF allVars, vars, BuffersInv, Waiting, Within, Buffers, Nets, IsFixed, Driver
<1>3. CASE Stopped
  BY <1>2, <1>3 DEF Stopped
<1>4. ASSUME NEW n \in Waiting, PlaceBuffer(n)
      PROVE  BuffersInv'
  <2>1. /\ pc = "promoted" /\ NextBuffer(n) /\ UNCHANGED vars /\ placed' = placed \cup {n}
        /\ n \in Buffers /\ n \notin placed
    BY <1>4 DEF PlaceBuffer, Waiting
  <2>2. PICK g \in Classes[gc[n]] \ Taken : used' = used \cup {g}
    BY <1>4 DEF PlaceBuffer
  <2>3. Buffers' = Buffers /\ pc' = pc /\ gc' = gc
    BY <2>1 DEF vars, Buffers, Nets, IsFixed, Driver
  <2>4. placed' \subseteq Buffers' /\ used' \subseteq Network
    BY <2>1, <2>2, <2>3, BufferFacts, ConstantFacts DEF BuffersInv
  <2>5. ASSUME NEW m \in placed', NEW w \in Waiting'
        PROVE  gc'[m] <= gc'[w]
    <3>1. w \in Waiting /\ w \in Buffers
      BY <2>1, <2>3 DEF Waiting
    <3>2. CASE m \in placed
      BY <2>3, <3>1, <3>2 DEF BuffersInv
    <3>3. CASE m = n
      <4>1. gc[n] < gc[w] \/ gc[n] = gc[w]
        BY <2>1, <3>1 DEF NextBuffer
      <4> QED BY <2>1, <2>3, <3>1, <3>3, <4>1, BufferFacts
    <3> QED BY <2>1, <3>2, <3>3
  <2>6. ASSUME NEW X \in Class, \A m \in placed' : gc'[m] <= X
        PROVE  Cardinality(used' \cap Classes[X]) <= Cardinality(Within(X)')
    <3>1. Cardinality(used \cap Classes[X]) <= Cardinality(Within(X)) /\ gc[n] <= X
      BY <2>1, <2>3, <2>6 DEF BuffersInv
    <3>2. CASE g \in Classes[X]
      <4>1. Classes[gc[n]] \subseteq Classes[X]
        <5>1. gc[n] \in Class /\ (gc[n] < X \/ gc[n] = X)
          BY <2>1, <3>1, BufferFacts, ConstantFacts
        <5> QED BY <5>1, <2>2, <3>2, MaskAssumption
      <4>2. Within(X)' = Within(X) \cup {n} /\ n \notin Within(X)
        BY <2>1, <2>3, <4>1 DEF Within
      <4>3. Cardinality(Within(X)') = Cardinality(Within(X)) + 1
        BY <4>2, FiniteFacts, FS_AddElement
      <4>4. used' \cap Classes[X] \subseteq (used \cap Classes[X]) \cup {g}
        BY <2>2
      <4>5. /\ Cardinality(used' \cap Classes[X]) <= Cardinality(used \cap Classes[X]) + 1
            /\ Cardinality(used' \cap Classes[X]) \in Nat
        BY <4>4, FiniteFacts, OneMore
      <4> QED BY <3>1, <4>3, <4>5, FiniteFacts
    <3>3. CASE g \notin Classes[X]
      <4>1. used' \cap Classes[X] = used \cap Classes[X]
        BY <2>2, <3>3
      <4>2. Within(X) \subseteq Within(X)' /\ Within(X)' \subseteq Within(X) \cup {n}
        BY <2>1, <2>3 DEF Within
      <4>3. IsFiniteSet(Within(X)') /\ Cardinality(Within(X)') \in Nat
        BY <4>2, FiniteFacts, OneMore
      <4>4. Cardinality(Within(X)) <= Cardinality(Within(X)')
        BY <4>2, <4>3, FS_Subset
      <4> QED BY <3>1, <4>1, <4>3, <4>4, FiniteFacts
    <3> QED BY <3>2, <3>3
  <2> QED BY <2>1, <2>3, <2>4, <2>5, <2>6 DEF BuffersInv
<1> QED BY <1>1, <1>2, <1>3, <1>4 DEF BuffersNext

LEMMA BuffersInvariant == BuffersSpec => [](PInv /\ BuffersInv)
<1>1. BuffersInit => BuffersInv
  <2> SUFFICES ASSUME BuffersInit PROVE BuffersInv
    OBVIOUS
  <2>1. placed = {} /\ used = {} /\ pc = "fixed"
    BY DEF BuffersInit, Init
  <2>2. \A X \in Class : Within(X) = {} /\ used \cap Classes[X] = {}
    BY <2>1 DEF Within
  <2>3. Cardinality({}) <= Cardinality({})
    BY FS_EmptySet
  <2> QED BY <2>1, <2>2, <2>3 DEF BuffersInv
<1>2. PInv /\ BuffersInv /\ [BuffersNext]_allVars => BuffersInv'
  BY BuffersStep
<1> QED BY <1>1, <1>2, BuffersPromote, PromoterInvariant, PTL DEF BuffersSpec

-----------------------------------------------------------------------------
Fixed(X) == {n \in Nets : IsFixed(n) /\ design[n].at \in Classes[X]}
Given == {design[n].at : n \in {m \in Nets : IsFixed(m)}}
           \cup {Blocked[design[n].at] : n \in {m \in Nets : Driver(m) = "pad"}}

LEMMA SetFacts ==
  ASSUME PInv, NEW X \in Class
  PROVE  /\ Lost(X) = Classes[X] \cap Given /\ Taken = Given \cup used
         /\ IsFiniteSet(Lost(X)) /\ Cardinality(Lost(X)) \in Nat
         /\ IsFiniteSet(Wanted(X)) /\ Cardinality(Wanted(X)) \in Nat
         /\ Takers(X) = Fixed(X) \cup Wanted(X) /\ Fixed(X) \cap Wanted(X) = {}
         /\ IsFiniteSet(Fixed(X)) /\ Cardinality(Fixed(X)) \in Nat
<1>1. Lost(X) = Classes[X] \cap Given /\ Taken = Given \cup used
  BY DEF Lost, Given, Taken
<1>2. IsFiniteSet(Lost(X))
  BY <1>1, ConstantFacts, FS_Subset
<1>3. IsFiniteSet(Wanted(X))
  BY BufferFacts, FS_Subset DEF Wanted
<1>4. Takers(X) = Fixed(X) \cup Wanted(X) /\ Fixed(X) \cap Wanted(X) = {}
  BY DEF Takers, Fixed, Wanted, Buffers
<1>5. IsFiniteSet(Fixed(X))
  BY <1>4, TakersFacts, FS_Subset DEF PInv
<1> QED BY <1>1, <1>2, <1>3, <1>4, <1>5, FS_CardinalityType

(* The next buffer finds a network if its class has one for all who want   *)
(* it: fewer than the buffers within the class have been placed, and only  *)
(* they took networks of it.                                               *)
LEMMA NextFits ==
  ASSUME PInv, BuffersInv, NEW n \in Waiting, NextBuffer(n),
         Cardinality(Wanted(gc[n])) + Cardinality(Lost(gc[n])) <= Cardinality(Classes[gc[n]])
  PROVE  ~(Classes[gc[n]] \subseteq Taken)
<1> DEFINE X == gc[n]
           U == used \cap Classes[X]
<1>1. n \in Buffers /\ n \notin placed /\ X \in Class
  BY BufferFacts DEF Waiting
<1>2. Cardinality(U) <= Cardinality(Within(X))
  BY <1>1 DEF BuffersInv
<1>3. Within(X) \subseteq Wanted(X) \ {n} /\ n \in Wanted(X)
  BY <1>1 DEF Within, Wanted, BuffersInv
<1>4. /\ IsFiniteSet(Wanted(X)) /\ Cardinality(Wanted(X)) \in Nat
      /\ IsFiniteSet(Lost(X)) /\ Cardinality(Lost(X)) \in Nat
      /\ Lost(X) = Classes[X] \cap Given /\ Taken = Given \cup used
  BY <1>1, SetFacts
<1>5. IsFiniteSet(Wanted(X) \ {n}) /\ Cardinality(Wanted(X) \ {n}) = Cardinality(Wanted(X)) - 1
  BY <1>3, <1>4, FS_RemoveElement
<1>6. Cardinality(Within(X)) <= Cardinality(Wanted(X)) - 1
  BY <1>3, <1>5, FS_Subset
<1>7. /\ IsFiniteSet(U) /\ Cardinality(U) \in Nat /\ Cardinality(Within(X)) \in Nat
  BY <1>1, FiniteFacts
<1>8. SUFFICES ASSUME Classes[X] \subseteq Taken PROVE FALSE
  OBVIOUS
<1>9. Classes[X] = Lost(X) \cup U
  BY <1>4, <1>8
<1>10. Cardinality(Classes[X]) <= Cardinality(Lost(X)) + Cardinality(U)
  <2>1. Cardinality(Classes[X]) = Cardinality(Lost(X)) + Cardinality(U) - Cardinality(Lost(X) \cap U)
    BY <1>4, <1>7, <1>9, FS_Union
  <2>2. Cardinality(Lost(X) \cap U) \in Nat
    BY <1>4, FS_Intersection, FS_CardinalityType
  <2> QED BY <2>1, <2>2, <1>4, <1>7
<1>11. Cardinality(Classes[X]) \in Nat
  BY <1>1, ConstantFacts
<1> HIDE DEF U
<1>12. Cardinality(Wanted(X)) + Cardinality(Lost(X)) <= Cardinality(Classes[X])
  OBVIOUS
<1> HIDE DEF X
<1> QED BY <1>2, <1>4, <1>6, <1>7, <1>10, <1>11, <1>12

(* Where every class has as many networks as it needs, every buffer finds  *)
(* one, in whatever order the networks are tried.                          *)
THEOREM BuffersAlwaysFit == BuffersSpec => []BuffersFit
<1>1. PInv /\ BuffersInv => BuffersFit
  <2> SUFFICES ASSUME PInv, BuffersInv, NEW n \in Waiting, NextBuffer(n),
                      \A X \in Class : Cardinality(Wanted(X)) + Cardinality(Lost(X)) <= Cardinality(Classes[X])
               PROVE  ~(Classes[gc[n]] \subseteq Taken)
    BY DEF BuffersFit
  <2>1. gc[n] \in Class
    BY BufferFacts DEF Waiting
  <2> QED BY <2>1, NextFits
<1> QED BY <1>1, BuffersInvariant, PTL

(* What promotion adds to a design whose own buffers fit still fits: the   *)
(* placer never fails for a promoted net.                                  *)
THEOREM PromotedAlwaysFit == BuffersSpec => []PromotedFit
<1>1. PInv /\ BuffersInv => PromotedFit
  <2> DEFINE own == {n \in Buffers : Driver(n) = "gb"}
             fit == \A X \in Class : Cardinality({n \in own : Classes[gc[n]] \subseteq Classes[X]})
                                       + Cardinality(Lost(X)) <= Cardinality(Classes[X])
  <2> SUFFICES ASSUME PInv, BuffersInv, pc = "promoted", fit, \A n \in Nets : Driver(n) # "pad",
                      NEW n \in Waiting, NextBuffer(n)
               PROVE  ~(Classes[gc[n]] \subseteq Taken)
    BY Zenon DEF PromotedFit
  <2> DEFINE X == gc[n]
  <2>1. X \in Class
    BY BufferFacts DEF Waiting
  <2>2. CASE Demand(X) <= Cardinality(Classes[X])
    <3>1. Cardinality(Lost(X)) <= Cardinality(Fixed(X))
      <4> DEFINE f == [m \in Fixed(X) |-> design[m].at]
      <4>1. Lost(X) = {design[m].at : m \in Fixed(X)}
        BY DEF Lost, Fixed
      <4>2. f \in Surjection(Fixed(X), Lost(X))
        BY <4>1 DEF Surjection
      <4> HIDE DEF f
      <4> QED BY <4>2, <2>1, SetFacts, FS_Surjection
    <3>2. Demand(X) = Cardinality(Fixed(X)) + Cardinality(Wanted(X))
      <4>1. /\ Cardinality(Fixed(X) \cup Wanted(X))
                 = Cardinality(Fixed(X)) + Cardinality(Wanted(X)) - Cardinality(Fixed(X) \cap Wanted(X))
            /\ Fixed(X) \cap Wanted(X) = {} /\ Demand(X) = Cardinality(Fixed(X) \cup Wanted(X))
            /\ Cardinality(Fixed(X)) \in Nat /\ Cardinality(Wanted(X)) \in Nat
        BY <2>1, SetFacts, FS_Union DEF Demand
      <4>2. Cardinality(Fixed(X) \cap Wanted(X)) = 0
        BY <4>1, FS_EmptySet
      <4> HIDE DEF X
      <4> QED BY <4>1, <4>2
    <3>3. /\ Cardinality(Fixed(X)) \in Nat /\ Cardinality(Wanted(X)) \in Nat
          /\ Cardinality(Lost(X)) \in Nat /\ Cardinality(Classes[X]) \in Nat
      BY <2>1, SetFacts, ConstantFacts
    <3>4. Cardinality(Wanted(X)) + Cardinality(Lost(X)) <= Cardinality(Classes[X])
      <4> HIDE DEF X
      <4> QED BY <2>2, <3>1, <3>2, <3>3
    <3> QED BY <3>4, NextFits
  <2>3. CASE \A m \in Buffers : Classes[gc[m]] \subseteq Classes[X] => Driver(m) = "gb"
    <3>1. Wanted(X) = {m \in own : Classes[gc[m]] \subseteq Classes[X]}
      BY <2>3 DEF Wanted
    <3>2. Cardinality(Wanted(X)) + Cardinality(Lost(X)) <= Cardinality(Classes[X])
      <4> HIDE DEF own
      <4> QED BY <2>1, <3>1
    <3> QED BY <3>2, NextFits
  <2> QED BY <2>1, <2>2, <2>3 DEF PInv, FitInv
<1> QED BY <1>1, BuffersInvariant, PTL
=============================================================================
