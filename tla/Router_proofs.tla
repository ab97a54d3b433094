--------------------------- MODULE Router_proofs ----------------------------
(* Proofs about Router, for every chip, every set of well-formed routing   *)
(* problems and every number of passes: the accounting of the demand, and  *)
(* the searches and the routes they leave (the back pointers lead from     *)
(* every wire that a search has reached to what was routed before, without *)
(* a loop).  Then what the passes keep from turn to turn, why no search is *)
(* in vain, and the steps of the abstract routing.                         *)
EXTENDS Router, FiniteSetTheorems, SequenceTheorems, TLAPS

(* The problem never changes, so it stays one of Problems; a pass that is  *)
(* running is one of the passes allowed.                                   *)
TInv ==
  /\ TypeOK
  /\ problem \in Problems
  /\ pc \in Running => passes <= max_passes

LEMMA ProblemFacts ==
  ASSUME TInv
  PROVE  /\ problem.outs \in [Cnet -> SUBSET Cnet]
         /\ problem.source \in [Net -> Cnet]
         /\ problem.targets \in [Net -> SUBSET Cnet]
BY DEF TInv, TypeOK, Problem

(* Costs are integers. *)
LEMMA StepCostType ==
  ASSUME TInv, NEW i \in Cnet
  PROVE  StepCost(i) \in Int
<1>1. demand[i] \in Int /\ historical_demand[i] \in Int
  BY DEF TInv, TypeOK
<1>2. 1 + historical_demand[i] \in Int /\ 1 + 3 * demand[i] \in Int
  BY <1>1
<1>3. \A x, y \in Int : x * y \in Int
  OBVIOUS
<1>4. (1 + historical_demand[i]) * (1 + 3 * demand[i]) \in Int
  BY <1>2, <1>3
<1> QED BY <1>4 DEF StepCost, CongestedCost

(* visit() keeps the types of what it changes. *)
LEMMA VisitType ==
  ASSUME TInv, NEW c \in Cnet,
         NEW vis \in SUBSET Cnet, NEW fr \in SUBSET Cnet,
         NEW q \in SUBSET (Cnet \X Int),
         NEW bp \in [Cnet -> Cnet \cup {-1}], NEW co \in [Cnet -> Int],
         Visit(c, vis, fr, q, bp, co)
  PROVE  /\ visited' \in SUBSET Cnet
         /\ frontier' \in SUBSET Cnet
         /\ frontierq' \in SUBSET (Cnet \X Int)
         /\ backptr' \in [Cnet -> Cnet \cup {-1}]
         /\ cost' \in [Cnet -> Int]
<1> DEFINE new == outs[c] \ (vis \cup {c})
           NewCost(i) == co[c] + StepCost(i)
           better == {i \in new : i \in fr => NewCost(i) < co[i]}
<1>1. outs[c] \in SUBSET Cnet
  BY ProblemFacts DEF outs
<1>2. better \in SUBSET Cnet
  BY <1>1
<1>3. \A i \in Cnet : NewCost(i) \in Int
  BY StepCostType
<1>4. /\ visited' = vis \cup {c}
      /\ frontier' = fr \cup better
      /\ frontierq' = q \cup {<<i, NewCost(i)>> : i \in better}
      /\ backptr' = [i \in Cnet |-> IF i \in better THEN c ELSE bp[i]]
      /\ cost' = [i \in Cnet |-> IF i \in better THEN NewCost(i) ELSE co[i]]
  BY Zenon DEF Visit
<1> HIDE DEF better, NewCost
<1>5. backptr' \in [Cnet -> Cnet \cup {-1}]
  BY <1>4
<1>6. cost' \in [Cnet -> Int]
  BY <1>3, <1>4
<1>7. frontierq' \in SUBSET (Cnet \X Int)
  BY <1>2, <1>3, <1>4
<1> QED BY <1>2, <1>4, <1>5, <1>6, <1>7

(* An entry of a route is a pair of cnets. *)
LEMMA RouteEntry ==
  ASSUME TInv, NEW n \in Net, NEW j \in 1 .. Len(net_route[n])
  PROVE  /\ net_route[n][j] \in Edge
         /\ net_route[n][j][1] \in Cnet
         /\ net_route[n][j][2] \in Cnet
<1>1. net_route[n] \in Seq(Edge)
  BY DEF TInv, TypeOK
<1>2. net_route[n][j] \in Edge
  BY <1>1
<1> QED BY <1>2 DEF Edge

LEMMA InitType == Init => TInv
<1> SUFFICES ASSUME Init PROVE TInv
  OBVIOUS
<1>1. problem \in Problem
  BY ProblemsAssumption DEF Init
<1>2. pc \in {"net", "routed"} /\ (pc \in Running => passes <= max_passes)
  BY SizeAssumption DEF Init, Running
<1>3. passes \in 1 .. max_passes + 1 /\ current_net \in 0 .. NNet
  BY SizeAssumption DEF Init
<1>4. backptr \in [Cnet -> Cnet \cup {-1}]
  <2>1. \A i \in Cnet : 0 \in Cnet
    BY SizeAssumption DEF Cnet
  <2> QED BY <2>1 DEF Init
<1>5. net_route \in [Net -> Seq(Edge)]
  BY DEF Init
<1>6. pc \in Running \cup Final /\ (pc \in Running \ {"net"} => current_net \in Net)
  <2>1. pc \in Running \cup Final
    BY <1>2 DEF Running, Final
  <2>2. pc \notin Running \ {"net"}
    BY <1>2 DEF Running
  <2> QED BY <2>1, <2>2
<1> QED BY <1>1, <1>2, <1>3, <1>4, <1>5, <1>6 DEF Init, TInv, TypeOK

LEMMA VisitStepsType ==
  ASSUME TInv
  PROVE  /\ StartSource => TInv'
         /\ StartEntry => TInv'
         /\ \A e \in frontierq : PopVisit(e) => TInv'
<1> USE DEF TInv, TypeOK
<1>1. ASSUME StartSource PROVE TInv'
  <2>1. pc = "start" /\ current_net \in Net /\ source \in Cnet
    BY <1>1, ProblemFacts DEF StartSource, Running, source
  <2>2. /\ [backptr EXCEPT ![source] = -1] \in [Cnet -> Cnet \cup {-1}]
        /\ [cost EXCEPT ![source] = 0] \in [Cnet -> Int]
    BY <2>1
  <2>3. /\ visited' \in SUBSET Cnet /\ frontier' \in SUBSET Cnet
        /\ frontierq' \in SUBSET (Cnet \X Int)
        /\ backptr' \in [Cnet -> Cnet \cup {-1}] /\ cost' \in [Cnet -> Int]
    BY <1>1, <2>1, <2>2, VisitType DEF StartSource
  <2>4. k' = 1 /\ pc' = "grow" /\ UNCHANGED <<problem, passes, current_net, cn, historical_demand, unrouted, n_shared, demand, net_route>>
    BY <1>1 DEF StartSource, sharingVars
  <2> QED BY <2>1, <2>3, <2>4 DEF Running
<1>2. ASSUME StartEntry PROVE TInv'
  <2> DEFINE c == route[k][2]
  <2>1. current_net \in Net /\ k \in 1 .. Len(route) /\ pc = "grow"
    <3>1. pc = "grow" /\ k <= Len(route) /\ current_net \in Net
      BY <1>2 DEF StartEntry, StartAt, Running
    <3>2. Len(route) \in Nat
      BY <3>1 DEF route
    <3> QED BY <3>1, <3>2
  <2>2. c \in Cnet
    BY <2>1, RouteEntry DEF route
  <2>3. /\ [backptr EXCEPT ![c] = -1] \in [Cnet -> Cnet \cup {-1}]
        /\ [cost EXCEPT ![c] = 0] \in [Cnet -> Int]
        /\ frontier \ {c} \in SUBSET Cnet
    BY <2>2
  <2>4. Visit(c, visited, frontier \ {c}, frontierq, [backptr EXCEPT ![c] = -1], [cost EXCEPT ![c] = 0])
    BY <1>2 DEF StartEntry, StartAt
  <2>5. /\ visited' \in SUBSET Cnet /\ frontier' \in SUBSET Cnet
        /\ frontierq' \in SUBSET (Cnet \X Int)
        /\ backptr' \in [Cnet -> Cnet \cup {-1}] /\ cost' \in [Cnet -> Int]
    <3> HIDE DEF c
    <3> QED BY <2>2, <2>3, <2>4, VisitType
  <2>6. k' = k + 1 /\ UNCHANGED <<problem, pc, passes, current_net, cn, historical_demand, unrouted, n_shared, demand, net_route>>
    BY <1>2 DEF StartEntry, StartAt, sharingVars
  <2> QED BY <2>1, <2>5, <2>6
<1>3. ASSUME NEW e \in frontierq, PopVisit(e) PROVE TInv'
  <2>1. e[1] \in Cnet
    OBVIOUS
  <2>2. frontier \ {e[1]} \in SUBSET Cnet /\ frontierq \ {e} \in SUBSET (Cnet \X Int)
    OBVIOUS
  <2>3. /\ visited' \in SUBSET Cnet /\ frontier' \in SUBSET Cnet
        /\ frontierq' \in SUBSET (Cnet \X Int)
        /\ backptr' \in [Cnet -> Cnet \cup {-1}] /\ cost' \in [Cnet -> Int]
    BY <1>3, <2>1, <2>2, VisitType DEF PopVisit
  <2>4. UNCHANGED <<problem, pc, passes, current_net, k, cn, historical_demand, unrouted, n_shared, demand, net_route>>
    BY <1>3 DEF PopVisit, sharingVars
  <2> QED BY <2>3, <2>4
<1> QED BY <1>1, <1>2, <1>3

LEMMA LoopStepsType ==
  ASSUME TInv
  PROVE  /\ SkipNet => TInv'
         /\ BeginNet => TInv'
         /\ Success => TInv'
         /\ NextPass => TInv'
         /\ StartDone => TInv'
         /\ TracebackDone => TInv'
         /\ Stopped => TInv'
<1> USE SizeAssumption DEF TInv, TypeOK, Running, Final, Net
<1>1. SkipNet => TInv'
  BY DEF SkipNet, sharingVars, searchVars
<1>2. ASSUME BeginNet PROVE TInv'
  <2>1. current_net \in Net
    BY <1>2 DEF BeginNet
  <2>2. targets \in SUBSET Cnet
    BY <2>1, ProblemFacts DEF targets
  <2> QED BY <1>2, <2>1, <2>2 DEF BeginNet, sharingVars, searchVars
<1>3. Success => TInv'
  BY DEF Success, sharingVars, searchVars
<1>4. ASSUME NextPass PROVE TInv'
  <2>1. /\ pc = "net" /\ current_net = NNet /\ passes' = passes + 1 /\ current_net' = 0
        /\ pc' = IF passes + 1 <= max_passes THEN "net" ELSE "failed"
        /\ UNCHANGED <<problem, k, cn, unrouted, n_shared, demand, net_route,
                       visited, frontier, frontierq, backptr, cost>>
    BY <1>4 DEF NextPass, EndPass, sharingVars, searchVars
  <2>2. historical_demand' =
          [i \in Cnet |-> historical_demand[i]
                            + IF passes > 1 /\ demand[i] > 1 THEN demand[i] ELSE 0]
    BY <1>4 DEF NextPass, EndPass
  <2>3. \A i \in Cnet : historical_demand[i]
                            + (IF passes > 1 /\ demand[i] > 1 THEN demand[i] ELSE 0) \in Nat
    OBVIOUS
  <2>4. historical_demand' \in [Cnet -> Nat]
    BY <2>2, <2>3
  <2>5. passes' \in 1 .. max_passes + 1
    BY <2>1
  <2> QED BY <2>1, <2>4, <2>5
<1>5. StartDone => TInv'
  BY DEF StartDone, sharingVars, searchVars
<1>6. TracebackDone => TInv'
  BY DEF TracebackDone, TracebackEnd, sharingVars, searchVars
<1>7. Stopped => TInv'
  BY DEF Stopped, vars
<1> QED BY <1>1, <1>2, <1>3, <1>4, <1>5, <1>6, <1>7

LEMMA SearchStepsType ==
  ASSUME TInv
  PROVE  /\ \A e \in frontierq : PopStale(e) => TInv'
         /\ \A e \in frontierq : PopTarget(e) => TInv'
<1> USE DEF TInv, TypeOK, Running, Final
<1>1. ASSUME NEW e \in frontierq, PopStale(e) PROVE TInv'
  BY <1>1 DEF PopStale, sharingVars
<1>2. ASSUME NEW e \in frontierq, PopTarget(e) PROVE TInv'
  BY <1>2 DEF PopTarget, sharingVars
<1> QED BY <1>1, <1>2

LEMMA RouteStepsType ==
  ASSUME TInv
  PROVE  /\ RipupEntry => TInv'
         /\ RipupClear => TInv'
         /\ TracebackStep => TInv'
<1> USE DEF TInv, TypeOK, Running
<1>1. ASSUME RipupEntry PROVE TInv'
  <2>1. /\ pc = "ripup" /\ k' = k + 1
        /\ UNCHANGED <<problem, pc, passes, current_net, cn, historical_demand, net_route,
                       unrouted, visited, frontier, frontierq, backptr, cost>>
    BY <1>1 DEF RipupEntry, RipupAt, searchVars
  <2>2. demand' \in [Cnet -> Int] /\ n_shared' \in Int
    <3>1. current_net \in Net /\ k \in 1 .. Len(route)
      BY <1>1, <2>1 DEF RipupEntry, RipupAt, route
    <3>2. route[k][2] \in Cnet
      BY <3>1, RouteEntry DEF route
    <3> QED BY <1>1, <3>2 DEF RipupEntry, RipupAt
  <2> QED BY <2>1, <2>2
<1>2. ASSUME RipupClear PROVE TInv'
  <2>1. net_route' \in [Net -> Seq(Edge)]
    BY <1>2 DEF RipupClear
  <2> QED BY <1>2, <2>1 DEF RipupClear, searchVars
<1>3. ASSUME TracebackStep PROVE TInv'
  <2>1. /\ pc = "traceback" /\ cn >= 0 /\ cn' = backptr[cn]
        /\ UNCHANGED <<problem, pc, passes, current_net, k, historical_demand, unrouted,
                       visited, frontier, frontierq, backptr, cost>>
    BY <1>3 DEF TracebackStep, TracebackIf, searchVars
  <2>2. cn \in Cnet /\ backptr[cn] \in Cnet \cup {-1} /\ current_net \in Net
    BY <2>1
  <2>3. n_shared' \in Int /\ demand' \in [Cnet -> Int] /\ net_route' \in [Net -> Seq(Edge)]
    <3>1. CASE backptr[cn] >= 0
      <4>1. <<backptr[cn], cn>> \in Edge
        BY <2>2, <3>1 DEF Edge
      <4>2. net_route' = [net_route EXCEPT ![current_net] = Append(@, <<backptr[cn], cn>>)]
        BY <1>3, <3>1 DEF TracebackStep, TracebackIf
      <4>3. net_route' \in [Net -> Seq(Edge)]
        BY <2>2, <4>1, <4>2
      <4> QED BY <1>3, <2>2, <3>1, <4>3 DEF TracebackStep, TracebackIf
    <3>2. CASE ~(backptr[cn] >= 0)
      BY <1>3, <3>2 DEF TracebackStep, TracebackIf, sharingVars
    <3> QED BY <3>1, <3>2
  <2> QED BY <2>1, <2>2, <2>3
<1> QED BY <1>1, <1>2, <1>3

LEMMA NextType == TInv /\ [Next]_vars => TInv'
<1>1. CASE UNCHANGED vars
  BY <1>1 DEF vars, TInv, TypeOK
<1>2. CASE Next
  BY <1>2, VisitStepsType, LoopStepsType, SearchStepsType, RouteStepsType DEF Next, Search
<1> QED BY <1>1, <1>2

(* Every variable keeps its type: no index of demand, cost, backptr or     *)
(* net_route leaves its vector.                                            *)
THEOREM TypeCorrect == Spec => []TypeOK
<1>1. TInv => TypeOK
  BY DEF TInv
<1> QED BY <1>1, InitType, NextType, PTL DEF Spec

-----------------------------------------------------------------------------
(* Demand accounting.  An element <<n, j>> of Uses(c) stands for entry j   *)
(* of the route of net n.                                                  *)
LEMMA UsesMember ==
  ASSUME NEW c, NEW n \in Net, NEW j
  PROVE  <<n, j>> \in Uses(c) <=>
           j \in FirstCounted(n) .. Len(net_route[n]) /\ net_route[n][j][2] = c
BY DEF Uses

LEMMA UsesElement ==
  ASSUME NEW c, NEW u \in Uses(c)
  PROVE  \E n \in Net : \E j \in FirstCounted(n) .. Len(net_route[n]) :
           u = <<n, j>> /\ net_route[n][j][2] = c
BY DEF Uses

(* Steps that touch neither the counts nor the routes. *)
LEMMA AccountingUnchanged ==
  ASSUME DemandAccounting, UNCHANGED sharingVars,
         \A n \in Net : FirstCounted(n)' = FirstCounted(n)
  PROVE  DemandAccounting'
<1>1. UNCHANGED <<n_shared, demand, net_route>>
  BY DEF sharingVars
<1>2. \A c : Uses(c)' = Uses(c)
  BY <1>1 DEF Uses
<1> QED BY <1>1, <1>2 DEF DemandAccounting

(* One use more of c, as in traceback(). *)
LEMMA CountUp ==
  ASSUME TInv, DemandAccounting, NEW c \in Cnet,
         demand' = [demand EXCEPT ![c] = @ + 1],
         n_shared' = IF demand[c] = 1 THEN n_shared + 1 ELSE n_shared
  PROVE  n_shared' = Cardinality({i \in Cnet : demand'[i] > 1})
<1> DEFINE S == {i \in Cnet : demand[i] > 1}
           T == {i \in Cnet : demand'[i] > 1}
<1>1. IsFiniteSet(Cnet) /\ IsFiniteSet(S)
  <2>1. IsFiniteSet(Cnet)
    BY SizeAssumption, FS_Interval DEF Cnet
  <2> QED BY <2>1, FS_Subset
<1>2. demand \in [Cnet -> Int] /\ n_shared = Cardinality(S)
  BY DEF TInv, TypeOK, DemandAccounting
<1>3. \A i \in Cnet : demand'[i] = IF i = c THEN demand[i] + 1 ELSE demand[i]
  BY <1>2
<1>4. CASE demand[c] = 1
  <2>1. T = S \cup {c} /\ c \notin S
    BY <1>2, <1>3, <1>4
  <2>2. Cardinality(S \cup {c}) = Cardinality(S) + 1
    <3> HIDE DEF S, T
    <3> QED BY <1>1, <2>1, FS_AddElement
  <2> QED BY <1>2, <1>4, <2>1, <2>2
<1>5. CASE demand[c] # 1
  <2>1. T = S
    BY <1>2, <1>3, <1>5
  <2> QED BY <1>2, <1>5, <2>1
<1> QED BY <1>4, <1>5

(* One use less of c, as in ripup(). *)
LEMMA CountDown ==
  ASSUME TInv, DemandAccounting, NEW c \in Cnet,
         demand' = [demand EXCEPT ![c] = @ - 1],
         n_shared' = IF demand[c] = 2 THEN n_shared - 1 ELSE n_shared
  PROVE  n_shared' = Cardinality({i \in Cnet : demand'[i] > 1})
<1> DEFINE S == {i \in Cnet : demand[i] > 1}
           T == {i \in Cnet : demand'[i] > 1}
<1>1. IsFiniteSet(Cnet) /\ IsFiniteSet(S)
  <2>1. IsFiniteSet(Cnet)
    BY SizeAssumption, FS_Interval DEF Cnet
  <2> QED BY <2>1, FS_Subset
<1>2. demand \in [Cnet -> Int] /\ n_shared = Cardinality(S)
  BY DEF TInv, TypeOK, DemandAccounting
<1>3. \A i \in Cnet : demand'[i] = IF i = c THEN demand[i] - 1 ELSE demand[i]
  BY <1>2
<1>4. CASE demand[c] = 2
  <2>1. T = S \ {c} /\ c \in S
    BY <1>2, <1>3, <1>4
  <2>2. Cardinality(S \ {c}) = Cardinality(S) - 1
    <3> HIDE DEF S, T
    <3> QED BY <1>1, <2>1, FS_RemoveElement
  <2> QED BY <1>2, <1>4, <2>1, <2>2
<1>5. CASE demand[c] # 2
  <2>1. T = S
    BY <1>2, <1>3, <1>5
  <2> QED BY <1>2, <1>5, <2>1
<1> QED BY <1>4, <1>5

LEMMA RipupEntryAccounting ==
  ASSUME TInv, DemandAccounting, RipupEntry
  PROVE  DemandAccounting'
<1> DEFINE c == route[k][2]
           u == <<current_net, k>>
<1>1. /\ pc = "ripup" /\ current_net \in Net /\ k \in 1 .. Len(route)
      /\ k' = k + 1 /\ UNCHANGED <<pc, current_net, net_route>>
  BY DEF RipupEntry, RipupAt, TInv, TypeOK, Running, route
<1>2. c \in Cnet
  BY <1>1, RouteEntry DEF route
<1>3. /\ demand' = [demand EXCEPT ![c] = @ - 1]
      /\ n_shared' = IF demand[c] = 2 THEN n_shared - 1 ELSE n_shared
  BY DEF RipupEntry, RipupAt
<1>4. n_shared' = Cardinality({i \in Cnet : demand'[i] > 1})
  <2> HIDE DEF c
  <2> QED BY <1>2, <1>3, CountDown
<1>5. u \in Uses(c)
  BY <1>1, UsesMember DEF FirstCounted, route
<1>6. ASSUME NEW i \in Cnet PROVE Uses(i)' = Uses(i) \ {u}
  <2>1. ASSUME NEW n \in Net, NEW j
        PROVE  <<n, j>> \in Uses(i)' <=> <<n, j>> \in Uses(i) \ {u}
    <3>1. <<n, j>> \in Uses(i)' <=>
            j \in FirstCounted(n)' .. Len(net_route[n]) /\ net_route[n][j][2] = i
      BY <1>1 DEF Uses
    <3>2. CASE n = current_net
      <4>1. FirstCounted(n) = k /\ FirstCounted(n)' = k + 1
        BY <1>1, <3>2 DEF FirstCounted
      <4>2. \A m \in k + 1 .. Len(net_route[n]) : m \in k .. Len(net_route[n]) /\ m # k
        BY <1>1
      <4>3. \A m \in k .. Len(net_route[n]) : m # k => m \in k + 1 .. Len(net_route[n])
        BY <1>1
      <4> QED BY <3>1, <3>2, <4>1, <4>2, <4>3, UsesMember
    <3>3. CASE n # current_net
      <4>1. FirstCounted(n)' = FirstCounted(n)
        BY <1>1, <3>3 DEF FirstCounted
      <4> QED BY <3>1, <3>3, <4>1, UsesMember
    <3> QED BY <3>2, <3>3
  <2>2. ASSUME NEW v \in Uses(i)' PROVE \E n \in Net : \E j : v = <<n, j>>
    BY DEF Uses
  <2>3. ASSUME NEW v \in Uses(i) PROVE \E n \in Net : \E j : v = <<n, j>>
    BY DEF Uses
  <2> HIDE DEF u
  <2> QED BY <2>1, <2>2, <2>3
<1>7. ASSUME NEW i \in Cnet PROVE IsFiniteSet(Uses(i)') /\ demand'[i] = Cardinality(Uses(i)')
  <2>1. IsFiniteSet(Uses(i)) /\ demand[i] = Cardinality(Uses(i)) /\ demand \in [Cnet -> Int]
    BY DEF DemandAccounting, TInv, TypeOK
  <2>2. CASE i = c
    <3>1. IsFiniteSet(Uses(i) \ {u}) /\ Cardinality(Uses(i) \ {u}) = Cardinality(Uses(i)) - 1
      <4> HIDE DEF u
      <4> QED BY <1>5, <2>1, <2>2, FS_RemoveElement
    <3> QED BY <1>3, <1>6, <2>1, <2>2, <3>1
  <2>3. CASE i # c
    <3>1. u \notin Uses(i)
      BY <1>1, <2>3, UsesMember DEF route
    <3>2. Uses(i)' = Uses(i)
      <4> HIDE DEF u
      <4> QED BY <1>6, <3>1
    <3> QED BY <1>3, <2>1, <2>3, <3>2
  <2> QED BY <2>2, <2>3
<1> QED BY <1>4, <1>7 DEF DemandAccounting

LEMMA TracebackStepAccounting ==
  ASSUME TInv, DemandAccounting, TracebackStep
  PROVE  DemandAccounting'
<1> DEFINE u == <<current_net, Len(route) + 1>>
<1>1. /\ pc = "traceback" /\ current_net \in Net /\ cn \in Cnet /\ pc' = pc
      /\ current_net' = current_net /\ k' = k
  BY DEF TracebackStep, TracebackIf, TInv, TypeOK, Running
<1>2. CASE ~(backptr[cn] >= 0)
  <2>1. UNCHANGED sharingVars
    BY <1>2 DEF TracebackStep, TracebackIf
  <2> QED BY <1>1, <2>1, AccountingUnchanged DEF FirstCounted
<1>3. CASE backptr[cn] >= 0
  <2> DEFINE e == <<backptr[cn], cn>>
  <2>1. /\ demand' = [demand EXCEPT ![cn] = @ + 1]
        /\ n_shared' = IF demand[cn] = 1 THEN n_shared + 1 ELSE n_shared
        /\ net_route' = [net_route EXCEPT ![current_net] = Append(@, e)]
    BY <1>3 DEF TracebackStep, TracebackIf
  <2>2. n_shared' = Cardinality({i \in Cnet : demand'[i] > 1})
    BY <1>1, <2>1, CountUp
  <2>3. /\ route \in Seq(Edge) /\ Len(route) \in Nat
        /\ e \in Edge
    <3>1. route \in Seq(Edge)
      BY <1>1 DEF TInv, TypeOK, route
    <3>2. backptr[cn] \in Cnet
      BY <1>1, <1>3 DEF TInv, TypeOK
    <3> QED BY <1>1, <3>1, <3>2 DEF Edge
  <2>4. /\ Len(net_route[current_net]') = Len(route) + 1
        /\ net_route[current_net]'[Len(route) + 1] = e
        /\ \A j \in 1 .. Len(route) : net_route[current_net]'[j] = route[j]
    <3>1. net_route[current_net]' = Append(route, e)
      BY <1>1, <2>1 DEF TInv, TypeOK, route
    <3> HIDE DEF e
    <3> QED BY <2>3, <3>1
  <2>5. \A n \in Net : n # current_net => net_route'[n] = net_route[n]
    BY <2>1 DEF TInv, TypeOK
  <2>6. \A n \in Net : FirstCounted(n) = 1 /\ FirstCounted(n)' = 1
    BY <1>1 DEF FirstCounted
  <2>7. ASSUME NEW i \in Cnet
        PROVE  Uses(i)' = IF i = cn THEN Uses(i) \cup {u} ELSE Uses(i)
    <3>1. ASSUME NEW n \in Net, NEW j
          PROVE  <<n, j>> \in Uses(i)' <=>
                   <<n, j>> \in Uses(i) \/ (i = cn /\ <<n, j>> = u)
      <4>1. <<n, j>> \in Uses(i)' <=>
              j \in 1 .. Len(net_route'[n]) /\ net_route'[n][j][2] = i
        BY <2>6 DEF Uses
      <4>2. <<n, j>> \in Uses(i) <=>
              j \in 1 .. Len(net_route[n]) /\ net_route[n][j][2] = i
        BY <2>6, UsesMember
      <4>3. CASE n = current_net
        <5>1. \A m : m \in 1 .. Len(route) + 1 <=> m \in 1 .. Len(route) \/ m = Len(route) + 1
          BY <2>3
        <5>2. e[2] = cn
          OBVIOUS
        <5>3. Len(route) + 1 \notin 1 .. Len(route)
          BY <2>3
        <5> HIDE DEF e
        <5> QED BY <1>1, <2>4, <4>1, <4>2, <4>3, <5>1, <5>2, <5>3 DEF route
      <4>4. CASE n # current_net
        BY <2>5, <4>1, <4>2, <4>4
      <4> QED BY <4>3, <4>4
    <3>2. ASSUME NEW v \in Uses(i)' PROVE \E n \in Net : \E j : v = <<n, j>>
      BY DEF Uses
    <3>3. ASSUME NEW v \in Uses(i) PROVE \E n \in Net : \E j : v = <<n, j>>
      BY DEF Uses
    <3>4. \E n \in Net : \E j : u = <<n, j>>
      BY <1>1
    <3> HIDE DEF u
    <3> QED BY <3>1, <3>2, <3>3, <3>4
  <2>8. ASSUME NEW i \in Cnet PROVE IsFiniteSet(Uses(i)') /\ demand'[i] = Cardinality(Uses(i)')
    <3>1. IsFiniteSet(Uses(i)) /\ demand[i] = Cardinality(Uses(i)) /\ demand \in [Cnet -> Int]
      BY DEF DemandAccounting, TInv, TypeOK
    <3>2. CASE i = cn
      <4>1. u \notin Uses(i)
        BY <1>1, <2>3, <2>6, UsesMember DEF route
      <4>2. IsFiniteSet(Uses(i) \cup {u}) /\ Cardinality(Uses(i) \cup {u}) = Cardinality(Uses(i)) + 1
        <5> HIDE DEF u
        <5> QED BY <3>1, <4>1, FS_AddElement
      <4> QED BY <2>1, <2>7, <3>1, <3>2, <4>2
    <3>3. CASE i # cn
      BY <2>1, <2>7, <3>1, <3>3
    <3> QED BY <3>2, <3>3
  <2> QED BY <2>2, <2>8 DEF DemandAccounting
<1> QED BY <1>2, <1>3

LEMMA RipupClearAccounting ==
  ASSUME TInv, DemandAccounting, RipupClear
  PROVE  DemandAccounting'
<1>1. /\ pc = "ripup" /\ pc' = "start" /\ current_net \in Net /\ k > Len(route)
      /\ UNCHANGED <<n_shared, demand>>
      /\ net_route' = [net_route EXCEPT ![current_net] = <<>>]
  BY DEF RipupClear, TInv, TypeOK, Running
<1>2. \A n \in Net : FirstCounted(n)' = 1
  BY <1>1 DEF FirstCounted
<1>3. k \in Nat /\ Len(route) \in Nat
  BY <1>1 DEF TInv, TypeOK, route
<1>4. ASSUME NEW i PROVE Uses(i)' = Uses(i)
  <2>1. ASSUME NEW n \in Net, NEW j
        PROVE  <<n, j>> \in Uses(i)' <=> <<n, j>> \in Uses(i)
    <3>1. <<n, j>> \in Uses(i)' <=>
            j \in 1 .. Len(net_route'[n]) /\ net_route'[n][j][2] = i
      BY <1>2 DEF Uses
    <3>2. CASE n = current_net
      <4>1. net_route'[n] = <<>>
        BY <1>1, <3>2 DEF TInv, TypeOK
      <4>2. <<n, j>> \notin Uses(i)'
        BY <3>1, <4>1
      <4>3. j \notin FirstCounted(n) .. Len(net_route[n])
        BY <1>1, <1>3, <3>2 DEF FirstCounted, route
      <4> QED BY <4>2, <4>3, UsesMember
    <3>3. CASE n # current_net
      <4>1. FirstCounted(n) = 1 /\ net_route'[n] = net_route[n]
        BY <1>1, <3>3 DEF FirstCounted, TInv, TypeOK
      <4> QED BY <3>1, <4>1, UsesMember
    <3> QED BY <3>2, <3>3
  <2>2. ASSUME NEW v \in Uses(i)' PROVE \E n \in Net : \E j : v = <<n, j>>
    BY DEF Uses
  <2>3. ASSUME NEW v \in Uses(i) PROVE \E n \in Net : \E j : v = <<n, j>>
    BY DEF Uses
  <2> QED BY <2>1, <2>2, <2>3
<1> QED BY <1>1, <1>4 DEF DemandAccounting

LEMMA InitAccounting == Init => DemandAccounting
<1> SUFFICES ASSUME Init PROVE DemandAccounting
  OBVIOUS
<1>1. \A n \in Net : FirstCounted(n) = 1 /\ Len(net_route[n]) = 0
  BY DEF Init, FirstCounted
<1>2. \A c : Uses(c) = {}
  BY <1>1 DEF Uses
<1>3. {c \in Cnet : demand[c] > 1} = {}
  BY DEF Init
<1>4. \A c \in Cnet : demand[c] = 0
  BY DEF Init
<1> QED BY <1>2, <1>3, <1>4, FS_EmptySet DEF DemandAccounting, Init

LEMMA NextAccounting ==
  ASSUME TInv, DemandAccounting, [Next]_vars
  PROVE  DemandAccounting'
<1>1. ASSUME \/ UNCHANGED vars \/ SkipNet \/ BeginNet \/ Success \/ NextPass
             \/ StartSource \/ StartEntry \/ StartDone
             \/ \E e \in frontierq : PopStale(e) \/ PopVisit(e) \/ PopTarget(e)
             \/ TracebackDone \/ Stopped
      PROVE  DemandAccounting'
  <2>1. UNCHANGED sharingVars
    BY <1>1 DEF vars, sharingVars, SkipNet, BeginNet, Success, NextPass, EndPass, StartSource,
         StartEntry, StartAt, StartDone, PopStale, PopVisit, PopTarget,
         TracebackDone, TracebackEnd, Stopped
  <2>2. \A n \in Net : FirstCounted(n)' = FirstCounted(n)
    <3>1. \/ UNCHANGED <<pc, current_net, k>>
          \/ pc # "ripup" /\ pc' # "ripup"
          \/ pc # "ripup" /\ pc' = "ripup" /\ k' = 1
      BY <1>1 DEF vars, SkipNet, BeginNet, Success, NextPass, EndPass, StartSource,
           StartEntry, StartAt, StartDone, PopStale, PopVisit, PopTarget,
           TracebackDone, TracebackEnd, Stopped
    <3> QED BY <3>1 DEF FirstCounted
  <2> QED BY <2>1, <2>2, AccountingUnchanged
<1> QED BY <1>1, RipupEntryAccounting, RipupClearAccounting, TracebackStepAccounting
     DEF Next, Search

(* What Router::check() asserts holds in every state, on every chip: the   *)
(* demand of every cnet is the number of route entries that use it, and    *)
(* n_shared the number of cnets with a demand above 1.                     *)
THEOREM CheckNeverFails == Spec => []DemandAccounting
<1>1. Init => TInv /\ DemandAccounting
  BY InitType, InitAccounting
<1>2. TInv /\ DemandAccounting /\ [Next]_vars => (TInv /\ DemandAccounting)'
  BY NextType, NextAccounting
<1> QED BY <1>1, <1>2, PTL DEF Spec
-----------------------------------------------------------------------------

(* What start() has made roots of the search: the source and the entries   *)
(* before k.  During a search and a traceback they are the whole tree.     *)
Rooted == {source} \cup {route[j][2] : j \in 1 .. k - 1}

(* What the traceback in progress has added. *)
Branch == {route[j] : j \in k .. Len(route)}

Searching == pc \in {"grow", "search", "traceback"}

Positions ==
  /\ pc \in {"grow", "traceback"} => k <= Len(route) + 1
  /\ pc = "search" => k = Len(route) + 1

(* bp leads from every cnet of vis and fr over switches through vis to a   *)
(* root: no set of cnets of vis leads only to itself.                      *)
IsSearchTree(R, vis, fr, bp) ==
  /\ R \subseteq vis
  /\ \A v \in R : bp[v] = -1
  /\ \A v \in (vis \cup fr) \ R : bp[v] \in vis /\ v \in outs[bp[v]]
  /\ \A S \in SUBSET (vis \ R) : S # {} => \E v \in S : bp[v] \notin S
  /\ fr \cap vis = {}

SearchTree ==
  Searching =>
    /\ IsSearchTree(Rooted, visited, frontier, backptr)
    /\ pc = "grow" => visited = Rooted

(* Every way out of vis leads to fr; q has the cost of every cnet of fr,   *)
(* and beside it only entries that are dearer or whose cnet is done.       *)
IsFrontier(vis, fr, q, co) ==
  /\ \A v \in vis : outs[v] \subseteq vis \cup fr
  /\ \A v \in fr : <<v, co[v]>> \in q
  /\ \A e \in q : e[1] \in vis \cup fr /\ (e[1] \in fr => co[e[1]] <= e[2])

FrontierQueue == pc \in {"grow", "search"} => IsFrontier(visited, frontier, frontierq, cost)

(* The branch follows the back pointers; it ends where traceback() is, or  *)
(* at a root when it is done, and never meets a cnet twice.                *)
BranchEnd == IF cn >= 0 THEN {cn} ELSE Rooted

TracebackBranch ==
  pc = "traceback" =>
    /\ cn >= 0 => cn \in Rooted \/ (backptr[cn] \in visited /\ cn \in outs[backptr[cn]])
    /\ cn \notin Driven(Branch)
    /\ \A e \in Branch :
         /\ e[1] = backptr[e[2]] /\ e[1] \in visited
         /\ e[2] \in outs[e[1]] /\ e[2] \notin Rooted
         /\ e[1] \in Driven(Branch) \cup BranchEnd
    /\ \A i, j \in k .. Len(route) : route[i][2] = route[j][2] => i = j

SearchInv == Positions /\ SearchTree /\ FrontierQueue /\ TracebackBranch

-----------------------------------------------------------------------------
(* visit() *)

(* What visit(c) does: the cnets it can improve enter the frontier, or     *)
(* stay there at a lower cost, with c behind them.                         *)
Improves(better, c, vis, fr, q, bp, co) ==
  /\ better \subseteq outs[c] \ (vis \cup {c})
  /\ outs[c] \ (vis \cup {c}) \subseteq fr \cup better
  /\ visited' = vis \cup {c}
  /\ frontier' = fr \cup better
  /\ frontierq' = q \cup {<<i, cost'[i]>> : i \in better}
  /\ \A i \in Cnet : backptr'[i] = IF i \in better THEN c ELSE bp[i]
  /\ \A i \in Cnet \ better : cost'[i] = co[i]
  /\ \A i \in better \cap fr : cost'[i] < co[i]

LEMMA VisitFacts ==
  ASSUME TInv, NEW c \in Cnet,
         NEW vis \in SUBSET Cnet, NEW fr \in SUBSET Cnet, NEW q,
         NEW bp \in [Cnet -> Cnet \cup {-1}], NEW co \in [Cnet -> Int],
         Visit(c, vis, fr, q, bp, co)
  PROVE  \E better \in SUBSET Cnet : Improves(better, c, vis, fr, q, bp, co)
<1> DEFINE new == outs[c] \ (vis \cup {c})
           NewCost(i) == co[c] + StepCost(i)
           better == {i \in new : i \in fr => NewCost(i) < co[i]}
<1>1. outs[c] \in SUBSET Cnet
  BY ProblemFacts DEF outs
<1>2. better \subseteq new /\ better \in SUBSET Cnet
  BY <1>1
<1>3. /\ visited' = vis \cup {c}
      /\ frontier' = fr \cup better
      /\ frontierq' = q \cup {<<i, NewCost(i)>> : i \in better}
      /\ backptr' = [i \in Cnet |-> IF i \in better THEN c ELSE bp[i]]
      /\ cost' = [i \in Cnet |-> IF i \in better THEN NewCost(i) ELSE co[i]]
  BY Zenon DEF Visit
<1>4. \A i \in better \cap fr : NewCost(i) < co[i]
  OBVIOUS
<1>5. new \subseteq fr \cup better
  OBVIOUS
<1> HIDE DEF better, NewCost
<1>6. \A i \in better : cost'[i] = NewCost(i)
  BY <1>2, <1>3
<1>7. {<<i, NewCost(i)>> : i \in better} = {<<i, cost'[i]>> : i \in better}
  BY <1>6
<1>8. \A i \in better \cap fr : cost'[i] < co[i]
  BY <1>4, <1>6
<1>9. \A i \in Cnet : backptr'[i] = IF i \in better THEN c ELSE bp[i]
  BY <1>3
<1>10. \A i \in Cnet \ better : cost'[i] = co[i]
  BY <1>3
<1>11. frontierq' = q \cup {<<i, cost'[i]>> : i \in better}
  BY <1>3, <1>7
<1>12. Improves(better, c, vis, fr, q, bp, co)
  BY <1>2, <1>3, <1>5, <1>8, <1>9, <1>10, <1>11 DEF Improves
<1> QED BY <1>2, <1>12

(* visit(c) extends a search tree that has c already. *)
LEMMA VisitSearchTree ==
  ASSUME TInv, NEW c \in Cnet,
         NEW vis \in SUBSET Cnet, NEW fr \in SUBSET Cnet, NEW q,
         NEW bp \in [Cnet -> Cnet \cup {-1}], NEW co \in [Cnet -> Int],
         Visit(c, vis, fr, q, bp, co),
         NEW R, IsSearchTree(R, vis \cup {c}, fr, bp)
  PROVE  IsSearchTree(R, visited', frontier', backptr')
<1>0. PICK better \in SUBSET Cnet : Improves(better, c, vis, fr, q, bp, co)
  BY VisitFacts
<1>1. /\ better \subseteq outs[c] \ (vis \cup {c})
      /\ visited' = vis \cup {c}
      /\ frontier' = fr \cup better
      /\ \A i \in Cnet : backptr'[i] = IF i \in better THEN c ELSE bp[i]
  BY <1>0 DEF Improves
<1>2. outs[c] \in SUBSET Cnet
  BY ProblemFacts DEF outs
<1>3. \A v \in visited' : v \in Cnet /\ backptr'[v] = bp[v]
  BY <1>1
<1>4. R \subseteq visited' /\ \A v \in R : backptr'[v] = -1
  BY <1>1, <1>3 DEF IsSearchTree
<1>5. ASSUME NEW v \in (visited' \cup frontier') \ R
      PROVE  backptr'[v] \in visited' /\ v \in outs[backptr'[v]]
  <2>1. CASE v \in better
    BY <1>1, <1>2, <2>1
  <2>2. CASE v \notin better
    <3>1. v \in (vis \cup {c} \cup fr) \ R
      BY <1>1, <2>2
    <3>2. backptr'[v] = bp[v]
      BY <1>1, <2>2, <3>1
    <3> QED BY <1>1, <3>1, <3>2 DEF IsSearchTree
  <2> QED BY <2>1, <2>2
<1>6. ASSUME NEW S \in SUBSET (visited' \ R), S # {}
      PROVE  \E v \in S : backptr'[v] \notin S
  <2>1. \E v \in S : bp[v] \notin S
    BY <1>1, <1>6 DEF IsSearchTree
  <2> QED BY <1>3, <2>1
<1>7. frontier' \cap visited' = {}
  BY <1>1 DEF IsSearchTree
<1> QED BY <1>4, <1>5, <1>6, <1>7 DEF IsSearchTree

(* visit(c) closes the gap that c leaves when it is taken from the         *)
(* frontier.                                                               *)
LEMMA VisitFrontier ==
  ASSUME TInv, NEW c \in Cnet,
         NEW vis \in SUBSET Cnet, NEW fr \in SUBSET Cnet, NEW q \in SUBSET (Cnet \X Int),
         NEW bp \in [Cnet -> Cnet \cup {-1}], NEW co \in [Cnet -> Int],
         Visit(c, vis, fr, q, bp, co),
         \A v \in vis : outs[v] \subseteq vis \cup {c} \cup fr,
         \A v \in fr : <<v, co[v]>> \in q,
         \A e \in q : e[1] \in vis \cup {c} \cup fr /\ (e[1] \in fr => co[e[1]] <= e[2])
  PROVE  IsFrontier(visited', frontier', frontierq', cost')
<1>0. PICK better \in SUBSET Cnet : Improves(better, c, vis, fr, q, bp, co)
  BY VisitFacts
<1>1. /\ better \subseteq outs[c] \ (vis \cup {c})
      /\ visited' = vis \cup {c}
      /\ frontier' = fr \cup better
      /\ frontierq' = q \cup {<<i, cost'[i]>> : i \in better}
      /\ \A i \in Cnet \ better : cost'[i] = co[i]
      /\ \A i \in better \cap fr : cost'[i] < co[i]
      /\ outs[c] \ (vis \cup {c}) \subseteq fr \cup better
  BY <1>0 DEF Improves
<1>2. outs[c] \in SUBSET Cnet
  BY ProblemFacts DEF outs
<1>3. ASSUME NEW v \in visited' PROVE outs[v] \subseteq visited' \cup frontier'
  BY <1>1, <1>3
<1>4. ASSUME NEW v \in frontier' PROVE <<v, cost'[v]>> \in frontierq'
  BY <1>1, <1>4
<1>5. \A i \in Cnet : co[i] \in Int /\ cost'[i] \in Int
  BY <1>1, VisitType DEF TInv, TypeOK
<1>6. ASSUME NEW e \in frontierq'
      PROVE  e[1] \in visited' \cup frontier' /\ (e[1] \in frontier' => cost'[e[1]] <= e[2])
  <2>1. CASE e \in q
    <3>1. e[1] \in Cnet /\ e[2] \in Int
      BY <2>1
    <3>2. e[1] \in visited' \cup frontier'
      BY <1>1, <2>1
    <3>3. CASE e[1] \in better /\ e[1] \in fr
      <4>1. cost'[e[1]] < co[e[1]] /\ co[e[1]] <= e[2]
        BY <1>1, <2>1, <3>3
      <4> QED BY <1>5, <3>1, <3>2, <4>1
    <3>4. CASE e[1] \notin better
      BY <1>1, <2>1, <3>1, <3>2, <3>4
    <3>5. CASE e[1] \in better /\ e[1] \notin fr
      BY <1>1, <2>1, <3>5
    <3> QED BY <3>3, <3>4, <3>5
  <2>2. CASE e \notin q
    <3>1. PICK i \in better : e = <<i, cost'[i]>>
      BY <1>1, <2>2
    <3>2. e[1] = i /\ e[2] = cost'[i] /\ i \in Cnet
      BY <1>2, <3>1
    <3>3. cost'[e[1]] <= e[2]
      BY <1>5, <3>2
    <3> QED BY <1>1, <3>2, <3>3
  <2> QED BY <2>1, <2>2
<1> QED BY <1>3, <1>4, <1>6 DEF IsFrontier

-----------------------------------------------------------------------------
(* The search invariant *)

LEMMA RouteFacts ==
  ASSUME TInv, pc \in Running \ {"net"}
  PROVE  /\ current_net \in Net /\ source \in Cnet
         /\ route \in Seq(Edge) /\ Len(route) \in Nat /\ k \in Nat \ {0}
         /\ \A j \in 1 .. Len(route) : route[j] \in Edge /\ route[j][2] \in Cnet
<1>1. current_net \in Net /\ k \in Nat \ {0}
  BY DEF TInv, TypeOK
<1>2. source \in Cnet
  BY <1>1, ProblemFacts DEF source
<1>3. route \in Seq(Edge)
  BY <1>1 DEF TInv, TypeOK, route
<1>4. \A j \in 1 .. Len(route) : route[j] \in Edge /\ route[j][2] \in Cnet
  BY <1>1, RouteEntry DEF route
<1> QED BY <1>1, <1>2, <1>3, <1>4

LEMMA OutsideSearch ==
  ASSUME ~Searching'
  PROVE  SearchInv'
BY DEF SearchInv, Positions, SearchTree, FrontierQueue, TracebackBranch, Searching

LEMMA StartSourceSearch ==
  ASSUME TInv, StartSource
  PROVE  SearchInv'
<1> DEFINE bp == [backptr EXCEPT ![source] = -1]
           co == [cost EXCEPT ![source] = 0]
<1>1. /\ pc' = "grow" /\ k' = 1 /\ UNCHANGED <<problem, current_net, net_route>>
      /\ Visit(source, {}, {}, {}, bp, co)
  BY DEF StartSource, sharingVars
<1>2. source \in Cnet /\ Len(route) \in Nat
  BY RouteFacts DEF StartSource, Running
<1>3. /\ bp \in [Cnet -> Cnet \cup {-1}] /\ co \in [Cnet -> Int] /\ bp[source] = -1
      /\ {} \in SUBSET Cnet /\ {} \in SUBSET (Cnet \X Int)
  BY <1>2 DEF TInv, TypeOK
<1>4. source' = source /\ route' = route /\ outs' = outs
  BY <1>1 DEF source, route, outs
<1>5. Rooted' = {source}
  <2>1. 1 .. k' - 1 = {}
    BY <1>1
  <2> QED BY <1>4, <2>1 DEF Rooted
<1>6. IsSearchTree({source}, {} \cup {source}, {}, bp)
  BY <1>3 DEF IsSearchTree
<1> HIDE DEF bp, co
<1>7. IsSearchTree({source}, visited', frontier', backptr')
  BY <1>1, <1>2, <1>3, <1>6, VisitSearchTree
<1>8. IsFrontier(visited', frontier', frontierq', cost')
  BY <1>1, <1>2, <1>3, VisitFrontier
<1>9. visited' = {source}
  <2>1. PICK better \in SUBSET Cnet : Improves(better, source, {}, {}, {}, bp, co)
    BY <1>1, <1>2, <1>3, VisitFacts
  <2> QED BY <2>1 DEF Improves
<1>10. Positions'
  BY <1>1, <1>2, <1>4 DEF Positions
<1>11. SearchTree'
  BY <1>4, <1>5, <1>7, <1>9 DEF SearchTree, IsSearchTree
<1>12. FrontierQueue'
  BY <1>4, <1>8 DEF FrontierQueue, IsFrontier
<1>13. TracebackBranch'
  BY <1>1 DEF TracebackBranch
<1> QED BY <1>10, <1>11, <1>12, <1>13 DEF SearchInv

(* A cnet of the route becomes a root whatever the search thought of it. *)
LEMMA StartEntrySearch ==
  ASSUME TInv, SearchInv, StartEntry
  PROVE  SearchInv'
<1> DEFINE c == route[k][2]
           fr == frontier \ {c}
           bp == [backptr EXCEPT ![c] = -1]
           co == [cost EXCEPT ![c] = 0]
<1>1. /\ pc = "grow" /\ pc' = "grow" /\ k' = k + 1 /\ k <= Len(route)
      /\ UNCHANGED <<problem, current_net, net_route>>
      /\ Visit(c, visited, fr, frontierq, bp, co)
  BY DEF StartEntry, StartAt, sharingVars
<1>2. k \in 1 .. Len(route) /\ c \in Cnet /\ Len(route) \in Nat
  BY <1>1, RouteFacts DEF Running
<1>3. source' = source /\ route' = route /\ outs' = outs
  BY <1>1 DEF source, route, outs
<1>4. Rooted' = Rooted \cup {c}
  <2>1. \A j : j \in 1 .. (k + 1) - 1 <=> j \in 1 .. k - 1 \/ j = k
    BY <1>2
  <2> QED BY <1>1, <1>3, <2>1 DEF Rooted
<1>5. IsSearchTree(Rooted, visited, frontier, backptr) /\ visited = Rooted
  BY <1>1 DEF SearchInv, SearchTree, Searching
<1>6. IsFrontier(visited, frontier, frontierq, cost)
  BY <1>1 DEF SearchInv, FrontierQueue
<1>7. /\ visited \in SUBSET Cnet /\ fr \in SUBSET Cnet /\ frontierq \in SUBSET (Cnet \X Int)
      /\ bp \in [Cnet -> Cnet \cup {-1}] /\ co \in [Cnet -> Int]
      /\ \A v \in Cnet : bp[v] = IF v = c THEN -1 ELSE backptr[v]
      /\ \A v \in Cnet : co[v] = IF v = c THEN 0 ELSE cost[v]
      /\ c \notin fr /\ fr \subseteq frontier /\ frontier \subseteq fr \cup {c}
  BY <1>2 DEF TInv, TypeOK
<1> HIDE DEF c, fr, bp, co
<1>8. IsSearchTree(Rooted \cup {c}, visited \cup {c}, fr, bp)
  <2>1. \A v \in Rooted \cup {c} : bp[v] = -1
    BY <1>2, <1>5, <1>7 DEF IsSearchTree
  <2>2. \A v \in fr : bp[v] \in visited /\ v \in outs[bp[v]]
    BY <1>5, <1>7 DEF IsSearchTree
  <2>3. fr \cap (visited \cup {c}) = {}
    BY <1>5, <1>7 DEF IsSearchTree
  <2> QED BY <1>5, <2>1, <2>2, <2>3 DEF IsSearchTree
<1>9. IsSearchTree(Rooted \cup {c}, visited', frontier', backptr')
  BY <1>1, <1>2, <1>7, <1>8, VisitSearchTree
<1>10. IsFrontier(visited', frontier', frontierq', cost')
  <2>1. \A v \in visited : outs[v] \subseteq visited \cup {c} \cup fr
    BY <1>6, <1>7 DEF IsFrontier
  <2>2. \A v \in fr : <<v, co[v]>> \in frontierq
    BY <1>6, <1>7 DEF IsFrontier
  <2>3. \A e \in frontierq : e[1] \in visited \cup {c} \cup fr /\ (e[1] \in fr => co[e[1]] <= e[2])
    BY <1>6, <1>7 DEF IsFrontier
  <2> QED BY <1>1, <1>2, <1>7, <2>1, <2>2, <2>3, VisitFrontier
<1>11. visited' = visited \cup {c}
  <2>1. PICK better \in SUBSET Cnet : Improves(better, c, visited, fr, frontierq, bp, co)
    BY <1>1, <1>2, <1>7, VisitFacts
  <2> QED BY <2>1 DEF Improves
<1>12. Positions'
  BY <1>1, <1>2, <1>3 DEF Positions
<1>13. SearchTree'
  BY <1>3, <1>4, <1>5, <1>9, <1>11 DEF SearchTree, IsSearchTree
<1>14. FrontierQueue'
  BY <1>3, <1>10 DEF FrontierQueue, IsFrontier
<1>15. TracebackBranch'
  BY <1>1 DEF TracebackBranch
<1> QED BY <1>12, <1>13, <1>14, <1>15 DEF SearchInv

LEMMA StartDoneSearch ==
  ASSUME TInv, SearchInv, StartDone
  PROVE  SearchInv'
<1>1. /\ pc = "grow" /\ pc' = "search" /\ k > Len(route)
      /\ UNCHANGED <<problem, current_net, net_route, k, visited, frontier, frontierq, backptr, cost>>
  BY DEF StartDone, sharingVars, searchVars
<1>2. k <= Len(route) + 1 /\ k \in Nat /\ Len(route) \in Nat
  BY <1>1, RouteFacts DEF SearchInv, Positions, Running
<1>3. k = Len(route) + 1
  BY <1>1, <1>2
<1>4. route' = route /\ outs' = outs /\ Rooted' = Rooted
  BY <1>1 DEF source, route, outs, Rooted
<1>5. Positions'
  BY <1>1, <1>3, <1>4 DEF Positions
<1>6. SearchTree'
  BY <1>1, <1>4 DEF SearchInv, SearchTree, Searching, IsSearchTree
<1>7. FrontierQueue'
  BY <1>1, <1>4 DEF SearchInv, FrontierQueue, IsFrontier
<1>8. TracebackBranch'
  BY <1>1 DEF TracebackBranch
<1> QED BY <1>5, <1>6, <1>7, <1>8 DEF SearchInv

LEMMA PopStaleSearch ==
  ASSUME TInv, SearchInv, NEW e \in frontierq, PopStale(e)
  PROVE  SearchInv'
<1>1. /\ pc = "search" /\ pc' = "search" /\ e[1] \notin frontier /\ frontierq' = frontierq \ {e}
      /\ UNCHANGED <<problem, current_net, net_route, k, visited, frontier, backptr, cost>>
  BY DEF PopStale, sharingVars
<1>2. route' = route /\ outs' = outs /\ Rooted' = Rooted
  BY <1>1 DEF source, route, outs, Rooted
<1>3. Positions'
  BY <1>1, <1>2 DEF SearchInv, Positions
<1>4. SearchTree'
  BY <1>1, <1>2 DEF SearchInv, SearchTree, Searching, IsSearchTree
<1>5. IsFrontier(visited, frontier, frontierq \ {e}, cost)
  BY <1>1 DEF SearchInv, FrontierQueue, IsFrontier
<1>6. FrontierQueue'
  BY <1>1, <1>2, <1>5 DEF FrontierQueue, IsFrontier
<1>7. TracebackBranch'
  BY <1>1 DEF TracebackBranch
<1> QED BY <1>3, <1>4, <1>6, <1>7 DEF SearchInv

(* A cnet of the frontier hangs on vis, but nothing of vis on it: it       *)
(* closes no loop when it is visited.                                      *)
LEMMA AddLeaf ==
  ASSUME NEW R, NEW vis, NEW fr, NEW bp, NEW c \in fr, IsSearchTree(R, vis, fr, bp)
  PROVE  IsSearchTree(R, vis \cup {c}, fr \ {c}, bp)
<1>1. c \notin vis /\ c \notin R /\ bp[c] \in vis
  BY DEF IsSearchTree
<1>2. ASSUME NEW S \in SUBSET ((vis \cup {c}) \ R), S # {}
      PROVE  \E v \in S : bp[v] \notin S
  <2>1. CASE S \ {c} = {}
    BY <1>1, <1>2, <2>1
  <2>2. CASE S \ {c} # {}
    <3>1. S \ {c} \in SUBSET (vis \ R)
      BY <1>2
    <3>2. PICK v \in S \ {c} : bp[v] \notin S \ {c}
      BY <2>2, <3>1 DEF IsSearchTree
    <3>3. bp[v] \in vis
      BY <3>1, <3>2 DEF IsSearchTree
    <3> QED BY <1>1, <3>2, <3>3
  <2> QED BY <2>1, <2>2
<1>3. \A v \in ((vis \cup {c}) \cup (fr \ {c})) \ R : bp[v] \in vis \cup {c} /\ v \in outs[bp[v]]
  BY DEF IsSearchTree
<1>4. (fr \ {c}) \cap (vis \cup {c}) = {}
  BY DEF IsSearchTree
<1>5. R \subseteq vis \cup {c} /\ \A v \in R : bp[v] = -1
  BY DEF IsSearchTree
<1> QED BY <1>2, <1>3, <1>4, <1>5 DEF IsSearchTree

LEMMA PopVisitSearch ==
  ASSUME TInv, SearchInv, NEW e \in frontierq, PopVisit(e)
  PROVE  SearchInv'
<1> DEFINE c == e[1]
           fr == frontier \ {c}
           q == frontierq \ {e}
<1>1. /\ pc = "search" /\ pc' = "search" /\ c \in frontier
      /\ UNCHANGED <<problem, current_net, net_route, k>>
      /\ Visit(c, visited, fr, q, backptr, cost)
  BY DEF PopVisit, sharingVars
<1>2. /\ c \in Cnet /\ visited \in SUBSET Cnet /\ fr \in SUBSET Cnet /\ q \in SUBSET (Cnet \X Int)
      /\ backptr \in [Cnet -> Cnet \cup {-1}] /\ cost \in [Cnet -> Int]
  BY DEF TInv, TypeOK
<1>3. route' = route /\ outs' = outs /\ Rooted' = Rooted
  BY <1>1 DEF source, route, outs, Rooted
<1>4. IsSearchTree(Rooted, visited, frontier, backptr)
  BY <1>1 DEF SearchInv, SearchTree, Searching
<1>5. IsSearchTree(Rooted, visited \cup {c}, fr, backptr)
  BY <1>1, <1>4, AddLeaf
<1>6. IsFrontier(visited, frontier, frontierq, cost)
  BY <1>1 DEF SearchInv, FrontierQueue
<1>7. /\ \A v \in visited : outs[v] \subseteq visited \cup {c} \cup fr
      /\ \A v \in fr : <<v, cost[v]>> \in q
      /\ \A d \in q : d[1] \in visited \cup {c} \cup fr /\ (d[1] \in fr => cost[d[1]] <= d[2])
  <2>1. \A v \in fr : <<v, cost[v]>> \in q
    <3>1. \A v : <<v, cost[v]>>[1] = v
      OBVIOUS
    <3> QED BY <1>6, <3>1 DEF IsFrontier
  <2> QED BY <1>6, <2>1 DEF IsFrontier
<1> HIDE DEF c, fr, q
<1>8. IsSearchTree(Rooted, visited', frontier', backptr')
  BY <1>1, <1>2, <1>5, VisitSearchTree
<1>9. IsFrontier(visited', frontier', frontierq', cost')
  BY <1>1, <1>2, <1>7, VisitFrontier
<1>10. Positions'
  BY <1>1, <1>3 DEF SearchInv, Positions
<1>11. SearchTree'
  BY <1>1, <1>3, <1>8 DEF SearchTree, IsSearchTree
<1>12. FrontierQueue'
  BY <1>3, <1>9 DEF FrontierQueue, IsFrontier
<1>13. TracebackBranch'
  BY <1>1 DEF TracebackBranch
<1> QED BY <1>10, <1>11, <1>12, <1>13 DEF SearchInv

LEMMA PopTargetSearch ==
  ASSUME TInv, SearchInv, NEW e \in frontierq, PopTarget(e)
  PROVE  SearchInv'
<1>1. /\ pc = "search" /\ pc' = "traceback" /\ e[1] \in frontier
      /\ frontier' = frontier \ {e[1]} /\ cn' = e[1]
      /\ UNCHANGED <<problem, current_net, net_route, k, visited, backptr, cost>>
  BY DEF PopTarget, sharingVars
<1>2. k = Len(route) + 1 /\ k \in Nat /\ Len(route) \in Nat
  BY <1>1, RouteFacts DEF SearchInv, Positions, Running
<1>3. route' = route /\ outs' = outs /\ Rooted' = Rooted
  BY <1>1 DEF source, route, outs, Rooted
<1>4. IsSearchTree(Rooted, visited, frontier, backptr)
  BY <1>1 DEF SearchInv, SearchTree, Searching
<1>5. IsSearchTree(Rooted, visited, frontier \ {e[1]}, backptr)
  BY <1>4 DEF IsSearchTree
<1>6. Positions'
  BY <1>1, <1>2, <1>3 DEF Positions
<1>7. SearchTree'
  BY <1>1, <1>3, <1>5 DEF SearchTree, IsSearchTree
<1>8. FrontierQueue'
  BY <1>1 DEF FrontierQueue
<1>9. k .. Len(route) = {}
  BY <1>2
<1>10. Branch' = {} /\ k' .. Len(route') = {}
  BY <1>1, <1>3, <1>9 DEF Branch
<1>11. backptr[e[1]] \in visited /\ e[1] \in outs[backptr[e[1]]]
  BY <1>1, <1>4 DEF IsSearchTree
<1>12. TracebackBranch'
  BY <1>1, <1>3, <1>10, <1>11 DEF TracebackBranch, Driven
<1> QED BY <1>6, <1>7, <1>8, <1>12 DEF SearchInv

(* What one turn of traceback() adds. *)
LEMMA TracebackAppend ==
  ASSUME TInv, SearchInv, TracebackStep, backptr[cn] >= 0
  PROVE  /\ route' = Append(route, <<backptr[cn], cn>>)
         /\ Len(route') = Len(route) + 1
         /\ route'[Len(route) + 1] = <<backptr[cn], cn>>
         /\ \A j \in 1 .. Len(route) : route'[j] = route[j]
         /\ \A n \in Net : n # current_net => net_route'[n] = net_route[n]
         /\ Rooted' = Rooted
         /\ Branch' = Branch \cup {<<backptr[cn], cn>>}
<1> DEFINE e == <<backptr[cn], cn>>
<1>1. /\ pc = "traceback" /\ cn \in Cnet /\ backptr[cn] \in Cnet
      /\ UNCHANGED <<problem, current_net, k>>
      /\ net_route' = [net_route EXCEPT ![current_net] = Append(@, e)]
  BY DEF TracebackStep, TracebackIf, TInv, TypeOK
<1>2. /\ current_net \in Net /\ route \in Seq(Edge) /\ Len(route) \in Nat
      /\ k \in Nat \ {0} /\ k <= Len(route) + 1
  BY <1>1, RouteFacts DEF Running, SearchInv, Positions
<1>3. route' = Append(route, e) /\ \A n \in Net : n # current_net => net_route'[n] = net_route[n]
  BY <1>1, <1>2 DEF route, TInv, TypeOK
<1>4. e \in Edge
  BY <1>1 DEF Edge
<1>5. /\ Len(route') = Len(route) + 1 /\ route'[Len(route) + 1] = e
      /\ \A j \in 1 .. Len(route) : route'[j] = route[j]
  <2> HIDE DEF e
  <2> QED BY <1>2, <1>3, <1>4
<1> HIDE DEF e
<1>6. Rooted' = Rooted
  <2>1. source' = source /\ 1 .. k' - 1 = 1 .. k - 1
    BY <1>1 DEF source
  <2>2. \A j \in 1 .. k - 1 : j \in 1 .. Len(route)
    BY <1>2
  <2>3. \A j \in 1 .. k - 1 : route'[j] = route[j]
    BY <1>5, <2>2
  <2> QED BY <2>1, <2>3 DEF Rooted
<1>7. Branch' = Branch \cup {e}
  <2>1. \A j : j \in k .. Len(route') <=> j \in k .. Len(route) \/ j = Len(route) + 1
    BY <1>2, <1>5
  <2>2. \A j \in k .. Len(route) : route'[j] = route[j]
    BY <1>2, <1>5
  <2> QED BY <1>1, <1>5, <2>1, <2>2 DEF Branch
<1> QED BY <1>3, <1>5, <1>6, <1>7 DEF e

(* The branch never runs into itself: the back pointers of its cnets would *)
(* be a loop among visited cnets.                                          *)
LEMMA NoLoop ==
  ASSUME TInv, SearchInv, pc = "traceback", cn >= 0, cn \notin Rooted
  PROVE  backptr[cn] \notin Driven(Branch) \cup {cn}
<1> DEFINE D == Driven(Branch) \cup {cn}
<1>1. IsSearchTree(Rooted, visited, frontier, backptr)
  BY DEF SearchInv, SearchTree, Searching
<1>2. \A e \in Branch : e[1] = backptr[e[2]] /\ e[1] \in visited /\ e[2] \notin Rooted
                          /\ e[1] \in D
  BY DEF SearchInv, TracebackBranch, BranchEnd
<1>3. backptr[cn] \in visited
  BY DEF SearchInv, TracebackBranch
<1>4. \A v \in Driven(Branch) : backptr[v] \in visited /\ v \notin Rooted /\ backptr[v] \in D
  BY <1>2 DEF Driven
<1> SUFFICES ASSUME backptr[cn] \in D PROVE FALSE
  OBVIOUS
<1>5. \A v \in D : backptr[v] \in D \cap visited /\ v \notin Rooted
  BY <1>3, <1>4
<1> HIDE DEF D
<1>6. D \cap visited \in SUBSET (visited \ Rooted) /\ D \cap visited # {}
  BY <1>3, <1>5
<1>7. \E v \in D \cap visited : backptr[v] \notin D \cap visited
  BY <1>1, <1>6 DEF IsSearchTree
<1> QED BY <1>5, <1>7

LEMMA TracebackStepSearch ==
  ASSUME TInv, SearchInv, TracebackStep
  PROVE  SearchInv'
<1>1. /\ pc = "traceback" /\ pc' = "traceback" /\ cn \in Cnet /\ cn >= 0 /\ cn' = backptr[cn]
      /\ UNCHANGED <<problem, current_net, k, visited, frontier, backptr>>
  BY DEF TracebackStep, TracebackIf, TInv, TypeOK, searchVars
<1>2. IsSearchTree(Rooted, visited, frontier, backptr) /\ visited \in SUBSET Cnet
  BY <1>1 DEF SearchInv, SearchTree, Searching, TInv, TypeOK
<1>3. outs' = outs
  BY <1>1 DEF outs
<1>4. /\ k \in Nat \ {0} /\ Len(route) \in Nat /\ k <= Len(route) + 1
      /\ \A j \in 1 .. Len(route) : route[j] \in Edge
  BY <1>1, RouteFacts DEF Running, SearchInv, Positions
<1>5. \A v \in Cnet : v >= 0 /\ v # -1
  BY DEF Cnet
<1>6. ASSUME Rooted' = Rooted, k <= Len(route') + 1, TracebackBranch' PROVE SearchInv'
  <2>1. SearchTree'
    BY <1>1, <1>2, <1>3, <1>6 DEF SearchTree, IsSearchTree
  <2> QED BY <1>1, <1>6, <2>1 DEF SearchInv, Positions, FrontierQueue
<1>7. CASE backptr[cn] >= 0
  <2> DEFINE e == <<backptr[cn], cn>>
  <2>1. /\ Len(route') = Len(route) + 1 /\ route'[Len(route) + 1] = e
        /\ \A j \in 1 .. Len(route) : route'[j] = route[j]
        /\ Rooted' = Rooted /\ Branch' = Branch \cup {e}
    BY <1>7, TracebackAppend
  <2>2. e[1] = backptr[cn] /\ e[2] = cn
    OBVIOUS
  <2> HIDE DEF e
  <2>3. cn \notin Rooted
    BY <1>2, <1>7 DEF IsSearchTree
  <2>4. backptr[cn] \in visited /\ cn \in outs[backptr[cn]]
    BY <1>1, <2>3 DEF SearchInv, TracebackBranch
  <2>5. Driven(Branch') = Driven(Branch) \cup {cn}
    BY <2>1, <2>2 DEF Driven
  <2>6. cn' \notin Driven(Branch')
    BY <1>1, <2>3, <2>5, NoLoop
  <2>7. cn' \in Rooted \/ (backptr[cn'] \in visited /\ cn' \in outs[backptr[cn']])
    BY <1>1, <1>2, <2>4 DEF IsSearchTree
  <2>8. ASSUME NEW d \in Branch'
        PROVE  /\ d[1] = backptr[d[2]] /\ d[1] \in visited
               /\ d[2] \in outs[d[1]] /\ d[2] \notin Rooted
               /\ d[1] \in Driven(Branch') \cup {cn'}
    <3>1. CASE d \in Branch
      BY <1>1, <2>5, <3>1 DEF SearchInv, TracebackBranch, BranchEnd
    <3>2. CASE d = e
      BY <1>1, <2>2, <2>3, <2>4, <3>2
    <3> QED BY <2>1, <2>8, <3>1, <3>2
  <2>9. ASSUME NEW i \in k .. Len(route'), NEW j \in k .. Len(route'), route'[i][2] = route'[j][2]
        PROVE  i = j
    <3>1. \A m \in k .. Len(route') :
            m = Len(route) + 1 \/ (m \in k .. Len(route) /\ m \in 1 .. Len(route))
      BY <1>4, <2>1
    <3>2. \A m \in k .. Len(route) : route[m][2] # cn
      BY <1>1 DEF SearchInv, TracebackBranch, Driven, Branch
    <3>3. \A m, l \in k .. Len(route) : route[m][2] = route[l][2] => m = l
      BY <1>1 DEF SearchInv, TracebackBranch
    <3> QED BY <2>1, <2>2, <2>9, <3>1, <3>2, <3>3
  <2>10. TracebackBranch'
    <3>1. BranchEnd' = {cn'}
      BY <1>1, <1>7 DEF BranchEnd
    <3> QED BY <1>1, <1>3, <2>1, <2>6, <2>7, <2>8, <2>9, <3>1 DEF TracebackBranch
  <2> QED BY <1>4, <1>6, <2>1, <2>10
<1>8. CASE ~(backptr[cn] >= 0)
  <2>1. UNCHANGED net_route
    BY <1>8 DEF TracebackStep, TracebackIf, sharingVars
  <2>2. route' = route /\ Rooted' = Rooted /\ Branch' = Branch
    BY <1>1, <2>1 DEF route, Rooted, Branch, source
  <2>3. backptr[cn] \notin Cnet
    BY <1>5, <1>8
  <2>4. cn \in Rooted /\ cn' = -1
    BY <1>1, <1>2, <1>8, <2>3 DEF SearchInv, TracebackBranch, TInv, TypeOK
  <2>5. \A v \in Driven(Branch) : v \in Cnet
    <3>1. \A j \in k .. Len(route) : j \in 1 .. Len(route)
      BY <1>4
    <3> QED BY <1>4, <3>1 DEF Driven, Branch, Edge
  <2>6. cn' \notin Driven(Branch')
    BY <1>5, <2>2, <2>4, <2>5
  <2>7. TracebackBranch'
    <3>1. ~(cn' >= 0) /\ BranchEnd' = Rooted /\ BranchEnd = {cn}
      BY <1>1, <2>2, <2>4 DEF BranchEnd
    <3>2. \A d \in Branch : d[1] \in Driven(Branch) \cup Rooted
      BY <1>1, <2>4, <3>1 DEF SearchInv, TracebackBranch
    <3> QED BY <1>1, <1>3, <2>2, <2>6, <3>1, <3>2 DEF SearchInv, TracebackBranch
  <2> QED BY <1>4, <1>6, <2>2, <2>7
<1> QED BY <1>7, <1>8

LEMMA InitSearch == Init => SearchInv
BY DEF Init, SearchInv, Positions, SearchTree, FrontierQueue, TracebackBranch, Searching

LEMMA NextSearch ==
  ASSUME TInv, SearchInv, [Next]_vars
  PROVE  SearchInv'
<1>1. CASE UNCHANGED vars
  BY <1>1 DEF vars, SearchInv, Positions, SearchTree, FrontierQueue, TracebackBranch, Searching,
       IsSearchTree, IsFrontier, Rooted, Branch, BranchEnd, Driven, route, source, outs
<1>2. CASE \/ SkipNet \/ BeginNet \/ Success \/ NextPass \/ RipupEntry \/ RipupClear
           \/ TracebackDone \/ Stopped
  <2>1. ~Searching'
    BY <1>2 DEF Searching, Final, SkipNet, BeginNet, Success, NextPass, EndPass, RipupEntry, RipupAt,
         RipupClear, TracebackDone, TracebackEnd, Stopped, vars
  <2> QED BY <2>1, OutsideSearch
<1> QED BY <1>1, <1>2, StartSourceSearch, StartEntrySearch, StartDoneSearch,
        PopStaleSearch, PopVisitSearch, PopTargetSearch, TracebackStepSearch DEF Next, Search

-----------------------------------------------------------------------------
(* The trees *)

(* A search starts with the whole tree, and a branch is not part of it.    *)
LEMMA RootedTree ==
  ASSUME TInv, SearchInv, pc \in {"search", "traceback"}
  PROVE  Rooted = Driven(Tree(current_net)) \cup {source}
<1>1. k \in Nat /\ Len(route) \in Nat /\ (pc = "search" => k = Len(route) + 1)
  BY RouteFacts DEF Running, SearchInv, Positions
<1>2. Finished(current_net) = 1 .. k - 1
  BY <1>1 DEF Finished, route
<1> QED BY <1>2 DEF Rooted, Tree, Driven, route

LEMMA SameTree ==
  ASSUME NEW n, Finished(n)' = Finished(n),
         \A j \in Finished(n) : net_route'[n][j] = net_route[n][j]
  PROVE  Tree(n)' = Tree(n)
BY DEF Tree

(* Only the end of ripup() and of traceback() change a tree. *)
LEMMA TreesKept ==
  ASSUME TInv, SearchInv, [Next]_vars, ~RipupClear, ~TracebackDone
  PROVE  /\ problem' = problem
         /\ \A n \in Net :
              /\ Finished(n)' = Finished(n)
              /\ \A j \in Finished(n) : net_route'[n][j] = net_route[n][j]
              /\ Tree(n)' = Tree(n)
<1>0. problem' = problem
  BY DEF Next, Search, vars, SkipNet, BeginNet, Success, NextPass, EndPass, RipupEntry, RipupAt,
       StartSource, StartEntry, StartAt, StartDone, PopStale, PopVisit, PopTarget,
       TracebackStep, TracebackIf, Stopped
<1> SUFFICES ASSUME NEW n \in Net
             PROVE  /\ Finished(n)' = Finished(n)
                    /\ \A j \in Finished(n) : net_route'[n][j] = net_route[n][j]
  BY <1>0, SameTree
<1>1. CASE UNCHANGED vars
  BY <1>1 DEF vars, Finished
<1>2. CASE \/ SkipNet \/ BeginNet \/ Success \/ NextPass \/ RipupEntry
           \/ StartSource \/ StartEntry \/ StartDone
           \/ \E e \in frontierq : PopStale(e) \/ PopVisit(e)
           \/ Stopped
  <2>1. UNCHANGED <<problem, net_route>> /\ pc # "traceback" /\ pc' # "traceback"
    BY <1>2 DEF sharingVars, SkipNet, BeginNet, Success, NextPass, EndPass, RipupEntry, RipupAt,
         StartSource, StartEntry, StartAt, StartDone, PopStale, PopVisit, Stopped, Final, vars
  <2> QED BY <2>1 DEF Finished
<1>3. ASSUME NEW e \in frontierq, PopTarget(e)
      PROVE  /\ Finished(n)' = Finished(n)
             /\ \A j \in Finished(n) : net_route'[n][j] = net_route[n][j]
  <2>1. /\ UNCHANGED <<problem, net_route, current_net, k>>
        /\ pc = "search" /\ pc' = "traceback"
    BY <1>3 DEF PopTarget, sharingVars
  <2>2. k = Len(route) + 1 /\ Len(route) \in Nat
    BY <2>1, RouteFacts DEF Running, SearchInv, Positions
  <2>3. n = current_net => k - 1 = Len(net_route[n])
    BY <2>2 DEF route
  <2> QED BY <2>1, <2>3 DEF Finished
<1>4. CASE TracebackStep
  <2>1. /\ UNCHANGED <<problem, current_net, k, pc>> /\ pc = "traceback" /\ current_net \in Net
        /\ k \in Nat /\ Len(route) \in Nat /\ k <= Len(route) + 1
    BY <1>4, RouteFacts DEF TracebackStep, TracebackIf, Running, SearchInv, Positions
  <2>2. CASE backptr[cn] >= 0
    <3>1. CASE n = current_net
      <4>1. Finished(n)' = 1 .. k - 1 /\ Finished(n) = 1 .. k - 1
        BY <2>1, <3>1 DEF Finished
      <4>2. \A j \in 1 .. k - 1 : j \in 1 .. Len(route)
        BY <2>1
      <4>3. \A j \in 1 .. Len(route) : route'[j] = route[j]
        BY <1>4, <2>2, TracebackAppend
      <4> QED BY <2>1, <3>1, <4>1, <4>2, <4>3 DEF route
    <3>2. CASE n # current_net
      <4>1. net_route'[n] = net_route[n]
        BY <1>4, <2>2, <3>2, TracebackAppend
      <4> QED BY <2>1, <3>2, <4>1 DEF Finished
    <3> QED BY <3>1, <3>2
  <2>3. CASE ~(backptr[cn] >= 0)
    <3>1. UNCHANGED net_route
      BY <1>4, <2>3 DEF TracebackStep, TracebackIf, sharingVars
    <3> QED BY <2>1, <3>1 DEF Finished
  <2> QED BY <2>2, <2>3
<1> QED BY <1>1, <1>2, <1>3, <1>4 DEF Next, Search

LEMMA RipupClearTree ==
  ASSUME TInv, RipupClear
  PROVE  /\ problem' = problem /\ current_net' = current_net /\ current_net \in Net
         /\ net_route'[current_net] = <<>>
         /\ Finished(current_net)' = {} /\ Tree(current_net)' = {}
         /\ \A n \in Net : n # current_net =>
              net_route'[n] = net_route[n] /\ Finished(n)' = Finished(n) /\ Tree(n)' = Tree(n)
<1>1. /\ UNCHANGED <<problem, current_net>> /\ pc = "ripup" /\ pc' = "start" /\ current_net \in Net
      /\ net_route' = [net_route EXCEPT ![current_net] = <<>>]
  BY RouteFacts DEF RipupClear, Running
<1>2. /\ net_route'[current_net] = <<>>
      /\ \A n \in Net : n # current_net => net_route'[n] = net_route[n]
  BY <1>1 DEF TInv, TypeOK
<1>3. Finished(current_net)' = 1 .. 0
  <2>1. Len(net_route[current_net])' = 0
    BY <1>1, <1>2
  <2> QED BY <1>1, <2>1 DEF Finished
<1>4. \A n \in Net : n # current_net => Finished(n)' = Finished(n)
  BY <1>1, <1>2 DEF Finished
<1>5. 1 .. 0 = {}
  OBVIOUS
<1> QED BY <1>1, <1>2, <1>3, <1>4, <1>5 DEF Tree

LEMMA TracebackDoneTree ==
  ASSUME TInv, SearchInv, TracebackDone, NEW c \in Net, c = current_net
  PROVE  /\ problem' = problem /\ net_route' = net_route
         /\ Finished(c)' = 1 .. Len(route)
         /\ Tree(c)' = Tree(c) \cup Branch
         /\ \A n \in Net : n # c => Finished(n)' = Finished(n) /\ Tree(n)' = Tree(n)
<1>1. /\ UNCHANGED <<problem, net_route>> /\ pc = "traceback" /\ pc' # "traceback"
      /\ k \in Nat \ {0} /\ Len(route) \in Nat /\ k <= Len(route) + 1
  BY RouteFacts DEF TracebackDone, TracebackEnd, sharingVars, Running, SearchInv, Positions
<1>2. Finished(c)' = 1 .. Len(route) /\ Finished(c) = 1 .. k - 1
  BY <1>1 DEF Finished, route
<1>3. \A j : j \in 1 .. Len(route) <=> j \in 1 .. k - 1 \/ j \in k .. Len(route)
  BY <1>1
<1>4. Tree(c)' = Tree(c) \cup Branch
  BY <1>1, <1>2, <1>3 DEF Tree, Branch, route
<1>5. \A n \in Net : n # c => Finished(n)' = Finished(n)
  BY <1>1 DEF Finished
<1> QED BY <1>1, <1>2, <1>4, <1>5 DEF Tree

(* B follows the back pointers bp, which are no loop in vis, to R.         *)
IsBranch(B, R, vis, bp) ==
  /\ \A S \in SUBSET (vis \ R) : S # {} => \E v \in S : bp[v] \notin S
  /\ \A e \in B :
       /\ e[1] = bp[e[2]] /\ e[1] \in vis
       /\ e[2] \in outs[e[1]] /\ e[2] \notin R
       /\ e[1] \in Driven(B) \cup R

(* A branch that starts on a tree and follows the back pointers of a       *)
(* search makes a larger tree.                                             *)
LEMMA BranchGrowsTree ==
  ASSUME NEW n, NEW T \in SUBSET Edge, NEW B \in SUBSET Edge, NEW vis, NEW bp, NEW R,
         IsRouteTree(T, n), R = Driven(T) \cup {problem.source[n]},
         IsBranch(B, R, vis, bp)
  PROVE  IsRouteTree(T \cup B, n)
<1>0. /\ \A S \in SUBSET (vis \ R) : S # {} => \E v \in S : bp[v] \notin S
      /\ \A e \in B :
           /\ e[1] = bp[e[2]] /\ e[1] \in vis
           /\ e[2] \in outs[e[1]] /\ e[2] \notin R
           /\ e[1] \in Driven(B) \cup R
  BY DEF IsBranch
<1>1. Driven(T \cup B) = Driven(T) \cup Driven(B)
  BY DEF Driven
<1>2. \A e \in T \cup B : e[2] \in outs[e[1]]
  BY <1>0 DEF IsRouteTree
<1>3. ASSUME NEW d \in T \cup B, NEW e \in T \cup B, d[2] = e[2] PROVE d = e
  <2>1. CASE d \in T /\ e \in T
    BY <1>3, <2>1 DEF IsRouteTree
  <2>2. CASE d \in B /\ e \in B
    <3>1. d = <<d[1], d[2]>> /\ e = <<e[1], e[2]>>
      BY <2>2 DEF Edge
    <3>2. d[1] = e[1]
      BY <1>0, <1>3, <2>2
    <3> QED BY <1>3, <3>1, <3>2
  <2>3. \A f \in T : f[2] \in R
    BY DEF Driven
  <2> QED BY <1>0, <1>3, <2>1, <2>2, <2>3
<1>4. problem.source[n] \notin Driven(T \cup B)
  BY <1>0, <1>1 DEF IsRouteTree, Driven
<1>5. \A e \in T \cup B : e[1] \in Driven(T \cup B) \cup {problem.source[n]}
  BY <1>0, <1>1 DEF IsRouteTree
<1>6. ASSUME NEW S \in (SUBSET Driven(T \cup B)) \ {{}}
      PROVE  \E e \in T \cup B : e[2] \in S /\ e[1] \notin S
  <2>1. CASE S \cap Driven(T) # {}
    <3>1. PICK e \in T : e[2] \in S \cap Driven(T) /\ e[1] \notin S \cap Driven(T)
      BY <2>1 DEF IsRouteTree
    <3>2. e[1] \in Driven(T) \cup {problem.source[n]}
      BY <3>1 DEF IsRouteTree
    <3> QED BY <1>4, <3>1, <3>2
  <2>2. CASE S \cap Driven(T) = {}
    <3>1. S \subseteq Driven(B) /\ S # {}
      BY <1>1, <2>2
    <3>2. \A v \in S : \E e \in B : e[2] = v /\ e[1] = bp[v] /\ bp[v] \in vis /\ v \notin R
      BY <1>0, <3>1 DEF Driven
    <3>3. \E v \in S : bp[v] \notin S
      <4>1. CASE S \cap vis = {}
        BY <3>1, <3>2, <4>1
      <4>2. CASE S \cap vis # {}
        <5>1. S \cap vis \in SUBSET (vis \ R)
          BY <3>2
        <5>2. \E v \in S \cap vis : bp[v] \notin S \cap vis
          BY <1>0, <4>2, <5>1
        <5> QED BY <3>2, <5>2
      <4> QED BY <4>1, <4>2
    <3> QED BY <3>2, <3>3
  <2> QED BY <2>1, <2>2
<1> QED BY <1>2, <1>3, <1>4, <1>5, <1>6 DEF IsRouteTree

(* No cnet is entered twice by the finished branches of n. *)
Distinct(n) == \A i, j \in Finished(n) : net_route[n][i][2] = net_route[n][j][2] => i = j

LEMMA InitTrees == Init => RouteTrees
<1> SUFFICES ASSUME Init, NEW n \in Net
             PROVE  IsRouteTree(Tree(n), n) /\ Distinct(n)
  BY DEF RouteTrees, Distinct
<1>1. Finished(n) = 1 .. 0
  BY DEF Init, Finished
<1>2. Finished(n) = {}
  BY <1>1
<1>3. Tree(n) = {} /\ Driven({}) = {}
  BY <1>2 DEF Tree, Driven
<1> QED BY <1>2, <1>3 DEF IsRouteTree, Distinct

LEMMA NextTrees ==
  ASSUME TInv, SearchInv, RouteTrees, [Next]_vars
  PROVE  RouteTrees'
<1>1. ASSUME problem' = problem, NEW n \in Net, Tree(n)' = Tree(n), Finished(n)' = Finished(n),
             \A j \in Finished(n) : net_route'[n][j] = net_route[n][j]
      PROVE  IsRouteTree(Tree(n), n)' /\ Distinct(n)'
  BY <1>1 DEF RouteTrees, IsRouteTree, outs, Distinct
<1>2. CASE ~RipupClear /\ ~TracebackDone
  <2>1. ASSUME NEW n \in Net PROVE IsRouteTree(Tree(n), n)' /\ Distinct(n)'
    <3>1. /\ problem' = problem /\ Tree(n)' = Tree(n) /\ Finished(n)' = Finished(n)
          /\ \A j \in Finished(n) : net_route'[n][j] = net_route[n][j]
      BY <1>2, TreesKept
    <3> QED BY <1>1, <3>1
  <2> QED BY <2>1 DEF RouteTrees, Distinct
<1>3. CASE RipupClear
  <2>1. ASSUME NEW n \in Net, n # current_net PROVE IsRouteTree(Tree(n), n)' /\ Distinct(n)'
    BY <1>1, <1>3, <2>1, RipupClearTree
  <2>2. ASSUME NEW n \in Net, n = current_net PROVE IsRouteTree(Tree(n), n)' /\ Distinct(n)'
    <3>1. Finished(n)' = {} /\ Tree(n)' = {} /\ Driven({}) = {}
      BY <1>3, <2>2, RipupClearTree DEF Driven
    <3> QED BY <3>1 DEF IsRouteTree, Distinct
  <2> QED BY <2>1, <2>2 DEF RouteTrees, Distinct
<1>4. CASE TracebackDone
  <2>1. /\ pc = "traceback" /\ ~(cn >= 0) /\ k \in Nat \ {0} /\ Len(route) \in Nat
        /\ k <= Len(route) + 1 /\ \A j \in 1 .. Len(route) : route[j] \in Edge
        /\ current_net \in Net
    <3>1. pc = "traceback" /\ cn < 0
      BY <1>4 DEF TracebackDone, TracebackEnd
    <3>2. ~(cn >= 0)
      <4>1. cn \in Cnet \cup {-1}
        BY DEF TInv, TypeOK
      <4> QED BY <3>1, <4>1, SizeAssumption DEF Cnet
    <3>3. k <= Len(route) + 1
      BY <3>1 DEF SearchInv, Positions
    <3>4. pc \in Running \ {"net"}
      BY <3>1 DEF Running
    <3> QED BY <3>1, <3>2, <3>3, <3>4, RouteFacts
  <2>2. ASSUME NEW n \in Net, n # current_net PROVE IsRouteTree(Tree(n), n)' /\ Distinct(n)'
    BY <1>1, <1>4, <2>1, <2>2, TracebackDoneTree
  <2>3. ASSUME NEW c \in Net, c = current_net PROVE IsRouteTree(Tree(c), c)' /\ Distinct(c)'
    <3>1. /\ problem' = problem /\ net_route' = net_route
          /\ Finished(c)' = 1 .. Len(route) /\ Tree(c)' = Tree(c) \cup Branch
      BY <1>4, <2>3, TracebackDoneTree
    <3>2. Finished(c) = 1 .. k - 1
      BY <2>1, <2>3 DEF Finished
    <3>3. Tree(c) \in SUBSET Edge /\ Branch \in SUBSET Edge
      <4>1. /\ \A j \in 1 .. k - 1 : j \in 1 .. Len(route)
            /\ \A j \in k .. Len(route) : j \in 1 .. Len(route)
        BY <2>1
      <4> QED BY <2>1, <2>3, <3>2, <4>1 DEF Tree, Branch, route
    <3>4. Rooted = Driven(Tree(c)) \cup {problem.source[c]}
      BY <2>1, <2>3, RootedTree DEF source
    <3>5. IsRouteTree(Tree(c) \cup Branch, c)
      <4>1. IsRouteTree(Tree(c), c)
        BY DEF RouteTrees
      <4>2. IsSearchTree(Rooted, visited, frontier, backptr)
        BY <2>1 DEF SearchInv, SearchTree, Searching
      <4>3. \A S \in SUBSET (visited \ Rooted) : S # {} => \E v \in S : backptr[v] \notin S
        BY <4>2 DEF IsSearchTree
      <4>4. \A e \in Branch :
              /\ e[1] = backptr[e[2]] /\ e[1] \in visited
              /\ e[2] \in outs[e[1]] /\ e[2] \notin Rooted
              /\ e[1] \in Driven(Branch) \cup Rooted
        BY <2>1 DEF SearchInv, TracebackBranch, BranchEnd
      <4>5. IsBranch(Branch, Rooted, visited, backptr)
        BY <4>3, <4>4 DEF IsBranch
      <4> QED BY <3>3, <3>4, <4>1, <4>5, BranchGrowsTree
    <3>6. IsRouteTree(Tree(c), c)'
      BY <3>1, <3>5 DEF IsRouteTree, outs
    <3>7. Distinct(c)'
      <4>1. \A j \in 1 .. Len(route) : j \in 1 .. k - 1 \/ j \in k .. Len(route)
        BY <2>1
      <4>2. \A i, j \in 1 .. k - 1 : route[i][2] = route[j][2] => i = j
        BY <2>3, <3>2 DEF RouteTrees, route
      <4>3. \A i, j \in k .. Len(route) : route[i][2] = route[j][2] => i = j
        BY <2>1 DEF SearchInv, TracebackBranch
      <4>4. \A i \in 1 .. k - 1 : route[i][2] \in Rooted
        BY DEF Rooted
      <4>5. \A j \in k .. Len(route) : route[j][2] \notin Rooted
        BY <2>1 DEF SearchInv, TracebackBranch, Branch
      <4>6. \A i, j \in 1 .. Len(route) : route[i][2] = route[j][2] => i = j
        BY <4>1, <4>2, <4>3, <4>4, <4>5
      <4> QED BY <2>3, <3>1, <4>6 DEF Distinct, route
    <3> QED BY <3>6, <3>7
  <2> QED BY <2>1, <2>2, <2>3 DEF RouteTrees, Distinct
<1> QED BY <1>2, <1>3, <1>4

(* On every chip, whatever is ripped up and rerouted, the finished         *)
(* branches of every net form a tree of switches from its source, and no   *)
(* cnet is entered twice.                                                  *)
THEOREM RoutesAreTrees == Spec => []RouteTrees
<1>1. Init => TInv /\ SearchInv /\ RouteTrees
  BY InitType, InitSearch, InitTrees
<1>2. TInv /\ SearchInv /\ RouteTrees /\ [Next]_vars => (TInv /\ SearchInv /\ RouteTrees)'
  BY NextType, NextSearch, NextTrees
<1> QED BY <1>1, <1>2, PTL DEF Spec
-----------------------------------------------------------------------------
(* What the passes achieve: no search fails, no connection is lost,        *)
(* success means a legal routing, and the router implements Routing.       *)

(* The targets still to be found are those that are not in the tree yet,   *)
(* and no search has visited one of them.                                  *)
Unrouted ==
  /\ pc = "ripup" => unrouted = targets
  /\ pc \in {"start", "grow", "search"} =>
       unrouted = targets \ Driven(Tree(current_net)) /\ unrouted # {}
  /\ Searching => visited \cap unrouted = {}
  /\ pc = "traceback" =>
       /\ unrouted = targets \ (Rooted \cup Driven(Branch) \cup {cn})
       /\ (targets \cap (Driven(Branch) \cup {cn})) \ Rooted # {}

SharesCnet(m, n) == Driven(Tree(m)) \cap Driven(Tree(n)) # {}

(* Where the passes are: nets whose turn has not come have no route, a net *)
(* is ripped up again only because it stands in another's way.             *)
Passes ==
  /\ passes = 1 => \A n \in Net : n > current_net \/ (n = current_net /\ pc \in {"net", "ripup"})
                                    => net_route[n] = <<>>
  /\ pc = "ripup" /\ passes > 1 =>
       /\ Connects(Tree(current_net), current_net)
       /\ \E m \in Net \ {current_net} : SharesCnet(m, current_net)
  /\ pc = "routed" /\ max_passes > 0 => current_net = NNet /\ n_shared = 0

RouterInv ==
  /\ TInv /\ DemandAccounting
  /\ SearchInv /\ RouteTrees
  /\ Unrouted /\ RoutedNetsConnected /\ Passes

-----------------------------------------------------------------------------
(* Targets *)

(* What the chip provides for a net. *)
LEMMA NetFacts ==
  ASSUME TInv, NEW n \in Net
  PROVE  /\ problem.targets[n] \in SUBSET Cnet /\ problem.targets[n] # {}
         /\ problem.source[n] \in Cnet /\ problem.source[n] \notin problem.targets[n]
         /\ \A i \in Cnet : problem.source[n] \notin problem.outs[i]
         /\ \A i \in Cnet : i \notin problem.outs[i]
         /\ \A S \in SUBSET Cnet :
              problem.source[n] \in S /\ ClosedUnder(problem.outs, S) => problem.targets[n] \subseteq S
<1>1. problem \in Problem /\ WellFormed(problem)
  BY ProblemsAssumption DEF TInv
<1>2. problem.targets[n] \in SUBSET Cnet /\ problem.source[n] \in Cnet
  BY <1>1 DEF Problem
<1> QED BY <1>1, <1>2 DEF WellFormed

(* The start of a search and its first visits. *)
LEMMA StartUnrouted ==
  ASSUME TInv, SearchInv, Unrouted, StartSource \/ StartEntry
  PROVE  Unrouted'
<1>1. /\ pc \in {"start", "grow"} /\ pc' = "grow" /\ UNCHANGED <<problem, current_net, net_route, unrouted>>
  BY DEF StartSource, StartEntry, StartAt, sharingVars
<1>2. current_net \in Net /\ Len(route) \in Nat /\ k \in Nat \ {0}
  BY <1>1, RouteFacts DEF Running
<1>3. Tree(current_net)' = Tree(current_net) /\ targets' = targets
  BY <1>1 DEF Tree, Finished, targets
<1>4. unrouted = targets \ Driven(Tree(current_net)) /\ unrouted # {}
  BY <1>1 DEF Unrouted
<1>5. visited' \cap unrouted = {}
  <2>1. CASE StartSource
    <3>1. /\ Visit(source, {}, {}, {}, [backptr EXCEPT ![source] = -1], [cost EXCEPT ![source] = 0])
          /\ source \in Cnet /\ source \notin targets
      BY <1>2, <2>1, NetFacts DEF StartSource, source, targets
    <3>2. visited' = {} \cup {source}
      BY <3>1, Zenon DEF Visit
    <3> QED BY <1>4, <3>1, <3>2
  <2>2. CASE StartEntry
    <3> DEFINE c == route[k][2]
    <3>1. /\ Visit(c, visited, frontier \ {c}, frontierq, [backptr EXCEPT ![c] = -1], [cost EXCEPT ![c] = 0])
          /\ pc = "grow" /\ k <= Len(route)
      BY <2>2 DEF StartEntry, StartAt
    <3>2. visited' = visited \cup {c}
      BY <3>1, Zenon DEF Visit
    <3>3. k \in 1 .. Len(route)
      BY <1>2, <3>1
    <3>4. c \in Driven(Tree(current_net))
      BY <3>1, <3>3 DEF Tree, Finished, Driven, route
    <3>5. visited \cap unrouted = {}
      BY <3>1 DEF Unrouted, Searching
    <3> QED BY <1>4, <3>2, <3>4, <3>5
  <2> QED BY <2>1, <2>2
<1> QED BY <1>1, <1>3, <1>4, <1>5 DEF Unrouted

LEMMA SearchUnrouted ==
  ASSUME TInv, SearchInv, Unrouted,
         StartDone \/ \E e \in frontierq : PopStale(e) \/ PopVisit(e)
  PROVE  Unrouted'
<1>1. /\ pc \in {"grow", "search"} /\ pc' = "search"
      /\ UNCHANGED <<problem, current_net, net_route, unrouted>>
  BY DEF StartDone, PopStale, PopVisit, sharingVars
<1>2. Tree(current_net)' = Tree(current_net) /\ targets' = targets
  BY <1>1 DEF Tree, Finished, targets
<1>3. visited \cap unrouted = {}
  BY <1>1 DEF Unrouted, Searching
<1>4. visited' \cap unrouted = {}
  <2>1. CASE StartDone \/ \E e \in frontierq : PopStale(e)
    BY <1>3, <2>1 DEF StartDone, PopStale, searchVars
  <2>2. ASSUME NEW e \in frontierq, PopVisit(e) PROVE visited' \cap unrouted = {}
    <3>1. /\ Visit(e[1], visited, frontier \ {e[1]}, frontierq \ {e}, backptr, cost)
          /\ e[1] \notin unrouted
      BY <2>2 DEF PopVisit
    <3>2. visited' = visited \cup {e[1]}
      BY <3>1, Zenon DEF Visit
    <3> QED BY <1>3, <3>1, <3>2
  <2> QED BY <2>1, <2>2
<1> QED BY <1>1, <1>2, <1>4 DEF Unrouted

LEMMA PopTargetUnrouted ==
  ASSUME TInv, SearchInv, Unrouted, NEW e \in frontierq, PopTarget(e)
  PROVE  Unrouted'
<1> DEFINE t == e[1]
<1>1. /\ pc = "search" /\ pc' = "traceback" /\ t \in frontier /\ t \in unrouted
      /\ unrouted' = unrouted \ {t} /\ cn' = t
      /\ UNCHANGED <<problem, current_net, net_route, k, visited>>
  BY DEF PopTarget, sharingVars
<1>2. /\ current_net \in Net /\ Len(route) \in Nat /\ k = Len(route) + 1
  BY <1>1, RouteFacts DEF Running, SearchInv, Positions
<1>3. targets' = targets /\ Rooted' = Rooted /\ source \notin targets
  BY <1>1, <1>2, NetFacts DEF targets, Rooted, source, route
<1>4. Branch' = {}
  <2>1. k .. Len(route) = {}
    BY <1>2
  <2> QED BY <1>1, <2>1 DEF Branch, route
<1>5. unrouted = targets \ Driven(Tree(current_net)) /\ visited \cap unrouted = {}
  BY <1>1 DEF Unrouted, Searching
<1>6. Rooted = Driven(Tree(current_net)) \cup {source}
  BY <1>1, RootedTree
<1>7. t \in targets /\ t \notin Rooted
  BY <1>1, <1>3, <1>5, <1>6
<1> HIDE DEF t
<1>8. unrouted' = targets \ (Rooted \cup {} \cup {t})
  BY <1>1, <1>3, <1>5, <1>6
<1>9. Driven({}) = {}
  BY DEF Driven
<1> QED BY <1>1, <1>3, <1>4, <1>5, <1>7, <1>8, <1>9 DEF Unrouted

LEMMA TracebackStepUnrouted ==
  ASSUME TInv, SearchInv, Unrouted, TracebackStep
  PROVE  Unrouted'
<1>1. /\ pc = "traceback" /\ pc' = "traceback" /\ cn \in Cnet /\ cn >= 0 /\ cn' = backptr[cn]
      /\ UNCHANGED <<problem, current_net, k, visited, unrouted>>
  BY DEF TracebackStep, TracebackIf, TInv, TypeOK, searchVars
<1>2. current_net \in Net /\ targets' = targets /\ targets \in SUBSET Cnet /\ source \notin targets
  BY <1>1, RouteFacts, NetFacts DEF Running, targets, source
<1>3. /\ unrouted = targets \ (Rooted \cup Driven(Branch) \cup {cn})
      /\ (targets \cap (Driven(Branch) \cup {cn})) \ Rooted # {}
      /\ visited \cap unrouted = {}
  BY <1>1 DEF Unrouted, Searching
<1>4. IsSearchTree(Rooted, visited, frontier, backptr)
  BY <1>1 DEF SearchInv, SearchTree, Searching
<1>5. CASE backptr[cn] >= 0
  <2>1. Rooted' = Rooted /\ Branch' = Branch \cup {<<backptr[cn], cn>>}
    BY <1>5, TracebackAppend
  <2>2. Driven(Branch') = Driven(Branch) \cup {cn}
    <3>1. <<backptr[cn], cn>>[2] = cn
      OBVIOUS
    <3> QED BY <2>1, <3>1 DEF Driven
  <2>3. cn \notin Rooted
    BY <1>4, <1>5 DEF IsSearchTree
  <2>4. cn' \in visited
    BY <1>1, <2>3 DEF SearchInv, TracebackBranch
  <2>5. cn' \notin targets \/ cn' \in Rooted \cup Driven(Branch) \cup {cn}
    BY <1>3, <2>4
  <2>6. unrouted = targets \ (Rooted \cup Driven(Branch') \cup {cn'})
    BY <1>3, <2>2, <2>5
  <2>7. (targets \cap (Driven(Branch') \cup {cn'})) \ Rooted # {}
    BY <1>3, <2>2
  <2> QED BY <1>1, <1>2, <1>3, <2>1, <2>6, <2>7 DEF Unrouted
<1>6. CASE ~(backptr[cn] >= 0)
  <2>1. UNCHANGED net_route
    BY <1>6 DEF TracebackStep, TracebackIf, sharingVars
  <2>2. Rooted' = Rooted /\ Branch' = Branch
    BY <1>1, <2>1 DEF route, Rooted, Branch, source
  <2>3. \A v \in Cnet : v >= 0 /\ v # -1
    BY DEF Cnet
  <2>4. cn \in Rooted /\ cn' = -1 /\ cn' \notin targets
    BY <1>1, <1>2, <1>6, <2>3 DEF SearchInv, TracebackBranch, TInv, TypeOK
  <2>5. unrouted = targets \ (Rooted \cup Driven(Branch) \cup {cn'})
    BY <1>3, <2>4
  <2>6. (targets \cap (Driven(Branch) \cup {cn'})) \ Rooted # {}
    BY <1>3, <2>4
  <2> QED BY <1>1, <1>2, <1>3, <2>2, <2>5, <2>6 DEF Unrouted
<1> QED BY <1>5, <1>6

(* At the end of a branch everything that is not in the tree is still      *)
(* unrouted, and the tree has grown by a target.                           *)
LEMMA BranchReachesTarget ==
  ASSUME TInv, SearchInv, Unrouted, TracebackDone, NEW c \in Net, c = current_net
  PROVE  /\ unrouted = problem.targets[c] \ Driven(Tree(c) \cup Branch)
         /\ (problem.targets[c] \cap Driven(Branch)) \ Driven(Tree(c)) # {}
<1>1. pc = "traceback" /\ ~(cn >= 0)
  BY DEF TracebackDone, TracebackEnd, TInv, TypeOK, Cnet
<1>2. targets = problem.targets[c] /\ targets \in SUBSET Cnet /\ source \notin targets
  BY NetFacts DEF targets, source
<1>3. \A v \in Cnet : v >= 0
  BY DEF Cnet
<1>4. Rooted = Driven(Tree(c)) \cup {source}
  BY <1>1, RootedTree
<1>5. /\ unrouted = targets \ (Rooted \cup Driven(Branch) \cup {cn})
      /\ (targets \cap (Driven(Branch) \cup {cn})) \ Rooted # {}
  BY <1>1 DEF Unrouted
<1>6. cn \notin targets
  BY <1>1, <1>2, <1>3
<1>7. Driven(Tree(c) \cup Branch) = Driven(Tree(c)) \cup Driven(Branch)
  BY DEF Driven
<1> QED BY <1>2, <1>4, <1>5, <1>6, <1>7

LEMMA NextUnrouted ==
  ASSUME TInv, SearchInv, Unrouted, [Next]_vars
  PROVE  Unrouted'
<1>1. CASE UNCHANGED vars
  <2>1. /\ UNCHANGED <<pc, unrouted, visited, cn>> /\ targets' = targets
        /\ Rooted' = Rooted /\ Branch' = Branch
    BY <1>1 DEF vars, Rooted, Branch, route, source, targets
  <2>2. Tree(current_net)' = Tree(current_net)
    BY <1>1 DEF vars, Tree, Finished
  <2> QED BY <2>1, <2>2 DEF Unrouted, Searching
<1>2. CASE SkipNet \/ Success \/ NextPass \/ Stopped
  <2>1. pc' \in {"net", "routed", "failed"}
    BY <1>2 DEF SkipNet, Success, NextPass, EndPass, Stopped, Final, vars
  <2> QED BY <2>1 DEF Unrouted, Searching
<1>3. CASE BeginNet \/ RipupEntry
  <2>1. pc' = "ripup" /\ unrouted' = targets' 
    BY <1>3 DEF BeginNet, RipupEntry, RipupAt, Unrouted, targets
  <2> QED BY <2>1 DEF Unrouted, Searching
<1>4. CASE RipupClear
  <2>1. pc = "ripup" /\ pc' = "start" /\ unrouted' = unrouted /\ targets' = targets
    BY <1>4 DEF RipupClear, targets
  <2>2. Tree(current_net)' = {} /\ Driven({}) = {} /\ current_net \in Net
    BY <1>4, RipupClearTree DEF Driven
  <2>3. unrouted = targets /\ targets # {}
    BY <2>1, <2>2, NetFacts DEF Unrouted, targets
  <2> QED BY <2>1, <2>2, <2>3 DEF Unrouted, Searching
<1>5. CASE TracebackDone
  <2>1. CASE unrouted = {}
    <3>1. pc' = "net"
      BY <1>5, <2>1 DEF TracebackDone, TracebackEnd
    <3> QED BY <3>1 DEF Unrouted, Searching
  <2>2. CASE unrouted # {}
    <3>1. pc = "traceback" /\ pc' = "start" /\ UNCHANGED <<current_net, unrouted, problem>>
      BY <1>5, <2>2 DEF TracebackDone, TracebackEnd
    <3>2. current_net \in Net
      BY <3>1, RouteFacts DEF Running
    <3>3. ASSUME NEW c \in Net, c = current_net PROVE unrouted' = targets' \ Driven(Tree(c)')
      BY <1>5, <3>1, <3>3, BranchReachesTarget, TracebackDoneTree DEF targets
    <3>4. unrouted' = targets' \ Driven(Tree(current_net)')
      BY <3>1, <3>2, <3>3
    <3> QED BY <2>2, <3>1, <3>4 DEF Unrouted, Searching
  <2> QED BY <2>1, <2>2
<1> QED BY <1>1, <1>2, <1>3, <1>4, <1>5, StartUnrouted, SearchUnrouted, PopTargetUnrouted,
        TracebackStepUnrouted DEF Next, Search

-----------------------------------------------------------------------------
(* Sharing *)

(* When no ripup() or traceback() is under way, the uses of a cnet are the *)
(* places where it is in a tree.                                           *)
LEMMA UsesAreDriven ==
  ASSUME pc \notin {"ripup", "traceback"}, NEW n \in Net, NEW c
  PROVE  c \in Driven(Tree(n)) <=> \E j \in Finished(n) : <<n, j>> \in Uses(c)
<1>1. Finished(n) = 1 .. Len(net_route[n]) /\ FirstCounted(n) = 1
  BY DEF Finished, FirstCounted
<1>2. \A j \in Finished(n) : <<n, j>> \in Uses(c) <=> net_route[n][j][2] = c
  BY <1>1, UsesMember
<1>3. c \in Driven(Tree(n)) <=> \E j \in Finished(n) : net_route[n][j][2] = c
  BY DEF Driven, Tree
<1> QED BY <1>2, <1>3

(* What demands a cnet more than once is more than one net. *)
LEMMA SharedByAnother ==
  ASSUME TInv, DemandAccounting, RouteTrees, pc \notin {"ripup", "traceback"},
         NEW c \in Cnet, demand[c] > 1
  PROVE  /\ \E n \in Net : c \in Driven(Tree(n))
         /\ \A n \in Net : \E m \in Net \ {n} : c \in Driven(Tree(m))
<1>1. IsFiniteSet(Uses(c)) /\ Cardinality(Uses(c)) > 1
  BY DEF DemandAccounting
<1>2. \A m \in Net : Finished(m) = 1 .. Len(net_route[m]) /\ FirstCounted(m) = 1
  BY DEF Finished, FirstCounted
<1>3. ASSUME NEW u \in Uses(c)
      PROVE  \E m \in Net : \E i \in Finished(m) : u = <<m, i>> /\ c \in Driven(Tree(m))
  <2>1. PICK m \in Net : \E i \in FirstCounted(m) .. Len(net_route[m]) : u = <<m, i>>
    BY UsesElement
  <2>2. PICK i \in Finished(m) : u = <<m, i>>
    BY <1>2, <2>1
  <2> QED BY <2>2, UsesAreDriven
<1>4. ASSUME NEW n \in Net PROVE \E m \in Net \ {n} : c \in Driven(Tree(m))
  <2> SUFFICES ASSUME \A m \in Net \ {n} : c \notin Driven(Tree(m)) PROVE FALSE
    OBVIOUS
  <2>1. \A u \in Uses(c) : \E i \in Finished(n) : u = <<n, i>> /\ net_route[n][i][2] = c
    <3>1. \A u \in Uses(c) : \E i \in Finished(n) : u = <<n, i>>
      BY <1>3
    <3>2. \A i \in Finished(n) : <<n, i>> \in Uses(c) => net_route[n][i][2] = c
      BY UsesMember
    <3> QED BY <3>1, <3>2
  <2>2. \A u, v \in Uses(c) : u = v
    BY <2>1 DEF RouteTrees
  <2>3. Uses(c) # {}
    BY <1>1, FS_EmptySet
  <2>4. PICK u : Uses(c) = {u}
    BY <2>2, <2>3
  <2>5. Cardinality(Uses(c)) = 1
    BY <2>4, FS_Singleton
  <2> QED BY <1>1, <2>5
<1>5. \E n \in Net : c \in Driven(Tree(n))
  <2>1. Uses(c) # {}
    BY <1>1, FS_EmptySet
  <2> QED BY <1>3, <2>1
<1> QED BY <1>4, <1>5

(* n_shared tells whether any net stands in another's way. *)
LEMMA SharedIffCounted ==
  ASSUME TInv, DemandAccounting, RouteTrees, pc \notin {"ripup", "traceback"}
  PROVE  n_shared = 0 <=> \A m, n \in Net : m # n => ~SharesCnet(m, n)
<1> DEFINE S == {i \in Cnet : demand[i] > 1}
<1>1. IsFiniteSet(S) /\ n_shared = Cardinality(S)
  <2>1. IsFiniteSet(Cnet)
    BY SizeAssumption, FS_Interval DEF Cnet
  <2> QED BY <2>1, FS_Subset DEF DemandAccounting
<1>2. n_shared = 0 <=> S = {}
  <2> HIDE DEF S
  <2> QED BY <1>1, FS_EmptySet
<1>3. ASSUME NEW c \in S PROVE \E m, n \in Net : m # n /\ SharesCnet(m, n)
  <2>1. PICK n \in Net : c \in Driven(Tree(n))
    BY SharedByAnother
  <2>2. PICK m \in Net \ {n} : c \in Driven(Tree(m))
    BY SharedByAnother
  <2> QED BY <2>1, <2>2 DEF SharesCnet
<1>4. ASSUME NEW m \in Net, NEW n \in Net, m # n, SharesCnet(m, n) PROVE S # {}
  <2>1. PICK c : c \in Driven(Tree(m)) /\ c \in Driven(Tree(n))
    BY <1>4 DEF SharesCnet
  <2>2. c \in Cnet
    <3>1. \A j \in Finished(m) : net_route[m][j][2] \in Cnet
      BY RouteEntry DEF Finished
    <3> QED BY <2>1, <3>1 DEF Tree, Driven
  <2>3. PICK i, j : <<m, i>> \in Uses(c) /\ <<n, j>> \in Uses(c)
    BY <2>1, UsesAreDriven
  <2> DEFINE u == <<m, i>>
             v == <<n, j>>
  <2>4. u # v /\ {u, v} \subseteq Uses(c)
    BY <1>4, <2>3
  <2> HIDE DEF u, v
  <2>5. IsFiniteSet(Uses(c)) /\ demand[c] = Cardinality(Uses(c))
    BY <2>2 DEF DemandAccounting
  <2>6. Cardinality({u, v}) = 2
    <3>1. {u, v} = {u} \cup {v} /\ v \notin {u}
      BY <2>4
    <3>2. IsFiniteSet({u}) /\ Cardinality({u}) = 1
      BY FS_Singleton
    <3>3. Cardinality({u} \cup {v}) = 2
      BY <3>1, <3>2, FS_AddElement
    <3> QED BY <3>1, <3>3
  <2>7. Cardinality({u, v}) <= Cardinality(Uses(c)) /\ Cardinality(Uses(c)) \in Nat
    BY <2>4, <2>5, FS_Subset, FS_CardinalityType
  <2> QED BY <2>2, <2>5, <2>6, <2>7
<1> QED BY <1>2, <1>3, <1>4

-----------------------------------------------------------------------------
(* The passes *)

LEMMA NextConnected ==
  ASSUME TInv, SearchInv, Unrouted, RoutedNetsConnected, [Next]_vars
  PROVE  RoutedNetsConnected'
<1> SUFFICES ASSUME NEW n \in Net, Routed(n)', n # current_net' \/ pc' = "net"
             PROVE  Connects(Tree(n), n)'
  BY DEF RoutedNetsConnected
<1>1. ASSUME Tree(n)' = Tree(n), problem' = problem, Routed(n), n # current_net \/ pc = "net"
      PROVE  Connects(Tree(n), n)'
  BY <1>1 DEF RoutedNetsConnected, Connects
<1>2. CASE ~RipupClear /\ ~TracebackDone
  <2>1. Tree(n)' = Tree(n) /\ problem' = problem
    BY <1>2, TreesKept
  <2>2. \/ UNCHANGED <<passes, current_net, pc>>
        \/ UNCHANGED <<passes, current_net>> /\ pc' # "net"
        \/ SkipNet \/ NextPass
    BY <1>2 DEF Next, Search, vars, BeginNet, Success, RipupEntry, RipupAt,
         StartSource, StartEntry, StartAt, StartDone, PopStale, PopVisit, PopTarget,
         TracebackStep, TracebackIf, Stopped
  <2>3. CASE UNCHANGED <<passes, current_net, pc>>
    BY <1>1, <2>1, <2>3 DEF Routed
  <2>4. CASE UNCHANGED <<passes, current_net>> /\ pc' # "net"
    BY <1>1, <2>1, <2>4 DEF Routed
  <2>5. CASE SkipNet
    BY <1>1, <2>1, <2>5 DEF SkipNet, Routed
  <2>6. CASE NextPass
    <3>1. pc = "net" /\ current_net = NNet
      BY <2>6 DEF NextPass, EndPass
    <3>2. n < current_net
      BY <3>1, SizeAssumption DEF Net
    <3> QED BY <1>1, <2>1, <3>1, <3>2 DEF Routed
  <2> QED BY <2>2, <2>3, <2>4, <2>5, <2>6
<1>3. CASE RipupClear
  <2>1. UNCHANGED <<passes, current_net>> /\ pc' = "start"
    BY <1>3 DEF RipupClear
  <2> QED BY <1>1, <1>3, <2>1, RipupClearTree DEF Routed
<1>4. CASE TracebackDone
  <2>1. /\ pc = "traceback" /\ passes' = passes /\ current_net \in Net
        /\ unrouted = {} => pc' = "net" /\ current_net' = current_net + 1
        /\ unrouted # {} => pc' = "start" /\ current_net' = current_net
    BY <1>4, RouteFacts DEF TracebackDone, TracebackEnd, Running
  <2>2. CASE n = current_net
    <3>1. unrouted = {} /\ unrouted = problem.targets[n] \ Driven(Tree(n) \cup Branch)
      BY <1>4, <2>1, <2>2, BranchReachesTarget
    <3>2. Tree(n)' = Tree(n) \cup Branch /\ problem' = problem
      BY <1>4, <2>2, TracebackDoneTree
    <3> QED BY <3>1, <3>2 DEF Connects
  <2>3. CASE n # current_net
    <3>1. Routed(n)
      <4>1. n \in Int /\ current_net \in Int /\ NNet \in Int
        BY <2>1, SizeAssumption DEF Net
      <4> QED BY <2>1, <2>3, <4>1 DEF Routed
    <3> QED BY <1>1, <1>4, <2>1, <2>3, <3>1, TracebackDoneTree
  <2> QED BY <2>2, <2>3
<1> QED BY <1>2, <1>3, <1>4

LEMMA BeginNetPasses ==
  ASSUME TInv, DemandAccounting, SearchInv, RouteTrees, RoutedNetsConnected, Passes, BeginNet
  PROVE  Passes'
<1>1. /\ pc = "net" /\ pc' = "ripup" /\ UNCHANGED <<problem, passes, current_net, net_route>>
      /\ passes = 1 \/ Congested(current_net)
      /\ current_net \in Net
  BY SizeAssumption DEF BeginNet, sharingVars, TInv, TypeOK, Net
<1>2. \A n \in Net : Tree(n)' = Tree(n)
  BY <1>1 DEF Tree, Finished
<1>3. ASSUME passes > 1, NEW c \in Net, c = current_net
      PROVE  Connects(Tree(c), c) /\ \E m \in Net \ {c} : SharesCnet(m, c)
  <2>1. PICK j \in DOMAIN net_route[c] : demand[net_route[c][j][2]] > 1
    BY <1>1, <1>3 DEF Congested
  <2>2. j \in 1 .. Len(net_route[c])
    BY DEF TInv, TypeOK
  <2> DEFINE i == net_route[c][j][2]
  <2>3. i \in Cnet /\ i \in Driven(Tree(c))
    BY <1>1, <2>2, RouteEntry DEF Tree, Driven, Finished
  <2>4. \E m \in Net \ {c} : i \in Driven(Tree(m))
    <3> HIDE DEF i
    <3>1. demand[i] > 1
      BY <2>1 DEF i
    <3> QED BY <1>1, <2>3, <3>1, SharedByAnother
  <2>5. Connects(Tree(c), c)
    BY <1>1, <1>3 DEF RoutedNetsConnected, Routed
  <2> QED BY <2>3, <2>4, <2>5 DEF SharesCnet
<1>4. passes = 1 => \A n \in Net : n > current_net \/ n = current_net => net_route[n] = <<>>
  BY <1>1 DEF Passes
<1> QED BY <1>1, <1>2, <1>3, <1>4 DEF Passes, Connects, SharesCnet

LEMMA NextPasses ==
  ASSUME TInv, DemandAccounting, SearchInv, RouteTrees, RoutedNetsConnected, Passes, [Next]_vars
  PROVE  Passes'
<1>1. CASE UNCHANGED vars
  <2>1. \A n \in Net : Tree(n)' = Tree(n)
    BY <1>1 DEF vars, Tree, Finished
  <2>2. UNCHANGED <<problem, pc, passes, current_net, net_route, n_shared>>
    BY <1>1 DEF vars
  <2>3. Tree(current_net)' = Tree(current_net)
    BY <1>1 DEF vars, Tree, Finished
  <2> QED BY <2>1, <2>2, <2>3 DEF Passes, Connects, SharesCnet
<1>2. CASE SkipNet \/ NextPass
  <2>1. pc' \in {"net", "failed"} /\ passes' > 1
    BY <1>2 DEF SkipNet, NextPass, EndPass, TInv, TypeOK
  <2> QED BY <2>1 DEF Passes
<1>3. CASE Success \/ Stopped
  BY <1>3 DEF Success, Stopped, Final, vars, sharingVars, Passes
<1>4. CASE RipupEntry
  <2>1. UNCHANGED <<problem, pc, passes, current_net, net_route>> /\ pc = "ripup"
    BY <1>4 DEF RipupEntry, RipupAt
  <2>2. \A n \in Net : Tree(n)' = Tree(n)
    BY <2>1 DEF Tree, Finished
  <2>3. Tree(current_net)' = Tree(current_net)
    BY <2>1 DEF Tree, Finished
  <2> QED BY <2>1, <2>2, <2>3 DEF Passes, Connects, SharesCnet
<1>5. CASE StartSource \/ StartEntry \/ StartDone \/ Search
  <2>1. UNCHANGED <<passes, current_net, net_route>> /\ pc' \in Running \ {"net", "ripup"}
    BY <1>5 DEF StartSource, StartEntry, StartAt, StartDone, Search, PopStale, PopVisit, PopTarget,
         sharingVars, Running
  <2> QED BY <2>1 DEF Passes, Running
<1>6. CASE RipupClear
  <2>1. pc' = "start" /\ UNCHANGED <<passes, current_net>> /\ current_net \in Net
    BY <1>6, RipupClearTree DEF RipupClear
  <2>2. \A n \in Net : n > current_net => n # current_net
    BY <2>1 DEF Net
  <2> QED BY <1>6, <2>1, <2>2, RipupClearTree DEF Passes
<1>7. CASE TracebackStep
  <2>1. pc' = "traceback" /\ UNCHANGED <<passes, current_net>> /\ current_net \in Net
    BY <1>7, RouteFacts DEF TracebackStep, TracebackIf, Running
  <2>2. \A n \in Net : n > current_net => n # current_net
    BY <2>1 DEF Net
  <2>3. \A n \in Net : n # current_net => net_route'[n] = net_route[n]
    BY <1>7, TracebackAppend DEF TracebackStep, TracebackIf, sharingVars
  <2> QED BY <2>1, <2>2, <2>3 DEF Passes
<1>8. CASE TracebackDone
  <2>1. /\ pc' \in {"net", "start"} /\ UNCHANGED <<passes, net_route>> /\ current_net \in Net
        /\ current_net' = current_net + 1 \/ (current_net' = current_net /\ pc' = "start")
    BY <1>8, RouteFacts DEF TracebackDone, TracebackEnd, Running, sharingVars
  <2>2. \A n \in Net : n > current_net + 1 \/ n = current_net + 1 => n > current_net
    BY <2>1 DEF Net
  <2> QED BY <2>1, <2>2 DEF Passes
<1> QED BY <1>1, <1>2, <1>3, <1>4, <1>5, <1>6, <1>7, <1>8, BeginNetPasses DEF Next

-----------------------------------------------------------------------------
(* The invariant of the whole router, and what follows from it *)

LEMMA InitRouter == Init => RouterInv
<1> SUFFICES ASSUME Init PROVE RouterInv
  OBVIOUS
<1>1. Unrouted
  BY DEF Init, Unrouted, Searching
<1>2. RoutedNetsConnected
  <2>1. \A n \in Net : ~Routed(n)
    BY SizeAssumption DEF Init, Routed, Net
  <2> QED BY <2>1 DEF RoutedNetsConnected
<1>3. Passes
  <2>1. pc = "routed" => ~(max_passes > 0)
    BY DEF Init
  <2>2. \A n \in Net : net_route[n] = <<>>
    BY DEF Init
  <2> QED BY <2>1, <2>2 DEF Init, Passes
<1> QED BY <1>1, <1>2, <1>3, InitType, InitAccounting, InitSearch, InitTrees DEF RouterInv

LEMMA NextRouter == RouterInv /\ [Next]_vars => RouterInv'
BY NextType, NextAccounting, NextSearch, NextTrees, NextUnrouted, NextConnected, NextPasses
   DEF RouterInv

LEMMA RouterInvariant == Spec => []RouterInv
BY InitRouter, NextRouter, PTL DEF Spec

(* No pass loses a connection: a net whose turn came once is connected     *)
(* whenever the router is not at work on it.                               *)
THEOREM ConnectionsKept == Spec => []RoutedNetsConnected
<1>1. RouterInv => RoutedNetsConnected
  BY DEF RouterInv
<1> QED BY <1>1, RouterInvariant, PTL

(* As long as a target is missing the frontier is not empty, however       *)
(* congested the chip is: otherwise what the search visited would be a     *)
(* closed set with the source and without the target.                      *)
LEMMA FrontierNotEmpty ==
  ASSUME RouterInv, pc = "search"
  PROVE  frontier # {}
<1> SUFFICES ASSUME frontier = {} PROVE FALSE
  OBVIOUS
<1>1. current_net \in Net
  BY RouteFacts DEF RouterInv, Running
<1>2. source \in visited /\ visited \in SUBSET Cnet
  BY DEF RouterInv, SearchInv, SearchTree, Searching, IsSearchTree, Rooted, TInv, TypeOK
<1>3. ClosedUnder(outs, visited)
  BY DEF RouterInv, SearchInv, FrontierQueue, IsFrontier, ClosedUnder
<1>4. targets \subseteq visited
  BY <1>1, <1>2, <1>3, NetFacts DEF RouterInv, source, outs, targets
<1>5. unrouted # {} /\ unrouted \subseteq targets /\ visited \cap unrouted = {}
  BY DEF RouterInv, Unrouted, Searching
<1> QED BY <1>4, <1>5

(* The least entry of the queue is the least cost of its cnet. *)
LEMMA QueueSound ==
  ASSUME RouterInv, pc = "search"
  PROVE  /\ frontierq # {}
         /\ \A e \in frontierq : IsTop(e) /\ e[1] \in frontier => e[2] = cost[e[1]]
<1>1. IsFrontier(visited, frontier, frontierq, cost)
  BY DEF RouterInv, SearchInv, FrontierQueue
<1>2. frontierq # {}
  BY <1>1, FrontierNotEmpty DEF IsFrontier
<1>3. ASSUME NEW e \in frontierq, IsTop(e), e[1] \in frontier PROVE e[2] = cost[e[1]]
  <2>1. e[1] \in Cnet /\ e[2] \in Int /\ cost[e[1]] \in Int
    BY DEF RouterInv, TInv, TypeOK
  <2>2. cost[e[1]] <= e[2] /\ <<e[1], cost[e[1]]>> \in frontierq
    BY <1>1, <1>3 DEF IsFrontier
  <2>3. Before(e, <<e[1], cost[e[1]]>>)
    BY <1>3, <2>2 DEF IsTop
  <2>4. e[2] <= cost[e[1]]
    BY <2>1, <2>3 DEF Before
  <2> QED BY <2>1, <2>2, <2>4
<1> QED BY <1>2, <1>3

(* start() never visits a cnet twice. *)
LEMMA RouteNotVisited ==
  ASSUME RouterInv, pc = "grow"
  PROVE  \A j \in k .. Len(route) : route[j][2] \notin visited
<1>1. /\ current_net \in Net /\ k \in Nat \ {0} /\ Len(route) \in Nat
  BY RouteFacts DEF RouterInv, Running
<1>2. visited = {source} \cup {route[i][2] : i \in 1 .. k - 1}
  BY DEF RouterInv, SearchInv, SearchTree, Searching, Rooted
<1>3. Finished(current_net) = 1 .. Len(route)
  BY DEF Finished, route
<1>4. /\ \A i, j \in 1 .. Len(route) : route[i][2] = route[j][2] => i = j
      /\ \A j \in 1 .. Len(route) : route[j][2] # source
  BY <1>1, <1>3 DEF RouterInv, RouteTrees, IsRouteTree, Driven, Tree, route, source
<1> SUFFICES ASSUME NEW j \in k .. Len(route) PROVE route[j][2] \notin visited
  OBVIOUS
<1>5. j \in 1 .. Len(route) /\ \A i \in 1 .. k - 1 : i # j /\ i \in 1 .. Len(route)
  BY <1>1
<1> QED BY <1>2, <1>4, <1>5

(* No assertion of the router can fail, on any chip and for any problem in *)
(* which every target can be reached: in particular no search ends without *)
(* its targets.                                                            *)
THEOREM AssertionsHold == Spec => []Asserts
<1>1. RouterInv => Asserts
  <2> SUFFICES ASSUME RouterInv PROVE Asserts
    OBVIOUS
  <2>1. pc \in {"grow", "search"} => frontier \cap visited = {}
    BY DEF RouterInv, SearchInv, SearchTree, Searching, IsSearchTree
  <2>2. ASSUME pc = "net", passes > 1, current_net < NNet PROVE route # <<>>
    <3>1. current_net \in Net
      BY <2>2, SizeAssumption DEF RouterInv, TInv, TypeOK, Net
    <3>2. targets \subseteq Driven(Tree(current_net)) /\ targets # {}
      BY <2>2, <3>1, NetFacts DEF RouterInv, RoutedNetsConnected, Routed, Connects, targets
    <3>3. Finished(current_net) # {}
      BY <3>2 DEF Driven, Tree
    <3> QED BY <2>2, <3>3 DEF Finished, route
  <2> QED BY <2>1, <2>2, FrontierNotEmpty, QueueSound, RouteNotVisited DEF Asserts
<1> QED BY <1>1, RouterInvariant, PTL

(* When route() succeeds, the routing is legal. *)
LEMMA SuccessLegal == RouterInv => SuccessIsLegal
<1> SUFFICES ASSUME RouterInv, pc = "routed", max_passes > 0
             PROVE  /\ \A n \in Net : Connects(Tree(n), n) /\ IsRouteTree(Tree(n), n)
                    /\ Disjoint
  BY DEF SuccessIsLegal
<1>1. current_net = NNet /\ n_shared = 0
  BY DEF RouterInv, Passes
<1>2. ASSUME NEW n \in Net PROVE Connects(Tree(n), n)
  <2>1. n < current_net /\ n # current_net
    BY <1>1, SizeAssumption DEF Net
  <2> QED BY <2>1 DEF RouterInv, RoutedNetsConnected, Routed
<1>3. Disjoint
  BY <1>1, SharedIffCounted DEF RouterInv, SharesCnet, Disjoint
<1> QED BY <1>2, <1>3 DEF RouterInv, RouteTrees

(* Success is never reported for a routing with a missing connection or a  *)
(* cnet that two nets drive.                                               *)
THEOREM SuccessfulRoutesLegal == Spec => []SuccessIsLegal
BY RouterInvariant, SuccessLegal, PTL

-----------------------------------------------------------------------------
(* Router implements Routing.                                              *)

(* The words of module Routing mean what they mean here. *)
LEMMA AbstractNet == Abstract!Net = Net
BY DEF Abstract!Net, Net

LEMMA AbstractTree ==
  ASSUME NEW T, NEW n
  PROVE  /\ Abstract!Driven(T) = Driven(T)
         /\ Abstract!IsRouteTree(T, n) <=> IsRouteTree(T, n)
BY DEF Abstract!Driven, Driven, Abstract!IsRouteTree, IsRouteTree, outs

LEMMA AbstractUnreached ==
  ASSUME NEW n \in Net
  PROVE  Abstract!Unreached(n) = problem.targets[n] \ Driven(Tree(n))
BY DEF Abstract!Unreached, Abstract!Driven, Driven

LEMMA AbstractShares ==
  ASSUME NEW m \in Net, NEW n \in Net
  PROVE  Abstract!Shares(m, n) <=> SharesCnet(m, n)
BY DEF Abstract!Shares, Abstract!Driven, SharesCnet, Driven

LEMMA AbstractConnected ==
  Abstract!AllConnected <=> \A n \in Net : Connects(Tree(n), n)
<1>1. \A n \in Net : Abstract!Unreached(n) = {} <=> Connects(Tree(n), n)
  BY AbstractUnreached DEF Connects
<1> QED BY <1>1, AbstractNet DEF Abstract!AllConnected

LEMMA AbstractLegal ==
  Abstract!Legal <=> \A m, n \in Net : m # n => ~SharesCnet(m, n)
BY AbstractNet, AbstractShares DEF Abstract!Legal

trees == [n \in Net |-> Tree(n)]
status == IF pc \in Final THEN pc ELSE "routing"

LEMMA InitRefines == Init => Abstract!Init
<1> SUFFICES ASSUME Init PROVE Abstract!Init
  OBVIOUS
<1>1. \A n \in Net : Tree(n) = {}
  <2>1. \A n \in Net : Finished(n) = 1 .. 0
    BY DEF Init, Finished
  <2>2. 1 .. 0 = {}
    OBVIOUS
  <2> QED BY <2>1, <2>2 DEF Tree
<1>2. trees = [n \in Net |-> {}]
  BY <1>1 DEF trees
<1>3. status = IF max_passes > 0 THEN "routing" ELSE "routed"
  BY DEF Init, status, Final
<1> QED BY <1>2, <1>3, AbstractNet DEF Abstract!Init, trees, status

(* The steps that the abstract router does not see. *)
LEMMA Stutters ==
  ASSUME UNCHANGED <<problem, status>>, \A n \in Net : Tree(n)' = Tree(n)
  PROVE  UNCHANGED <<problem, trees, status>>
BY DEF trees

(* Clearing the route of a net: a step only if the net was routed before,  *)
(* and then it shares a cnet and all nets are connected.                   *)
LEMMA RipupClearRefines ==
  ASSUME RouterInv, RipupClear
  PROVE  (\E n \in Net : Abstract!RipUp(n)) \/ UNCHANGED <<problem, trees, status>>
<1>1. /\ pc = "ripup" /\ pc' = "start" /\ current_net \in Net
      /\ UNCHANGED <<problem, current_net>>
  BY RouteFacts DEF RouterInv, RipupClear, Running
<1>2. status = "routing" /\ status' = "routing"
  BY <1>1 DEF status, Final
<1>3. /\ Tree(current_net)' = {}
      /\ \A n \in Net : n # current_net => Tree(n)' = Tree(n)
  BY RipupClearTree DEF RouterInv
<1>4. CASE passes = 1
  <2>1. Tree(current_net) = {}
    <3>1. net_route[current_net] = <<>>
      BY <1>1, <1>4 DEF RouterInv, Passes
    <3>2. Finished(current_net) = 1 .. 0
      BY <1>1, <3>1 DEF Finished
    <3>3. 1 .. 0 = {}
      OBVIOUS
    <3> QED BY <3>2, <3>3 DEF Tree
  <2>2. \A n \in Net : Tree(n)' = Tree(n)
    BY <1>1, <1>3, <2>1
  <2> QED BY <1>1, <1>2, <2>2, Stutters
<1>5. CASE passes # 1
  <2>1. passes > 1
    BY <1>5 DEF RouterInv, TInv, TypeOK
  <2>2. \A n \in Net : Connects(Tree(n), n)
    BY <1>1, <2>1 DEF RouterInv, Passes, RoutedNetsConnected, Routed
  <2>3. \E m \in Net \ {current_net} : SharesCnet(m, current_net)
    BY <1>1, <2>1 DEF RouterInv, Passes
  <2>4. trees' = [trees EXCEPT ![current_net] = {}]
    BY <1>1, <1>3 DEF trees
  <2>5. \E m \in Abstract!Net \ {current_net} : Abstract!Shares(m, current_net)
    BY <1>1, <2>3, AbstractNet, AbstractShares
  <2>6. Abstract!RipUp(current_net)
    BY <1>1, <1>2, <2>2, <2>4, <2>5, AbstractConnected DEF Abstract!RipUp, trees, status
  <2> QED BY <1>1, <2>6
<1> QED BY <1>4, <1>5

(* The end of a branch connects a target that was unreached. *)
LEMMA TracebackDoneRefines ==
  ASSUME RouterInv, RouterInv', TracebackDone
  PROVE  \E n \in Net : Abstract!Connect(n)
<1>1. /\ pc = "traceback" /\ pc' \in {"net", "start"} /\ current_net \in Net
  BY RouteFacts DEF RouterInv, TracebackDone, TracebackEnd, Running
<1>2. status = "routing" /\ status' = "routing"
  BY <1>1 DEF status, Final
<1>3. PICK c \in Net : c = current_net
  BY <1>1
<1>4. /\ problem' = problem /\ Tree(c)' = Tree(c) \cup Branch
      /\ \A n \in Net : n # c => Tree(n)' = Tree(n)
  BY <1>3, TracebackDoneTree DEF RouterInv
<1>5. trees[c] \subseteq trees'[c] /\ trees' = [trees EXCEPT ![c] = trees'[c]] /\ trees'[c] = Tree(c)'
  BY <1>4 DEF trees
<1>6. IsRouteTree(Tree(c)', c)
  <2>1. IsRouteTree(Tree(c), c)'
    BY DEF RouterInv, RouteTrees
  <2> QED BY <1>4, <2>1 DEF IsRouteTree, outs
<1>7. (problem.targets[c] \ Driven(Tree(c))) \ Driven(Tree(c)') # problem.targets[c] \ Driven(Tree(c))
  <2>1. (problem.targets[c] \cap Driven(Branch)) \ Driven(Tree(c)) # {}
    BY <1>3, BranchReachesTarget DEF RouterInv
  <2>2. Driven(Branch) \subseteq Driven(Tree(c)')
    BY <1>4 DEF Driven
  <2> QED BY <2>1, <2>2
<1>8. Abstract!IsRouteTree(trees'[c], c) /\ Abstract!Driven(trees'[c]) = Driven(Tree(c)')
  BY <1>5, <1>6, AbstractTree
<1>9. Abstract!Unreached(c) \ Abstract!Driven(trees'[c]) # Abstract!Unreached(c)
  BY <1>7, <1>8, AbstractUnreached
<1>10. Abstract!Connect(c)
  BY <1>2, <1>4, <1>5, <1>8, <1>9 DEF Abstract!Connect, trees, status
<1> QED BY <1>10

(* Success is declared when no cnet is shared, ... *)
LEMMA SuccessRefines ==
  ASSUME RouterInv, Success
  PROVE  Abstract!Succeed
<1>1. /\ pc = "net" /\ pc' = "routed" /\ current_net = NNet /\ n_shared = 0
      /\ UNCHANGED <<problem, current_net, net_route, k>>
  BY DEF Success, sharingVars
<1>2. status = "routing" /\ status' = "routed"
  BY <1>1 DEF status, Final
<1>3. \A n \in Net : Connects(Tree(n), n)
  <2>1. \A n \in Net : n < current_net
    BY <1>1, SizeAssumption DEF Net
  <2> QED BY <1>1, <2>1 DEF RouterInv, RoutedNetsConnected, Routed
<1>4. \A m, n \in Net : m # n => ~SharesCnet(m, n)
  BY <1>1, SharedIffCounted DEF RouterInv
<1>5. trees' = trees
  BY <1>1 DEF trees, Tree, Finished
<1> QED BY <1>1, <1>2, <1>3, <1>4, <1>5, AbstractConnected, AbstractLegal
        DEF Abstract!Succeed, trees, status

(* ... failure when the last pass left one shared. *)
LEMMA NextPassRefines ==
  ASSUME RouterInv, NextPass
  PROVE  Abstract!GiveUp \/ UNCHANGED <<problem, trees, status>>
<1>1. /\ pc = "net" /\ pc' \in {"net", "failed"} /\ current_net = NNet /\ n_shared # 0
      /\ UNCHANGED <<problem, net_route>>
  BY DEF NextPass, EndPass, sharingVars
<1>2. status = "routing" /\ status' = IF pc' = "net" THEN "routing" ELSE "failed"
  BY <1>1 DEF status, Final
<1>3. \A n \in Net : Connects(Tree(n), n)
  <2>1. \A n \in Net : n < current_net
    BY <1>1, SizeAssumption DEF Net
  <2> QED BY <1>1, <2>1 DEF RouterInv, RoutedNetsConnected, Routed
<1>4. ~(\A m, n \in Net : m # n => ~SharesCnet(m, n))
  BY <1>1, SharedIffCounted DEF RouterInv
<1>5. trees' = trees
  BY <1>1 DEF trees, Tree, Finished
<1>6. CASE pc' = "net"
  BY <1>1, <1>2, <1>5, <1>6
<1>7. CASE pc' = "failed"
  BY <1>1, <1>2, <1>3, <1>4, <1>5, <1>7, AbstractConnected, AbstractLegal
     DEF Abstract!GiveUp, trees, status
<1> QED BY <1>1, <1>6, <1>7

LEMMA NextRefines ==
  ASSUME RouterInv, RouterInv', [Next]_vars
  PROVE  Abstract!Next \/ UNCHANGED <<problem, trees, status>>
<1>1. CASE RipupClear
  BY <1>1, RipupClearRefines, AbstractNet DEF Abstract!Next
<1>2. CASE TracebackDone
  BY <1>2, TracebackDoneRefines, AbstractNet DEF Abstract!Next
<1>3. CASE Success
  BY <1>3, SuccessRefines DEF Abstract!Next
<1>4. CASE NextPass
  BY <1>4, NextPassRefines DEF Abstract!Next
<1>5. CASE ~RipupClear /\ ~TracebackDone /\ ~Success /\ ~NextPass
  <2>1. problem' = problem /\ \A n \in Net : Tree(n)' = Tree(n)
    BY <1>5, TreesKept DEF RouterInv
  <2>2. pc' = pc \/ (pc \notin Final /\ pc' \notin Final)
    BY <1>5 DEF Next, Search, vars, Final, SkipNet, BeginNet, RipupEntry, RipupAt,
         StartSource, StartEntry, StartAt, StartDone, PopStale, PopVisit, PopTarget,
         TracebackStep, TracebackIf, Stopped
  <2>3. status' = status
    BY <2>2 DEF status
  <2> QED BY <2>1, <2>3, Stutters
<1> QED BY <1>1, <1>2, <1>3, <1>4, <1>5

(* The router is one of the routers that module Routing describes: nets    *)
(* grow by whole branches, are torn up only when they share a cnet, and    *)
(* the outcome is decided only when all are connected.                     *)
THEOREM RouterImplementsRouting == Spec => ImplementsRouting
<1>1. RouterInv /\ RouterInv' /\ [Next]_vars => [Abstract!Next]_<<problem, trees, status>>
  BY NextRefines
<1>2. RouterInv /\ RouterInv' /\ [Next]_vars
        => [Abstract!Next]_<<problem, [n \in Net |-> Tree(n)], IF pc \in Final THEN pc ELSE "routing">>
  BY <1>1 DEF trees, status
<1> QED BY <1>2, InitRefines, RouterInvariant, PTL DEF Spec, ImplementsRouting, Abstract!Spec
=============================================================================
