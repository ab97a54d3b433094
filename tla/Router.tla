------------------------------- MODULE Router -------------------------------
(***************************************************************************)
(* The negotiated-congestion router of route.cc.  A cnet is a wire of the  *)
(* chip; a switch can connect one cnet to another.  Every net has a source *)
(* cnet and target cnets.  In every pass the nets are routed one after the *)
(* other by Dijkstra searches that grow a tree from the source, one target *)
(* after the other.  Wires may be shared at first; sharing is made more    *)
(* expensive from pass to pass until no wire is shared, or the passes are  *)
(* used up.                                                                *)
(*                                                                         *)
(* unrouted, visited and frontier are UllmanSets, modelled by the sets     *)
(* they implement (module UllmanSet); frontierq is a priority queue, whose *)
(* stale entries are kept.  A failing assert() is a violation of one of    *)
(* the invariant Asserts (the Makefile builds with them).                  *)
(***************************************************************************)
EXTENDS Integers, Sequences, FiniteSets

CONSTANTS
  NCnet,       \* chipdb->n_nets
  NNet,        \* n_nets, the nets to route
  max_passes,  \* option -m
  Problems     \* the routing problems considered

Cnet == 0 .. NCnet - 1
Net == 0 .. NNet - 1
Edge == Cnet \X Cnet

Problem == [outs : [Cnet -> SUBSET Cnet],
            source : [Net -> Cnet],
            targets : [Net -> SUBSET Cnet]]

Endpoints(p, n) == {p.source[n]} \cup p.targets[n]

ClosedUnder(outs, S) == \A i \in S : outs[i] \subseteq S

(***************************************************************************)
(* What the constructor and the first part of route() assert of a problem, *)
(* and what the chip provides: no switch drives a net's source, and every  *)
(* target can be reached.  Reachability is stated by closed sets.          *)
(***************************************************************************)
WellFormed(p) ==
  /\ \A i \in Cnet : i \notin p.outs[i]
  /\ \A n \in Net :
       /\ p.targets[n] # {}
       /\ p.source[n] \notin p.targets[n]
       /\ \A i \in Cnet : p.source[n] \notin p.outs[i]
       /\ \A S \in SUBSET Cnet :
            p.source[n] \in S /\ ClosedUnder(p.outs, S) => p.targets[n] \subseteq S
  /\ \A m, n \in Net : m # n => Endpoints(p, m) \cap Endpoints(p, n) = {}

ASSUME SizeAssumption == NCnet \in Nat /\ NNet \in Nat /\ max_passes \in Nat
ASSUME ProblemsAssumption ==
  /\ Problems \subseteq Problem
  /\ \A p \in Problems : WellFormed(p)

VARIABLES
  problem,            \* cnet_outs, net_source and net_targets
  pc,                 \* where route() is
  passes,
  current_net,
  k,                  \* position in the loops of ripup() and start() over net_route[current_net]
  cn,                 \* cn of traceback()
  n_shared, demand, historical_demand, net_route,
  unrouted, visited, frontier, frontierq, backptr, cost

searchVars == <<visited, frontier, frontierq, backptr, cost>>
sharingVars == <<n_shared, demand, net_route>>
vars == <<problem, pc, passes, current_net, k, cn, n_shared, demand, historical_demand,
          net_route, unrouted, visited, frontier, frontierq, backptr, cost>>

outs == problem.outs
source == problem.source[current_net]
targets == problem.targets[current_net]
route == net_route[current_net]

Running == {"net", "ripup", "start", "grow", "search", "traceback"}
Final == {"routed", "failed"}

TypeOK ==
  /\ problem \in Problem
  /\ pc \in Running \cup Final
  /\ passes \in 1 .. max_passes + 1
  /\ current_net \in 0 .. NNet
  /\ pc \in Running \ {"net"} => current_net \in Net
  /\ k \in Nat \ {0}
  /\ cn \in Cnet \cup {-1}
  /\ n_shared \in Int
  /\ demand \in [Cnet -> Int]
  /\ historical_demand \in [Cnet -> Nat]
  /\ net_route \in [Net -> Seq(Edge)]
  /\ unrouted \in SUBSET Cnet
  /\ visited \in SUBSET Cnet
  /\ frontier \in SUBSET Cnet
  /\ frontierq \in SUBSET (Cnet \X Int)
  /\ backptr \in [Cnet -> Cnet \cup {-1}]
  /\ cost \in [Cnet -> Int]

(* The vectors of the constructor; for (passes = 1; passes <= max_passes;  *)
(* ...) is left at once when max_passes is 0.                              *)
Init ==
  /\ problem \in Problems
  /\ pc = IF max_passes > 0 THEN "net" ELSE "routed"
  /\ passes = 1
  /\ current_net = 0
  /\ k = 1
  /\ cn = -1
  /\ n_shared = 0
  /\ demand = [i \in Cnet |-> 0]
  /\ historical_demand = [i \in Cnet |-> 0]
  /\ net_route = [n \in Net |-> <<>>]
  /\ unrouted = {} /\ visited = {} /\ frontier = {} /\ frontierq = {}
  /\ backptr = [i \in Cnet |-> 0]
  /\ cost = [i \in Cnet |-> 0]

-----------------------------------------------------------------------------
(* Costs *)

CongestedCost == 1000000

(* Entering a cnet that is used already is expensive, and prohibitive in   *)
(* the last pass; the history makes cnets expensive that were fought over. *)
StepCost(i) ==
  IF passes = max_passes
  THEN IF demand[i] # 0 THEN CongestedCost ELSE 1
  ELSE (1 + historical_demand[i]) * (1 + 3 * demand[i])

(* visit(c), applied to the values the caller's assignments left. *)
Visit(c, vis, fr, q, bp, co) ==
  LET new == outs[c] \ (vis \cup {c})
      NewCost(i) == co[c] + StepCost(i)
      better == {i \in new : i \in fr => NewCost(i) < co[i]}
  IN /\ visited' = vis \cup {c}
     /\ frontier' = fr \cup better
     /\ frontierq' = q \cup {<<i, NewCost(i)>> : i \in better}
     /\ backptr' = [i \in Cnet |-> IF i \in better THEN c ELSE bp[i]]
     /\ cost' = [i \in Cnet |-> IF i \in better THEN NewCost(i) ELSE co[i]]

-----------------------------------------------------------------------------
(* The loop over the nets of a pass *)

(* Mutant: any use, not only a shared one. *)
CongestedIfUsed(n) == \E j \in DOMAIN net_route[n] : demand[net_route[n][j][2]] > 0

Congested(n) == \E j \in DOMAIN net_route[n] : demand[net_route[n][j][2]] > 1

(* Pass 1 routes every net, a later pass only those that share a cnet. *)
SkipNet ==
  /\ pc = "net" /\ current_net < NNet
  /\ passes > 1 /\ ~Congested(current_net)
  /\ current_net' = current_net + 1
  /\ UNCHANGED <<problem, pc, passes, k, cn, historical_demand, unrouted>>
  /\ UNCHANGED <<sharingVars, searchVars>>

BeginNet ==
  /\ pc = "net" /\ current_net < NNet
  /\ passes = 1 \/ Congested(current_net)
  /\ unrouted' = targets
  /\ k' = 1
  /\ pc' = "ripup"
  /\ UNCHANGED <<problem, passes, current_net, cn, historical_demand>>
  /\ UNCHANGED <<sharingVars, searchVars>>

(* End of a pass without sharing: break. *)
Success ==
  /\ pc = "net" /\ current_net = NNet
  /\ n_shared = 0
  /\ pc' = "routed"
  /\ UNCHANGED <<problem, passes, current_net, k, cn, historical_demand, unrouted>>
  /\ UNCHANGED <<sharingVars, searchVars>>

(* What changes when a pass ended with sharing and the loop goes on to     *)
(* pass p, or ends in the state last.                                      *)
EndPass(p, last) ==
  /\ pc = "net" /\ current_net = NNet
  /\ n_shared # 0
  /\ historical_demand' =
       [i \in Cnet |-> historical_demand[i]
                         + IF passes > 1 /\ demand[i] > 1 THEN demand[i] ELSE 0]
  /\ passes' = p
  /\ current_net' = 0
  /\ pc' = IF p <= max_passes THEN "net" ELSE last
  /\ UNCHANGED <<problem, k, cn, unrouted>>
  /\ UNCHANGED <<sharingVars, searchVars>>

(* Mutant: without if (n_shared) fatal(...) after the last pass. *)
NextPassNoFatal == EndPass(passes + 1, "routed")
(* Mutant: without ++passes. *)
NextPassForever == EndPass(passes, "failed")

NextPass == EndPass(passes + 1, "failed")

-----------------------------------------------------------------------------
(* ripup() *)

(* One turn of its loop; d is the demand at which c stops being shared. *)
RipupAt(d) ==
  /\ pc = "ripup" /\ k <= Len(route)
  /\ LET c == route[k][2]
     IN /\ demand' = [demand EXCEPT ![c] = @ - 1]
        /\ n_shared' = IF demand[c] = d THEN n_shared - 1 ELSE n_shared
  /\ k' = k + 1
  /\ UNCHANGED <<problem, pc, passes, current_net, cn, historical_demand, net_route, unrouted>>
  /\ UNCHANGED searchVars

(* Mutant: tests demand[cn] == 1 before the decrement. *)
RipupEntryEarlyTest == RipupAt(1)

RipupEntry == RipupAt(2)

RipupClear ==
  /\ pc = "ripup" /\ k > Len(route)
  /\ net_route' = [net_route EXCEPT ![current_net] = <<>>]
  /\ pc' = "start"
  /\ UNCHANGED <<problem, passes, current_net, k, cn, historical_demand, unrouted>>
  /\ UNCHANGED <<n_shared, demand>>
  /\ UNCHANGED searchVars

-----------------------------------------------------------------------------
(* start(): the search begins from the source and everything routed so far *)

StartSource ==
  /\ pc = "start"
  /\ Visit(source, {}, {}, {}, [backptr EXCEPT ![source] = -1], [cost EXCEPT ![source] = 0])
  /\ k' = 1
  /\ pc' = "grow"
  /\ UNCHANGED <<problem, passes, current_net, cn, historical_demand, unrouted>>
  /\ UNCHANGED sharingVars

(* One turn of its loop, which leaves fr and bp to visit(c). *)
StartAt(c, fr, bp) ==
  /\ pc = "grow" /\ k <= Len(route)
  /\ Visit(c, visited, fr, frontierq, bp, [cost EXCEPT ![c] = 0])
  /\ k' = k + 1
  /\ UNCHANGED <<problem, pc, passes, current_net, cn, historical_demand, unrouted>>
  /\ UNCHANGED sharingVars

(* Mutant: without frontier.erase(p.second). *)
StartEntryNoErase ==
  LET c == route[k][2] IN StartAt(c, frontier, [backptr EXCEPT ![c] = -1])
(* Mutant: without backptr[p.second] = -1. *)
StartEntryNoRoot ==
  LET c == route[k][2] IN StartAt(c, frontier \ {c}, backptr)

StartEntry ==
  LET c == route[k][2] IN StartAt(c, frontier \ {c}, [backptr EXCEPT ![c] = -1])

StartDone ==
  /\ pc = "grow" /\ k > Len(route)
  /\ pc' = "search"
  /\ UNCHANGED <<problem, passes, current_net, k, cn, historical_demand, unrouted>>
  /\ UNCHANGED <<sharingVars, searchVars>>

-----------------------------------------------------------------------------
(* The search loop *)

(* Comp: least cost first, then least cnet. *)
(* Mutant: the order of std::pair, cnet first. *)
BeforeByCnet(d, e) == d[1] < e[1] \/ (d[1] = e[1] /\ d[2] <= e[2])

Before(d, e) == d[2] < e[2] \/ (d[2] = e[2] /\ d[1] <= e[1])
IsTop(e) == e \in frontierq /\ \A d \in frontierq : Before(e, d)

(* pop() passes over an entry whose cnet left the frontier. *)
PopStale(e) ==
  /\ pc = "search" /\ frontier # {}
  /\ IsTop(e) /\ e[1] \notin frontier
  /\ frontierq' = frontierq \ {e}
  /\ UNCHANGED <<problem, pc, passes, current_net, k, cn, historical_demand, unrouted>>
  /\ UNCHANGED <<sharingVars, visited, frontier, backptr, cost>>

PopVisit(e) ==
  /\ pc = "search" /\ frontier # {}
  /\ IsTop(e) /\ e[1] \in frontier /\ e[1] \notin unrouted
  /\ Visit(e[1], visited, frontier \ {e[1]}, frontierq \ {e}, backptr, cost)
  /\ UNCHANGED <<problem, pc, passes, current_net, k, cn, historical_demand, unrouted>>
  /\ UNCHANGED sharingVars

PopTarget(e) ==
  /\ pc = "search" /\ frontier # {}
  /\ IsTop(e) /\ e[1] \in frontier /\ e[1] \in unrouted
  /\ frontierq' = frontierq \ {e}
  /\ frontier' = frontier \ {e[1]}
  /\ unrouted' = unrouted \ {e[1]}
  /\ cn' = e[1]
  /\ pc' = "traceback"
  /\ UNCHANGED <<problem, passes, current_net, k, historical_demand>>
  /\ UNCHANGED <<sharingVars, visited, backptr, cost>>

-----------------------------------------------------------------------------
(* traceback() *)

(* One turn of its loop, which adds an edge when add. *)
TracebackIf(add) ==
  /\ pc = "traceback" /\ cn >= 0
  /\ IF add
     THEN /\ n_shared' = IF demand[cn] = 1 THEN n_shared + 1 ELSE n_shared
          /\ demand' = [demand EXCEPT ![cn] = @ + 1]
          /\ net_route' = [net_route EXCEPT ![current_net] = Append(@, <<backptr[cn], cn>>)]
     ELSE UNCHANGED sharingVars
  /\ cn' = backptr[cn]
  /\ UNCHANGED <<problem, pc, passes, current_net, k, historical_demand, unrouted>>
  /\ UNCHANGED searchVars

(* Mutant: without if (prev >= 0). *)
TracebackStepUnguarded == TracebackIf(TRUE)

TracebackStep == TracebackIf(backptr[cn] >= 0)

(* Then the next target is searched, or the net is done. *)
TracebackEnd(done) ==
  /\ pc = "traceback" /\ cn < 0
  /\ IF done
     THEN pc' = "net" /\ current_net' = current_net + 1
     ELSE pc' = "start" /\ UNCHANGED current_net
  /\ UNCHANGED <<problem, passes, k, cn, historical_demand, unrouted>>
  /\ UNCHANGED <<sharingVars, searchVars>>

(* Mutant: breaks after the first target. *)
TracebackDoneEarly == TracebackEnd(TRUE)

TracebackDone == TracebackEnd(unrouted = {})

-----------------------------------------------------------------------------
(* route() has returned, or fatal("failed to route").                      *)
Stopped == pc \in Final /\ UNCHANGED vars

Search ==
  \/ \E e \in frontierq : PopStale(e)
  \/ \E e \in frontierq : PopVisit(e)
  \/ \E e \in frontierq : PopTarget(e)

Next ==
  \/ SkipNet \/ BeginNet \/ Success \/ NextPass
  \/ RipupEntry \/ RipupClear
  \/ StartSource \/ StartEntry \/ StartDone
  \/ Search
  \/ TracebackStep \/ TracebackDone
  \/ Stopped

Spec == Init /\ [][Next]_vars

(* One thread that never waits: it takes steps until it has stopped. *)
FairSpec == Spec /\ WF_vars(Next)
-----------------------------------------------------------------------------
(* Properties *)

(* The uses of cnet c that demand[c] counts: one for each route entry,     *)
(* except the entries the ripup() in progress has passed.                  *)
FirstCounted(n) == IF pc = "ripup" /\ n = current_net THEN k ELSE 1
Uses(c) == UNION {{n} \X {j \in FirstCounted(n) .. Len(net_route[n]) : net_route[n][j][2] = c} :
                  n \in Net}

(* What Router::check() asserts, in every state and not only between two   *)
(* nets: the counts that ripup() and traceback() keep up entry by entry    *)
(* equal a recount of the routes.  Everything the router decides (what to  *)
(* route again, the costs, success) it decides from these counts.          *)
DemandAccounting ==
  /\ \A c \in Cnet : IsFiniteSet(Uses(c)) /\ demand[c] = Cardinality(Uses(c))
  /\ n_shared = Cardinality({c \in Cnet : demand[c] > 1})

(* The edges of a net's finished branches: while a branch is traced back,  *)
(* from its target towards the tree, its entries do not count yet.         *)
Finished(n) == 1 .. IF pc = "traceback" /\ n = current_net THEN k - 1 ELSE Len(net_route[n])
Tree(n) == {net_route[n][j] : j \in Finished(n)}

Driven(T) == {e[2] : e \in T}

(* T is a tree of switches that grows from the source of n: every driven   *)
(* cnet has one driver, which is driven itself or the source, and no set   *)
(* of cnets is driven only from within (no loop).                          *)
IsRouteTree(T, n) ==
  /\ \A e \in T : e[2] \in outs[e[1]]
  /\ \A d, e \in T : d[2] = e[2] => d = e
  /\ problem.source[n] \notin Driven(T)
  /\ \A e \in T : e[1] \in Driven(T) \cup {problem.source[n]}
  /\ \A S \in (SUBSET Driven(T)) \ {{}} : \E e \in T : e[2] \in S /\ e[1] \notin S

Connects(T, n) == problem.targets[n] \subseteq Driven(T)

(* Whatever is ripped up and rerouted, the finished branches of a net form *)
(* a tree of switches from its source: no cnet has two drivers, there is   *)
(* no loop, and no part hangs loose.  No cnet is entered twice, so that a  *)
(* net never counts as sharing a cnet with itself.                         *)
RouteTrees ==
  \A n \in Net :
    /\ IsRouteTree(Tree(n), n)
    /\ \A i, j \in Finished(n) : net_route[n][i][2] = net_route[n][j][2] => i = j

(* A net that is not being routed, and whose turn came at least once,      *)
(* reaches all its targets: no later pass loses a connection.              *)
Routed(n) == passes > 1 \/ n < current_net
RoutedNetsConnected ==
  \A n \in Net : Routed(n) /\ (n # current_net \/ pc = "net") => Connects(Tree(n), n)

Disjoint == \A m, n \in Net : m # n => Driven(Tree(m)) \cap Driven(Tree(n)) = {}

(* When route() succeeds, every net reaches all its targets and every cnet *)
(* is driven by at most one net through at most one switch, so that the    *)
(* set_cbits() of its switches cannot ask two values of a bit.  (With      *)
(* max_passes = 0 route() succeeds and has routed nothing.)                *)
SuccessIsLegal ==
  pc = "routed" /\ max_passes > 0 =>
    /\ \A n \in Net : Connects(Tree(n), n) /\ IsRouteTree(Tree(n), n)
    /\ Disjoint

(* The assertions of pop(), visit() and route(): the queue never runs out  *)
(* before the frontier does, its least live entry carries the current cost *)
(* of its cnet, a cnet is visited once, and a net that is looked at again  *)
(* has a route.  Congestion never hides a target (unrouted.empty()): a     *)
(* search does not run out of wires before all targets are found.          *)
Asserts ==
  /\ pc = "search" /\ frontier # {} => frontierq # {}
  /\ pc = "search" => \A e \in frontierq : IsTop(e) /\ e[1] \in frontier => e[2] = cost[e[1]]
  /\ pc \in {"grow", "search"} => frontier \cap visited = {}
  /\ pc = "grow" => \A j \in k .. Len(route) : route[j][2] \notin visited
  /\ pc = "net" /\ passes > 1 /\ current_net < NNet => route # <<>>
  /\ pc = "search" => frontier # {}

(* route() returns or gives up. *)
RouteTerminates == <>(pc \in Final)

(* The router implements the abstract account of negotiated routing. *)
Abstract == INSTANCE Routing WITH trees <- [n \in Net |-> Tree(n)],
                                  status <- IF pc \in Final THEN pc ELSE "routing"
ImplementsRouting == Abstract!Spec
=============================================================================
