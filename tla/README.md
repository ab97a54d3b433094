# A verification project for arachne-pnr

arachne-pnr places and routes a netlist on an iCE40 FPGA.  This directory holds
TLA+ modules that model its algorithms, TLC configurations that check them on
small instances, and proofs of the most important facts for every instance.
File and line numbers refer to `src/src/`.

## 1. The system

One process runs a fixed pipeline over a shared `DesignState`
(arachne-pnr.cc): read the chip database and the BLIF netlist; prune; apply pin
constraints; instantiate pads; pack; place constrained cells; promote global
nets; realize constants; place; route; write the bitstream as text.  Every
stage may stop the program with `fatal()`.  There are no threads, no messages
and nothing persistent, so the hard behaviour is not concurrency or crashes but
long sequences of incremental updates: state that is kept in several places at
once, cached, changed tentatively and put back, and loops that end only because
some quantity decreases.

| component | state | operations | interacts with | correct when |
|---|---|---|---|---|
| sparse set (ullmanset.hh) | `n`, `key`, `pos` | insert, extend, erase, clear, contains, ith | members of router and placer | it behaves as a set although stale entries are never cleaned |
| router (route.cc, priorityq.hh) | demand, history, n_shared, a route per net; frontier, queue, costs and back pointers of one search | start, visit, pop, traceback, ripup, route | takes cells from the placer, sets switch bits in the configuration | counts equal a recount, routes are trees, success means no shared wire, it ends |
| placer (place.cc) | cell_gate/gate_cell, chain positions, net lengths; a log of old values | place_initial, move_gate, move_chain, valid, accept_or_restore, the annealing loop | takes chains from the packer and preplaced cells from the constraints, fills `placement` | the two directions agree, chains stay whole, undone moves leave no trace, tiles stay legal, it ends |
| packer (pack.cc, carry.hh) | `ready` carries, the chain being built, `chains` | optimize_luts, pack_dffs, pack_luts, pack_carries | rewrites the netlist; chains go to the placer | each carry is in exactly one chain, chains fit a column, control nets of a tile agree |
| promoter (global.cc) | gc_global, gc_used, the promotion queue | promote, make_routable, pll_pass_through | adds buffers and pass-through cells, some preplaced | used buffers per class never exceed what the chip has |
| constraints, pads (pcf.cc, io.cc) | constraints, bank latches, placement | read_pcf, place_constraints, instantiate_io | preplaces cells | conflicting constraints are reported |
| netlist (netlist.cc/hh) | nets, instances, ports | connect, disconnect, replace, prune, add, remove | used by all stages | ports and nets agree from both sides |
| BLIF reader (blif.cc) | replacement table of nets | read, unify `.names` buffers | builds the netlist | one representative per class of nets, cycles reported |
| constants (constant.cc) | - | realize_constants | netlist | no input loses its value |
| random generator, bit vectors (util.hh, bitvector.hh) | state; words | random, random_int; resize, set, get | placer, parameters | the generator moves; new bits are zero |
| chip database, configuration, parsers | tables | read, write | all | (tables; not state machines) |

`PROJECT.json` lists every component with its status and every hazard with the
line where it bites and the properties that would notice.

## 2. The plan

Modules in the order in which they were written, the most important behaviour
first.

1. `IntSet`, `UllmanSet`: the set both algorithms rest on.
2. `Routing`, `Router`: the router and what it promises.
3. `Legality`, `Placement`, `Placer`: legality rules, the abstract placement,
   and the placer's move transaction that implements it.
4. `Packer`: chains, breaks, pass-through cells; its result is an input of
   `Placer`, so its guarantee is the assumption on `design.chains` there.
5. `Promoter`, and `GlobalBuffers`, which composes it with the greedy placement
   of buffers that needs its guarantee.
6. `Cells`, `Handover`: what a finished placement becomes, configuration bits on
   one side and the routing problem on the other.  It composes the legality rules
   of the placer with the assertions of `Configuration` and `Router`.
7. `Constraints`: pads and blocks that are placed by pins, against the same
   legality rules.
8. `Netlist`, `FrontEnd`: the netlist and the stages that rewrite it before the
   placement.
9. `Anneal`: the schedule around the placer's transaction, and its termination.

10. The proofs, in `*_proofs` modules of their own: `UllmanSet`, `Router`,
   `Packer`, `GlobalBuffers` (with `Promoter`), `Constraints`, `Placer`, `Handover`,
   `FrontEnd` (section 5).

What is left to do: carries and promotion in the netlist of `FrontEnd`, which
would join it to `Packer` and `Promoter`; the bits that the router sets.

## 3. The modules

### UllmanSet and IntSet (ullmanset.hh)

The two arrays and the count, one action per member function.  `resize()` only
sets up an empty set and is the same as a new one.  `IntSet` is the
mathematical set; the refinement mapping takes `members` to the keys at
positions below `n`.

### Router and Routing (route.cc)

`pc` names the place in `route()`: "net" (the loop over the nets of a pass),
"ripup", "start" and "grow" (`start()` before and after the source is visited),
"search", "traceback", and the ends "routed" and "failed" (`fatal("failed to
route")`).  Every turn of a loop is a
step, so that the invariants speak of every intermediate state and not only of
finished calls.  `visit()` is one step with the statement that calls it.

* `unrouted`, `visited` and `frontier` are sets: `UllmanSet` shows that the
  sparse sets behave as such.
* `frontierq` is a set of entries <<cnet, cost>>; a pair is never pushed twice
  in one search, because a cnet is pushed again only at a lower cost.  Equal
  costs are ordered by cnet as in `Comp`.  The model shows that the branch of
  `visit()` that lowers the cost of a frontier cnet does not happen: the cost of
  a step depends only on the cnet that is entered, and cnets are expanded in the
  order of their costs.  Stale entries come from `start()`, which takes cnets of
  the route out of the frontier but not out of the queue.
* The routing problem (`Problems`) is an input: switches, a source and targets
  per net.  `WellFormed` states what the constructor and the first part of
  `route()` assert (no switch from a cnet to itself, a target, distinct
  endpoints) and what the chip provides (nothing drives the source of a net,
  every target can be reached).
* A failing `assert()` is a violation of `Asserts`, and so is a search whose
  frontier is empty (`pop()` of an empty queue); the Makefile builds with asserts.
* With `max_passes = 0` the loop is not entered and `route()` succeeds without
  routes; `SuccessIsLegal` says so by its condition.

`Routing` is the abstract account: trees grow by whole branches, a tree is torn
up only when all nets are connected and it shares a cnet, and the outcome is
decided only when all are connected.  The mapping hides the entries of a branch
while it is traced back (`Tree`).

### Legality, Placement and Placer (place.cc)

`Legality` holds `valid()`, `valid_global()`,
`inst_drives_global()` and `compute_net_length()`, as operators of a design and
a placement.  A cell is its location; an instance is a record of what these
functions read from it.  Three facts of the code show in them:

* control nets are compared while walking up the tile, so that an unused
  position below a clocked one is allowed and one above is not (`OneNet`);
* the latch test of a bank reads `gate_latch`, which the constructor never
  sets (line 1088 stores the latch net in `gate_cen`); the test cannot fail and
  is left out (run handover_latch shows what comes of it);
* I2C and SPI cells (in tiles of type EMPTY) answer to the bus address of their
  corner; `valid()` returns at the first such cell of a tile, of which the chip
  has one at most (`ValidBus`).

`Placer` starts with `place_initial()`: chains to the first column with room
(`PlaceChain`), preplaced gates (`PlaceLocked`), the others one by one on a cell
where `valid()` accepts them, buffers last (`PlaceGate`).  Which of the accepted
cells is taken depends on the order of the chip's tables and is left open.
Then a move starts from "idle": `MoveGate` exchanges two cells; `BeginChain` and
`MoveChainCell` exchange the ranges of a chain cell by cell, each as
`save_set()` does, with the log of old values.  `accept_or_restore()` is
`Reject` (a locked gate or an illegal tile), or `Evaluate` followed by `Accept`
or `Refuse`.  The order in which `place()` goes through gates and chains and all
random choices are left open; `hot` stands for temp > 1e-6, below which only
improvements are kept, and `Cool` for the schedule.

`Placement` is the abstract account: complete placements (one-to-one, each gate
on a cell of its type, chains consecutive, preplaced gates in place) that change
by whole moves, and only to shorter wires once cold.  The mapping takes the
placement during a move to what `restore()` would bring back, so that every
step that saves too little shows as a change of the abstract placement.

The model found, and the runs show, that a placement may be illegal when moves
start: `place_initial()` looks only at the tile of the new gate, so an input may
land on the second pad of a PLL that is already placed, and chains are placed
without `valid()`.  No kept move adds a conflict (`NoNewClash`), but one that is
there from the start can stay, which is why that property compares two states
and is no invariant.

### Anneal (place.cc)

The loop of `place()` around these moves: `Accept`, `Refuse` and `Illegal` are a
move with the change of the wire length, any change, as its only trace;
`EndMoves` and `Schedule` are the statistics and the choice between lowering the
average, the temperature or the diameter.  The temperature is its logarithm in
steps of 0.05, which makes the factors 0.95, 0.9, 0.8 and 0.7 the numbers 1, 2, 4
and 7, with the code's thresholds 1e-3 (`Low`) and 1e-6 (`Cold`) in that order;
`Placer`'s `hot` is temp > `Cold`.  Chance accepts any move above `Cold` and, as
exp(-delta/temp) does for delta = 0, never refuses one there that keeps the
length.  `0 / 0` as the rate of an iteration without legal moves is a NaN, for
which all comparisons fail.

`AnnealingEnds` has two exceptions, and TLC finds a counterexample without either: the rate may
lie above 0.6 and below 0.4 in turn, which moves the diameter up and down and
keeps the temperature; and if the wire length is 0, the average is compared with
it for ever, since 0.8 times the smallest positive double is rounded to itself.
Both need chance or a design to play along; nothing in the code excludes them.

### Packer (pack.cc)

`pack_carries()` and `pack_carries_from()`, statement by statement: `pc` is
"collect" and "front" in the former, and in the latter "break" (is the chain too
long), "carryin" (does it need a cell that feeds it), "carry" (the carry becomes
part of a cell) for each turn of the loop, "tail" and "end" after it; it ends in
"packed" or "failed" (`fatal("carry chain loop")`).  The netlist is `conn`, the
net of each port, so that the steps rewire it as `Port::connect()` does, and a
net's connections are the ports that `conn` maps to it.  Instance and net numbers
grow as new ones are made, which gives the order of `IdLess`.  The earlier passes
of the packer are in `FrontEnd`.

* `control` is global_clk, global_cen and global_sr.  They are reset only at the
  top of the loop, when the length is a multiple of the tile's, although cells
  are appended in four places; `ControlsAgree` shows that this is enough.
* `bridges` and `packed` are history, read by properties only: the cells that
  copy a carry, and the cell of each carry.
* The input of the model is the netlist after `pack_dffs()` and `pack_luts()`.

The packer compares the nets of a tile but not the clock edge, NEG_CLK.  Two bits
of an adder that are registered on opposite edges of one clock go into one tile,
and the configuration of the tile then runs into the assertion of
`Configuration::set_cbit()` (run packer_edge).

### Promoter and GlobalBuffers (global.cc, place.cc)

`promote()` is three loops, and `pc` names the one it is in: "fixed"
(`CountFixed`, drivers that are placed already, and `RefusePad`, a global pad
without a network), "scan" (`ScanGlobal`,
`ScanFabric`, all nets), "promote" (`Promote`, `Leave`, the queue).  A net is
abstracted to its inputs counted by kind: the five classes of inputs, lookup
table inputs, which the clock class reaches too, and others.  `global[n]` counts
those on the global network and `local[n]` those that were moved off it, by
`make_routable()` or because the promoted net does not reach them.  The first
loop goes through placed instances in the code and through nets here; its turns
do not depend on each other.

`GlobalBuffers` adds the part of `place_initial()` that places buffers in the
order of their class masks, each on any free network of its class.  A buffer lies
in an I/O tile, and a pad with a global output blocks the buffer of its own tile
(`Blocked`), which the quota does not know: `BuffersFit` has this in its
condition, and `PromotedFit` excludes such pads.  Drivers that are placed are
counted by the first loop and again by the second, so the quota may be ahead of
what is taken but, as `QuotaCounts` shows, never behind.

### Cells and Handover (place.cc, route.cc, configuration.cc)

`Cells` describes instances by their ports and parameters and defines what the
constructor of `Placer` lets `valid()` see of them (`View`).  `Handover` starts
from a placement that `valid()` accepts in all tiles, of those that the constant
`Placements` offers for a design; a run offers them all.  `configure()` goes
through the gates (one action per kind of cell, with the bits it sets), the pins
of the package and the remaining tiles (`ConfigurePins`, `ConfigureTiles`);
`CollectNet` is a turn of the first loop of `route()`, with `port_cnet()` as an
operator of the same name.  A bit is <<tile, name, index>>, a wire likewise, and
`conf` and `cnet_net` are relations, so that a second value stays visible.

* A field of several bits that is written as a whole is one bit with several
  values (`ParamBits`).
* Package pins and boundary nets, which are not routed, are left out, and so are
  the cells of chained tiles that `valid()` does not see (run packer_edge).
* Pads have one of the usual PIN_TYPEs; the conflict of a PLL with other low
  PIN_TYPE bits in its tile is a hazard with a note.  No design has an LVDS input
  on a 5k beside the pad of a used PLL (place.cc:2083).
* A global buffer of a pad is only on a pad with a network: constraints place it
  (place.cc:608 would throw for others) and `promote()` refuses others.  I3C and open drain pads have the
  cell type IO.
* `BadParameter` stands for the parameters that `configure()` refuses.

### Constraints (pcf.cc)

`parse()` line by line (`SetIo`, `BadLine`), in any order, up to `MaxLines`; the
ports in the order of their names (`PlacePad`, `PlacePLLPad`, `SkipRgb`, or
`PinMisfits`, each `fatal()` of the loop); the pads of placed PLLs (`CheckPLLs`);
the oscillators and other PLLs on the first cell that is free (`PlaceFirstFit`).
Lines that do not parse are left out.

The placer asserts that `valid()` accepts what was placed here, although the
tests here are another copy of the rules.  `AcceptedIsLegal` shows that this
works but for four combinations, which the definition names: an LVDS input
beside another constrained pad, two drivers of one global network, a global
buffer on a pad without one, and two PLL pads in one tile.

### Netlist and FrontEnd (netlist.cc, blif.cc, io.cc, pack.cc, constant.cc)

`Netlist` has the operations of `Model`, `Net` and `Port` as functions of a
design.  A net's ports and a port's net are one relation, so that the two sides
agree in the model; in the code `connect()` and `disconnect()`, the only members
that touch either, change both.  Nets and gates are numbered: those of the file from 1
to `NName`, which bounds nothing but the names in a file, and those that are made up
above it.

`FrontEnd` is the flow from the file to the constants: the lines (in any order),
`Unify` (one .names line), `RemoveReplaced`, `ReplaceOpenDrain`,
`RedirectInouts`, `CheckDrivers` (the rest of `read_blif()`), `CheckTbufs`,
`InstantiateIo` (one port), `OptimizeLuts`, `PackDff`, `PackLut`,
`RealizeConstants`, with `prune()` where the flow has it.  Iteration orders that
come from hash tables or addresses are left open.  `meaning` is history: what the
file says, computed when the file is read, independently of unification, as a
function from values of ports and flip-flops to values of ports and to what
flip-flops see.

* The constant of a net that a .names line replaces is dropped without a word
  (blif.cc:342), and the meaning takes it as dropped.
* The message that a bidirectional port must be driven by a tri-state buffer
  (io.cc) is never reached: `check_boundary_nets()` refuses such files before.
  It refuses every tri-state buffer with an input on its net, too.
* Left out are carries, constraints and promotion, which lie between these stages
  in the flow, RAMs, PLLs and other blocks; the value X of an undriven port of
  `$_TBUF_` is read as 0.  No file has a loop of LUTs.

## 4. The runs

| run | instance | question |
|---|---|---|
| ullmanset | 4 keys, all calls | set semantics with stale entries |
| router | 12 cnets, 3 nets (one with two targets), 4 passes, all well-formed members of two families of fabrics | counts, trees, outcomes, assertions, least cost, refinement, termination |
| placer_logic | 2 columns of 3 tiles of 2 cells, 8 gates, 2 or 3 chains, 10 designs | undo, chains, legality of logic tiles, settling |
| placer_io | 4 I/O tiles with 2 PLLs and 2 buffers, two corners with I2C, 5 gates, 7 designs | legality across tiles, preplaced pads |
| packer | columns of 2 tiles of 2 cells; adders of 5 carries with every mixture of cells, and all ways 4 carries can feed each other | chains fit, wires, control nets, same logic, loops |
| packer_edge | one adder of 3 bits on two clock edges | violated: one clock edge per tile |
| handover | 6 gates, 8 nets on a chip of the 5k's kind with every type of tile, 12 designs, all legal placements | bits with two values, wires with two nets, sources that are off |
| handover_latch | the same chip, two pads with latch nets | violated: wires with two nets |
| constraints | three I/O tiles in two banks with 2 PLLs, 11 designs, all files of up to 4 lines | accepted means legal, refused means illegal |
| front_end | 12 files of up to 7 lines, any of them missing, in every order | order of lines, same logic, `Model::check()` |
| anneal | lengths 0 to 2, diameters 1 to 3, 4 moves, temperatures 9 to 0 | the loop ends |
| globals | the 8 networks and 5 classes of the chips, 238 designs | quota, reach of promoted nets, a place for every buffer |

Bounds and why they are enough:

* `Cap = 4`: an erase from the middle with a member before, the moved last
  member, and a stale entry need four keys.
* Router: four passes are the first, one with negotiation and no history, one
  with history, and the last with its own prices.  The family `Crossing` has
  nets that meet on two wires, with any subset of eight detours; `Detour` makes
  nets move only in the third pass because of history.  Success in passes 2
  and 3, failure, stale queue entries and several shared wires all occur.
* Placer: a chain of two tiles beside a chain of one, a free and a preplaced
  gate; a chain covers the other, both change places, a tail shares its tile
  with free gates; tiles of two cells (`TileSize = 2` for the code's 8, and
  `MaxLocal = 3` for 29 in that run) make all of this happen with 8 gates.
  Four I/O tiles are two PLLs with their pads, each with a buffer of the
  other's global network in its tile.
* Packer: a column holds four cells, so that an adder of five carries is broken
  with and without cells before and after the break, within and at the border of
  a tile; the tail of a chain fits, starts a new tile, or needs a new chain.  The
  webs have every fan-out of carries and every loop of up to four.
* Globals: in some design every class has, together with the classes within it,
  more candidates than networks, so that each quota is exhausted; the designs bring PLLs, pads, an oscillator, buffers of their own, and more of them than
  fit.

* Handover: the legal placements put any two gates of a design together that can
  share a tile, for each type of tile; two logic cells, two pads, a pad in the
  tile of a PLL, of a buffer or of an LVDS partner.  The bits of pads may
  lie in another tile than the pad, as on the chips.
* Constraints: four lines are three ports and one line that repeats a port or
  a pin, or misses it.  Three tiles have a pair of pads in one tile, two tiles in
  one bank, and two banks; a PLL has its outputs in one tile or in two.
* Front end: `NName = 10` is the number of nets that the files name.  They have chains and cycles of .names, every way a LUT, a
  flip-flop and a constant can meet, and ports that are read, driven, or both.
  Since any lines may be missing, ports stay undriven and nets unused.  All ends
  of the flow occur but the one in `InstantiateIo` named above.
* Anneal: with 4 moves the rate takes a value in each of the code's ranges.  The
  start is high enough for all orders of steps down to `Low` and `Cold`, which
  is all that later behaviour depends on.

Properties of `Router`: `DemandAccounting` is what `Router::check()` asserts,
in every state; `RouteTrees` and `RoutedNetsConnected` say that ripping up and
growing loses and doubles nothing; `SuccessIsLegal` and `Asserts`
concern outcomes; `NearestTargetFirst` compares every connection with shortest
paths computed by relaxation (in `MCRouter`); `ImplementsRouting` is the
refinement; `RouteTerminates` needs `WF_vars(Next)`.

Properties of `Placer`: `CheckHolds` is `Placer::check()` and the assertion that
a refused move leaves no flag behind; `NoNewClash` compares gates pairwise in terms of
the chip, independently of `valid()`; `ImplementsPlacement` is the refinement;
`ColdSettles` says that the kept moves end once the temperature is low.

Properties of `Packer`: `Asserts` collects the assertions of the code and the
length of a chain; `CellsOnce` says that chains are disjoint and hold every
carry; `DedicatedWires` that a carry goes only to the next cell, which is the
only wire the chip has for it; `ControlsAgree` compares the cells of a tile;
`SameLogic` follows copies back to what they copy and finds the netlist
unchanged; `LoopsReported` is the outcome.

Properties of `Promoter`: `QuotaCounts` (the quota covers what is taken),
`NoOverbooking` (a promotion leaves no class with more takers than networks),
`InputsReached` (whichever network a buffer gets, it reaches all inputs left on
its net).  Of `GlobalBuffers`: `BuffersFit` (the greedy order finds networks
whenever the counts allow it) and `PromotedFit` (so does a promoted design).

Properties of `Handover`: `BitsAgree` is the assertion of
`Configuration::set_cbit()`, `NetsApart` those of the first part of `route()`;
`SourcesOpen` compares the two translations of a placement: what the router takes
as a source has been switched on by `configure()`, for networks exactly once.

Properties of `Constraints`: `AcceptedIsLegal` and `RefusedIsIllegal`, which
judges a refused file by the whole set of its pins, so that the order in which
they were compared cannot matter.

Properties of `FrontEnd`: `RefusesConflicts` (a file is refused for its .names
lines exactly if they are no forest, whatever their order), `SameLogic` (every
stage preserves what each port and flip-flop computes), `Asserts`
(`Model::check()` after the stages, and the router's assertion that only
constants which a port reads anyway are left undriven).

Property of `Anneal`: `AnnealingEnds`, with its two exceptions as conclusions in
terms of what goes on for ever.

Fairness is weak fairness of the whole next-state relation everywhere: the
program is one thread that never waits.

## 5. What is proved

Each theorem holds for every value of the constants that satisfies the named
assumptions of its module.  The argument is the same everywhere: an inductive
invariant, one step per action and one part of the invariant at a time, and the
property as its consequence.  The invariants were checked by TLC on the
instances of section 4 before they were proved.

| module | theorem | property |
|---|---|---|
| `UllmanSet_proofs` | `RepresentationInvariant`, `ContainsCorrectness`, `Refinement` | type and representation, `contains()`, `ImplementsSet` |
| `Router_proofs` | `TypeCorrect`, `CheckNeverFails`, `RoutesAreTrees`, `ConnectionsKept`, `AssertionsHold`, `SuccessfulRoutesLegal`, `RouterImplementsRouting` | `TypeOK`, `DemandAccounting`, `RouteTrees`, `RoutedNetsConnected`, `Asserts`, `SuccessIsLegal`, `ImplementsRouting` |
| `Packer_proofs` | `TypeCorrect`, `AssertionsHold`, `CellsPackedOnce`, `CarriesDedicated`, `TilesAgree`, `LoopsFound`, `LogicKept` | `TypeOK`, `Asserts`, `CellsOnce`, `DedicatedWires`, `ControlsAgree`, `LoopsReported`, `SameLogic` |
| `GlobalBuffers_proofs` | `PromoterTypes`, `QuotaNeverBehind`, `PromotionsWithinQuota`, `PromotedInputsReached`, `BuffersAlwaysFit`, `PromotedAlwaysFit` | `TypeOK`, `QuotaCounts`, `NoOverbooking`, `InputsReached`, `BuffersFit`, `PromotedFit` |
| `Constraints_proofs` | `AcceptedFilesLegal`, `RefusedFilesIllegal` | `AcceptedIsLegal`, `RefusedIsIllegal` |
| `Placer_proofs` | `CheckAlwaysHolds`, `PlacerImplementsPlacement`, `MovesKeepApart` | `CheckHolds`, `ImplementsPlacement`, `NoNewClash` |
| `Handover_proofs` | `BitsNeverConflict`, `NetsNeverMeet`, `SourcesAreOpen` | `BitsAgree`, `NetsApart`, `SourcesOpen`, each under conditions named below |
| `FrontEnd_proofs` | `ConflictsRefused`, `AssertsHold` | `RefusesConflicts`, and `Asserts` under the condition on pads named below |

### Sparse set

`pos[key[p]] = p` for every p below n is inductive with the types; the other
direction, that an entry of `pos` below n which points back is a member, follows.

### Router

`RouterInv` is the conjunction of

* `TInv` (types; the problem is one of `Problems`) and `DemandAccounting`: for every
  cnet, the route entries not yet passed by a rip-up in progress (`Uses`).  Rip-up
  removes one use and trace back adds one; lemmas about cardinalities carry
  the count of shared cnets over the thresholds that the code tests before the
  increment and after the decrement.  This part needs no assumption on the
  fabric;
* `SearchInv`: back pointers lead from every cnet of the search through visited
  ones to a root.  It is stated without paths, as "no set of visited cnets leads
  only to itself" (`IsSearchTree`), since paths would need induction.  The part
  `IsFrontier` says that every cnet of the frontier is in the queue at its
  present cost, so that a search with a frontier never pops an empty queue;
* `RouteTrees`, likewise by sets that lead only to themselves; a branch that was
  traced back joins the tree because its last entry leaves a root;
* `Unrouted` (the targets still to be found), `RoutedNetsConnected`, and `Passes`
  (no net whose turn has not come has a route in the first pass, a net is
  ripped up only because it shares a cnet).

A search cannot fail because the chip reaches all targets (`ProblemsAssumption`):
a search with an empty frontier would leave a closed set of visited cnets.  The
refinement maps a branch in progress to nothing and its last step to the whole
branch.

### Packer

`Inv` has a part for each thing that the loops keep, and the parts need each
other:

* `NetInv`: the ports of instances, that no net has two drivers, and that
  instances and nets to come have numbers above all there are;
* `LoopInv`: what each place in the loops knows, for instance that the carry of
  the last cell of the chain is the carry in of the next carry;
* `LengthInv`: room for the rest of the chain at each place; a carry whose carry
  goes on is only reached with two cells to spare, one of them for the cell that
  passes its carry out;
* `CarriesInv`: the carries that are left are still connected as in the design, and
  one of them is ready or current exactly if no other that is left feeds it.
  `LoopsInv` follows its way through the steps: no carry of a loop is ever packed;
* `PlacesInv`, `FedInv`: no cell is in two places, and I3 of a cell of a chain is
  connected to the carry of the cell before, or to no carry.  Without the latter
  a new pass-through net could end in the wrong cell;
* `ControlInv`: the cells of a tile agree, and `control` has all nets of the tile
  of the next cell, from which follows that forgetting it at the top of the
  loop alone is enough;
* `WireInv`: what is connected to the carries inside a chain, and that the last cell
  of a finished chain has none.

`SameLogic` speaks of copies of copies, and needs to know which nets are copied
(`CopyInv`): a cell that passes a carry out copies a net that is not a copy, so two
steps back are enough.  `LogicInv` is `SameLogic` with this notion of origin.

### Promoter and buffers

`PInv` is `TypeOK`, `QuotaInv` (the counts, in the first loop for the turns taken up
to now), `QueueInv` (a net is in the queue once and is not on a network),
`ReachInv` (`InputsReached`, loop by loop for the nets whose turn is over) and
`FitInv` (where a net was promoted, every class around its own has a network for
everything that takes one; elsewhere all buffers are the design's own), from which
`PromotedFit` follows.

For the buffers, `BuffersInv` says that as long as no class above X was reached,
only buffers whose class lies within X have taken networks of X.  So when the
greedy choice comes to class X and finds no network free, the buffers and drivers
within X are more than X has, which the quota excludes.  This works because
classes that overlap are nested and a class within another has the smaller mask
(`MaskAssumption`, the masks of `gc_clk` to `gc_rcen` in global.hh).

### Constraints

`Inv` collects what the loop over the pins has compared by the time it ends:

* `FileInv`: the file names ports and pins, each once; after `EndOfFile` all ports;
* `PlacedInv`: `cell_gate` is the inverse of `placement`, but for a second PLL at
  the cell of the first, which overwrites it (`TwoPLLs`);
* `OriginInv`: a pad, and until the PLLs are checked a PLL, is where a port
  before the current one has its pin, so that it is also where it is wanted;
* `RulesInv`: the pads that share a tile have the same controls, whichever came first
  (`SameControlsSymmetric`), and no placed PLL has an input at its pads once that
  was tested, also after PLLs without pads have been placed;
* `BankInv`: the latch net of a bank is that of a pad there;
* `RefusedInv`: the state in which the pins are refused still shows why.

`PadView`, `PLLView` and `SameControlsView` relate the tests of pcf.cc, on
parameters and ports, to those of `valid()` on the copies that the placer's
constructor makes; with them `AcceptedIsLegal` follows tile type by tile type.
`RefusedIsIllegal` follows from `RefusedInv`, one test at a time: the pad or the latch
that was there before is wanted where it is, so the complete set of pins has the
same conflict in whatever order it is read.  That proof never needs the disjunct
`OffNetwork`, which is there because `valid()` is not defined at such a pad and TLC
has to evaluate it.

### Placer

`PlaceInv` is about `place_initial()`: what is placed is placed both ways, chains lie
in the free rows of logic columns and apart.  `MoveInv` is about moves:

* `Undoable`: the placement that `restore()` would bring back (a fold of the log
  in the code, the last entry of each cell and gate here) is a placement with
  whole chains, and the saved lengths are its lengths.  `SavedOnce` is why the
  order of restoring does not matter: no cell and no gate is saved twice, and
  what was saved lies on saved cells;
* `ChainsFollow`: positions of chains, and what was saved of them, are those of
  their first gates;
* `Remeasured`: nets of gates that moved will be measured again;
* `HalfMoved`: in the middle of the move of a chain, the positions before j have
  been exchanged and no other cell was touched.  That the two ranges may overlap
  in other chains but not cut one is what `RoomFor` tests; from it follows that the
  chains that are pushed away stay whole and apart.

`ImplementsPlacement` needs besides that `delta` is the sum over the nets measured
again of new minus old length (`DeltaInv`), so that a cold placer's kept moves shorten the
total.  The sum is a fold of the library, which is defined by recursion on
sets; its equations (`SumUnfolds`, `SumOneOut`, `SumOfDifferences`) are proved by
taking a smallest set that violates them, which well-foundedness of the proper
subsets provides (`SmallestSubset`).

`NoNewClash` needs `ChangedInv`: for every gate that moved, the tiles related to its
cell are among those that are judged (`TilesMarked`), and these are all valid when
the move is accepted.  `ClashSeen` then says, for each kind of conflict, that
`valid()` refuses a tile related to the cell of either gate; if neither moved, the
conflict was there before.

### Handover

`valid()` compares some of what cells of a tile share.  The theorems say that this
is enough, but for four things that it does not compare; each is a condition of
a theorem, holds in all states of run handover, and is a formula about the
placement that stays in the theorem because the code does not exclude its opposite:

* `PLLPadsPlain`: the low PIN_TYPE bits of a pad that a PLL goes through are those
  that the PLL sets there (hazard at place.cc:1781);
* `LatchesAgree`: the pads of a tile have one latch net.  Run handover_latch shows
  what happens otherwise;
* `BuffersAlone`: no port of another block has the wire of a used fabric buffer's
  input, unless it is on the same net;
* `NoLvdsBesidePLL`: the second pad of an LVDS input is not one whose input a PLL
  output takes (place.cc:2083).

For the bits, `BitValue` gives every bit its value from the placement alone: from the
gate at its cell, the gates of its tile, or the pin whose enable and pull-up are at
its place.  `BitsInv` is that all of `conf` has that value, and each action is shown to
write it (`LogicMeant`, `PadMeant`, `RamMeant`, `MacMeant`, `PLLMeant`, `PinsMeant`,
`LvdsMeant`, `TilesMeant`).  No bit has two values then, whatever the order of the
gates and of the sections of `configure()`.

For the wires, `KindOfPort` says that the wire of a port is of one of the kinds of
`WireKind`: of a logic cell, a pad, a RAM, a network, a buffer, or listed by the
chip database.  Kinds share no wire but for the listed wires of buffers.  Within a
kind, two ports with one wire have one net (`LogicApart`, `PadsApart`, `PadNotPLL`,
`PLLsApart`, `RamApart`, `ListedApart`, `BufferApart`), because they are one port, or because
`valid()` compares the nets.  For networks (`NetworksApart`), a pad, a buffer, PLLs and an
oscillator might drive one, and `valid_global()` and the tests of the PLLs' pads leave one of them
(`OneDriver`).  `NetsInv` says that `cnet_net` has the net of each port and that a
net has one source.

`SourcesInv` compares the two tables that say what drives a network: the extra bits set up
to now are those of the gates passed (`Opened`), a gate sets one exactly for the
networks that `port_cnet()` takes as the wires of its outputs (`PadOpens`, `PLLOpens`,
`OscillatorOpens`), and the input enable of a pin is written after all pins.

### Front end

Unification looks at one line at a time, at the replacements that the lines before
have left, and shortens them on its way.  `UnifyInv` says that what was replaced
never has a loop (`Loopless`: in any set of nets that are driven there is one whose
driver is not in it), and that the file has a meaning exactly if the lines that are
left drive different nets, none of them replaced, and close no loop together with
what was replaced.  `OneOrigin` (the way from a net ends, once),
`ShortenedLoops` (a line that is taken in and the shortened way close the same loops
as the line itself) and `LoopFound` (the net at the end of its own way is in one) are
the steps.  Ways are defined by sets that contain the driver of each of their
members, so that none of this needs induction over lengths.

`AssertsHold` says that every stage leaves a netlist that passes `Model::check()`, and
that in the end only inputs that read it anyway are left at a constant.  `StageInv` has
what is true before each stage:

* `Shape` (the types; a connected port exists, its net too) through the reader;
  `InoutsDriven`, that a port which stays bidirectional has a buffer or a pad
  on its net, after `RedirectInouts`;
* `Checked`, what the tests at the end of `read_blif()`, `prune()` and
  `check_boundary_nets()` leave: no net has two drivers but those of pads, and
  bidirectional ports are alone with a pad or a buffer;
* `Between(d, todo)` while `instantiate_io()` runs: ports that were handled are alone with
  a pad (`WithPad`), and every tristate buffer still has a port in `todo` to drive.
  No other output is on a buffer's net (`TbufAlone`), so that a port meets one buffer at most;
* `Tidy` from then on: every connected port is alone with a pad on a net that is not
  constant, no net has several drivers, and no buffers are left.  With `Live` (each net is
  read and has a source), which `prune()` restores, this implies `Model::check()`
  (`CheckHolds`);
* `HasConsts` while LUTs and flip-flops are packed, for the constants that cells get.

After `instantiate_io()` the stages move only ports other than those of the pairs of port and pad:
inputs to nets that others already use, to constants or to new nets, and every output in the
place of an output that is gone.  `Rewired` says so, with the function `src` from outputs
to the outputs that they replace; `RewiredTidy` derives from it, once for all stages,
that the netlist stays `Tidy`: the nets of pairs are not touched, and no net gets a second
driver because `src` is one to one.  `OptimizeStep`, `PackDffStep` and `PackLutStep` give
the function.  `realize_constants()` does not end with `prune()`: `Ready` says what
`RealizeReady` needs and keeps for each of its two cells, that all nets but constants are fed, and
`UnusedGo` that removing the constants nobody reads leaves every net alive.

The theorem assumes that `PadsPlain` holds when `instantiate_io()` begins: the net of an SB_IO_OD
that is connected has one more port, of the top model, and the net of a pad is not set
to a constant.  `read_blif()` tests the first for SB_IO only, and the second for none.  TLC
finds no state of the run that violates the condition.  Without it `Asserts` is false: two SB_IO_OD
on a net of their own, or one on a net that is constant, pass all tests of the
reader and fail `Model::check()` after it; and the Packer takes the net of a pad, if
it is constant 0, as the constant for the inputs of LUTs.

### Assumptions on the constants

Named `ASSUME`s, which TLC evaluates on every instance.

* `Placer.ChipAssumption`: a column with a logic tile in row 1 (place.cc:1014)
  consists of them, except for its first and last row, and the rows where chains
  are put at first lie within it.  The code relies on both; the second is by
  definition except in the corner columns, where the rows are numbers per device
  (place.cc:1122 to 1142).
* `Placer.DesignAssumption`: what the packer and the constraints hand over: chains
  are disjoint and not empty (`CellsOnce`), preplaced gates have cells of their types,
  no two the same (`AcceptedIsLegal`; `place_constraints()` checks both), and none
  where chains go at first: only `pll_pass_through()` preplaces logic cells, in the
  corners that the rows of the corner columns leave out.  The code asserts it
  (place.cc:1169).  Oscillators are always preplaced (pcf.cc, `PlaceFirstFit`).
* `Placer.LayoutAssumption`: which cell types lie in which tiles and positions, as
  the constructor of `ChipDB` adds the cells.
* `Router.ProblemsAssumption`: problems are `WellFormed` (section 3).
* `Packer.SizeAssumption`: a column holds more than two cells, as any with a logic
  tile does.  `Packer.DesignAssumption`: what `Model::check()` asserts of the netlist (no
  net with two drivers, no driver of a constant) and what `pack_luts()` leaves (no
  logic cell uses its carry yet).
* `Constraints.ChipAssumption`: where the constructor and the tables of `ChipDB` put pads,
  PLLs and oscillators, that pins are pads of a bank, and that the outputs of a PLL are pads
  of a network.  `Constraints.DesignAssumption`: a port is the pin of one pad or PLL, or
  of the RGB driver, which alone has several (asserted by
  `top_port_io_gate()`).  `Constraints.SizeAssumption`: the sizes are numbers.
* `Promoter.ClassAssumption`, `GlobalBuffers.MaskAssumption`: the masks of global.hh,
  as above.  `Promoter.DesignAssumption`: a design has a net, which its constructor
  makes sure of with const0.
* `Netlist.NameAssumption`: `NName` is a number.  `FrontEnd.FilesAssumption`: what the
  parser makes of a line; a gate has ports of its model only (blif.cc:245 refuses
  others), and each .gate line is a gate of its own.
* `Handover.ChipAssumption`: which cells lie in which tiles and at which positions, and
  that the place of a pin's enable bits is its own.  `NetworkAssumption`: a network has one
  pad, a buffer, the outputs of PLLs are on pads of different networks, and an
  oscillator has a network of its own.  `WireAssumption`: no two ports have the same listed
  wire, and none is a wire named after a port of a logic cell, pad or RAM, or a network.
  `DesignAssumption`: parameters of blocks have names of their own, the strengths are
  those that `configure_io()` asserts.  `PortAssumption`: ports are those of the
  library's models, a net has one driver (`Model::check()`), and the chip database lists
  the ports of a block on a cell of its type, for which `port_cnet()` would throw otherwise.

### What is only checked

* Liveness (`RouteTerminates`, `ColdSettles`, `AnnealingEnds`): the prover has no
  rule for fairness.
* `NearestTargetFirst`: its reference is a recursion over path lengths.
* `SameLogic` of `FrontEnd`: the meaning of a file is a recursive function over the
  netlist, and what it computes needs induction.
* `Asserts` of `FrontEnd` needs the condition `PadsPlain` (above) as a theorem; it is what
  the files of the run satisfy.

## 6. What is not modelled

* The chip database and its file formats, the text of the other files, printing
  and the command line: tables and text without state that changes under later
  calls.  Nor is reading a placed netlist back in.
* The bits of switches and column buffers that `route()` sets from the finished
  routes, and `write_txt()`: one bit per switch used, from a table.
* `pll_pass_through()`, which adds one cell at a fixed place for each of LOCK and
  SDO; the placer's models have such a cell among the preplaced ones.
* The random generator (util.hh): its outcomes are left open everywhere, which
  includes the sequence of a seed with state 0.
* Bit vectors, vectors and hash containers: thin wrappers of the standard
  library; parameters are taken as the sets or numbers they stand for.

`PROJECT.json` says which parts of a component are missing, and has the hazards
that no property covers with the reason.
