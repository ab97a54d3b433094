------------------------------- MODULE Placer -------------------------------
(***************************************************************************)
(* The placer of place.cc.  place_initial() puts the carry chains, the     *)
(* preplaced gates and all others on cells one by one.  Then place() tries *)
(* random moves: a gate to another cell, or a chain to another place; what *)
(* is there moves the other way.  A move is carried out on the live        *)
(* placement while the old values are saved; accept_or_restore() keeps it  *)
(* or puts the old values back.                                            *)
(*                                                                         *)
(* The random choice of gate, chain and place is a nondeterministic one,   *)
(* and so is exp(-delta/temp) against a random number; hot tells whether   *)
(* temp > 1e-6, the temperature below which only improvements are kept.    *)
(***************************************************************************)
EXTENDS Legality, Sequences, FiniteSetsExt

CONSTANT Designs   \* the designs considered

Columns == {chipdb.logic_columns[k] : k \in DOMAIN chipdb.logic_columns}
LastRow == chipdb.height - 2

(* Logic columns are whole: a logic tile in every row but the outermost.   *)
(* Chains are first put on the rows column_free to column_last of them.    *)
ASSUME ChipAssumption ==
  /\ {NGate, NNet, chipdb.height} \subseteq Nat /\ TileSize \in Nat \ {0}
  /\ Cell \subseteq Int \X Int \X Int
  /\ Columns \subseteq Int
  /\ \A k, l \in DOMAIN chipdb.logic_columns : chipdb.logic_columns[k] = chipdb.logic_columns[l] => k = l
  /\ {chipdb.column_free, chipdb.column_last} \subseteq [DOMAIN chipdb.logic_columns -> Int]
  /\ \A k \in DOMAIN chipdb.logic_columns :
       /\ 1 <= chipdb.column_free[k] /\ chipdb.column_free[k] <= chipdb.column_last[k] + 1
       /\ chipdb.column_last[k] <= LastRow
  /\ \A x \in Columns, y \in 1 .. LastRow, p \in 0 .. TileSize - 1 :
       <<x, y, p>> \in Cell /\ chipdb.cell_type[<<x, y, p>>] = "LOGIC"

(* Chains are disjoint sequences of logic cells; preplaced gates have      *)
(* different cells of their types, none where chains are put at first;     *)
(* oscillators are preplaced.                                              *)
ASSUME DesignAssumption ==
  \A D \in Designs :
    /\ D.net_gates \in [Net -> SUBSET Gate]
    /\ D.chains \in Seq(Seq(Gate) \ {<<>>})
    /\ \A i, k \in DOMAIN D.chains : \A j \in DOMAIN D.chains[i], l \in DOMAIN D.chains[k] :
         D.chains[i][j] = D.chains[k][l] => i = k /\ j = l
    /\ \A g \in Chained(D) : D.inst[g].type = "LOGIC"
    /\ Locked(D) \subseteq Gate \ Chained(D)
    /\ \A g, h \in Locked(D) : D.placement[g] = D.placement[h] => g = h
    /\ \A g \in Gate : D.inst[g].type = "OSC" => g \in Locked(D)
    /\ \A g \in Locked(D) : /\ D.placement[g] \in Cell
                            /\ chipdb.cell_type[D.placement[g]] = D.inst[g].type
    /\ \A g \in Locked(D), k \in DOMAIN chipdb.logic_columns :
         D.placement[g][1] = chipdb.logic_columns[k]
           => D.placement[g][2] < chipdb.column_free[k] \/ D.placement[g][2] > chipdb.column_last[k]

(* What lies where: logic cells in logic tiles, two pads, a global buffer  *)
(* and a PLL at their positions in I/O tiles, I2C and SPI cells in the     *)
(* corners.  Only pads, buffers, PLLs and oscillators reach the networks.  *)
ASSUME LayoutAssumption ==
  LET Cells(type) == {c \in Cell : chipdb.cell_type[c] = type}
      In(type, tileType, c) == c \in Cells(type) => chipdb.tile_type[TileOf(c)] = tileType
  IN /\ \A c \in Cell : /\ In("LOGIC", "LOGIC", c) /\ In("IO", "IO", c) /\ In("GB", "IO", c)
                         /\ In("PLL", "IO", c) /\ In("I2C", "EMPTY", c) /\ In("SPI", "EMPTY", c)
     /\ \A c \in Cells("LOGIC") : c[3] \in 0 .. TileSize - 1
     /\ \A c \in Cells("IO") : c[3] \in {0, 1}
     /\ \A c \in Cells("GB") : c[3] = 2
     /\ \A c \in Cells("PLL") : c[3] = 3
     /\ DOMAIN chipdb.loc_pin_glb_num \subseteq Cells("IO")
     /\ DOMAIN chipdb.gbufin \subseteq Int \X Int
     /\ DOMAIN chipdb.pllout = Cells("PLL")
     /\ DOMAIN chipdb.oscillator \subseteq Cells("OSC")
     /\ Cells("I2C") \cup Cells("SPI") \subseteq DOMAIN chipdb.bus_addr

VARIABLES
  design,              \* the netlist, the chains, the constraints (placement)
  pc,                  \* where place() is
  cell_gate, gate_cell,
  column_free,         \* logic_column_free of place_initial()
  chain_x, chain_start,
  net_length,
  mv,                  \* the parameters and the loop position of move_chain()
  move_failed, changed_tiles, recompute,
  restore_cell, restore_chain, restore_net_length,
  delta, hot

placeVars == <<cell_gate, gate_cell, chain_x, chain_start>>
saveVars == <<move_failed, changed_tiles, recompute, restore_cell, restore_chain>>
vars == <<design, pc, cell_gate, gate_cell, column_free, chain_x, chain_start, net_length, mv,
          move_failed, changed_tiles, recompute, restore_cell, restore_chain,
          restore_net_length, delta, hot>>

NoCell == <<>>
NoMove == [x |-> 0, y |-> 0, new_x |-> 0, new_y |-> 0, tiles |-> 0, j |-> 0]

Chain == DOMAIN design.chains
Type(g) == design.inst[g].type
CellsOf(g) == {c \in Cell : chipdb.cell_type[c] = Type(g)}
FreeGates == Gate \ (Locked(design) \cup Chained(design))
GateNets(g) == {w \in Net : g \in design.net_gates[w]}

(* nt: the tiles that chain c spans. *)
Tiles(c) == (Len(design.chains[c]) + TileSize - 1) \div TileSize
ChainCell(x, y, j) == <<x, y + (j - 1) \div TileSize, (j - 1) % TileSize>>

Init ==
  /\ design \in Designs
  /\ pc = "chains"
  /\ cell_gate = [c \in Cell |-> 0]
  /\ gate_cell = [g \in Gate |-> NoCell]
  /\ column_free = chipdb.column_free
  /\ chain_x = <<>> /\ chain_start = <<>>
  /\ net_length = [w \in Net |-> 0]
  /\ mv = NoMove
  /\ move_failed = FALSE
  /\ changed_tiles = {} /\ recompute = {}
  /\ restore_cell = <<>> /\ restore_chain = <<>> /\ restore_net_length = {}
  /\ delta = 0
  /\ hot = TRUE

-----------------------------------------------------------------------------
(* place_initial() *)

Fits(c, k) == column_free[k] + Tiles(c) - 1 <= chipdb.column_last[k]

(* The next chain goes to the first column with room, or place() fails. *)
PlaceChain ==
  LET c == Len(chain_x) + 1
      v == design.chains[c]
      columns == DOMAIN chipdb.logic_columns
  IN /\ pc = "chains" /\ c \in Chain
     /\ \/ \E k \in columns :
             /\ Fits(c, k) /\ \A i \in columns : i < k => ~Fits(c, i)
             /\ LET x == chipdb.logic_columns[k]
                    y == column_free[k]
                    Here(e) == {j \in DOMAIN v : e = ChainCell(x, y, j)}
                IN /\ cell_gate' = [e \in Cell |-> IF Here(e) = {} THEN cell_gate[e]
                                                   ELSE v[CHOOSE j \in Here(e) : TRUE]]
                   /\ gate_cell' = [g \in Gate |->
                        IF \E j \in DOMAIN v : v[j] = g
                        THEN ChainCell(x, y, CHOOSE j \in DOMAIN v : v[j] = g)
                        ELSE gate_cell[g]]
                   /\ chain_x' = Append(chain_x, x)
                   /\ chain_start' = Append(chain_start, y)
             /\ column_free' = [column_free EXCEPT ![k] = @ + Tiles(c)]
             /\ UNCHANGED pc
        \/ /\ \A k \in columns : ~Fits(c, k)
           /\ pc' = "failed"
           /\ UNCHANGED <<placeVars, column_free>>
  /\ UNCHANGED <<design, net_length, mv, saveVars, restore_net_length, delta, hot>>

(* The preplaced gates: pads and PLLs with constraints, and the logic cells *)
(* that pass PLL outputs into the fabric.                                   *)
PlaceLocked ==
  /\ pc = "chains" /\ Len(chain_x) + 1 \notin Chain
  /\ gate_cell' = [g \in Gate |-> IF g \in Locked(design) THEN design.placement[g] ELSE gate_cell[g]]
  /\ cell_gate' = [c \in Cell |->
       IF \E g \in Locked(design) : design.placement[g] = c
       THEN CHOOSE g \in Locked(design) : design.placement[g] = c
       ELSE cell_gate[c]]
  /\ pc' = "free"
  /\ UNCHANGED <<design, column_free, chain_x, chain_start, net_length, mv,
                 saveVars, restore_net_length, delta, hot>>

Waiting == {g \in Gate : gate_cell[g] = NoCell}
Turn(g) == IF Type(g) = "GB" THEN <<1, design.inst[g].gc, g>> ELSE <<0, 0, g>>
Earlier(a, b) == \/ a[1] < b[1]
                 \/ a[1] = b[1] /\ a[2] < b[2]
                 \/ a[1] = b[1] /\ a[2] = b[2] /\ a[3] <= b[3]
IsNext(g) == \A h \in Waiting : Earlier(Turn(g), Turn(h))

(* The empty cells where valid() accepts g; only the tile of the cell is   *)
(* looked at.                                                              *)
Places(g) ==
  {c \in CellsOf(g) : cell_gate[c] = 0 /\ Valid(design, [cell_gate EXCEPT ![c] = g], TileOf(c))}

(* The other gates, global buffers last, each on one of its Places (the    *)
(* first in the order of the chip's tables, which is left open).           *)
PlaceGate(g) ==
  /\ pc = "free" /\ IsNext(g)
  /\ \/ \E c \in Places(g) :
          /\ cell_gate' = [cell_gate EXCEPT ![c] = g]
          /\ gate_cell' = [gate_cell EXCEPT ![g] = c]
          /\ UNCHANGED pc
     \/ /\ Places(g) = {}
        /\ pc' = "failed"
        /\ UNCHANGED <<cell_gate, gate_cell>>
  /\ UNCHANGED <<design, column_free, chain_x, chain_start, net_length, mv,
                 saveVars, restore_net_length, delta, hot>>

AllPlaced ==
  /\ pc = "free" /\ Waiting = {}
  /\ net_length' = [w \in Net |-> NetLength(design, gate_cell, w)]
  /\ pc' = "idle"
  /\ UNCHANGED <<design, placeVars, column_free, mv, saveVars, restore_net_length, delta, hot>>

-----------------------------------------------------------------------------
(* save_set(): the two calls that exchange the contents of two cells *)

NoRelatedTiles(t) == {t}

(* A tile, and the tiles of a PLL that has one of its pads or itself here. *)
WithRelated(t) ==
  {t} \cup UNION {LET tiles == {TileOf(c), TileOf(chipdb.pllout[c].a), TileOf(chipdb.pllout[c].b)}
                  IN IF t \in tiles THEN tiles ELSE {} : c \in DOMAIN chipdb.pllout}

SavedChain(h) ==
  IF \E i \in Chain : design.chains[i][1] = h
  THEN LET i == CHOOSE i \in Chain : design.chains[i][1] = h
       IN <<<<i, chain_x[i], chain_start[i]>>>>
  ELSE <<>>

(* The gate of c goes to e, what is on e to c; the first gate of a chain   *)
(* takes the chain's position along.                                       *)
Exchange(c, e) ==
  LET g == cell_gate[c]
      h == cell_gate[e]
      moved == {g, h} \ {0}
      First(i) == design.chains[i][1]
  IN /\ restore_cell' = restore_cell \o <<<<e, h>>, <<c, g>>>>
     /\ cell_gate' = [cell_gate EXCEPT ![e] = g, ![c] = h]
     /\ gate_cell' = [i \in Gate |-> IF i = g THEN e ELSE IF i = h THEN c ELSE gate_cell[i]]
     /\ restore_chain' = restore_chain \o SavedChain(g) \o SavedChain(h)
     /\ chain_x' = [i \in Chain |-> IF First(i) \in moved THEN gate_cell'[First(i)][1] ELSE chain_x[i]]
     /\ chain_start' = [i \in Chain |-> IF First(i) \in moved THEN gate_cell'[First(i)][2]
                                                              ELSE chain_start[i]]
     /\ recompute' = recompute \cup UNION {GateNets(i) : i \in moved}
     /\ changed_tiles' = changed_tiles \cup WithRelated(TileOf(c)) \cup WithRelated(TileOf(e))

(* What move_gate() does when it sees that the gates in locked are locked: *)
(* the move has failed, but goes on.                                       *)
MoveGateSeeing(c, e, locked) ==
  /\ move_failed' = (move_failed \/ locked # {})
  /\ IF c = e
     THEN UNCHANGED <<placeVars, changed_tiles, recompute, restore_cell, restore_chain>>
     ELSE Exchange(c, e)

(* Mutant: does not look at the gate that is displaced. *)
MoveGateOntoLocked(c, e) == MoveGateSeeing(c, e, {cell_gate[c]} \cap Locked(design))

(* move_gate(g, e) of the gate g on c. *)
MoveGateFrom(c, e) == MoveGateSeeing(c, e, {cell_gate[c], cell_gate[e]} \cap Locked(design))

-----------------------------------------------------------------------------
(* The moves place() tries *)

(* A free gate may not displace a chained one. *)
MoveGate(g, e) ==
  /\ pc = "idle"
  /\ cell_gate[e] \notin Chained(design)
  /\ MoveGateFrom(gate_cell[g], e)
  /\ pc' = "decide"
  /\ UNCHANGED <<design, column_free, net_length, mv, restore_net_length, delta, hot>>

(* Mutant: without the chain's own range. *)
RoomForOthers(c, x, y) ==
  \A i \in Chain \ {c} :
    chain_x[i] = x =>
      LET last == y + Tiles(c) - 1
          ilast == chain_start[i] + Tiles(i) - 1
      IN ~(y > chain_start[i] /\ y <= ilast) /\ ~(last >= chain_start[i] /\ last < ilast)

(* chain_random_loc(): the new range may cover another chain, but not      *)
(* overlap a part of one, its own old range included.                      *)
RoomFor(c, x, y) ==
  \A i \in Chain :
    chain_x[i] = x =>
      LET last == y + Tiles(c) - 1
          ilast == chain_start[i] + Tiles(i) - 1
      IN ~(y > chain_start[i] /\ y <= ilast) /\ ~(last >= chain_start[i] /\ last < ilast)

BeginChain(c, x, y) ==
  /\ pc = "idle"
  /\ y <= LastRow - (Tiles(c) - 1)
  /\ RoomFor(c, x, y)
  /\ IF <<x, y>> = <<chain_x[c], chain_start[c]>>
     THEN pc' = "decide" /\ UNCHANGED mv
     ELSE /\ pc' = "chain"
          /\ mv' = [x |-> chain_x[c], y |-> chain_start[c], new_x |-> x, new_y |-> y,
                    tiles |-> Tiles(c), j |-> 1]
  /\ UNCHANGED <<design, placeVars, column_free, net_length, saveVars, restore_net_length,
                 delta, hot>>

(* One turn of the loops of move_chain(): two cells change their contents, *)
(* whether they hold gates of the chain, others or none.                   *)
MoveChainCell ==
  LET c == ChainCell(mv.x, mv.y, mv.j)
      e == ChainCell(mv.new_x, mv.new_y, mv.j)
      last == mv.j = mv.tiles * TileSize
  IN /\ pc = "chain"
     /\ IF cell_gate[c] # 0
        THEN MoveGateFrom(c, e)
        ELSE IF cell_gate[e] # 0
             THEN MoveGateFrom(e, c)
             ELSE UNCHANGED <<placeVars, saveVars>>
     /\ mv' = IF last THEN NoMove ELSE [mv EXCEPT !.j = @ + 1]
     /\ pc' = IF last THEN "decide" ELSE "chain"
     /\ UNCHANGED <<design, column_free, net_length, restore_net_length, delta, hot>>

-----------------------------------------------------------------------------
(* accept_or_restore() *)

(* The values before the move, from what save_set() saved of them; a later *)
(* entry for the same cell overrides an earlier one.                       *)
SavedCellGate ==
  [c \in Cell |->
     LET saved == {j \in DOMAIN restore_cell : restore_cell[j][1] = c}
     IN IF saved = {} THEN cell_gate[c] ELSE restore_cell[Max(saved)][2]]

SavedGateCell ==
  [g \in Gate |->
     LET saved == {j \in DOMAIN restore_cell : restore_cell[j][2] = g}
     IN IF saved = {} THEN gate_cell[g] ELSE restore_cell[Max(saved)][1]]

SavedChainAt(i, f, current) ==
  LET saved == {j \in DOMAIN restore_chain : restore_chain[j][1] = i}
  IN IF saved = {} THEN current ELSE restore_chain[Max(saved)][f]

SavedNetLength ==
  [w \in Net |-> IF \E r \in restore_net_length : r[1] = w
                 THEN (CHOOSE r \in restore_net_length : r[1] = w)[2]
                 ELSE net_length[w]]

(* restore() *)
Restore ==
  /\ cell_gate' = SavedCellGate
  /\ gate_cell' = SavedGateCell
  /\ net_length' = SavedNetLength
  /\ chain_x' = [i \in Chain |-> SavedChainAt(i, 2, chain_x[i])]
  /\ chain_start' = [i \in Chain |-> SavedChainAt(i, 3, chain_start[i])]
  /\ move_failed' = FALSE

(* discard() *)
Discard ==
  /\ changed_tiles' = {} /\ recompute' = {}
  /\ restore_cell' = <<>> /\ restore_chain' = <<>> /\ restore_net_length' = {}

MoveIsLegal == ~move_failed /\ \A t \in changed_tiles : Valid(design, cell_gate, t)

Reject ==
  /\ pc = "decide" /\ ~MoveIsLegal
  /\ Restore /\ Discard
  /\ pc' = "idle"
  /\ UNCHANGED <<design, column_free, mv, delta, hot>>

(* save_recompute_wire_length() *)
Evaluate ==
  LET new == [w \in recompute |-> NetLength(design, gate_cell, w)]
  IN /\ pc = "decide" /\ MoveIsLegal
     /\ net_length' = [w \in Net |-> IF w \in recompute THEN new[w] ELSE net_length[w]]
     /\ restore_net_length' = {<<w, net_length[w]>> : w \in recompute}
     /\ delta' = SumFunction([w \in recompute |-> new[w] - net_length[w]])
     /\ pc' = "judge"
     /\ UNCHANGED <<design, placeVars, column_free, mv, saveVars, hot>>

AcceptIf(good) ==
  /\ pc = "judge" /\ good
  /\ Discard
  /\ pc' = "idle"
  /\ delta' = 0
  /\ UNCHANGED <<design, placeVars, column_free, net_length, mv, move_failed, hot>>

(* Mutant: keeps moves that change nothing at low temperature, too. *)
AcceptEqual == AcceptIf(delta <= 0 \/ hot)

Accept == AcceptIf(delta < 0 \/ hot)

(* exp(0) is never below a random number from 0 to 1. *)
Refuse ==
  /\ pc = "judge"
  /\ IF hot THEN delta > 0 ELSE delta >= 0
  /\ Restore /\ Discard
  /\ pc' = "idle"
  /\ delta' = 0
  /\ UNCHANGED <<design, column_free, mv, hot>>

(* The schedule lowers temp between two moves. *)
Cool ==
  /\ pc = "idle" /\ hot
  /\ hot' = FALSE
  /\ UNCHANGED <<design, pc, placeVars, column_free, net_length, mv, saveVars,
                 restore_net_length, delta>>

(* fatal("failed to place: ...") *)
Failed == pc = "failed" /\ UNCHANGED vars

TryMove ==
  \/ \E g \in FreeGates : \E e \in CellsOf(g) : MoveGate(g, e)
  \/ \E c \in Chain : \E k \in DOMAIN chipdb.logic_columns : \E y \in 1 .. LastRow :
       BeginChain(c, chipdb.logic_columns[k], y)

Next ==
  \/ PlaceChain \/ PlaceLocked
  \/ \E g \in Waiting : PlaceGate(g)
  \/ AllPlaced
  \/ TryMove \/ MoveChainCell
  \/ Reject \/ Evaluate \/ Accept \/ Refuse
  \/ Cool \/ Failed

Spec == Init /\ [][Next]_vars

(* One thread that never waits. *)
FairSpec == Spec /\ WF_vars(Next)
-----------------------------------------------------------------------------
(* Properties *)

Moving == {"idle", "chain", "decide", "judge"}

(* Placer::check(), wherever place() could call it: before a move, after a *)
(* move was kept or undone, and before it is judged.  The two directions   *)
(* of the placement agree, every chain lies where chain_x and chain_start  *)
(* say, inside its column, and the lengths of the nets are up to date      *)
(* although only the nets of moved gates are recomputed.  A failed move    *)
(* leaves nothing that would fail the next one (assert(!move_failed)).     *)
CheckHolds ==
  /\ pc = "idle" => ~move_failed
  /\ pc \in {"idle", "judge"} =>
    /\ \A g \in Gate : cell_gate[gate_cell[g]] = g
    /\ \A c \in Cell : cell_gate[c] # 0 => gate_cell[cell_gate[c]] = c
    /\ \A i \in Chain :
         /\ chain_start[i] + Tiles(i) - 1 <= LastRow
         /\ \A j \in DOMAIN design.chains[i] :
              cell_gate[ChainCell(chain_x[i], chain_start[i], j)] = design.chains[i][j]
    /\ \A w \in Net : net_length[w] = NetLength(design, gate_cell, w)

(* Two gates that may not be where they are together, in the terms of the  *)
(* chip: different control nets in one logic tile, pads of one tile that   *)
(* disagree, two drivers of one global network, an input on a pad that a   *)
(* PLL drives, a global buffer beside a global pad; or, whatever the other *)
(* gate, an I2C or SPI cell in a corner that has another bus address.      *)
Clash(place, g, h) ==
  LET a == design.inst[g]
      b == design.inst[h]
      c == place[g]
      e == place[h]
      sameTile == TileOf(c) = TileOf(e)
      Differ(f) == a[f] # 0 /\ b[f] # 0 /\ a[f] # b[f]
  IN \/ /\ sameTile /\ a.type = "LOGIC" /\ b.type = "LOGIC"
        /\ \/ a.neg_clk # b.neg_clk
           \/ \E f \in {"clk", "sr", "cen"} : Differ(f)
     \/ /\ sameTile /\ a.type = "IO" /\ b.type = "IO"
        /\ \/ a.lvds \/ b.lvds \/ a.neg_trigger # b.neg_trigger
           \/ \E f \in {"cen", "inclk", "outclk"} : Differ(f)
     \/ sameTile /\ a.type = "GB" /\ b.type = "IO" /\ b.gb_io
     \/ \E glb \in 0 .. 7 : /\ c \in GlobalCells(glb) /\ DrivesGlobal(design, g, c, glb)
                            /\ e \in GlobalCells(glb) /\ DrivesGlobal(design, h, e, glb)
     \/ /\ a.type = "PLL" /\ b.type = "IO" /\ b.d_in
        /\ \/ e = chipdb.pllout[c].a
           \/ a.two /\ e = chipdb.pllout[c].b
     \/ a.type \in {"I2C", "SPI"} /\ chipdb.bus_addr[c] # a.bus_addr

Clashes(place) == {p \in Gate \X Gate : p[1] # p[2] /\ Clash(place, p[1], p[2])}

(* The placer implements the abstract account of a placement that changes  *)
(* by whole moves: until a move is decided, the placement is the one that  *)
(* restore() would bring back.                                             *)
Committed == IF pc \in Moving THEN SavedGateCell ELSE [g \in Gate |-> NoCell]
Abstract == INSTANCE Placement WITH place <- Committed, ready <- pc \in Moving
ImplementsPlacement == Abstract!Spec

(* Although only the tiles that changed, and those related to them, are    *)
(* looked at again, no move that is kept brings two gates into conflict.   *)
NoNewClash ==
  [][pc = "judge" /\ Committed' # Committed => Clashes(Committed)' \subseteq Clashes(Committed)]_vars

(* Once the temperature is low the placement settles: moves cannot chase   *)
(* each other for ever, which is what place() waits for before it stops.   *)
ColdSettles == <>[]hot \/ <>[][Committed' = Committed]_vars
=============================================================================
