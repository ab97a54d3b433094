--------------------------- MODULE Placer_proofs ----------------------------
(* Proofs about Placer, for every chip with whole logic columns and every  *)
(* well-formed design.                                                     *)
EXTENDS Placer, SequenceTheorems, FiniteSetTheorems, WellFoundedInduction, TLAPS

(* The two directions of a placement agree.                                *)
Agree(cg, gc) ==
  /\ cg \in [Cell -> Gate \cup {0}] /\ gc \in [Gate -> Cell]
  /\ \A g \in Gate : cg[gc[g]] = g
  /\ \A c \in Cell : cg[c] # 0 => gc[cg[c]] = c

(* Where chain i starts, and that it shares no tile with chain k.          *)
Base(gc, i) == gc[design.chains[i][1]]
Apart(gc, i, k) ==
  \/ Base(gc, i)[1] # Base(gc, k)[1]
  \/ Base(gc, i)[2] + Tiles(i) <= Base(gc, k)[2]
  \/ Base(gc, k)[2] + Tiles(k) <= Base(gc, i)[2]

(* Cells of the right type; chains whole, in logic columns, tiles apart.   *)
Shape(gc) ==
  /\ \A g \in Gate : chipdb.cell_type[gc[g]] = Type(g)
  /\ \A i \in Chain :
       /\ Base(gc, i)[1] \in Columns /\ Base(gc, i)[2] \in 1 .. LastRow - (Tiles(i) - 1)
       /\ \A j \in DOMAIN design.chains[i] :
            gc[design.chains[i][j]] = ChainCell(Base(gc, i)[1], Base(gc, i)[2], j)
  /\ \A i, k \in Chain : i # k => Apart(gc, i, k)

LockedAt(gc) == \A g \in Locked(design) : gc[g] = design.placement[g]

Measured(length, gc) == \A w \in Net : length[w] = NetLength(design, gc, w)

-----------------------------------------------------------------------------
(* While a move is carried out or judged, what restore() would bring back  *)
(* is a placement.                                                         *)
Undoable ==
  /\ Agree(SavedCellGate, SavedGateCell)
  /\ Shape(SavedGateCell) /\ LockedAt(SavedGateCell)
  /\ Measured(SavedNetLength, SavedGateCell)

SavedCells == {restore_cell[j][1] : j \in DOMAIN restore_cell}

(* No cell and no gate is saved twice, and saved gates are on saved cells. *)
SavedOnce ==
  /\ restore_cell \in Seq(Cell \X (Gate \cup {0}))
  /\ \A j, k \in DOMAIN restore_cell : restore_cell[j][1] = restore_cell[k][1] => j = k
  /\ \A j, k \in DOMAIN restore_cell :
       restore_cell[j][2] = restore_cell[k][2] /\ restore_cell[j][2] # 0 => j = k
  /\ \A j \in DOMAIN restore_cell :
       restore_cell[j][2] # 0 => gate_cell[restore_cell[j][2]] \in SavedCells

(* Chains are where their first gates are, now and in what was saved.      *)
Entries(s) == {s[k] : k \in DOMAIN s}
ChainEntry(gc, i) == <<i, Base(gc, i)[1], Base(gc, i)[2]>>

ChainsFollow ==
  /\ DOMAIN chain_x = Chain /\ DOMAIN chain_start = Chain
  /\ \A i \in Chain : chain_x[i] = Base(gate_cell, i)[1] /\ chain_start[i] = Base(gate_cell, i)[2]
  /\ restore_chain \in Seq(Chain \X Int \X Int)
  /\ \A r \in Entries(restore_chain) : r = ChainEntry(SavedGateCell, r[1])
  /\ \A i \in Chain : \/ Base(gate_cell, i) = Base(SavedGateCell, i)
                      \/ \E r \in Entries(restore_chain) : r[1] = i

(* Nets of gates that have moved will be measured again; before that, the  *)
(* lengths are those of the old placement.                                 *)
Marked ==
  /\ recompute \subseteq Net
  /\ \A g \in Gate : gate_cell[g] # SavedGateCell[g] => GateNets(g) \subseteq recompute

Remeasured ==
  /\ Marked
  /\ pc # "judge" => restore_net_length = {}
  /\ pc = "judge" => Measured(net_length, gate_cell)

(* Positions before k of the old and the new place have been exchanged.    *)
Visited(d, k) ==
  \E m \in 1 .. k - 1 : d \in {ChainCell(mv.x, mv.y, m), ChainCell(mv.new_x, mv.new_y, m)}
Swapped(d, e, k) ==
  \E m \in 1 .. k - 1 :
    <<d, e>> \in {<<ChainCell(mv.x, mv.y, m), ChainCell(mv.new_x, mv.new_y, m)>>,
                  <<ChainCell(mv.new_x, mv.new_y, m), ChainCell(mv.x, mv.y, m)>>}

(* The move of a chain to where RoomFor lets it go.                        *)
ChainMove(c) ==
  /\ mv.x = Base(SavedGateCell, c)[1] /\ mv.y = Base(SavedGateCell, c)[2] /\ mv.tiles = Tiles(c)
  /\ mv.new_x \in Columns /\ mv.new_y \in 1 .. LastRow - (Tiles(c) - 1)
  /\ <<mv.new_x, mv.new_y>> # <<mv.x, mv.y>>
  /\ \A i \in Chain :
       Base(SavedGateCell, i)[1] = mv.new_x =>
         LET first == Base(SavedGateCell, i)[2]
             past == first + Tiles(i)
         IN /\ mv.new_y <= first \/ mv.new_y >= past
            /\ mv.new_y + Tiles(c) <= first \/ mv.new_y + Tiles(c) >= past

HalfMoved ==
  /\ mv \in [x : Int, y : Int, new_x : Int, new_y : Int, tiles : Nat, j : Nat]
  /\ \E c \in Chain : ChainMove(c)
  /\ mv.j \in 1 .. mv.tiles * TileSize
  /\ \A d \in SavedCells : Visited(d, mv.j)
  /\ \A g \in Gate : \/ Swapped(SavedGateCell[g], gate_cell[g], mv.j)
                     \/ gate_cell[g] = SavedGateCell[g] /\ ~Visited(gate_cell[g], mv.j)

MoveInv ==
  /\ Undoable /\ Agree(cell_gate, gate_cell)
  /\ SavedOnce /\ ChainsFollow /\ Remeasured
  /\ ~move_failed => LockedAt(gate_cell)
  /\ pc = "chain" => HalfMoved
  /\ pc # "chain" => Shape(gate_cell)
  /\ pc = "idle" => ~move_failed /\ restore_cell = <<>> /\ restore_chain = <<>> /\ recompute = {}
  /\ pc = "judge" => ~move_failed

-----------------------------------------------------------------------------
(* place_initial(): the first gates are placed and nothing else.           *)
Partial(cg, gc) ==
  /\ cg \in [Cell -> Gate \cup {0}] /\ gc \in [Gate -> Cell \cup {NoCell}]
  /\ \A g \in Gate : gc[g] # NoCell => cg[gc[g]] = g /\ chipdb.cell_type[gc[g]] = Type(g)
  /\ \A c \in Cell : cg[c] # 0 => gc[cg[c]] = c

ChainsPlaced == DOMAIN chain_x

(* Chain i lies in column k, above the tiles kept free and below what is   *)
(* free for the next chain.                                                *)
InColumn(i, k) ==
  /\ chain_x[i] = chipdb.logic_columns[k]
  /\ chain_start[i] >= chipdb.column_free[k] /\ chain_start[i] + Tiles(i) <= column_free[k]

InitialChains ==
  /\ chain_x \in Seq(Int) /\ chain_start \in Seq(Int)
  /\ Len(chain_x) = Len(chain_start) /\ ChainsPlaced \subseteq Chain
  /\ column_free \in [DOMAIN chipdb.logic_columns -> Int]
  /\ \A k \in DOMAIN chipdb.logic_columns :
       column_free[k] >= chipdb.column_free[k] /\ column_free[k] <= chipdb.column_last[k] + 1
  /\ \A i \in ChainsPlaced :
       /\ \E k \in DOMAIN chipdb.logic_columns : InColumn(i, k)
       /\ \A j \in DOMAIN design.chains[i] :
            gate_cell[design.chains[i][j]] = ChainCell(chain_x[i], chain_start[i], j)
  /\ \A i, k \in ChainsPlaced : i # k =>
       \/ chain_x[i] # chain_x[k]
       \/ chain_start[i] + Tiles(i) <= chain_start[k]
       \/ chain_start[k] + Tiles(k) <= chain_start[i]

PlaceInv ==
  /\ Partial(cell_gate, gate_cell) /\ InitialChains
  /\ ~move_failed /\ restore_cell = <<>> /\ restore_chain = <<>> /\ recompute = {}
  /\ restore_net_length = {} /\ changed_tiles = {}
  /\ pc = "chains" => \A g \in Gate :
       gate_cell[g] # NoCell => \E i \in ChainsPlaced : \E j \in DOMAIN design.chains[i] : g = design.chains[i][j]
  /\ pc = "free" => ChainsPlaced = Chain /\ LockedAt(gate_cell)

PlacerInv ==
  /\ design \in Designs
  /\ pc \in {"chains", "free", "failed"} \cup Moving
  /\ pc \in {"chains", "free"} => PlaceInv
  /\ pc \in Moving => MoveInv

-----------------------------------------------------------------------------
(* Tiles of TileSize positions.                                            *)
LEMMA DivMod ==
  ASSUME NEW a \in Nat
  PROVE  /\ a \div TileSize \in Nat /\ a % TileSize \in 0 .. TileSize - 1
         /\ a = TileSize * (a \div TileSize) + (a % TileSize)
<1>1. TileSize \in Nat /\ TileSize > 0
  BY ChipAssumption
<1> QED BY <1>1

LEMMA DivModUnique ==
  ASSUME NEW r \in Nat, NEW p \in 0 .. TileSize - 1
  PROVE  (TileSize * r + p) \div TileSize = r /\ (TileSize * r + p) % TileSize = p
<1>1. TileSize \in Nat /\ TileSize > 0
  BY ChipAssumption
<1> QED BY <1>1

LEMMA Products ==
  ASSUME NEW a \in Nat, NEW b \in Nat
  PROVE  /\ TileSize * a \in Nat /\ (a < b => TileSize * a + TileSize <= TileSize * b)
<1>1. TileSize \in Nat /\ TileSize > 0
  BY ChipAssumption
<1> QED BY <1>1

(* The cells of T tiles upwards from some <<x, y>>, by tile and position.  *)
LEMMA ChainCellWithin ==
  ASSUME NEW T \in Nat, NEW j \in 1 .. T * TileSize
  PROVE  \E r \in 0 .. T - 1, p \in 0 .. TileSize - 1 : \A x, y : ChainCell(x, y, j) = <<x, y + r, p>>
<1> DEFINE r == (j - 1) \div TileSize
           p == (j - 1) % TileSize
<1>1. TileSize \in Nat /\ TileSize > 0
  BY ChipAssumption
<1>2. T * TileSize \in Nat /\ T * TileSize = TileSize * T
  BY <1>1
<1>3. j \in Nat /\ j - 1 \in Nat /\ j - 1 < TileSize * T
  BY <1>2
<1>4. r \in Nat /\ p \in 0 .. TileSize - 1 /\ j - 1 = TileSize * r + p
  BY <1>3, DivMod
<1> HIDE DEF r, p
<1>5. r < T
  <2>1. SUFFICES ASSUME T <= r PROVE FALSE
    BY <1>4
  <2>2. TileSize * T <= TileSize * r
    <3>1. CASE T < r
      BY <3>1, <1>4, <1>1, Products
    <3>2. CASE T = r
      BY <3>2, <1>4, <1>1, Products
    <3> QED BY <3>1, <3>2, <2>1, <1>4
  <2>3. TileSize * T \in Nat /\ TileSize * r \in Nat
    BY <1>4, Products
  <2> QED BY <2>2, <2>3, <1>3, <1>4
<1>6. r \in 0 .. T - 1
  BY <1>4, <1>5
<1>7. \A x, y : ChainCell(x, y, j) = <<x, y + r, p>>
  BY DEF ChainCell, r, p
<1> QED BY <1>4, <1>6, <1>7

LEMMA ChainCellOnto ==
  ASSUME NEW T \in Nat, NEW r \in 0 .. T - 1, NEW p \in 0 .. TileSize - 1
  PROVE  \E j \in 1 .. T * TileSize : \A x, y : ChainCell(x, y, j) = <<x, y + r, p>>
<1> DEFINE a == TileSize * r + p
<1>1. TileSize \in Nat /\ TileSize > 0 /\ r \in Nat /\ r < T /\ p \in Nat /\ p < TileSize
  BY ChipAssumption
<1>2. TileSize * r \in Nat /\ TileSize * r + TileSize <= TileSize * T /\ TileSize * T \in Nat
  BY <1>1, Products
<1>3. T * TileSize = TileSize * T
  BY <1>1
<1>4. a \in Nat /\ a + 1 \in 1 .. T * TileSize /\ (a + 1) - 1 = a
  BY <1>1, <1>2, <1>3
<1>5. a \div TileSize = r /\ a % TileSize = p
  BY <1>1, DivModUnique
<1> HIDE DEF a
<1> QED BY <1>4, <1>5 DEF ChainCell

LEMMA ChainCellInjective ==
  ASSUME NEW j \in Nat \ {0}, NEW k \in Nat \ {0}, NEW x, NEW y \in Int,
         ChainCell(x, y, j) = ChainCell(x, y, k)
  PROVE  j = k
<1>1. j - 1 \in Nat /\ k - 1 \in Nat
  OBVIOUS
<1> DEFINE r == (j - 1) \div TileSize
           s == (k - 1) \div TileSize
           p == (j - 1) % TileSize
           q == (k - 1) % TileSize
<1>2. /\ r \in Nat /\ s \in Nat
      /\ j - 1 = TileSize * r + p /\ k - 1 = TileSize * s + q
  BY <1>1, DivMod
<1>3. <<x, y + r, p>> = <<x, y + s, q>>
  BY DEF ChainCell
<1> HIDE DEF r, s, p, q
<1>4. r = s /\ p = q
  BY <1>2, <1>3
<1>5. j - 1 = k - 1
  BY <1>2, <1>4
<1> QED BY <1>5

-----------------------------------------------------------------------------
LEMMA DesignFacts ==
  ASSUME design \in Designs
  PROVE  /\ design.net_gates \in [Net -> SUBSET Gate]
         /\ Chain = 1 .. Len(design.chains) /\ Len(design.chains) \in Nat
         /\ \A i \in Chain :
              /\ design.chains[i] \in Seq(Gate) /\ design.chains[i] # <<>>
              /\ \A j \in DOMAIN design.chains[i] :
                   /\ design.chains[i][j] \in Gate /\ design.chains[i][j] \in Chained(design)
                   /\ Type(design.chains[i][j]) = "LOGIC"
         /\ \A i, k \in Chain : \A j \in DOMAIN design.chains[i], l \in DOMAIN design.chains[k] :
              design.chains[i][j] = design.chains[k][l] => i = k /\ j = l
         /\ Locked(design) \subseteq Gate \ Chained(design)
         /\ \A g \in Locked(design) : /\ design.placement[g] \in Cell
                                      /\ chipdb.cell_type[design.placement[g]] = Type(g)
<1>1. /\ design.net_gates \in [Net -> SUBSET Gate]
      /\ design.chains \in Seq(Seq(Gate) \ {<<>>})
      /\ \A i, k \in DOMAIN design.chains :
           \A j \in DOMAIN design.chains[i], l \in DOMAIN design.chains[k] :
             design.chains[i][j] = design.chains[k][l] => i = k /\ j = l
      /\ \A g \in Chained(design) : design.inst[g].type = "LOGIC"
      /\ Locked(design) \subseteq Gate \ Chained(design)
      /\ \A g \in Locked(design) : /\ design.placement[g] \in Cell
                                   /\ chipdb.cell_type[design.placement[g]] = design.inst[g].type
  BY DesignAssumption
<1>2. Chain = 1 .. Len(design.chains) /\ Len(design.chains) \in Nat
  BY <1>1 DEF Chain
<1>3. ASSUME NEW i \in Chain
      PROVE  /\ design.chains[i] \in Seq(Gate) /\ design.chains[i] # <<>>
             /\ \A j \in DOMAIN design.chains[i] :
                  /\ design.chains[i][j] \in Gate /\ design.chains[i][j] \in Chained(design)
                  /\ Type(design.chains[i][j]) = "LOGIC"
  <2>1. design.chains[i] \in Seq(Gate) /\ design.chains[i] # <<>>
    BY <1>1, <1>2
  <2>2. \A j \in DOMAIN design.chains[i] : design.chains[i][j] \in Gate
    BY <2>1
  <2>3. \A j \in DOMAIN design.chains[i] : design.chains[i][j] \in Chained(design)
    BY DEF Chain, Chained
  <2> QED BY <1>1, <2>1, <2>2, <2>3 DEF Type
<1> QED BY <1>1, <1>2, <1>3 DEF Type, Chain

(* Tiles(c) is the number of tiles that the gates of chain c fill.         *)
LEMMA TilesFacts ==
  ASSUME design \in Designs, NEW c \in Chain
  PROVE  /\ Tiles(c) \in Nat \ {0}
         /\ DOMAIN design.chains[c] \subseteq 1 .. Tiles(c) * TileSize
         /\ 1 \in DOMAIN design.chains[c] /\ DOMAIN design.chains[c] \subseteq Nat \ {0}
<1> DEFINE n == Len(design.chains[c])
           a == n + TileSize - 1
<1>1. n \in Nat \ {0} /\ DOMAIN design.chains[c] = 1 .. n
  BY DesignFacts
<1>2. TileSize \in Nat \ {0}
  BY ChipAssumption
<1> HIDE DEF n
<1>3. a \in Nat
  BY <1>1, <1>2
<1>4. a \div TileSize \in Nat /\ a % TileSize \in 0 .. TileSize - 1
      /\ a = TileSize * (a \div TileSize) + (a % TileSize)
  BY <1>3, DivMod
<1> DEFINE t == a \div TileSize
<1>5. t \in Nat /\ n <= TileSize * t /\ TileSize * t \in Nat
  <2> HIDE DEF t
  <2>1. t = a \div TileSize
    BY DEF t
  <2>2. t \in Nat /\ a = TileSize * t + (a % TileSize) /\ TileSize * t \in Nat
    BY <1>4, <2>1, Products
  <2> QED BY <1>1, <1>2, <1>4, <2>2
<1>6. t # 0
  BY <1>1, <1>2, <1>5
<1>7. Tiles(c) = t
  BY DEF Tiles, n
<1> HIDE DEF t, a
<1>8. t * TileSize = TileSize * t
  BY <1>2, <1>5
<1>9. 1 .. n \subseteq 1 .. t * TileSize /\ 1 \in 1 .. n
  BY <1>1, <1>5, <1>8
<1> QED BY <1>1, <1>5, <1>6, <1>7, <1>9

-----------------------------------------------------------------------------
(* What was saved of cell d and of gate g, and what comes back.            *)
CellSaves(d) == {j \in DOMAIN restore_cell : restore_cell[j][1] = d}
GateSaves(g) == {j \in DOMAIN restore_cell : restore_cell[j][2] = g}
CellBack(d) == IF CellSaves(d) = {} THEN cell_gate[d] ELSE restore_cell[Max(CellSaves(d))][2]
GateBack(g) == IF GateSaves(g) = {} THEN gate_cell[g] ELSE restore_cell[Max(GateSaves(g))][1]

LEMMA SavedFunctions ==
  /\ SavedCellGate = [d \in Cell |-> CellBack(d)]
  /\ SavedGateCell = [g \in Gate |-> GateBack(g)]
<1>1. SavedCellGate = [d \in Cell |-> CellBack(d)]
  BY DEF SavedCellGate, CellBack, CellSaves
<1>2. SavedGateCell = [g \in Gate |-> GateBack(g)]
  BY DEF SavedGateCell, GateBack, GateSaves
<1> QED BY <1>1, <1>2

LEMMA MaxSingleton ==
  ASSUME NEW n \in Int
  PROVE  Max({n}) = n
BY DEF Max

(* The contents of cells c and e, none of them saved before, change        *)
(* places: both directions of the placement stay in agreement, and what    *)
(* would be brought back stays the same.                                   *)
LEMMA ExchangeFacts ==
  ASSUME Agree(cell_gate, gate_cell), SavedOnce,
         NEW c \in Cell, NEW e \in Cell, c # e, cell_gate[c] # 0,
         c \notin SavedCells, e \notin SavedCells, Exchange(c, e)
  PROVE  /\ Agree(cell_gate', gate_cell') /\ SavedOnce'
         /\ SavedCellGate' = SavedCellGate /\ SavedGateCell' = SavedGateCell
         /\ SavedCells' = SavedCells \cup {c, e}
         /\ \A g \in Gate : gate_cell'[g] = IF gate_cell[g] = c THEN e
                                            ELSE IF gate_cell[g] = e THEN c ELSE gate_cell[g]
<1> DEFINE g == cell_gate[c]
           h == cell_gate[e]
           n == Len(restore_cell)
<1>1. /\ g \in Gate /\ gate_cell[g] = c /\ h \in Gate \cup {0}
      /\ h # 0 => gate_cell[h] = e
      /\ \A i \in Gate : gate_cell[i] = c <=> i = g
      /\ \A i \in Gate : gate_cell[i] = e <=> i = h
      /\ g # h /\ 0 \notin Gate
  BY DEF Agree, Gate
<1>2. /\ restore_cell' = restore_cell \o <<<<e, h>>, <<c, g>>>>
      /\ cell_gate' = [cell_gate EXCEPT ![e] = g, ![c] = h]
      /\ gate_cell' = [i \in Gate |-> IF i = g THEN e ELSE IF i = h THEN c ELSE gate_cell[i]]
  BY Zenon DEF Exchange
<1>3. restore_cell \in Seq(Cell \X (Gate \cup {0})) /\ n \in Nat /\ DOMAIN restore_cell = 1 .. n
  BY DEF SavedOnce
<1> HIDE DEF g, h, n
<1>4. /\ DOMAIN restore_cell' = 1 .. n + 2
      /\ \A j \in 1 .. n : restore_cell'[j] = restore_cell[j]
      /\ restore_cell'[n + 1] = <<e, h>> /\ restore_cell'[n + 2] = <<c, g>>
      /\ restore_cell' \in Seq(Cell \X (Gate \cup {0}))
  <2>1. <<<<e, h>>, <<c, g>>>> \in Seq(Cell \X (Gate \cup {0}))
    BY <1>1
  <2> QED BY <1>2, <1>3, <2>1 DEF n
<1>16. /\ \A j \in 1 .. n : restore_cell'[j][1] = restore_cell[j][1] /\ restore_cell'[j][2] = restore_cell[j][2]
      /\ restore_cell'[n + 1][1] = e /\ restore_cell'[n + 1][2] = h
      /\ restore_cell'[n + 2][1] = c /\ restore_cell'[n + 2][2] = g
  BY <1>4
<1>5. /\ cell_gate'[e] = g /\ cell_gate'[c] = h
      /\ \A d \in Cell : d # c /\ d # e => cell_gate'[d] = cell_gate[d]
      /\ cell_gate' \in [Cell -> Gate \cup {0}]
  BY <1>1, <1>2 DEF Agree
<1>6. /\ gate_cell' \in [Gate -> Cell] /\ gate_cell'[g] = e /\ (h # 0 => gate_cell'[h] = c)
      /\ \A i \in Gate : i # g /\ i # h => gate_cell'[i] = gate_cell[i]
  BY <1>1, <1>2 DEF Agree
<1>7. Agree(cell_gate', gate_cell')
  <2>1. ASSUME NEW i \in Gate PROVE cell_gate'[gate_cell'[i]] = i
    <3>1. CASE i = g \/ i = h
      BY <3>1, <1>1, <1>5, <1>6
    <3>2. CASE i # g /\ i # h
      <4>1. gate_cell[i] # c /\ gate_cell[i] # e /\ gate_cell[i] \in Cell
        BY <1>1, <3>2 DEF Agree
      <4> QED BY <4>1, <3>2, <1>5, <1>6 DEF Agree
    <3> QED BY <3>1, <3>2
  <2>2. ASSUME NEW d \in Cell, cell_gate'[d] # 0 PROVE gate_cell'[cell_gate'[d]] = d
    <3>1. CASE d = c \/ d = e
      BY <3>1, <2>2, <1>1, <1>5, <1>6
    <3>2. CASE d # c /\ d # e
      <4>1. cell_gate'[d] = cell_gate[d] /\ gate_cell[cell_gate[d]] = d /\ cell_gate[d] \in Gate
        BY <2>2, <3>2, <1>5 DEF Agree
      <4>2. cell_gate[d] # g /\ cell_gate[d] # h
        BY <4>1, <3>2, <1>1
      <4> QED BY <4>1, <4>2, <1>6
    <3> QED BY <3>1, <3>2
  <2> QED BY <2>1, <2>2, <1>5, <1>6 DEF Agree
<1>8. \A j \in 1 .. n : /\ restore_cell[j][1] # c /\ restore_cell[j][1] # e
                        /\ restore_cell[j][1] \in Cell /\ restore_cell[j][2] \in Gate \cup {0}
  BY <1>3 DEF SavedCells
<1>9. \A j \in 1 .. n : restore_cell[j][2] # 0 => restore_cell[j][2] # g /\ restore_cell[j][2] # h
  BY <1>1, <1>3 DEF SavedOnce
<1>10. SavedCells' = SavedCells \cup {c, e}
  <2>1. \A d : d \in SavedCells' <=> \E j \in 1 .. n + 2 : restore_cell'[j][1] = d
    BY <1>4 DEF SavedCells
  <2>2. \A d : d \in SavedCells <=> \E j \in 1 .. n : restore_cell[j][1] = d
    BY <1>3 DEF SavedCells
  <2>3. \A j : j \in 1 .. n + 2 <=> j \in 1 .. n \/ j = n + 1 \/ j = n + 2
    BY <1>3
  <2>4. ASSUME NEW d PROVE d \in SavedCells' <=> d \in SavedCells \/ d = c \/ d = e
    <3>1. d \in SavedCells' => d \in SavedCells \/ d = c \/ d = e
      BY <2>1, <2>2, <2>3, <1>16
    <3>2. d \in SavedCells => d \in SavedCells'
      BY <2>1, <2>2, <2>3, <1>16
    <3>3. c \in SavedCells' /\ e \in SavedCells'
      BY <2>1, <2>3, <1>16
    <3> QED BY <3>1, <3>2, <3>3
  <2> QED BY <2>4
<1>11. SavedOnce'
  <2>1. \A j : j \in 1 .. n + 2 <=> j \in 1 .. n \/ j = n + 1 \/ j = n + 2
    BY <1>3
  <2>2. ASSUME NEW j \in 1 .. n + 2, NEW k \in 1 .. n + 2,
               restore_cell'[j][1] = restore_cell'[k][1]
        PROVE  j = k
    <3>1. \A m \in 1 .. n : restore_cell'[m][1] # c /\ restore_cell'[m][1] # e
      BY <1>16, <1>8
    <3>2. CASE j \in 1 .. n /\ k \in 1 .. n
      BY SMTT(30), <2>2, <3>2, <1>16, <1>3 DEF SavedOnce
    <3>3. CASE ~(j \in 1 .. n /\ k \in 1 .. n)
      BY <2>1, <2>2, <3>1, <3>3, <1>16
    <3> QED BY <3>2, <3>3
  <2>3. ASSUME NEW j \in 1 .. n + 2, NEW k \in 1 .. n + 2,
               restore_cell'[j][2] = restore_cell'[k][2], restore_cell'[j][2] # 0
        PROVE  j = k
    <3>1. \A m \in 1 .. n : restore_cell'[m][2] # 0 => restore_cell'[m][2] # g /\ restore_cell'[m][2] # h
      BY <1>16, <1>9
    <3>2. CASE j \in 1 .. n /\ k \in 1 .. n
      BY <2>3, <3>2, <1>16, <1>3 DEF SavedOnce
    <3>3. CASE ~(j \in 1 .. n /\ k \in 1 .. n)
      BY <2>1, <2>3, <3>1, <3>3, <1>16, <1>1
    <3> QED BY <3>2, <3>3
  <2>4. ASSUME NEW j \in 1 .. n + 2, restore_cell'[j][2] # 0
        PROVE  gate_cell'[restore_cell'[j][2]] \in SavedCells'
    <3>1. CASE j \in 1 .. n
      <4>1. /\ restore_cell'[j] = restore_cell[j] /\ restore_cell[j][2] \in Gate
            /\ restore_cell[j][2] # g /\ restore_cell[j][2] # h
            /\ gate_cell[restore_cell[j][2]] \in SavedCells
        BY <3>1, <2>4, <1>3, <1>4, <1>8, <1>9 DEF SavedOnce
      <4> QED BY <4>1, <1>6, <1>10
    <3>2. CASE j = n + 1 \/ j = n + 2
      BY <3>2, <2>4, <1>4, <1>6, <1>10
    <3> QED BY <3>1, <3>2, <2>1
  <2> QED BY <2>2, <2>3, <2>4, <1>4 DEF SavedOnce
<1>12. n + 1 \in Int /\ n + 2 \in Int
  BY <1>3
<1>13. SavedCellGate' = SavedCellGate
  <2>1. ASSUME NEW d \in Cell PROVE CellBack(d)' = CellBack(d)
    <3>1. \A j : j \in CellSaves(d)' <=> j \in 1 .. n + 2 /\ restore_cell'[j][1] = d
      BY <1>4 DEF CellSaves
    <3>2. \A j : j \in CellSaves(d) <=> j \in 1 .. n /\ restore_cell[j][1] = d
      BY <1>3 DEF CellSaves
    <3>3. \A j : j \in 1 .. n + 2 <=> j \in 1 .. n \/ j = n + 1 \/ j = n + 2
      BY <1>3
    <3>4. CASE d = c
      <4>1. CellSaves(d)' = {n + 2}
        BY <3>1, <3>3, <3>4, <1>4, <1>8
      <4>2. CellSaves(d) = {}
        BY <3>2, <3>4, <1>8
      <4>3. CellBack(d)' = restore_cell'[n + 2][2]
        BY <4>1, <1>12, MaxSingleton DEF CellBack
      <4> QED BY <4>2, <4>3, <1>4, <3>4 DEF CellBack, g
    <3>5. CASE d = e
      <4>1. CellSaves(d)' = {n + 1}
        BY <3>1, <3>3, <3>5, <1>4, <1>8
      <4>2. CellSaves(d) = {}
        BY <3>2, <3>5, <1>8
      <4>3. CellBack(d)' = restore_cell'[n + 1][2]
        BY <4>1, <1>12, MaxSingleton DEF CellBack
      <4> QED BY <4>2, <4>3, <1>4, <3>5 DEF CellBack, h
    <3>6. CASE d # c /\ d # e
      <4>1. CellSaves(d)' = CellSaves(d)
        <5>1. \A j : j \in CellSaves(d)' <=> j \in CellSaves(d)
          BY <3>1, <3>2, <3>3, <3>6, <1>16
        <5> QED BY <5>1
      <4>2. CellSaves(d) # {} => Max(CellSaves(d)) \in 1 .. n
        <5>1. ASSUME NEW j \in CellSaves(d) PROVE CellSaves(d) = {j} /\ j \in 1 .. n
          BY <3>2, <1>3 DEF SavedOnce
        <5> QED BY <5>1, MaxSingleton
      <4> QED BY <4>1, <4>2, <3>6, <1>4, <1>5 DEF CellBack
    <3> QED BY <3>4, <3>5, <3>6
  <2> QED BY <2>1, SavedFunctions DEF SavedCellGate, CellBack, CellSaves
<1>14. SavedGateCell' = SavedGateCell
  <2>1. ASSUME NEW i \in Gate PROVE GateBack(i)' = GateBack(i)
    <3>1. \A j : j \in GateSaves(i)' <=> j \in 1 .. n + 2 /\ restore_cell'[j][2] = i
      BY <1>4 DEF GateSaves
    <3>2. \A j : j \in GateSaves(i) <=> j \in 1 .. n /\ restore_cell[j][2] = i
      BY <1>3 DEF GateSaves
    <3>3. \A j : j \in 1 .. n + 2 <=> j \in 1 .. n \/ j = n + 1 \/ j = n + 2
      BY <1>3
    <3>4. CASE i = g
      <4>1. GateSaves(i)' = {n + 2}
        BY <3>1, <3>3, <3>4, <1>1, <1>4, <1>9
      <4>2. GateSaves(i) = {}
        BY <3>2, <3>4, <1>1, <1>9
      <4>3. GateBack(i)' = restore_cell'[n + 2][1]
        BY <4>1, <1>12, MaxSingleton DEF GateBack
      <4> QED BY <4>2, <4>3, <1>1, <1>4, <3>4 DEF GateBack
    <3>5. CASE i = h
      <4>1. GateSaves(i)' = {n + 1}
        BY SMTT(30), <3>1, <3>3, <3>5, <1>1, <1>4, <1>9
      <4>2. GateSaves(i) = {}
        BY <3>2, <3>5, <1>1, <1>9
      <4>3. GateBack(i)' = restore_cell'[n + 1][1]
        BY <4>1, <1>12, MaxSingleton DEF GateBack
      <4> QED BY <4>2, <4>3, <1>1, <1>4, <3>5 DEF GateBack
    <3>6. CASE i # g /\ i # h
      <4>1. GateSaves(i)' = GateSaves(i)
        <5>1. \A j : j \in GateSaves(i)' <=> j \in GateSaves(i)
          BY <3>1, <3>2, <3>3, <3>6, <1>16
        <5> QED BY <5>1
      <4>2. GateSaves(i) # {} => Max(GateSaves(i)) \in 1 .. n
        <5>1. ASSUME NEW j \in GateSaves(i) PROVE GateSaves(i) = {j} /\ j \in 1 .. n
          BY <3>2, <1>1, <1>3 DEF SavedOnce
        <5> QED BY <5>1, MaxSingleton
      <4> QED BY <4>1, <4>2, <3>6, <1>4, <1>6 DEF GateBack
    <3> QED BY <3>4, <3>5, <3>6
  <2> QED BY <2>1, SavedFunctions DEF SavedGateCell, GateBack, GateSaves
<1>15. \A i \in Gate : gate_cell'[i] = IF gate_cell[i] = c THEN e
                                       ELSE IF gate_cell[i] = e THEN c ELSE gate_cell[i]
  BY <1>1, <1>6
<1> QED BY <1>7, <1>10, <1>11, <1>13, <1>14, <1>15

-----------------------------------------------------------------------------
(* Operators of the design do not change in a step that keeps the design.  *)
LEMMA SameDesign ==
  ASSUME design' = design
  PROVE  /\ Shape(gate_cell') <=> Shape(gate_cell)'
         /\ LockedAt(gate_cell') <=> LockedAt(gate_cell)'
         /\ Measured(net_length', gate_cell') <=> Measured(net_length, gate_cell)'
         /\ Chain' = Chain
         /\ \A i \in Chain : Base(gate_cell, i)' = Base(gate_cell', i)
<1>1. Chain' = Chain /\ \A i \in Chain : Base(gate_cell, i)' = Base(gate_cell', i)
  BY DEF Chain, Base
<1>2. Shape(gate_cell') <=> Shape(gate_cell)'
  BY DEF Shape, Apart, Base, Chain, Tiles, Type, Columns, LastRow
<1>3. LockedAt(gate_cell') <=> LockedAt(gate_cell)'
  BY DEF LockedAt, Locked
<1>4. Measured(net_length', gate_cell') <=> Measured(net_length, gate_cell)'
  BY DEF Measured, NetLength
<1> QED BY <1>1, <1>2, <1>3, <1>4

LEMMA Concatenated ==
  ASSUME NEW A, NEW p \in Seq(A), NEW q \in Seq(A)
  PROVE  p \o q \in Seq(A) /\ Entries(p \o q) = Entries(p) \cup Entries(q)
<1> DEFINE pq == p \o q
<1>1. /\ Len(p) \in Nat /\ Len(q) \in Nat /\ DOMAIN p = 1 .. Len(p) /\ DOMAIN q = 1 .. Len(q)
      /\ pq \in Seq(A) /\ DOMAIN pq = 1 .. Len(p) + Len(q)
  OBVIOUS
<1>2. \A j \in 1 .. Len(p) + Len(q) : pq[j] = IF j <= Len(p) THEN p[j] ELSE q[j - Len(p)]
  OBVIOUS
<1> HIDE DEF pq
<1>3. ASSUME NEW k \in DOMAIN q PROVE \E j \in DOMAIN pq : pq[j] = q[k]
  <2>1. k + Len(p) \in 1 .. Len(p) + Len(q) /\ ~(k + Len(p) <= Len(p)) /\ (k + Len(p)) - Len(p) = k
    BY <1>1
  <2>2. pq[k + Len(p)] = q[k]
    BY <1>2, <2>1
  <2> QED BY <1>1, <2>1, <2>2
<1>4. ASSUME NEW j \in DOMAIN pq
      PROVE  (\E k \in DOMAIN p : pq[j] = p[k]) \/ (\E k \in DOMAIN q : pq[j] = q[k])
  <2>1. CASE j <= Len(p)
    BY <1>1, <1>2, <2>1
  <2>2. CASE ~(j <= Len(p))
    <3>1. j - Len(p) \in DOMAIN q /\ pq[j] = q[j - Len(p)]
      BY <1>1, <1>2, <2>2
    <3> QED BY <3>1
  <2> QED BY <2>1, <2>2
<1>5. ASSUME NEW k \in DOMAIN p PROVE \E j \in DOMAIN pq : pq[j] = p[k]
  BY <1>1, <1>2
<1>6. \A r : r \in Entries(pq) <=> r \in Entries(p) \cup Entries(q)
  BY <1>3, <1>4, <1>5 DEF Entries
<1>7. Entries(pq) = Entries(p) \cup Entries(q)
  BY <1>6
<1> QED BY <1>1, <1>7 DEF pq

(* What is saved of the chains: one entry if h is the first gate of one.   *)
LEMMA SavedChainFacts ==
  ASSUME design \in Designs, ChainsFollow, gate_cell \in [Gate -> Cell], NEW h
  PROVE  /\ SavedChain(h) \in Seq(Chain \X Int \X Int)
         /\ Entries(SavedChain(h)) = {ChainEntry(gate_cell, i) : i \in {i \in Chain : design.chains[i][1] = h}}
<1>1. CASE ~(\E i \in Chain : design.chains[i][1] = h)
  <2>1. SavedChain(h) = <<>>
    BY <1>1 DEF SavedChain
  <2> QED BY <1>1, <2>1 DEF Entries
<1>2. CASE \E i \in Chain : design.chains[i][1] = h
  <2> DEFINE i == CHOOSE i \in Chain : design.chains[i][1] = h
             r == ChainEntry(gate_cell, i)
  <2>1. i \in Chain /\ design.chains[i][1] = h
    BY <1>2
  <2>2. SavedChain(h) = <<<<i, chain_x[i], chain_start[i]>>>>
    BY <1>2 DEF SavedChain
  <2> HIDE DEF i
  <2>3. {k \in Chain : design.chains[k][1] = h} = {i}
    BY <2>1, DesignFacts, TilesFacts
  <2>4. Base(gate_cell, i) \in Cell
    BY <2>1, DesignFacts, TilesFacts DEF Base
  <2>5. Base(gate_cell, i)[1] \in Int /\ Base(gate_cell, i)[2] \in Int
    <3> DEFINE b == Base(gate_cell, i)
    <3>1. b \in Int \X Int \X Int
      BY <2>4, ChipAssumption
    <3> HIDE DEF b
    <3>2. b[1] \in Int /\ b[2] \in Int
      BY <3>1
    <3> QED BY <3>2 DEF b
  <2>6. SavedChain(h) = <<r>>
    BY <2>1, <2>2 DEF ChainsFollow, ChainEntry
  <2>7. r \in Chain \X Int \X Int
    BY <2>1, <2>5 DEF ChainEntry
  <2> HIDE DEF r
  <2>8. <<r>> \in Seq(Chain \X Int \X Int) /\ Entries(<<r>>) = {r}
    BY <2>7 DEF Entries
  <2> QED BY <2>3, <2>6, <2>8 DEF r
<1> QED BY <1>1, <1>2

(* Where nothing was saved of a gate, it is where it would be brought back. *)
LEMMA UnsavedStay ==
  ASSUME SavedOnce, NEW i \in Gate, gate_cell[i] \notin SavedCells
  PROVE  SavedGateCell[i] = gate_cell[i]
<1>1. GateSaves(i) = {}
  BY DEF GateSaves, SavedOnce, Gate
<1> QED BY <1>1, SavedFunctions DEF GateBack

(* chain_x and chain_start follow an exchange, and so does what is saved.  *)
LEMMA ExchangedChains ==
  ASSUME design \in Designs, design' = design,
         Agree(cell_gate, gate_cell), SavedOnce, ChainsFollow,
         NEW c \in Cell, NEW e \in Cell, c # e, cell_gate[c] # 0,
         c \notin SavedCells, e \notin SavedCells, Exchange(c, e)
  PROVE  ChainsFollow'
<1> DEFINE g == cell_gate[c]
           h == cell_gate[e]
           moved == {g, h} \ {0}
           First(i) == design.chains[i][1]
           S == Chain \X Int \X Int
<1>1. /\ gate_cell \in [Gate -> Cell] /\ g \in Gate /\ h \in Gate \cup {0}
      /\ gate_cell[g] = c /\ (h # 0 => gate_cell[h] = e) /\ moved \subseteq Gate
  BY DEF Agree
<1>2. /\ restore_chain' = restore_chain \o SavedChain(g) \o SavedChain(h)
      /\ gate_cell' = [i \in Gate |-> IF i = g THEN e ELSE IF i = h THEN c ELSE gate_cell[i]]
      /\ chain_x' = [i \in Chain |-> IF First(i) \in moved THEN gate_cell'[First(i)][1] ELSE chain_x[i]]
      /\ chain_start' = [i \in Chain |-> IF First(i) \in moved THEN gate_cell'[First(i)][2]
                                                               ELSE chain_start[i]]
  BY Zenon DEF Exchange
<1>3. SavedGateCell' = SavedGateCell
  BY ExchangeFacts
<1>4. \A i \in Chain : First(i) \in Gate
  BY DesignFacts, TilesFacts
<1>5. \A i \in moved : SavedGateCell[i] = gate_cell[i]
  BY <1>1, UnsavedStay
<1>6. 0 \notin Gate
  BY DEF Gate
<1>7. \A i \in Chain : First(i) \notin moved => gate_cell'[First(i)] = gate_cell[First(i)]
  BY <1>1, <1>2, <1>4, <1>6
<1>8. /\ SavedChain(g) \in Seq(S) /\ SavedChain(h) \in Seq(S) /\ restore_chain \in Seq(S)
      /\ Entries(SavedChain(g)) = {ChainEntry(gate_cell, i) : i \in {i \in Chain : First(i) = g}}
      /\ Entries(SavedChain(h)) = {ChainEntry(gate_cell, i) : i \in {i \in Chain : First(i) = h}}
  BY <1>1, SavedChainFacts DEF ChainsFollow
<1>9. /\ restore_chain' \in Seq(S)
      /\ Entries(restore_chain') = Entries(restore_chain)
           \cup {ChainEntry(gate_cell, i) : i \in {i \in Chain : First(i) \in moved}}
  <2> DEFINE s == restore_chain
             t == SavedChain(g)
             u == SavedChain(h)
             st == s \o t
  <2>1. s \in Seq(S) /\ t \in Seq(S) /\ u \in Seq(S) /\ restore_chain' = st \o u
    BY <1>2, <1>8
  <2> HIDE DEF s, t, u, S, First
  <2>2. st \in Seq(S) /\ Entries(st) = Entries(s) \cup Entries(t)
    BY <2>1, Concatenated
  <2> HIDE DEF st
  <2>3. st \o u \in Seq(S) /\ Entries(st \o u) = Entries(st) \cup Entries(u)
    BY <2>1, <2>2, Concatenated
  <2>4. {i \in Chain : First(i) \in moved} = {i \in Chain : First(i) = g} \cup {i \in Chain : First(i) = h}
    BY <1>4, <1>6
  <2>5. {ChainEntry(gate_cell, i) : i \in {i \in Chain : First(i) \in moved}} = Entries(t) \cup Entries(u)
    BY <1>8, <2>4 DEF t, u
  <2> QED BY <2>1, <2>2, <2>3, <2>5 DEF s
<1>10. \A i \in Chain : First(i) \in moved => Base(gate_cell, i) = Base(SavedGateCell, i)
  BY <1>5 DEF Base
<1>11. \A i \in Chain : First(i) \in moved => ChainEntry(gate_cell, i) = ChainEntry(SavedGateCell, i)
  BY <1>10 DEF ChainEntry
<1> HIDE DEF g, h, moved
<1>13. \A i \in Chain : /\ chain_x'[i] = Base(gate_cell', i)[1]
                        /\ chain_start'[i] = Base(gate_cell', i)[2]
  BY <1>2, <1>7 DEF ChainsFollow, Base
<1>14. \A r \in Entries(restore_chain') : r = ChainEntry(SavedGateCell, r[1])
  <2>1. ASSUME NEW i \in Chain, First(i) \in moved
        PROVE  ChainEntry(gate_cell, i) = ChainEntry(SavedGateCell, ChainEntry(gate_cell, i)[1])
    <3>1. ChainEntry(gate_cell, i)[1] = i
      BY DEF ChainEntry
    <3> QED BY <3>1, <2>1, <1>11
  <2> HIDE DEF First
  <2> QED BY <2>1, <1>9 DEF ChainsFollow
<1>15. ASSUME NEW i \in Chain
       PROVE  \/ Base(gate_cell', i) = Base(SavedGateCell, i)
              \/ \E r \in Entries(restore_chain') : r[1] = i
  <2>1. CASE First(i) \notin moved
    <3>1. Base(gate_cell', i) = Base(gate_cell, i)
      BY <2>1, <1>7 DEF Base
    <3> QED BY <3>1, <1>9 DEF ChainsFollow
  <2>2. CASE First(i) \in moved
    <3>1. ChainEntry(gate_cell, i) \in Entries(restore_chain') /\ ChainEntry(gate_cell, i)[1] = i
      BY <1>9, <2>2 DEF ChainEntry
    <3> QED BY <3>1
  <2> QED BY <2>1, <2>2
<1>16. DOMAIN chain_x' = Chain /\ DOMAIN chain_start' = Chain
  BY <1>2
<1>17. Chain' = Chain /\ \A i \in Chain : Base(gate_cell, i)' = Base(gate_cell', i)
  BY SameDesign
<1>18. \A i : Base(SavedGateCell, i)' = Base(SavedGateCell, i)
  BY <1>3 DEF Base
<1>19. \A r \in Entries(restore_chain)' : r = ChainEntry(SavedGateCell, r[1])'
  BY <1>14, <1>18 DEF ChainEntry, Entries
<1> QED BY <1>9, <1>13, <1>15, <1>16, <1>17, <1>18, <1>19 DEF ChainsFollow

(* What restore() would bring back is unchanged if what was saved is.      *)
LEMMA UndoableKept ==
  ASSUME Undoable, design' = design, net_length' = net_length, restore_net_length' = restore_net_length,
         SavedCellGate' = SavedCellGate, SavedGateCell' = SavedGateCell
  PROVE  Undoable'
<1>1. SavedNetLength' = SavedNetLength
  BY DEF SavedNetLength
<1>2. Agree(SavedCellGate, SavedGateCell)'
  BY DEF Undoable, Agree
<1>3. Shape(SavedGateCell)'
  BY DEF Undoable, Shape, Apart, Base, Chain, Tiles, Type, Columns, LastRow
<1>4. LockedAt(SavedGateCell)'
  BY DEF Undoable, LockedAt, Locked
<1>5. Measured(SavedNetLength, SavedGateCell)'
  BY ZenonT(60), <1>1 DEF Undoable, Measured, NetLength
<1> QED BY <1>2, <1>3, <1>4, <1>5 DEF Undoable

(* move_gate() of two cells of which nothing was saved in this move.       *)
LEMMA MoveGateKeeps ==
  ASSUME design \in Designs, design' = design, net_length' = net_length,
         restore_net_length' = restore_net_length,
         Undoable, Agree(cell_gate, gate_cell), SavedOnce, ChainsFollow, Marked,
         ~move_failed => LockedAt(gate_cell),
         NEW c \in Cell, NEW e \in Cell, c # e, cell_gate[c] # 0,
         c \notin SavedCells, e \notin SavedCells, MoveGateFrom(c, e)
  PROVE  /\ Undoable' /\ Agree(cell_gate, gate_cell)' /\ SavedOnce' /\ ChainsFollow' /\ Marked'
         /\ ~move_failed' => LockedAt(gate_cell)'
         /\ SavedGateCell' = SavedGateCell /\ SavedCells' = SavedCells \cup {c, e}
         /\ \A g \in Gate : gate_cell'[g] = IF gate_cell[g] = c THEN e
                                            ELSE IF gate_cell[g] = e THEN c ELSE gate_cell[g]
<1>1. Exchange(c, e) /\ move_failed' = (move_failed \/ {cell_gate[c], cell_gate[e]} \cap Locked(design) # {})
  BY DEF MoveGateFrom, MoveGateSeeing
<1>2. /\ Agree(cell_gate', gate_cell') /\ SavedOnce'
      /\ SavedCellGate' = SavedCellGate /\ SavedGateCell' = SavedGateCell
      /\ SavedCells' = SavedCells \cup {c, e}
      /\ \A g \in Gate : gate_cell'[g] = IF gate_cell[g] = c THEN e
                                         ELSE IF gate_cell[g] = e THEN c ELSE gate_cell[g]
  BY <1>1, ExchangeFacts
<1>3. ChainsFollow'
  BY <1>1, ExchangedChains
<1>4. Undoable'
  BY <1>2, UndoableKept
<1>5. Agree(cell_gate, gate_cell)'
  BY <1>2 DEF Agree
<1>6. recompute' = recompute \cup UNION {GateNets(i) : i \in {cell_gate[c], cell_gate[e]} \ {0}}
  BY <1>1, Zenon DEF Exchange
<1>7. \A g \in Gate : gate_cell'[g] # gate_cell[g] => g \in {cell_gate[c], cell_gate[e]} \ {0}
  BY <1>2 DEF Agree, Gate
<1>8. Marked'
  <2>1. \A g : GateNets(g) \subseteq Net /\ GateNets(g)' = GateNets(g)
    BY DEF GateNets
  <2>2. recompute' \subseteq Net
    BY <1>6, <2>1 DEF Marked
  <2>3. ASSUME NEW g \in Gate, gate_cell'[g] # SavedGateCell[g] PROVE GateNets(g) \subseteq recompute'
    <3>1. CASE gate_cell'[g] = gate_cell[g]
      BY <3>1, <2>3, <1>6 DEF Marked
    <3>2. CASE gate_cell'[g] # gate_cell[g]
      BY <3>2, <1>6, <1>7
    <3> QED BY <3>1, <3>2
  <2> QED BY <2>1, <2>2, <2>3, <1>2 DEF Marked
<1>9. ASSUME ~move_failed' PROVE LockedAt(gate_cell)'
  <2>1. ~move_failed /\ {cell_gate[c], cell_gate[e]} \cap Locked(design) = {}
    BY <1>1, <1>9
  <2>2. Locked(design) \subseteq Gate
    BY DesignFacts
  <2>3. \A g \in Locked(design) : gate_cell'[g] = gate_cell[g]
    BY <2>1, <2>2, <1>7
  <2> QED BY <2>1, <2>3 DEF LockedAt, Locked
<1> QED BY <1>2, <1>3, <1>4, <1>5, <1>8, <1>9

(* Nor is any of it affected by a step that leaves all of this alone.      *)
LEMMA NothingMoved ==
  ASSUME UNCHANGED <<design, placeVars, net_length, restore_net_length,
                     restore_cell, restore_chain, recompute>>
  PROVE  /\ Undoable => Undoable'
         /\ Agree(cell_gate, gate_cell) => Agree(cell_gate, gate_cell)'
         /\ SavedOnce => SavedOnce' /\ SavedCells' = SavedCells
         /\ ChainsFollow => ChainsFollow'
         /\ Marked => Marked'
         /\ LockedAt(gate_cell) => LockedAt(gate_cell)'
         /\ Shape(gate_cell) => Shape(gate_cell)'
         /\ SavedGateCell' = SavedGateCell /\ SavedCellGate' = SavedCellGate
<1> USE DEF placeVars
<1>1. SavedGateCell' = SavedGateCell /\ SavedCellGate' = SavedCellGate
  BY DEF SavedGateCell, SavedCellGate
<1>2. Undoable => Undoable'
  BY <1>1, UndoableKept
<1>3. Agree(cell_gate, gate_cell) => Agree(cell_gate, gate_cell)'
  BY DEF Agree
<1>4. (SavedOnce => SavedOnce') /\ SavedCells' = SavedCells
  BY DEF SavedOnce, SavedCells
<1>5. ChainsFollow => ChainsFollow'
  <2>1. /\ \A i : Base(gate_cell, i)' = Base(gate_cell, i)
        /\ \A i : Base(SavedGateCell, i)' = Base(SavedGateCell, i)
        /\ \A i : ChainEntry(SavedGateCell, i)' = ChainEntry(SavedGateCell, i)
        /\ Entries(restore_chain)' = Entries(restore_chain) /\ Chain' = Chain
    BY <1>1 DEF Base, ChainEntry, Entries, Chain
  <2> QED BY <2>1 DEF ChainsFollow
<1>6. Marked => Marked'
  BY <1>1 DEF Marked, GateNets
<1>7. (LockedAt(gate_cell) => LockedAt(gate_cell)') /\ (Shape(gate_cell) => Shape(gate_cell)')
  BY SameDesign
<1> QED BY <1>1, <1>2, <1>3, <1>4, <1>5, <1>6, <1>7

(* A placement without saved values is its own past.                       *)
LEMMA NothingSaved ==
  ASSUME restore_cell = <<>>, Agree(cell_gate, gate_cell)
  PROVE  /\ SavedGateCell = gate_cell /\ SavedCellGate = cell_gate
         /\ SavedCells = {} /\ SavedOnce
<1>1. DOMAIN restore_cell = {}
  OBVIOUS
<1>2. (\A g : GateSaves(g) = {}) /\ \A d : CellSaves(d) = {}
  BY <1>1 DEF GateSaves, CellSaves
<1>3. SavedGateCell = [g \in Gate |-> gate_cell[g]] /\ SavedCellGate = [d \in Cell |-> cell_gate[d]]
  BY <1>2, SavedFunctions DEF GateBack, CellBack
<1>4. SavedGateCell = gate_cell /\ SavedCellGate = cell_gate
  BY <1>3 DEF Agree
<1>5. SavedCells = {} /\ SavedOnce
  BY <1>1 DEF SavedCells, SavedOnce
<1> QED BY <1>4, <1>5

LEMMA MoveGateInv ==
  ASSUME PlacerInv, NEW g \in FreeGates, NEW e \in CellsOf(g), MoveGate(g, e)
  PROVE  PlacerInv' /\ SavedGateCell' = SavedGateCell
<1> DEFINE c == gate_cell[g]
<1>1. /\ pc = "idle" /\ pc' = "decide" /\ design' = design /\ design \in Designs
      /\ cell_gate[e] \notin Chained(design) /\ MoveGateFrom(c, e)
      /\ UNCHANGED <<net_length, restore_net_length>>
  BY DEF MoveGate, PlacerInv
<1>2. /\ MoveInv /\ Agree(cell_gate, gate_cell) /\ ~move_failed /\ restore_cell = <<>>
      /\ LockedAt(gate_cell) /\ Shape(gate_cell) /\ Marked /\ restore_net_length = {}
  BY <1>1 DEF PlacerInv, MoveInv, Moving, Remeasured
<1>3. g \in Gate /\ c \in Cell /\ cell_gate[c] = g /\ g # 0 /\ e \in Cell
      /\ chipdb.cell_type[c] = Type(g) /\ chipdb.cell_type[e] = Type(g)
  BY <1>2 DEF FreeGates, Agree, Gate, CellsOf, Shape
<1>4. SavedCells = {}
  BY <1>2, NothingSaved
<1>5. /\ Undoable' /\ Agree(cell_gate, gate_cell)' /\ SavedOnce' /\ ChainsFollow' /\ Marked'
      /\ ~move_failed' => LockedAt(gate_cell)'
      /\ Shape(gate_cell)' /\ SavedGateCell' = SavedGateCell
  <2>1. CASE c = e
    <3>1. UNCHANGED <<placeVars, restore_cell, restore_chain, recompute>>
      BY <1>1, <2>1 DEF MoveGateFrom, MoveGateSeeing
    <3> QED BY <3>1, <1>1, <1>2, NothingMoved DEF MoveInv
  <2>2. CASE c # e
    <3>1. /\ Undoable' /\ Agree(cell_gate, gate_cell)' /\ SavedOnce' /\ ChainsFollow' /\ Marked'
          /\ (~move_failed' => LockedAt(gate_cell)') /\ SavedGateCell' = SavedGateCell
          /\ \A i \in Gate : gate_cell'[i] = IF gate_cell[i] = c THEN e
                                             ELSE IF gate_cell[i] = e THEN c ELSE gate_cell[i]
      BY <2>2, <1>1, <1>2, <1>3, <1>4, MoveGateKeeps DEF MoveInv
    <3>2. \A i \in Gate : chipdb.cell_type[gate_cell'[i]] = Type(i)
      <4>1. \A i \in Gate : (gate_cell[i] = c <=> i = g)
        BY <1>2, <1>3 DEF Agree
      <4> QED BY <4>1, <3>1, <1>2, <1>3 DEF Shape
    <3>3. \A i \in Gate \cap Chained(design) : gate_cell'[i] = gate_cell[i]
      <4>1. \A i \in Gate \cap Chained(design) : gate_cell[i] # c /\ gate_cell[i] # e
        BY <1>1, <1>2, <1>3 DEF Agree, FreeGates
      <4> QED BY <4>1, <3>1
    <3>4. \A i \in Chain : \A j \in DOMAIN design.chains[i] :
            gate_cell'[design.chains[i][j]] = gate_cell[design.chains[i][j]]
      BY <3>3, <1>1, DesignFacts
    <3>5. \A i \in Chain : Base(gate_cell', i) = Base(gate_cell, i)
      BY <3>4, <1>1, TilesFacts DEF Base
    <3>6. Shape(gate_cell')
      BY <3>2, <3>4, <3>5, <1>2 DEF Shape, Apart
    <3> QED BY <3>1, <3>6, <1>1, SameDesign
  <2> QED BY <2>1, <2>2
<1>6. MoveInv'
  BY <1>1, <1>2, <1>5 DEF MoveInv, Remeasured
<1> QED BY <1>1, <1>5, <1>6 DEF PlacerInv, Moving

-----------------------------------------------------------------------------
(* Cells of two ranges of tiles that lie apart are different.              *)
LEMMA RangesApart ==
  ASSUME NEW x, NEW y \in Int, NEW S \in Nat, NEW j \in 1 .. S * TileSize,
         NEW u, NEW v \in Int, NEW T \in Nat, NEW k \in 1 .. T * TileSize,
         x # u \/ y + S <= v \/ v + T <= y
  PROVE  ChainCell(x, y, j) # ChainCell(u, v, k)
<1>1. /\ \E r \in 0 .. S - 1, p \in 0 .. TileSize - 1 : \A a, b : ChainCell(a, b, j) = <<a, b + r, p>>
      /\ \E s \in 0 .. T - 1, q \in 0 .. TileSize - 1 : \A a, b : ChainCell(a, b, k) = <<a, b + s, q>>
  BY ChainCellWithin
<1>2. PICK r \in 0 .. S - 1, p \in 0 .. TileSize - 1 : \A a, b : ChainCell(a, b, j) = <<a, b + r, p>>
  BY <1>1
<1>3. PICK s \in 0 .. T - 1, q \in 0 .. TileSize - 1 : \A a, b : ChainCell(a, b, k) = <<a, b + s, q>>
  BY <1>1
<1>4. x # u \/ y + r # v + s
  OBVIOUS
<1>5. <<x, y + r, p>> # <<u, v + s, q>>
  BY <1>4
<1> QED BY <1>2, <1>3, <1>5

(* The rows that a chain may be on hold logic cells only.                  *)
LEMMA ChainCells ==
  ASSUME NEW x \in Columns, NEW T \in Nat, NEW y \in 1 .. LastRow - (T - 1), NEW j \in 1 .. T * TileSize
  PROVE  ChainCell(x, y, j) \in Cell /\ chipdb.cell_type[ChainCell(x, y, j)] = "LOGIC"
<1>1. LastRow \in Int
  BY ChipAssumption DEF LastRow
<1>2. PICK r \in 0 .. T - 1, p \in 0 .. TileSize - 1 :
        \A a, b : ChainCell(a, b, j) = <<a, b + r, p>>
  BY ChainCellWithin
<1>3. y + r \in 1 .. LastRow
  BY <1>1
<1> QED BY <1>2, <1>3, ChipAssumption

(* What RoomFor says of a chain move: the old and the new range lie apart, *)
(* and the new one covers another chain or has no tile of it.              *)
Covered(i) ==
  /\ Base(SavedGateCell, i)[1] = mv.new_x
  /\ mv.new_y <= Base(SavedGateCell, i)[2]
  /\ Base(SavedGateCell, i)[2] + Tiles(i) <= mv.new_y + mv.tiles

LEMMA ChainMoveFacts ==
  ASSUME design \in Designs, Shape(SavedGateCell), NEW c \in Chain, ChainMove(c)
  PROVE  /\ mv.tiles \in Nat \ {0} /\ mv.tiles = Tiles(c)
         /\ mv.x \in Columns /\ mv.y \in 1 .. LastRow - (mv.tiles - 1)
         /\ mv.new_x \in Columns /\ mv.new_y \in 1 .. LastRow - (mv.tiles - 1)
         /\ mv.x # mv.new_x \/ mv.y + mv.tiles <= mv.new_y \/ mv.new_y + mv.tiles <= mv.y
         /\ \A i \in Chain : \/ Covered(i)
                             \/ Base(SavedGateCell, i)[1] # mv.new_x
                             \/ Base(SavedGateCell, i)[2] + Tiles(i) <= mv.new_y
                             \/ mv.new_y + mv.tiles <= Base(SavedGateCell, i)[2]
<1>1. LastRow \in Int
  BY ChipAssumption DEF LastRow
<1>2. \A i \in Chain : Tiles(i) \in Nat \ {0}
  BY TilesFacts
<1>3. \A i \in Chain : /\ Base(SavedGateCell, i)[1] \in Columns
                       /\ Base(SavedGateCell, i)[2] \in 1 .. LastRow - (Tiles(i) - 1)
  BY DEF Shape
<1>4. /\ mv.x = Base(SavedGateCell, c)[1] /\ mv.y = Base(SavedGateCell, c)[2] /\ mv.tiles = Tiles(c)
      /\ mv.new_x \in Columns /\ mv.new_y \in 1 .. LastRow - (Tiles(c) - 1)
      /\ mv.x # mv.new_x \/ mv.y # mv.new_y
  BY DEF ChainMove
<1>5. ASSUME NEW i \in Chain, Base(SavedGateCell, i)[1] = mv.new_x
      PROVE  /\ \/ mv.new_y <= Base(SavedGateCell, i)[2]
                \/ mv.new_y >= Base(SavedGateCell, i)[2] + Tiles(i)
             /\ \/ mv.new_y + Tiles(c) <= Base(SavedGateCell, i)[2]
                \/ mv.new_y + Tiles(c) >= Base(SavedGateCell, i)[2] + Tiles(i)
  BY <1>5 DEF ChainMove
<1>6. mv.x # mv.new_x \/ mv.y + mv.tiles <= mv.new_y \/ mv.new_y + mv.tiles <= mv.y
  <2>1. CASE mv.x = mv.new_x
    <3>1. mv.new_y <= mv.y \/ mv.new_y >= mv.y + Tiles(c)
      BY <2>1, <1>4, <1>5
    <3>2. mv.new_y + Tiles(c) <= mv.y \/ mv.new_y + Tiles(c) >= mv.y + Tiles(c)
      BY <2>1, <1>4, <1>5
    <3>3. mv.y \in Int /\ mv.new_y \in Int /\ Tiles(c) \in Nat
      BY <1>1, <1>2, <1>3, <1>4
    <3> QED BY <2>1, <3>1, <3>2, <3>3, <1>4
  <2> QED BY <2>1
<1>7. ASSUME NEW i \in Chain, Base(SavedGateCell, i)[1] = mv.new_x
      PROVE  \/ Covered(i)
             \/ Base(SavedGateCell, i)[2] + Tiles(i) <= mv.new_y
             \/ mv.new_y + mv.tiles <= Base(SavedGateCell, i)[2]
  <2>1. /\ mv.new_y \in Int /\ Tiles(c) \in Nat /\ Tiles(i) \in Nat \ {0}
        /\ Base(SavedGateCell, i)[2] \in Int
    BY <1>1, <1>2, <1>3, <1>4
  <2> QED BY <2>1, <1>4, <1>5, <1>7 DEF Covered
<1> QED BY <1>2, <1>3, <1>4, <1>6, <1>7

LEMMA BeginChainInv ==
  ASSUME PlacerInv, NEW c \in Chain, NEW x \in Columns, NEW y \in 1 .. LastRow, BeginChain(c, x, y)
  PROVE  PlacerInv'
<1>1. /\ pc = "idle" /\ design' = design /\ design \in Designs
      /\ UNCHANGED <<placeVars, net_length, saveVars, restore_net_length>>
  BY DEF BeginChain, PlacerInv
<1>2. /\ MoveInv /\ Agree(cell_gate, gate_cell) /\ ~move_failed /\ restore_cell = <<>>
      /\ LockedAt(gate_cell) /\ Shape(gate_cell) /\ Marked /\ restore_net_length = {} /\ ChainsFollow
  BY <1>1 DEF PlacerInv, MoveInv, Moving, Remeasured
<1>3. /\ Undoable' /\ Agree(cell_gate, gate_cell)' /\ SavedOnce' /\ ChainsFollow' /\ Marked'
      /\ LockedAt(gate_cell)' /\ Shape(gate_cell)' /\ ~move_failed'
      /\ SavedGateCell' = SavedGateCell /\ SavedCells' = SavedCells
  BY <1>1, <1>2, NothingMoved DEF MoveInv, saveVars
<1>4. SavedGateCell = gate_cell /\ SavedCells = {}
  BY <1>2, NothingSaved
<1>5. pc' \in {"decide", "chain"}
  BY DEF BeginChain
<1>6. ASSUME pc' = "chain" PROVE HalfMoved'
  <2>1. /\ mv' = [x |-> chain_x[c], y |-> chain_start[c], new_x |-> x, new_y |-> y,
                  tiles |-> Tiles(c), j |-> 1]
        /\ <<x, y>> # <<chain_x[c], chain_start[c]>>
    BY <1>6 DEF BeginChain
  <2>2. mv'.x = Base(gate_cell, c)[1] /\ mv'.y = Base(gate_cell, c)[2] /\ mv'.tiles = Tiles(c)
        /\ mv'.new_x = x /\ mv'.new_y = y /\ mv'.j = 1
    BY <2>1, <1>2 DEF ChainsFollow
  <2>3. Tiles(c) \in Nat \ {0} /\ LastRow \in Int /\ TileSize \in Nat \ {0}
    BY <1>1, TilesFacts, ChipAssumption DEF LastRow
  <2>4. y \in 1 .. LastRow - (Tiles(c) - 1)
    BY <2>3 DEF BeginChain
  <2>5. ASSUME NEW i \in Chain, Base(gate_cell, i)[1] = x
        PROVE  LET first == Base(gate_cell, i)[2]
                   past == first + Tiles(i)
               IN /\ y <= first \/ y >= past
                  /\ y + Tiles(c) <= first \/ y + Tiles(c) >= past
    <3>1. chain_x[i] = x /\ chain_start[i] = Base(gate_cell, i)[2]
      BY <2>5, <1>2 DEF ChainsFollow
    <3>2. /\ ~(y > chain_start[i] /\ y <= chain_start[i] + Tiles(i) - 1)
          /\ ~(y + Tiles(c) - 1 >= chain_start[i] /\ y + Tiles(c) - 1 < chain_start[i] + Tiles(i) - 1)
      BY <3>1 DEF BeginChain, RoomFor
    <3>3. chain_start[i] \in Int /\ Tiles(i) \in Nat
      BY <3>1, <1>1, <1>2, <2>3, TilesFacts DEF Shape
    <3> QED BY <3>1, <3>2, <3>3, <2>3
  <2>6. /\ Chain' = Chain /\ \A i \in Chain : Tiles(i)' = Tiles(i)
        /\ \A i : Base(SavedGateCell, i)' = Base(gate_cell, i)
    BY <1>1, <1>3, <1>4 DEF Chain, Tiles, Base
  <2>7. ChainMove(c)'
    <3>1. mv'.new_y \in 1 .. LastRow - (Tiles(c) - 1) /\ mv'.new_x \in Columns
      BY <2>2, <2>4
    <3>2. <<mv'.new_x, mv'.new_y>> # <<mv'.x, mv'.y>>
      BY <2>1
    <3> QED BY <2>2, <2>5, <2>6, <3>1, <3>2 DEF ChainMove, LastRow, Columns
  <2>8. mv'.j \in 1 .. mv'.tiles * TileSize
    <3>1. \A a, b \in Nat \ {0} : a * b \in Nat \ {0}
      OBVIOUS
    <3> QED BY <3>1, <2>2, <2>3
  <2>9. \A d : ~Visited(d, mv.j)'
    BY <2>2 DEF Visited
  <2>10. mv' \in [x : Int, y : Int, new_x : Int, new_y : Int, tiles : Nat, j : Nat]
    <3>1. chain_x[c] \in Int /\ chain_start[c] \in Int /\ x \in Int
      <4>1. Base(gate_cell, c)[1] \in Columns /\ Base(gate_cell, c)[2] \in 1 .. LastRow - (Tiles(c) - 1)
        BY <1>2 DEF Shape
      <4>2. chain_x[c] \in Columns /\ chain_start[c] \in 1 .. LastRow - (Tiles(c) - 1)
        BY <4>1, <1>2 DEF ChainsFollow
      <4>3. Columns \subseteq Int
        BY ChipAssumption
      <4>4. chain_start[c] \in Int
        BY <4>2, <2>3
      <4> QED BY <4>2, <4>3, <4>4
    <3> QED BY <3>1, <2>1, <2>3
  <2> QED BY <2>6, <2>7, <2>8, <2>9, <2>10, <1>1, <1>3, <1>4 DEF HalfMoved, placeVars
<1>7. MoveInv'
  BY <1>1, <1>2, <1>3, <1>5, <1>6 DEF MoveInv, Remeasured
<1> QED BY <1>1, <1>5, <1>7 DEF PlacerInv, Moving

(* Once all positions have been exchanged: the chain and what the new      *)
(* range covers have changed places, chain by chain, and nothing else has. *)
LEMMA ChainMoveEnds ==
  ASSUME design \in Designs, SavedGateCell \in [Gate -> Cell], Shape(SavedGateCell),
         NEW c \in Chain, ChainMove(c), NEW gc \in [Gate -> Cell],
         \A g \in Gate :
           \/ Swapped(SavedGateCell[g], gc[g], mv.tiles * TileSize + 1)
           \/ gc[g] = SavedGateCell[g] /\ ~Visited(gc[g], mv.tiles * TileSize + 1)
  PROVE  Shape(gc)
<1> DEFINE old == SavedGateCell
           T == mv.tiles
           Old(m) == ChainCell(mv.x, mv.y, m)
           New(m) == ChainCell(mv.new_x, mv.new_y, m)
           Positions == 1 .. T * TileSize
<1>1. /\ T \in Nat \ {0} /\ T = Tiles(c)
      /\ mv.x \in Columns /\ mv.y \in 1 .. LastRow - (T - 1)
      /\ mv.new_x \in Columns /\ mv.new_y \in 1 .. LastRow - (T - 1)
      /\ mv.x # mv.new_x \/ mv.y + T <= mv.new_y \/ mv.new_y + T <= mv.y
      /\ \A i \in Chain : \/ Covered(i)
                          \/ Base(old, i)[1] # mv.new_x
                          \/ Base(old, i)[2] + Tiles(i) <= mv.new_y
                          \/ mv.new_y + T <= Base(old, i)[2]
  BY ChainMoveFacts
<1>2. TileSize \in Nat \ {0} /\ LastRow \in Int /\ mv.y \in Nat \ {0} /\ mv.new_y \in Nat \ {0}
  BY <1>1, ChipAssumption DEF LastRow
<1>3. T * TileSize \in Nat /\ 1 .. (T * TileSize + 1) - 1 = Positions /\ Positions \subseteq Nat \ {0}
  BY <1>1, <1>2
<1>4. /\ \A d : Visited(d, T * TileSize + 1) <=> \E m \in Positions : d = Old(m) \/ d = New(m)
      /\ \A d, e : Swapped(d, e, T * TileSize + 1)
                     <=> \E m \in Positions : (d = Old(m) /\ e = New(m)) \/ (d = New(m) /\ e = Old(m))
  BY <1>3 DEF Visited, Swapped
<1>5. ASSUME NEW m \in Positions, NEW k \in Positions PROVE Old(m) # New(k)
  <2>1. mv.y \in Int /\ mv.new_y \in Int /\ T \in Nat
    BY <1>1, <1>2
  <2>2. mv.x # mv.new_x \/ mv.y + T <= mv.new_y \/ mv.new_y + T <= mv.y
    BY <1>1
  <2> QED BY <2>1, <2>2, RangesApart
<1>6. \A m, k \in Positions : (Old(m) = Old(k) \/ New(m) = New(k)) => m = k
  BY <1>2, <1>3, ChainCellInjective
<1>7. \A m \in Positions : /\ Old(m) \in Cell /\ chipdb.cell_type[Old(m)] = "LOGIC"
                       /\ New(m) \in Cell /\ chipdb.cell_type[New(m)] = "LOGIC"
  BY <1>1, ChainCells
<1> HIDE DEF Old, New, Positions
<1>8. \A g \in Gate, m \in Positions : (old[g] = Old(m) => gc[g] = New(m)) /\ (old[g] = New(m) => gc[g] = Old(m))
  BY <1>4, <1>5, <1>6
<1>9. \A g \in Gate : (\A m \in Positions : old[g] # Old(m) /\ old[g] # New(m)) => gc[g] = old[g]
  BY <1>4
<1>10. \A g \in Gate : chipdb.cell_type[gc[g]] = Type(g)
  BY <1>7, <1>8, <1>9 DEF Shape
<1>11. \A i \in Chain : /\ Base(old, i)[1] \in Columns /\ Base(old, i)[2] \in 1 .. LastRow - (Tiles(i) - 1)
                        /\ Tiles(i) \in Nat \ {0} /\ Base(old, i)[2] \in Int
                        /\ DOMAIN design.chains[i] \subseteq 1 .. Tiles(i) * TileSize
                        /\ 1 \in DOMAIN design.chains[i]
                        /\ \A j \in DOMAIN design.chains[i] : design.chains[i][j] \in Gate
                        /\ \A j \in DOMAIN design.chains[i] :
                             old[design.chains[i][j]] = ChainCell(Base(old, i)[1], Base(old, i)[2], j)
  <2> SUFFICES ASSUME NEW i \in Chain
               PROVE  /\ Base(old, i)[1] \in Columns /\ Base(old, i)[2] \in 1 .. LastRow - (Tiles(i) - 1)
                      /\ Tiles(i) \in Nat \ {0} /\ Base(old, i)[2] \in Int
                      /\ DOMAIN design.chains[i] \subseteq 1 .. Tiles(i) * TileSize
                      /\ 1 \in DOMAIN design.chains[i]
                      /\ \A j \in DOMAIN design.chains[i] : design.chains[i][j] \in Gate
                      /\ \A j \in DOMAIN design.chains[i] :
                           old[design.chains[i][j]] = ChainCell(Base(old, i)[1], Base(old, i)[2], j)
    OBVIOUS
  <2>1. /\ Tiles(i) \in Nat \ {0} /\ DOMAIN design.chains[i] \subseteq 1 .. Tiles(i) * TileSize
        /\ 1 \in DOMAIN design.chains[i]
    BY TilesFacts
  <2>2. \A j \in DOMAIN design.chains[i] : design.chains[i][j] \in Gate
    BY DesignFacts
  <2>3. /\ Base(old, i)[1] \in Columns /\ Base(old, i)[2] \in 1 .. LastRow - (Tiles(i) - 1)
        /\ \A j \in DOMAIN design.chains[i] :
             old[design.chains[i][j]] = ChainCell(Base(old, i)[1], Base(old, i)[2], j)
    BY DEF Shape
  <2> QED BY <2>1, <2>2, <2>3, <1>2
<1> DEFINE X(i) == IF i = c THEN mv.new_x ELSE IF Covered(i) THEN mv.x ELSE Base(old, i)[1]
           Y(i) == IF i = c THEN mv.new_y
                   ELSE IF Covered(i) THEN mv.y + (Base(old, i)[2] - mv.new_y) ELSE Base(old, i)[2]
<1>12. ASSUME NEW i \in Chain, NEW j \in DOMAIN design.chains[i]
       PROVE  gc[design.chains[i][j]] = ChainCell(X(i), Y(i), j)
  <2> DEFINE g == design.chains[i][j]
  <2>1. g \in Gate /\ j \in 1 .. Tiles(i) * TileSize /\ old[g] = ChainCell(Base(old, i)[1], Base(old, i)[2], j)
    BY <1>11
  <2> HIDE DEF g
  <2>2. CASE i = c
    <3>1. old[g] = Old(j) /\ j \in Positions
      BY <2>1, <2>2, <1>1 DEF Old, Positions, ChainMove
    <3>2. gc[g] = New(j)
      BY <3>1, <2>1, <1>8
    <3> QED BY <3>2, <2>2 DEF New, g
  <2>3. CASE i # c /\ Covered(i)
    <3>1. PICK r \in 0 .. Tiles(i) - 1, p \in 0 .. TileSize - 1 :
            \A x, y : ChainCell(x, y, j) = <<x, y + r, p>>
      BY <1>11, <2>1, ChainCellWithin
    <3> DEFINE d == Base(old, i)[2] - mv.new_y
    <3>2. d \in Nat /\ d + r \in 0 .. T - 1 /\ r \in Nat /\ Base(old, i)[2] = mv.new_y + d
      BY <2>3, <1>1, <1>2, <1>11 DEF Covered
    <3> HIDE DEF d
    <3>3. PICK m \in Positions : \A x, y : ChainCell(x, y, m) = <<x, y + (d + r), p>>
      BY <3>2, <1>1, ChainCellOnto DEF Positions
    <3>4. old[g] = New(m)
      <4>1. old[g] = <<mv.new_x, Base(old, i)[2] + r, p>>
        BY <2>1, <2>3, <3>1 DEF Covered
      <4>2. New(m) = <<mv.new_x, mv.new_y + (d + r), p>>
        BY <3>3 DEF New
      <4> QED BY <4>1, <4>2, <3>2, <1>2
    <3>5. gc[g] = <<mv.x, mv.y + (d + r), p>>
      BY <3>3, <3>4, <2>1, <1>8 DEF Old
    <3>6. ChainCell(mv.x, mv.y + d, j) = <<mv.x, (mv.y + d) + r, p>>
      BY <3>1
    <3>7. (mv.y + d) + r = mv.y + (d + r)
      BY <3>2, <1>2
    <3> QED BY <3>5, <3>6, <3>7, <2>3 DEF g, d
  <2>4. CASE i # c /\ ~Covered(i)
    <3>1. \/ Base(old, i)[1] # mv.new_x
          \/ Base(old, i)[2] + Tiles(i) <= mv.new_y
          \/ mv.new_y + T <= Base(old, i)[2]
      BY <1>1, <2>4
    <3>2. \/ Base(old, i)[1] # mv.x
          \/ Base(old, i)[2] + Tiles(i) <= mv.y
          \/ mv.y + T <= Base(old, i)[2]
      BY <2>4, <1>1 DEF Shape, Apart, ChainMove
    <3>3. ASSUME NEW m \in Positions PROVE ChainCell(Base(old, i)[1], Base(old, i)[2], j) # New(m)
      <4>1. Tiles(i) \in Nat /\ T \in Nat /\ Base(old, i)[2] \in Int /\ mv.new_y \in Int
        BY <1>1, <1>2, <1>11
      <4>2. m \in 1 .. T * TileSize
        BY DEF Positions
      <4> QED BY <4>1, <4>2, <3>1, <2>1, RangesApart DEF New
    <3>4. ASSUME NEW m \in Positions PROVE ChainCell(Base(old, i)[1], Base(old, i)[2], j) # Old(m)
      <4>1. Tiles(i) \in Nat /\ T \in Nat /\ Base(old, i)[2] \in Int /\ mv.y \in Int
        BY <1>1, <1>2, <1>11
      <4>2. m \in 1 .. T * TileSize
        BY DEF Positions
      <4> QED BY <4>1, <4>2, <3>2, <2>1, RangesApart DEF Old
    <3>5. gc[g] = old[g]
      BY <3>3, <3>4, <2>1, <1>9
    <3> QED BY <3>5, <2>1, <2>4 DEF g
  <2> QED BY <2>2, <2>3, <2>4
<1>13. \A i \in Chain : /\ X(i) \in Columns /\ Y(i) \in 1 .. LastRow - (Tiles(i) - 1) /\ Y(i) \in Int
                        /\ i # c /\ Covered(i) => Y(i) >= mv.y /\ Y(i) + Tiles(i) <= mv.y + T
  <2> SUFFICES ASSUME NEW i \in Chain
               PROVE  /\ X(i) \in Columns /\ Y(i) \in 1 .. LastRow - (Tiles(i) - 1) /\ Y(i) \in Int
                      /\ i # c /\ Covered(i) => Y(i) >= mv.y /\ Y(i) + Tiles(i) <= mv.y + T
    OBVIOUS
  <2>1. CASE i = c
    BY <2>1, <1>1, <1>2
  <2>2. CASE i # c /\ Covered(i)
    BY <2>2, <1>1, <1>2, <1>11 DEF Covered
  <2>3. CASE i # c /\ ~Covered(i)
    BY <2>3, <1>11
  <2> QED BY <2>1, <2>2, <2>3
<1>14. ASSUME NEW i \in Chain
       PROVE  Base(gc, i)[1] = X(i) /\ Base(gc, i)[2] = Y(i)
  <2> HIDE DEF X, Y
  <2>1. Base(gc, i) = ChainCell(X(i), Y(i), 1)
    BY <1>11, <1>12 DEF Base
  <2>2. 0 \div TileSize = 0 /\ 1 - 1 = 0
    BY <1>2
  <2>3. Base(gc, i)[1] = X(i) /\ Base(gc, i)[2] = Y(i) + 0
    BY <2>1, <2>2 DEF ChainCell
  <2> QED BY <2>3, <1>13
<1>15. ASSUME NEW i \in Chain, NEW k \in Chain, i # k
       PROVE  X(i) # X(k) \/ Y(i) + Tiles(i) <= Y(k) \/ Y(k) + Tiles(k) <= Y(i)
  <2>1. \/ Base(old, i)[1] # Base(old, k)[1]
        \/ Base(old, i)[2] + Tiles(i) <= Base(old, k)[2]
        \/ Base(old, k)[2] + Tiles(k) <= Base(old, i)[2]
    BY <1>15 DEF Shape, Apart
  <2>2. \A l \in {i, k} : ~Covered(l) => \/ Base(old, l)[1] # mv.new_x
                                         \/ Base(old, l)[2] + Tiles(l) <= mv.new_y
                                         \/ mv.new_y + T <= Base(old, l)[2]
    BY <1>1
  <2>3. \A l \in {i, k} : l # c => \/ Base(old, l)[1] # mv.x
                                   \/ Base(old, l)[2] + Tiles(l) <= mv.y
                                   \/ mv.y + T <= Base(old, l)[2]
    BY <1>1 DEF Shape, Apart, ChainMove
  <2>4. \A l \in {i, k} : /\ Tiles(l) \in Nat /\ Base(old, l)[2] \in Int /\ Y(l) \in Int
                          /\ l # c /\ Covered(l) => Y(l) >= mv.y /\ Y(l) + Tiles(l) <= mv.y + T
    BY <1>11, <1>13
  <2>5. CASE i = c
    BY <2>2, <2>4, <2>5, <1>1, <1>2, <1>15
  <2>6. CASE k = c
    BY <2>2, <2>4, <2>6, <1>1, <1>2, <1>15
  <2>7. CASE i # c /\ k # c /\ Covered(i) /\ Covered(k)
    BY <2>1, <2>4, <2>7, <1>1, <1>2 DEF Covered
  <2>8. CASE i # c /\ k # c /\ Covered(i) /\ ~Covered(k)
    BY <2>3, <2>4, <2>8, <1>1, <1>2
  <2>9. CASE i # c /\ k # c /\ ~Covered(i) /\ Covered(k)
    BY <2>3, <2>4, <2>9, <1>1, <1>2
  <2>10. CASE i # c /\ k # c /\ ~Covered(i) /\ ~Covered(k)
    BY <2>1, <2>10
  <2> QED BY <2>5, <2>6, <2>7, <2>8, <2>9, <2>10
<1> HIDE DEF X, Y
<1> QED BY <1>10, <1>12, <1>13, <1>14, <1>15 DEF Shape, Apart

(* One turn of the loops of move_chain(), the last one included.           *)
LEMMA MoveChainCellInv ==
  ASSUME PlacerInv, MoveChainCell
  PROVE  PlacerInv' /\ SavedGateCell' = SavedGateCell
<1> DEFINE j == mv.j
           c == ChainCell(mv.x, mv.y, j)
           e == ChainCell(mv.new_x, mv.new_y, j)
           last == mv.j = mv.tiles * TileSize
<1>1. /\ pc = "chain" /\ design' = design /\ design \in Designs
      /\ net_length' = net_length /\ restore_net_length' = restore_net_length
      /\ mv' = IF last THEN NoMove ELSE [mv EXCEPT !.j = @ + 1]
      /\ pc' = IF last THEN "decide" ELSE "chain"
  BY DEF MoveChainCell, PlacerInv
<1>2. /\ MoveInv /\ HalfMoved /\ Undoable /\ Agree(cell_gate, gate_cell) /\ SavedOnce /\ ChainsFollow
      /\ Marked /\ restore_net_length = {} /\ (~move_failed => LockedAt(gate_cell))
      /\ SavedGateCell \in [Gate -> Cell] /\ Shape(SavedGateCell)
  BY <1>1 DEF PlacerInv, MoveInv, Moving, Remeasured, Undoable, Agree
<1>3. PICK k \in Chain : ChainMove(k)
  BY <1>2 DEF HalfMoved
<1>4. /\ mv.tiles \in Nat \ {0} /\ mv.tiles = Tiles(k)
      /\ mv.x \in Columns /\ mv.y \in 1 .. LastRow - (mv.tiles - 1)
      /\ mv.new_x \in Columns /\ mv.new_y \in 1 .. LastRow - (mv.tiles - 1)
      /\ mv.x # mv.new_x \/ mv.y + mv.tiles <= mv.new_y \/ mv.new_y + mv.tiles <= mv.y
  BY <1>1, <1>2, <1>3, ChainMoveFacts
<1>5. /\ TileSize \in Nat \ {0} /\ mv.y \in Int /\ mv.new_y \in Int
      /\ mv.tiles * TileSize \in Nat /\ j \in 1 .. mv.tiles * TileSize /\ j \in Nat \ {0}
  <2>1. TileSize \in Nat \ {0} /\ LastRow \in Int
    BY ChipAssumption DEF LastRow
  <2>2. \A a, b \in Nat : a * b \in Nat
    OBVIOUS
  <2> QED BY <2>1, <2>2, <1>2, <1>4 DEF HalfMoved
<1>6. c \in Cell /\ e \in Cell /\ c # e
  <2>1. mv.tiles \in Nat
    BY <1>4
  <2>2. c \in Cell /\ e \in Cell
    BY <2>1, <1>4, <1>5, ChainCells
  <2>3. c # e
    BY <2>1, <1>4, <1>5, RangesApart
  <2> QED BY <2>2, <2>3
<1>7. \A m \in 1 .. j - 1 : /\ m \in 1 .. mv.tiles * TileSize /\ m \in Nat \ {0} /\ m # j
  BY <1>5
<1>8. ASSUME NEW m \in 1 .. j - 1
      PROVE  {c, e} \cap {ChainCell(mv.x, mv.y, m), ChainCell(mv.new_x, mv.new_y, m)} = {}
  <2>1. c # ChainCell(mv.x, mv.y, m) /\ e # ChainCell(mv.new_x, mv.new_y, m)
    BY <1>5, <1>7, ChainCellInjective
  <2>2. c # ChainCell(mv.new_x, mv.new_y, m) /\ ChainCell(mv.x, mv.y, m) # e
    BY <1>4, <1>5, <1>7, RangesApart
  <2> QED BY <2>1, <2>2
<1> HIDE DEF c, e, last
<1>9. ~Visited(c, j) /\ ~Visited(e, j)
  BY <1>8 DEF Visited
<1>10. c \notin SavedCells /\ e \notin SavedCells
  BY <1>2, <1>9 DEF HalfMoved
<1>11. /\ \A d : Visited(d, j + 1) <=> Visited(d, j) \/ d = c \/ d = e
       /\ \A d, f : Swapped(d, f, j + 1)
                      <=> Swapped(d, f, j) \/ (d = c /\ f = e) \/ (d = e /\ f = c)
  <2>1. (j + 1) - 1 = j /\ \A m : m \in 1 .. j <=> m \in 1 .. j - 1 \/ m = j
    BY <1>5
  <2> HIDE DEF j
  <2>2. ASSUME NEW d PROVE Visited(d, j + 1) <=> Visited(d, j) \/ d = c \/ d = e
    BY <2>1 DEF Visited, c, e
  <2>3. ASSUME NEW d, NEW f
        PROVE  Swapped(d, f, j + 1) <=> Swapped(d, f, j) \/ (d = c /\ f = e) \/ (d = e /\ f = c)
    BY <2>1 DEF Swapped, c, e
  <2> QED BY <2>2, <2>3
<1>12. /\ Undoable' /\ Agree(cell_gate, gate_cell)' /\ SavedOnce' /\ ChainsFollow' /\ Marked'
       /\ ~move_failed' => LockedAt(gate_cell)'
       /\ SavedGateCell' = SavedGateCell /\ SavedCells' \subseteq SavedCells \cup {c, e}
       /\ \A g \in Gate : gate_cell'[g] = IF gate_cell[g] = c THEN e
                                          ELSE IF gate_cell[g] = e THEN c ELSE gate_cell[g]
  <2>1. CASE cell_gate[c] # 0
    <3>1. MoveGateFrom(c, e)
      BY <2>1 DEF MoveChainCell, c, e
    <3> QED BY <2>1, <3>1, <1>1, <1>2, <1>6, <1>10, MoveGateKeeps
  <2>2. CASE cell_gate[c] = 0 /\ cell_gate[e] # 0
    <3>1. MoveGateFrom(e, c)
      BY <2>2 DEF MoveChainCell, c, e
    <3> QED BY <2>2, <3>1, <1>1, <1>2, <1>6, <1>10, MoveGateKeeps
  <2>3. CASE cell_gate[c] = 0 /\ cell_gate[e] = 0
    <3>1. UNCHANGED <<placeVars, saveVars>>
      BY <2>3 DEF MoveChainCell, c, e
    <3>2. \A g \in Gate : gate_cell[g] # c /\ gate_cell[g] # e
      BY <2>3, <1>2 DEF Agree, Gate
    <3> QED BY <3>1, <3>2, <1>1, <1>2, NothingMoved DEF saveVars, placeVars
  <2> QED BY <2>1, <2>2, <2>3
<1>13. ASSUME NEW g \in Gate
       PROVE  \/ Swapped(SavedGateCell[g], gate_cell'[g], j + 1)
              \/ gate_cell'[g] = SavedGateCell[g] /\ ~Visited(gate_cell'[g], j + 1)
  <2>1. \/ Swapped(SavedGateCell[g], gate_cell[g], j)
        \/ gate_cell[g] = SavedGateCell[g] /\ ~Visited(gate_cell[g], j)
    BY <1>2 DEF HalfMoved
  <2>2. CASE gate_cell[g] = c \/ gate_cell[g] = e
    <3>1. ~Swapped(SavedGateCell[g], gate_cell[g], j)
      <4>1. \A d, f : Swapped(d, f, j) => Visited(f, j)
        BY DEF Swapped, Visited
      <4> QED BY <4>1, <2>2, <1>9
    <3> QED BY <3>1, <2>1, <2>2, <1>6, <1>11, <1>12
  <2>3. CASE gate_cell[g] # c /\ gate_cell[g] # e
    BY <2>1, <2>3, <1>11, <1>12
  <2> QED BY <2>2, <2>3
<1>14. CASE last
  <2>1. j + 1 = mv.tiles * TileSize + 1
    BY <1>14 DEF last
  <2>2. gate_cell' \in [Gate -> Cell]
    BY <1>12 DEF Agree
  <2>3. Shape(gate_cell')
    BY <2>1, <2>2, <1>1, <1>2, <1>3, <1>13, ChainMoveEnds
  <2>4. Shape(gate_cell)' /\ pc' = "decide"
    BY <2>3, <1>1, <1>14, SameDesign
  <2>5. MoveInv'
    BY <2>4, <1>1, <1>2, <1>12 DEF MoveInv, Remeasured
  <2> QED BY <2>4, <2>5, <1>1, <1>12 DEF PlacerInv, Moving
<1>15. CASE ~last
  <2>1. mv' = [mv EXCEPT !.j = @ + 1] /\ pc' = "chain"
    BY <1>1, <1>15
  <2>2. /\ mv \in [x : Int, y : Int, new_x : Int, new_y : Int, tiles : Nat, j : Nat]
    BY <1>2 DEF HalfMoved
  <2>3. /\ mv' \in [x : Int, y : Int, new_x : Int, new_y : Int, tiles : Nat, j : Nat]
        /\ mv'.x = mv.x /\ mv'.y = mv.y /\ mv'.new_x = mv.new_x /\ mv'.new_y = mv.new_y
        /\ mv'.tiles = mv.tiles /\ mv'.j = j + 1
    BY <2>1, <2>2
  <2>4. mv'.j \in 1 .. mv'.tiles * TileSize
    BY <2>3, <1>5, <1>15 DEF last
  <2>5. /\ \A d : Visited(d, mv.j)' <=> Visited(d, j + 1)
        /\ \A d, f : Swapped(d, f, mv.j)' <=> Swapped(d, f, j + 1)
    BY <2>3 DEF Visited, Swapped
  <2>6. Chain' = Chain /\ ChainMove(k)'
    <3>1. /\ Chain' = Chain /\ \A i \in Chain : Tiles(i)' = Tiles(i)
          /\ \A i : Base(SavedGateCell, i)' = Base(SavedGateCell, i)
      BY <1>1, <1>12 DEF Chain, Tiles, Base
    <3> QED BY <3>1, <2>3, <1>3 DEF ChainMove, Columns, LastRow
  <2>7. \A d \in SavedCells' : Visited(d, j + 1)
    BY <1>2, <1>11, <1>12 DEF HalfMoved
  <2>8. HalfMoved'
    <3>1. \A g \in Gate : \/ Swapped(SavedGateCell[g], gate_cell[g], mv.j)'
                          \/ (gate_cell[g] = SavedGateCell[g] /\ ~Visited(gate_cell[g], mv.j))'
      <4>1. \A g \in Gate : /\ Swapped(SavedGateCell[g], gate_cell[g], mv.j)'
                                 <=> Swapped(SavedGateCell[g], gate_cell'[g], j + 1)
                            /\ Visited(gate_cell[g], mv.j)' <=> Visited(gate_cell'[g], j + 1)
        BY <2>3, <1>12 DEF Visited, Swapped
      <4> QED BY <4>1, <1>12, <1>13
    <3>2. \A d \in SavedCells' : Visited(d, mv.j)'
      BY <2>5, <2>7
    <3> QED BY <3>1, <3>2, <2>3, <2>4, <2>6 DEF HalfMoved
  <2>9. MoveInv'
    BY <2>1, <2>8, <1>1, <1>2, <1>12 DEF MoveInv, Remeasured
  <2> QED BY <2>1, <2>9, <1>1, <1>12 DEF PlacerInv, Moving
<1> QED BY <1>14, <1>15

-----------------------------------------------------------------------------
(* accept_or_restore(): whatever was decided, afterwards there is nothing  *)
(* to undo.                                                                *)
LEMMA IdleNext ==
  ASSUME design \in Designs, design' = design, pc' = "idle",
         Agree(cell_gate, gate_cell)', Shape(gate_cell)', LockedAt(gate_cell)',
         Measured(net_length, gate_cell)',
         DOMAIN chain_x' = Chain, DOMAIN chain_start' = Chain,
         \A i \in Chain : /\ chain_x'[i] = Base(gate_cell', i)[1]
                          /\ chain_start'[i] = Base(gate_cell', i)[2],
         ~move_failed', restore_cell' = <<>>, restore_chain' = <<>>, recompute' = {},
         restore_net_length' = {}
  PROVE  PlacerInv'
<1>1. (DOMAIN restore_cell)' = {} /\ (DOMAIN restore_chain)' = {}
  OBVIOUS
<1>2. SavedGateCell' = gate_cell' /\ SavedCellGate' = cell_gate'
  <2>1. gate_cell' \in [Gate -> Cell] /\ cell_gate' \in [Cell -> Gate \cup {0}]
    BY DEF Agree
  <2>2. SavedGateCell' = [g \in Gate |-> gate_cell'[g]]
    BY <1>1, Zenon DEF SavedGateCell
  <2>3. SavedCellGate' = [d \in Cell |-> cell_gate'[d]]
    BY <1>1, Zenon DEF SavedCellGate
  <2> QED BY <2>1, <2>2, <2>3
<1>3. SavedNetLength' = [w \in Net |-> net_length'[w]]
  BY DEF SavedNetLength
<1>4. Undoable'
  <2>1. Agree(SavedCellGate, SavedGateCell)'
    BY <1>2 DEF Agree
  <2>2. Shape(SavedGateCell)' /\ LockedAt(SavedGateCell)'
    BY <1>2 DEF Shape, Apart, Base, LockedAt
  <2>3. Measured(SavedNetLength, SavedGateCell)'
    <3>1. \A w \in Net : SavedNetLength'[w] = net_length'[w]
      BY <1>3
    <3>2. \A w \in Net : net_length'[w] = NetLength(design', gate_cell', w)
      BY DEF Measured
    <3> QED BY <1>2, <3>1, <3>2 DEF Measured
  <2> QED BY <2>1, <2>2, <2>3 DEF Undoable
<1>5. SavedOnce'
  BY <1>1 DEF SavedOnce
<1>6. ChainsFollow'
  <2>1. Entries(restore_chain)' = {}
    BY <1>1 DEF Entries
  <2>2. Chain' = Chain /\ \A i : Base(SavedGateCell, i)' = Base(gate_cell', i)
    BY <1>2 DEF Chain, Base
  <2>3. restore_chain' \in Seq(Chain \X Int \X Int)
    OBVIOUS
  <2>4. \A i : Base(gate_cell, i)' = Base(gate_cell', i)
    BY DEF Base
  <2> QED BY <2>1, <2>2, <2>3, <2>4 DEF ChainsFollow
<1>7. Marked'
  BY <1>2 DEF Marked
<1>8. MoveInv'
  BY <1>4, <1>5, <1>6, <1>7 DEF MoveInv, Remeasured
<1> QED BY <1>8 DEF PlacerInv, Moving

(* Among subsets of a finite set there is one with none of the others in   *)
(* it: the form in which this module argues by induction on finite sets.   *)
LEMMA SmallestSubset ==
  ASSUME NEW S, IsFiniteSet(S), NEW T \in SUBSET SUBSET S, T # {}
  PROVE  \E A \in T : \A B \in T : B \subseteq A => B = A
<1>1. T \subseteq FiniteSubsetsOf(S)
  BY FS_FiniteSubsetsOfFinite
<1>2. PICK A \in T : \A B \in T : ~(<<B, A>> \in StrictSubsetOrdering(S))
  BY <1>1, FS_StrictSubsetOrderingWellFounded, WFMin
<1>3. \A B \in T : B \subseteq A => B = A
  BY <1>2 DEF StrictSubsetOrdering
<1> QED BY <1>3

LEMMA Largest ==
  ASSUME NEW S, \A x \in S : x \in Int, IsFiniteSet(S), S # {}
  PROVE  \E x \in S : \A y \in S : y <= x
<1> DEFINE Above(x) == {y \in S : y > x}
           T == {Above(x) : x \in S}
<1>1. PICK A \in T : \A B \in T : B \subseteq A => B = A
  <2> HIDE DEF T
  <2>1. T \in SUBSET SUBSET S
    BY DEF T
  <2>2. T # {}
    BY DEF T
  <2> QED BY <2>1, <2>2, SmallestSubset
<1>2. PICK x \in S : A = Above(x)
  OBVIOUS
<1>3. \A y \in S : y <= x
  <2> SUFFICES ASSUME NEW y \in S, ~(y <= x) PROVE FALSE
    OBVIOUS
  <2>1. y \in Above(x) /\ y \notin Above(y)
    OBVIOUS
  <2>2. \A z \in Above(y) : z \in S /\ z > x
    OBVIOUS
  <2>3. Above(y) \subseteq Above(x) /\ Above(y) \in T
    BY <2>2
  <2> HIDE DEF Above, T
  <2> QED BY <2>1, <2>3, <1>1, <1>2
<1> QED BY <1>3

(* The largest element of a finite set is one of its elements.             *)
LEMMA MaxProperty ==
  ASSUME NEW n \in Nat, NEW S \in SUBSET (1 .. n), S # {}
  PROVE  Max(S) \in S
<1>1. IsFiniteSet(S) /\ \A x \in S : x \in Int
  <2>1. IsFiniteSet(1 .. n)
    BY FS_Interval
  <2>2. IsFiniteSet(S)
    BY <2>1, FS_Subset
  <2>3. \A x \in S : x \in Int
    OBVIOUS
  <2> QED BY <2>2, <2>3
<1>2. \E x \in S : \A y \in S : x >= y
  BY <1>1, Largest
<1> QED BY <1>2 DEF Max

(* What is put back of a chain is where its first gate is put back.        *)
LEMMA ChainsBack ==
  ASSUME ChainsFollow, NEW i \in Chain
  PROVE  /\ SavedChainAt(i, 2, chain_x[i]) = Base(SavedGateCell, i)[1]
         /\ SavedChainAt(i, 3, chain_start[i]) = Base(SavedGateCell, i)[2]
<1> DEFINE S == {j \in DOMAIN restore_chain : restore_chain[j][1] = i}
           n == Len(restore_chain)
<1>1. n \in Nat /\ DOMAIN restore_chain = 1 .. n
  BY DEF ChainsFollow
<1>2. /\ SavedChainAt(i, 2, chain_x[i]) = IF S = {} THEN chain_x[i] ELSE restore_chain[Max(S)][2]
      /\ SavedChainAt(i, 3, chain_start[i]) = IF S = {} THEN chain_start[i] ELSE restore_chain[Max(S)][3]
  BY Zenon DEF SavedChainAt
<1>3. CASE S = {}
  <2>1. Base(gate_cell, i) = Base(SavedGateCell, i)
    BY <1>3 DEF ChainsFollow, Entries
  <2> QED BY <2>1, <1>2, <1>3 DEF ChainsFollow
<1>4. CASE S # {}
  <2>1. Max(S) \in S
    BY <1>1, <1>4, MaxProperty
  <2> DEFINE r == restore_chain[Max(S)]
  <2>2. r \in Entries(restore_chain) /\ r[1] = i
    BY <2>1 DEF Entries
  <2> HIDE DEF r, S
  <2>3. r = ChainEntry(SavedGateCell, i)
    BY <2>2 DEF ChainsFollow
  <2>4. r[2] = Base(SavedGateCell, i)[1] /\ r[3] = Base(SavedGateCell, i)[2]
    BY <2>3 DEF ChainEntry
  <2> QED BY <2>4, <1>2, <1>4 DEF r
<1> QED BY <1>3, <1>4

LEMMA RestoreInv ==
  ASSUME PlacerInv, pc \in {"decide", "judge"}, design' = design, Restore, Discard, pc' = "idle"
  PROVE  PlacerInv'
<1>1. design \in Designs /\ MoveInv
  BY DEF PlacerInv, Moving
<1>2. Undoable /\ ChainsFollow
  BY <1>1 DEF MoveInv
<1>3. /\ cell_gate' = SavedCellGate /\ gate_cell' = SavedGateCell /\ net_length' = SavedNetLength
      /\ chain_x' = [i \in Chain |-> SavedChainAt(i, 2, chain_x[i])]
      /\ chain_start' = [i \in Chain |-> SavedChainAt(i, 3, chain_start[i])]
      /\ ~move_failed'
  BY DEF Restore
<1>4. /\ recompute' = {} /\ restore_cell' = <<>> /\ restore_chain' = <<>> /\ restore_net_length' = {}
  BY DEF Discard
<1>5. /\ DOMAIN chain_x' = Chain /\ DOMAIN chain_start' = Chain
      /\ \A i \in Chain : /\ chain_x'[i] = Base(gate_cell', i)[1]
                          /\ chain_start'[i] = Base(gate_cell', i)[2]
  BY <1>2, <1>3, ChainsBack
<1>6. Agree(cell_gate', gate_cell') /\ Shape(gate_cell') /\ LockedAt(gate_cell') /\ Measured(net_length', gate_cell')
  BY <1>2, <1>3 DEF Undoable
<1>7. /\ Agree(cell_gate, gate_cell)' /\ Shape(gate_cell)' /\ LockedAt(gate_cell)'
      /\ Measured(net_length, gate_cell)'
  BY <1>6, SameDesign DEF Agree
<1> QED BY <1>1, <1>3, <1>4, <1>5, <1>7, IdleNext

(* The length of a net depends on where its gates are only.                *)
LEMMA LengthLocal ==
  ASSUME NEW gc, NEW hc, NEW w \in Net, \A g \in design.net_gates[w] : gc[g] = hc[g]
  PROVE  NetLength(design, gc, w) = NetLength(design, hc, w)
<1>1. /\ {gc[g][1] : g \in design.net_gates[w]} = {hc[g][1] : g \in design.net_gates[w]}
      /\ {gc[g][2] : g \in design.net_gates[w]} = {hc[g][2] : g \in design.net_gates[w]}
  OBVIOUS
<1> QED BY <1>1 DEF NetLength

LEMMA EvaluateInv ==
  ASSUME PlacerInv, Evaluate
  PROVE  PlacerInv'
<1>1. /\ pc = "decide" /\ pc' = "judge" /\ design' = design /\ design \in Designs /\ ~move_failed
      /\ UNCHANGED <<placeVars, saveVars>>
      /\ net_length' = [w \in Net |-> IF w \in recompute THEN NetLength(design, gate_cell, w)
                                      ELSE net_length[w]]
      /\ restore_net_length' = {<<w, net_length[w]>> : w \in recompute}
  BY DEF Evaluate, PlacerInv, MoveIsLegal
<1>2. /\ MoveInv /\ Undoable /\ Agree(cell_gate, gate_cell) /\ SavedOnce /\ ChainsFollow /\ Marked
      /\ restore_net_length = {} /\ LockedAt(gate_cell) /\ Shape(gate_cell)
  BY <1>1 DEF PlacerInv, MoveInv, Moving, Remeasured
<1>3. SavedNetLength = [w \in Net |-> net_length[w]]
  BY <1>2 DEF SavedNetLength
<1>4. SavedGateCell' = SavedGateCell /\ SavedCellGate' = SavedCellGate
  BY <1>1 DEF SavedGateCell, SavedCellGate, placeVars, saveVars
<1>5. SavedNetLength' = SavedNetLength
  <2>1. recompute' = recompute
    BY <1>1 DEF saveVars
  <2> DEFINE back(w) == IF \E r \in restore_net_length' : r[1] = w
                        THEN (CHOOSE r \in restore_net_length' : r[1] = w)[2] ELSE net_length'[w]
  <2>2. ASSUME NEW w \in Net PROVE back(w) = net_length[w]
    <3>1. CASE w \in recompute
      <4>1. \A r \in restore_net_length' : r[1] = w => r = <<w, net_length[w]>>
        BY <1>1
      <4>2. \E r \in restore_net_length' : r[1] = w
        <5>1. <<w, net_length[w]>> \in restore_net_length' /\ <<w, net_length[w]>>[1] = w
          BY <3>1, <1>1
        <5> QED BY <5>1
      <4>3. (CHOOSE r \in restore_net_length' : r[1] = w) = <<w, net_length[w]>>
        BY <4>1, <4>2
      <4>4. back(w) = (CHOOSE r \in restore_net_length' : r[1] = w)[2]
        BY <4>2, Zenon
      <4>5. <<w, net_length[w]>>[2] = net_length[w]
        OBVIOUS
      <4> HIDE DEF back
      <4> QED BY <4>3, <4>4, <4>5, Zenon
    <3>2. CASE w \notin recompute
      <4>1. \A r \in restore_net_length' : r[1] # w
        BY <3>2, <1>1
      <4>2. net_length'[w] = net_length[w]
        BY <3>2, <1>1
      <4>3. back(w) = net_length'[w]
        BY <4>1, Zenon
      <4> QED BY <4>2, <4>3
    <3> QED BY <3>1, <3>2
  <2>3. SavedNetLength' = [w \in Net |-> back(w)]
    BY Zenon DEF SavedNetLength
  <2> HIDE DEF back
  <2> QED BY <2>2, <2>3, <1>3
<1>6. Measured(net_length', gate_cell)
  <2>1. ASSUME NEW w \in Net PROVE net_length'[w] = NetLength(design, gate_cell, w)
    <3>1. CASE w \in recompute
      BY <3>1, <1>1
    <3>2. CASE w \notin recompute
      <4>1. \A g \in design.net_gates[w] : g \in Gate /\ w \in GateNets(g)
        BY <1>1, DesignFacts DEF GateNets
      <4>2. \A g \in design.net_gates[w] : gate_cell[g] = SavedGateCell[g]
        BY <4>1, <3>2, <1>2 DEF Marked
      <4>3. NetLength(design, gate_cell, w) = NetLength(design, SavedGateCell, w)
        BY <4>2, LengthLocal
      <4>4. net_length[w] = NetLength(design, SavedGateCell, w)
        BY <1>2, <1>3 DEF Undoable, Measured
      <4> QED BY <4>3, <4>4, <3>2, <1>1
    <3> QED BY <3>1, <3>2
  <2> QED BY <2>1 DEF Measured
<1>7. Undoable'
  <2>1. Agree(SavedCellGate, SavedGateCell)'
    BY SMTT(30), <1>2, <1>4 DEF Undoable, Agree
  <2>2. Shape(SavedGateCell)'
    BY <1>1, <1>2, <1>4 DEF Undoable, Shape, Apart, Base, Chain, Tiles, Type, Columns, LastRow
  <2>3. LockedAt(SavedGateCell)'
    BY <1>1, <1>2, <1>4 DEF Undoable, LockedAt, Locked
  <2>4. Measured(SavedNetLength, SavedGateCell)'
    BY ZenonT(60), <1>1, <1>2, <1>4, <1>5 DEF Undoable, Measured, NetLength
  <2> QED BY <2>1, <2>2, <2>3, <2>4 DEF Undoable
<1>8. UNCHANGED <<cell_gate, gate_cell, chain_x, chain_start, restore_cell, restore_chain, recompute, move_failed>>
  BY <1>1 DEF placeVars, saveVars
<1>9. Measured(net_length, gate_cell)'
  BY <1>1, <1>6, <1>8 DEF Measured, NetLength
<1>10. Agree(cell_gate, gate_cell)' /\ Shape(gate_cell)' /\ LockedAt(gate_cell)'
  BY <1>1, <1>2, <1>8, SameDesign DEF Agree
<1>11. SavedOnce' /\ Marked'
  BY <1>1, <1>2, <1>4, <1>8 DEF SavedOnce, SavedCells, Marked, GateNets
<1>12. ChainsFollow'
  <2>1. /\ \A i : Base(gate_cell, i)' = Base(gate_cell, i)
        /\ \A i : Base(SavedGateCell, i)' = Base(SavedGateCell, i)
        /\ \A i : ChainEntry(SavedGateCell, i)' = ChainEntry(SavedGateCell, i)
        /\ Entries(restore_chain)' = Entries(restore_chain) /\ Chain' = Chain
    BY <1>1, <1>4, <1>8 DEF Base, ChainEntry, Entries, Chain
  <2> QED BY <2>1, <1>2, <1>8 DEF ChainsFollow
<1>13. MoveInv'
  BY <1>1, <1>7, <1>8, <1>9, <1>10, <1>11, <1>12 DEF MoveInv, Remeasured
<1> QED BY <1>1, <1>13 DEF PlacerInv, Moving

LEMMA AcceptInv ==
  ASSUME PlacerInv, Accept
  PROVE  PlacerInv'
<1>1. /\ pc = "judge" /\ pc' = "idle" /\ design' = design /\ design \in Designs /\ Discard
      /\ UNCHANGED <<cell_gate, gate_cell, chain_x, chain_start, net_length, move_failed>>
  BY DEF Accept, AcceptIf, PlacerInv, placeVars
<1>2. /\ MoveInv /\ Agree(cell_gate, gate_cell) /\ ChainsFollow /\ ~move_failed
      /\ LockedAt(gate_cell) /\ Shape(gate_cell) /\ Measured(net_length, gate_cell)
  BY <1>1 DEF PlacerInv, MoveInv, Moving, Remeasured
<1>3. Agree(cell_gate, gate_cell)' /\ Shape(gate_cell)' /\ LockedAt(gate_cell)' /\ Measured(net_length, gate_cell)'
  BY <1>1, <1>2, SameDesign DEF Agree
<1>4. /\ recompute' = {} /\ restore_cell' = <<>> /\ restore_chain' = <<>> /\ restore_net_length' = {}
  BY <1>1 DEF Discard
<1>5. /\ DOMAIN chain_x' = Chain /\ DOMAIN chain_start' = Chain
      /\ \A i \in Chain : /\ chain_x'[i] = Base(gate_cell', i)[1]
                          /\ chain_start'[i] = Base(gate_cell', i)[2]
  BY <1>1, <1>2 DEF ChainsFollow
<1> QED BY <1>1, <1>2, <1>3, <1>4, <1>5, IdleNext

-----------------------------------------------------------------------------
(* place_initial()                                                         *)
LEMMA Nowhere == NoCell \notin Cell
<1>1. Cell \subseteq Int \X Int \X Int
  BY ChipAssumption
<1>2. <<>> \notin Int \X Int \X Int
  OBVIOUS
<1> QED BY <1>1, <1>2 DEF NoCell

LEMMA ColumnFacts ==
  ASSUME NEW k \in DOMAIN chipdb.logic_columns
  PROVE  /\ chipdb.logic_columns[k] \in Columns /\ chipdb.logic_columns[k] \in Int
         /\ chipdb.column_free[k] \in Int /\ chipdb.column_last[k] \in Int /\ LastRow \in Int
         /\ 1 <= chipdb.column_free[k] /\ chipdb.column_last[k] <= LastRow
         /\ \A l \in DOMAIN chipdb.logic_columns : chipdb.logic_columns[k] = chipdb.logic_columns[l] => k = l
<1>1. chipdb.logic_columns[k] \in Columns
  BY DEF Columns
<1>2. Columns \subseteq Int /\ LastRow \in Int
  BY ChipAssumption DEF LastRow
<1>3. chipdb.column_free \in [DOMAIN chipdb.logic_columns -> Int]
      /\ chipdb.column_last \in [DOMAIN chipdb.logic_columns -> Int]
  BY ChipAssumption
<1>4. chipdb.column_free[k] \in Int /\ chipdb.column_last[k] \in Int
  BY <1>3
<1>5. /\ 1 <= chipdb.column_free[k] /\ chipdb.column_last[k] <= LastRow
      /\ \A l \in DOMAIN chipdb.logic_columns : chipdb.logic_columns[k] = chipdb.logic_columns[l] => k = l
  BY ChipAssumption
<1> QED BY <1>1, <1>2, <1>4, <1>5

(* A chain that has been placed: its column, and its rows within those for *)
(* chains.                                                                 *)
LEMMA PlacedChain ==
  ASSUME design \in Designs, InitialChains, NEW i \in ChainsPlaced
  PROVE  /\ i \in Chain /\ Tiles(i) \in Nat \ {0} /\ chain_start[i] \in Int /\ chain_x[i] \in Columns
         /\ chain_start[i] \in 1 .. LastRow - (Tiles(i) - 1)
         /\ \E k \in DOMAIN chipdb.logic_columns :
              /\ InColumn(i, k)
              /\ chain_start[i] >= chipdb.column_free[k]
              /\ chain_start[i] + Tiles(i) <= chipdb.column_last[k] + 1
<1>1. i \in Chain /\ Tiles(i) \in Nat \ {0}
  BY TilesFacts DEF InitialChains
<1>2. PICK k \in DOMAIN chipdb.logic_columns : InColumn(i, k)
  BY DEF InitialChains
<1>3. chain_start[i] \in Int
  BY DEF InitialChains, ChainsPlaced
<1>4. /\ column_free[k] \in Int /\ column_free[k] <= chipdb.column_last[k] + 1
      /\ chain_x[i] = chipdb.logic_columns[k]
      /\ chain_start[i] >= chipdb.column_free[k] /\ chain_start[i] + Tiles(i) <= column_free[k]
  BY <1>2 DEF InitialChains, InColumn
<1>5. chain_start[i] + Tiles(i) <= chipdb.column_last[k] + 1
  BY <1>1, <1>3, <1>4, ColumnFacts
<1>6. chain_start[i] \in 1 .. LastRow - (Tiles(i) - 1)
  BY <1>1, <1>3, <1>4, <1>5, ColumnFacts
<1> QED BY <1>1, <1>2, <1>3, <1>4, <1>5, <1>6, ColumnFacts

LEMMA PlaceGateInv ==
  ASSUME PlacerInv, NEW g \in Waiting, PlaceGate(g)
  PROVE  PlacerInv'
<1>1. /\ pc = "free" /\ design' = design /\ design \in Designs /\ PlaceInv
      /\ UNCHANGED <<column_free, chain_x, chain_start, saveVars, restore_net_length>>
  BY DEF PlaceGate, PlacerInv
<1>2. CASE pc' = "failed"
  BY <1>1, <1>2 DEF PlacerInv, Moving
<1>3. CASE \E c \in Places(g) : /\ cell_gate' = [cell_gate EXCEPT ![c] = g]
                                /\ gate_cell' = [gate_cell EXCEPT ![g] = c]
                                /\ pc' = pc
  <2>1. PICK c \in Places(g) : /\ cell_gate' = [cell_gate EXCEPT ![c] = g]
                               /\ gate_cell' = [gate_cell EXCEPT ![g] = c]
    BY <1>3
  <2>2. /\ c \in Cell /\ chipdb.cell_type[c] = Type(g) /\ cell_gate[c] = 0
        /\ g \in Gate /\ g # 0 /\ gate_cell[g] = NoCell
    BY DEF Places, CellsOf, Waiting, Gate
  <2>3. /\ Partial(cell_gate, gate_cell) /\ InitialChains /\ LockedAt(gate_cell) /\ ChainsPlaced = Chain
    BY <1>1 DEF PlaceInv
  <2>4. Partial(cell_gate', gate_cell')
    <3>1. cell_gate' \in [Cell -> Gate \cup {0}] /\ gate_cell' \in [Gate -> Cell \cup {NoCell}]
      BY <2>1, <2>2, <2>3 DEF Partial
    <3>2. /\ cell_gate'[c] = g /\ (\A d \in Cell : d # c => cell_gate'[d] = cell_gate[d])
          /\ gate_cell'[g] = c /\ (\A h \in Gate : h # g => gate_cell'[h] = gate_cell[h])
      BY <2>1, <2>2, <2>3 DEF Partial
    <3>3. ASSUME NEW h \in Gate, gate_cell'[h] # NoCell
          PROVE  cell_gate'[gate_cell'[h]] = h /\ chipdb.cell_type[gate_cell'[h]] = Type(h)
      <4>1. CASE h = g
        BY <4>1, <3>2, <2>2
      <4>2. CASE h # g
        <5>1. gate_cell'[h] = gate_cell[h] /\ gate_cell[h] \in Cell /\ cell_gate[gate_cell[h]] = h /\ h # 0
              /\ chipdb.cell_type[gate_cell[h]] = Type(h)
          BY <4>2, <3>2, <3>3, <2>3 DEF Partial, Gate
        <5> QED BY <5>1, <3>2, <2>2
      <4> QED BY <4>1, <4>2
    <3>4. ASSUME NEW d \in Cell, cell_gate'[d] # 0 PROVE gate_cell'[cell_gate'[d]] = d
      <4>1. CASE d = c
        BY <4>1, <3>2
      <4>2. CASE d # c
        <5>1. cell_gate'[d] = cell_gate[d] /\ cell_gate[d] \in Gate /\ gate_cell[cell_gate[d]] = d
          BY <4>2, <3>2, <3>4, <2>3 DEF Partial
        <5> QED BY <5>1, <3>2, <2>2, Nowhere
      <4> QED BY <4>1, <4>2
    <3> QED BY <3>1, <3>3, <3>4 DEF Partial
  <2>5. \A h \in Gate : gate_cell[h] # NoCell => gate_cell'[h] = gate_cell[h]
    BY <2>1, <2>2, <2>3 DEF Partial
  <2>6. \A i \in Chain : \A j \in DOMAIN design.chains[i] :
          gate_cell'[design.chains[i][j]] = gate_cell[design.chains[i][j]]
    <3> SUFFICES ASSUME NEW i \in Chain, NEW j \in DOMAIN design.chains[i]
                 PROVE  gate_cell'[design.chains[i][j]] = gate_cell[design.chains[i][j]]
      OBVIOUS
    <3>1. gate_cell[design.chains[i][j]] = ChainCell(chain_x[i], chain_start[i], j)
      BY <2>3 DEF InitialChains
    <3>2. ChainCell(chain_x[i], chain_start[i], j) # NoCell
      BY DEF ChainCell, NoCell
    <3> QED BY <3>1, <3>2, <2>5, <1>1, DesignFacts
  <2>7. LockedAt(gate_cell')
    <3>1. \A h \in Locked(design) : h \in Gate /\ gate_cell[h] \in Cell
      BY <1>1, <2>3, DesignFacts DEF LockedAt
    <3> QED BY <3>1, <2>3, <2>5, Nowhere DEF LockedAt
  <2>8. InitialChains'
    <3>1. /\ Chain' = Chain /\ ChainsPlaced' = ChainsPlaced
          /\ \A i \in Chain : Tiles(i)' = Tiles(i)
      BY <1>1 DEF Chain, ChainsPlaced, Tiles
    <3>2. \A i \in Chain, k \in DOMAIN chipdb.logic_columns : InColumn(i, k)' <=> InColumn(i, k)
      BY <1>1, <3>1 DEF InColumn
    <3> QED BY <2>3, <2>6, <3>1, <3>2, <1>1 DEF InitialChains
  <2>9. pc' = "free" /\ ChainsPlaced' = Chain' /\ Partial(cell_gate, gate_cell)' /\ LockedAt(gate_cell)'
    <3>1. Partial(cell_gate, gate_cell)'
      BY <1>1, <2>4 DEF Partial, Type
    <3> QED BY <1>1, <1>3, <2>3, <2>7, <3>1, SameDesign DEF ChainsPlaced
  <2>10. PlaceInv'
    BY <1>1, <2>8, <2>9 DEF PlaceInv, saveVars
  <2> QED BY <1>1, <2>9, <2>10 DEF PlacerInv, Moving
<1> QED BY <1>2, <1>3 DEF PlaceGate

LEMMA AllPlacedInv ==
  ASSUME PlacerInv, AllPlaced
  PROVE  PlacerInv'
<1>1. /\ pc = "free" /\ pc' = "idle" /\ design' = design /\ design \in Designs /\ PlaceInv /\ Waiting = {}
      /\ UNCHANGED <<cell_gate, gate_cell, chain_x, chain_start, saveVars, restore_net_length>>
      /\ net_length' = [w \in Net |-> NetLength(design, gate_cell, w)]
  BY DEF AllPlaced, PlacerInv, placeVars
<1>2. /\ Partial(cell_gate, gate_cell) /\ InitialChains /\ LockedAt(gate_cell) /\ ChainsPlaced = Chain
      /\ ~move_failed /\ restore_cell = <<>> /\ restore_chain = <<>> /\ recompute = {}
      /\ restore_net_length = {}
  BY <1>1 DEF PlaceInv
<1>3. \A g \in Gate : gate_cell[g] \in Cell /\ gate_cell[g] # NoCell
  BY <1>1, <1>2 DEF Waiting, Partial
<1>4. Agree(cell_gate, gate_cell)
  BY <1>2, <1>3 DEF Agree, Partial
<1>5. ASSUME NEW i \in Chain
      PROVE  /\ Base(gate_cell, i)[1] = chain_x[i] /\ Base(gate_cell, i)[2] = chain_start[i]
             /\ chain_x[i] \in Columns /\ chain_start[i] \in 1 .. LastRow - (Tiles(i) - 1)
             /\ \A j \in DOMAIN design.chains[i] :
                  gate_cell[design.chains[i][j]] = ChainCell(chain_x[i], chain_start[i], j)
  <2>1. /\ \A j \in DOMAIN design.chains[i] :
             gate_cell[design.chains[i][j]] = ChainCell(chain_x[i], chain_start[i], j)
        /\ 1 \in DOMAIN design.chains[i]
    BY <1>1, <1>2, TilesFacts DEF InitialChains
  <2>2. chain_start[i] \in Int /\ chain_x[i] \in Columns /\ chain_start[i] \in 1 .. LastRow - (Tiles(i) - 1)
    BY <1>1, <1>2, PlacedChain
  <2>3. TileSize \in Nat \ {0} /\ 1 - 1 = 0
    BY ChipAssumption
  <2>4. 0 \div TileSize = 0
    BY <2>3
  <2>5. Base(gate_cell, i) = <<chain_x[i], chain_start[i] + 0, (1 - 1) % TileSize>>
    BY <2>1, <2>3, <2>4 DEF Base, ChainCell
  <2> QED BY <2>1, <2>2, <2>5
<1>6. Shape(gate_cell)
  <2>1. \A g \in Gate : chipdb.cell_type[gate_cell[g]] = Type(g)
    BY <1>2, <1>3 DEF Partial
  <2>2. ASSUME NEW i \in Chain, NEW k \in Chain, i # k PROVE Apart(gate_cell, i, k)
    <3>1. \/ chain_x[i] # chain_x[k]
          \/ chain_start[i] + Tiles(i) <= chain_start[k]
          \/ chain_start[k] + Tiles(k) <= chain_start[i]
      BY <2>2, <1>2 DEF InitialChains
    <3> QED BY <3>1, <1>5 DEF Apart
  <2> QED BY <2>1, <2>2, <1>5 DEF Shape
<1>7. Measured(net_length', gate_cell')
  BY <1>1 DEF Measured
<1>8. DOMAIN chain_x' = Chain /\ DOMAIN chain_start' = Chain
  BY <1>1, <1>2 DEF InitialChains, ChainsPlaced
<1>9. /\ Agree(cell_gate, gate_cell)' /\ Shape(gate_cell)' /\ LockedAt(gate_cell)'
      /\ Measured(net_length, gate_cell)'
  BY <1>1, <1>2, <1>4, <1>6, <1>7, SameDesign DEF Agree
<1> QED BY <1>1, <1>2, <1>5, <1>8, <1>9, IdleNext DEF saveVars

(* The cells of placed chains; until the preplaced gates are placed, all   *)
(* placed gates are on such cells.                                         *)
LEMMA PlacedCells ==
  ASSUME design \in Designs, InitialChains, NEW i \in ChainsPlaced, NEW l \in DOMAIN design.chains[i]
  PROVE  \E k \in DOMAIN chipdb.logic_columns :
           /\ InColumn(i, k)
           /\ \E r \in 0 .. Tiles(i) - 1, p \in 0 .. TileSize - 1 :
                gate_cell[design.chains[i][l]] = <<chipdb.logic_columns[k], chain_start[i] + r, p>>
           /\ chain_start[i] >= chipdb.column_free[k]
           /\ chain_start[i] + Tiles(i) <= chipdb.column_last[k] + 1
<1>1. PICK k \in DOMAIN chipdb.logic_columns :
        /\ InColumn(i, k)
        /\ chain_start[i] >= chipdb.column_free[k]
        /\ chain_start[i] + Tiles(i) <= chipdb.column_last[k] + 1
  BY PlacedChain
<1>2. i \in Chain /\ Tiles(i) \in Nat
  BY PlacedChain
<1>3. l \in 1 .. Tiles(i) * TileSize
  BY <1>2, TilesFacts
<1>4. PICK r \in 0 .. Tiles(i) - 1, p \in 0 .. TileSize - 1 :
        \A a, b : ChainCell(a, b, l) = <<a, b + r, p>>
  BY <1>2, <1>3, ChainCellWithin
<1>5. gate_cell[design.chains[i][l]] = ChainCell(chain_x[i], chain_start[i], l)
  BY DEF InitialChains
<1>6. gate_cell[design.chains[i][l]] = <<chipdb.logic_columns[k], chain_start[i] + r, p>>
  BY <1>1, <1>4, <1>5 DEF InColumn
<1> QED BY <1>1, <1>6

LEMMA PlaceLockedInv ==
  ASSUME PlacerInv, PlaceLocked
  PROVE  PlacerInv'
<1> DEFINE L == Locked(design)
           At(g) == design.placement[g]
<1>1. /\ pc = "chains" /\ pc' = "free" /\ design' = design /\ design \in Designs /\ PlaceInv
      /\ UNCHANGED <<column_free, chain_x, chain_start, saveVars, restore_net_length>>
      /\ gate_cell' = [g \in Gate |-> IF g \in L THEN At(g) ELSE gate_cell[g]]
      /\ cell_gate' = [c \in Cell |-> IF \E g \in L : At(g) = c
                                      THEN CHOOSE g \in L : At(g) = c
                                      ELSE cell_gate[c]]
      /\ Len(chain_x) + 1 \notin Chain
  BY DEF PlaceLocked, PlacerInv
<1>2. /\ Partial(cell_gate, gate_cell) /\ InitialChains
      /\ \A g \in Gate : gate_cell[g] # NoCell
           => \E i \in ChainsPlaced : \E j \in DOMAIN design.chains[i] : g = design.chains[i][j]
  BY <1>1 DEF PlaceInv
<1>3. /\ L \subseteq Gate \ Chained(design)
      /\ \A g \in L : At(g) \in Cell /\ chipdb.cell_type[At(g)] = Type(g)
      /\ \A g, h \in L : At(g) = At(h) => g = h
      /\ \A g \in L, k \in DOMAIN chipdb.logic_columns :
           At(g)[1] = chipdb.logic_columns[k]
             => At(g)[2] < chipdb.column_free[k] \/ At(g)[2] > chipdb.column_last[k]
  BY <1>1, DesignFacts, DesignAssumption
<1>4. ChainsPlaced = Chain
  <2>1. /\ Len(chain_x) \in Nat /\ ChainsPlaced = 1 .. Len(chain_x) /\ ChainsPlaced \subseteq Chain
    BY <1>2 DEF InitialChains, ChainsPlaced
  <2>2. Chain = 1 .. Len(design.chains) /\ Len(design.chains) \in Nat
    BY <1>1, DesignFacts
  <2>3. ~(Len(chain_x) < Len(design.chains))
    BY <1>1, <2>1, <2>2
  <2> QED BY <2>1, <2>2, <2>3
<1> HIDE DEF L, At
<1>5. ASSUME NEW g \in L, NEW i \in ChainsPlaced, NEW l \in DOMAIN design.chains[i]
      PROVE  gate_cell[design.chains[i][l]] # At(g)
  <2>1. PICK k \in DOMAIN chipdb.logic_columns :
          /\ \E r \in 0 .. Tiles(i) - 1, p \in 0 .. TileSize - 1 :
               gate_cell[design.chains[i][l]] = <<chipdb.logic_columns[k], chain_start[i] + r, p>>
          /\ chain_start[i] >= chipdb.column_free[k]
          /\ chain_start[i] + Tiles(i) <= chipdb.column_last[k] + 1
    BY <1>1, <1>2, PlacedCells
  <2>2. PICK r \in 0 .. Tiles(i) - 1, p \in 0 .. TileSize - 1 :
          gate_cell[design.chains[i][l]] = <<chipdb.logic_columns[k], chain_start[i] + r, p>>
    BY <2>1
  <2>3. chain_start[i] \in Int /\ Tiles(i) \in Nat
    BY <1>1, <1>2, PlacedChain
  <2>4. /\ chain_start[i] + r >= chipdb.column_free[k] /\ chain_start[i] + r <= chipdb.column_last[k]
    BY <2>1, <2>3, ColumnFacts
  <2> DEFINE d == gate_cell[design.chains[i][l]]
  <2>5. d[1] = chipdb.logic_columns[k] /\ d[2] = chain_start[i] + r
    BY <2>2
  <2>6. chipdb.column_free[k] \in Int /\ chipdb.column_last[k] \in Int /\ chain_start[i] + r \in Int
    BY <2>3, ColumnFacts
  <2> QED BY <2>4, <2>5, <2>6, <1>3
<1>6. ASSUME NEW g \in Gate, g \notin L, gate_cell[g] # NoCell
      PROVE  \A h \in L : At(h) # gate_cell[g]
  BY <1>2, <1>5, <1>6
<1>7. /\ \A g \in L : gate_cell'[g] = At(g)
      /\ \A g \in Gate : g \notin L => gate_cell'[g] = gate_cell[g]
      /\ gate_cell' \in [Gate -> Cell \cup {NoCell}]
  BY <1>1, <1>2, <1>3 DEF Partial
<1>8. /\ \A g \in L : cell_gate'[At(g)] = g
      /\ \A c \in Cell : (\A g \in L : At(g) # c) => cell_gate'[c] = cell_gate[c]
      /\ cell_gate' \in [Cell -> Gate \cup {0}]
  <2>1. ASSUME NEW g \in L PROVE (CHOOSE h \in L : At(h) = At(g)) = g
    BY <1>3
  <2>2. \A g \in L : cell_gate'[At(g)] = g
    BY <2>1, <1>1, <1>3
  <2>3. \A c \in Cell : (\A g \in L : At(g) # c) => cell_gate'[c] = cell_gate[c]
    BY <1>1
  <2>4. ASSUME NEW c \in Cell PROVE cell_gate'[c] \in Gate \cup {0}
    <3>1. CASE \E g \in L : At(g) = c
      BY <3>1, <2>2, <1>3
    <3>2. CASE \A g \in L : At(g) # c
      BY <3>2, <2>3, <1>2 DEF Partial
    <3> QED BY <3>1, <3>2
  <2> QED BY <2>2, <2>3, <2>4, <1>1
<1>9. Partial(cell_gate', gate_cell')
  <2>1. ASSUME NEW g \in Gate, gate_cell'[g] # NoCell
        PROVE  cell_gate'[gate_cell'[g]] = g /\ chipdb.cell_type[gate_cell'[g]] = Type(g)
    <3>1. CASE g \in L
      BY <3>1, <1>3, <1>7, <1>8
    <3>2. CASE g \notin L
      <4>1. gate_cell'[g] = gate_cell[g] /\ gate_cell[g] \in Cell
        BY <3>2, <2>1, <1>2, <1>7 DEF Partial
      <4>2. cell_gate'[gate_cell[g]] = cell_gate[gate_cell[g]]
        BY <4>1, <3>2, <2>1, <1>6, <1>8
      <4> QED BY <4>1, <4>2, <2>1, <1>2 DEF Partial
    <3> QED BY <3>1, <3>2
  <2>2. ASSUME NEW c \in Cell, cell_gate'[c] # 0 PROVE gate_cell'[cell_gate'[c]] = c
    <3>1. CASE \E g \in L : At(g) = c
      BY <3>1, <1>7, <1>8
    <3>2. CASE \A g \in L : At(g) # c
      <4>1. cell_gate'[c] = cell_gate[c] /\ cell_gate[c] \in Gate /\ gate_cell[cell_gate[c]] = c
        BY <3>2, <2>2, <1>2, <1>8 DEF Partial
      <4>2. cell_gate[c] \in Chained(design)
        <5>1. gate_cell[cell_gate[c]] # NoCell
          BY <4>1, Nowhere
        <5>2. PICK i \in ChainsPlaced : \E j \in DOMAIN design.chains[i] : cell_gate[c] = design.chains[i][j]
          BY <5>1, <4>1, <1>2
        <5> QED BY <5>2, <1>1, <1>4, DesignFacts
      <4> QED BY <4>1, <4>2, <1>3, <1>7
    <3> QED BY <3>1, <3>2
  <2> QED BY <2>1, <2>2, <1>7, <1>8 DEF Partial
<1>10. InitialChains'
  <2>1. \A i \in Chain : \A j \in DOMAIN design.chains[i] :
          gate_cell'[design.chains[i][j]] = gate_cell[design.chains[i][j]]
    BY <1>1, <1>3, <1>7, DesignFacts
  <2>2. /\ Chain' = Chain /\ ChainsPlaced' = ChainsPlaced
        /\ \A i \in Chain : Tiles(i)' = Tiles(i)
    BY <1>1 DEF Chain, ChainsPlaced, Tiles
  <2>3. \A i \in Chain, k \in DOMAIN chipdb.logic_columns : InColumn(i, k)' <=> InColumn(i, k)
    BY <1>1, <2>2 DEF InColumn
  <2>4. \A i \in Chain : \A j \in DOMAIN design.chains[i] :
          gate_cell'[design.chains[i][j]] = ChainCell(chain_x[i], chain_start[i], j)
    BY <2>1, <1>2, <1>4 DEF InitialChains
  <2>5. \A i \in Chain : \E k \in DOMAIN chipdb.logic_columns : InColumn(i, k)'
    BY <2>3, <1>2, <1>4 DEF InitialChains
  <2>6. \A i, k \in Chain : i # k =>
          \/ chain_x[i] # chain_x[k]
          \/ chain_start[i] + Tiles(i)' <= chain_start[k]
          \/ chain_start[k] + Tiles(k)' <= chain_start[i]
    BY <2>2, <1>2, <1>4 DEF InitialChains
  <2>7. /\ chain_x \in Seq(Int) /\ chain_start \in Seq(Int) /\ Len(chain_x) = Len(chain_start)
        /\ column_free \in [DOMAIN chipdb.logic_columns -> Int]
        /\ \A k \in DOMAIN chipdb.logic_columns :
             column_free[k] >= chipdb.column_free[k] /\ column_free[k] <= chipdb.column_last[k] + 1
    BY <1>2 DEF InitialChains
  <2> QED BY ZenonT(60), <2>2, <2>4, <2>5, <2>6, <2>7, <1>1, <1>4 DEF InitialChains
<1>11. LockedAt(gate_cell')
  BY <1>7 DEF LockedAt, L, At
<1>12. /\ Partial(cell_gate, gate_cell)' /\ LockedAt(gate_cell)' /\ ChainsPlaced' = Chain'
  <2>1. Partial(cell_gate, gate_cell)'
    BY <1>1, <1>9 DEF Partial, Type
  <2> QED BY <2>1, <1>1, <1>4, <1>11, SameDesign DEF ChainsPlaced
<1>13. PlaceInv'
  BY <1>1, <1>10, <1>12 DEF PlaceInv, saveVars
<1> QED BY <1>1, <1>13 DEF PlacerInv, Moving

LEMMA PlaceChainInv ==
  ASSUME PlacerInv, PlaceChain
  PROVE  PlacerInv'
<1> DEFINE c == Len(chain_x) + 1
           v == design.chains[c]
           T == Tiles(c)
<1>1. /\ pc = "chains" /\ c \in Chain /\ design' = design /\ design \in Designs /\ PlaceInv
      /\ UNCHANGED <<saveVars, restore_net_length>>
  BY DEF PlaceChain, PlacerInv
<1>2. CASE pc' = "failed"
  BY <1>1, <1>2 DEF PlacerInv, Moving
<1>3. CASE pc' # "failed"
  <2>1. PICK k \in DOMAIN chipdb.logic_columns :
          /\ Fits(c, k)
          /\ LET x == chipdb.logic_columns[k]
                 y == column_free[k]
                 Here(e) == {j \in DOMAIN v : e = ChainCell(x, y, j)}
             IN /\ cell_gate' = [e \in Cell |-> IF Here(e) = {} THEN cell_gate[e]
                                                ELSE v[CHOOSE j \in Here(e) : TRUE]]
                /\ gate_cell' = [g \in Gate |->
                     IF \E j \in DOMAIN v : v[j] = g
                     THEN ChainCell(x, y, CHOOSE j \in DOMAIN v : v[j] = g)
                     ELSE gate_cell[g]]
                /\ chain_x' = Append(chain_x, x)
                /\ chain_start' = Append(chain_start, y)
          /\ column_free' = [column_free EXCEPT ![k] = @ + Tiles(c)]
          /\ pc' = pc
    BY <1>3, Zenon DEF PlaceChain
  <2> DEFINE x == chipdb.logic_columns[k]
             y == column_free[k]
             Here(e) == {j \in DOMAIN v : e = ChainCell(x, y, j)}
             New(j) == ChainCell(x, y, j)
  <2>2. /\ cell_gate' = [e \in Cell |-> IF Here(e) = {} THEN cell_gate[e]
                                        ELSE v[CHOOSE j \in Here(e) : TRUE]]
        /\ gate_cell' = [g \in Gate |->
             IF \E j \in DOMAIN v : v[j] = g
             THEN New(CHOOSE j \in DOMAIN v : v[j] = g)
             ELSE gate_cell[g]]
        /\ chain_x' = Append(chain_x, x) /\ chain_start' = Append(chain_start, y)
        /\ column_free' = [column_free EXCEPT ![k] = y + T]
        /\ pc' = "chains"
    BY <2>1, <1>1, Zenon
  <2>3. /\ Partial(cell_gate, gate_cell) /\ InitialChains
        /\ \A g \in Gate : gate_cell[g] # NoCell
             => \E i \in ChainsPlaced : \E j \in DOMAIN design.chains[i] : g = design.chains[i][j]
    BY <1>1 DEF PlaceInv
  <2>4. /\ T \in Nat \ {0} /\ DOMAIN v \subseteq 1 .. T * TileSize /\ DOMAIN v \subseteq Nat \ {0}
        /\ \A j \in DOMAIN v : /\ v[j] \in Gate /\ v[j] # 0 /\ v[j] \in Chained(design)
                               /\ Type(v[j]) = "LOGIC"
        /\ \A j, l \in DOMAIN v : v[j] = v[l] => j = l
    BY <1>1, DesignFacts, TilesFacts DEF Gate
  <2>5. /\ y \in Int /\ x \in Columns /\ y \in 1 .. LastRow - (T - 1)
        /\ y >= chipdb.column_free[k] /\ y + T <= chipdb.column_last[k] + 1
    <3>1. /\ y \in Int /\ y >= chipdb.column_free[k]
      BY <2>3 DEF InitialChains
    <3>2. y + T - 1 <= chipdb.column_last[k]
      BY <2>1 DEF Fits
    <3>3. y + T <= chipdb.column_last[k] + 1 /\ y \in 1 .. LastRow - (T - 1)
      BY <3>1, <3>2, <2>4, ColumnFacts
    <3> QED BY <3>1, <3>3, ColumnFacts
  <2> HIDE DEF v, T, y, x
  <2>6. \A j \in DOMAIN v : New(j) \in Cell /\ chipdb.cell_type[New(j)] = "LOGIC"
    <3>1. T \in Nat
      BY <2>4
    <3> QED BY <3>1, <2>4, <2>5, ChainCells
  <2>7. \A j, l \in DOMAIN v : New(j) = New(l) => j = l
    BY <2>4, <2>5, ChainCellInjective
  <2>8. ASSUME NEW i \in ChainsPlaced
        PROVE  i # c /\ (chain_x[i] # x \/ chain_start[i] + Tiles(i) <= y)
    <3>1. Len(chain_x) \in Nat /\ ChainsPlaced = 1 .. Len(chain_x)
      BY <2>3 DEF InitialChains, ChainsPlaced
    <3>2. PICK l \in DOMAIN chipdb.logic_columns : InColumn(i, l)
      BY <2>3 DEF InitialChains
    <3>3. CASE l = k
      BY <3>1, <3>2, <3>3 DEF InColumn, y
    <3>4. CASE l # k
      BY <3>1, <3>2, <3>4, ColumnFacts DEF InColumn, x
    <3> QED BY <3>3, <3>4
  <2>9. ASSUME NEW i \in ChainsPlaced, NEW l \in DOMAIN design.chains[i], NEW j \in DOMAIN v
        PROVE  gate_cell[design.chains[i][l]] # New(j) /\ design.chains[i][l] # v[j]
    <3>1. /\ i \in Chain /\ Tiles(i) \in Nat /\ chain_start[i] \in Int
          /\ T \in Nat
      BY <1>1, <2>3, <2>4, PlacedChain
    <3>2. l \in 1 .. Tiles(i) * TileSize /\ j \in 1 .. T * TileSize
      BY <3>1, <1>1, <2>4, TilesFacts
    <3>3. gate_cell[design.chains[i][l]] = ChainCell(chain_x[i], chain_start[i], l)
      BY <2>3 DEF InitialChains
    <3>4. ChainCell(chain_x[i], chain_start[i], l) # New(j)
      BY <3>1, <3>2, <2>5, <2>8, RangesApart
    <3>5. design.chains[i][l] # v[j]
      BY <3>1, <1>1, <2>8, DesignFacts DEF v
    <3> QED BY <3>3, <3>4, <3>5
  <2>10. ASSUME NEW g \in Gate, gate_cell[g] # NoCell
         PROVE  \A j \in DOMAIN v : gate_cell[g] # New(j) /\ g # v[j]
    BY <2>3, <2>9, <2>10
  <2> HIDE DEF New
  <2>11. /\ \A j \in DOMAIN v : gate_cell'[v[j]] = New(j)
         /\ \A g \in Gate : (\A j \in DOMAIN v : g # v[j]) => gate_cell'[g] = gate_cell[g]
         /\ gate_cell' \in [Gate -> Cell \cup {NoCell}]
    <3>1. ASSUME NEW j \in DOMAIN v PROVE gate_cell'[v[j]] = New(j)
      <4>1. (CHOOSE l \in DOMAIN v : v[l] = v[j]) = j
        BY <2>4
      <4> QED BY <4>1, <2>2, <2>4
    <3>2. \A g \in Gate : (\A j \in DOMAIN v : g # v[j]) => gate_cell'[g] = gate_cell[g]
      BY <2>2
    <3>3. ASSUME NEW g \in Gate PROVE gate_cell'[g] \in Cell \cup {NoCell}
      BY <3>1, <3>2, <2>3, <2>6 DEF Partial
    <3> QED BY <3>1, <3>2, <3>3, <2>2
  <2>12. /\ \A j \in DOMAIN v : cell_gate'[New(j)] = v[j]
         /\ \A e \in Cell : (\A j \in DOMAIN v : e # New(j)) => cell_gate'[e] = cell_gate[e]
         /\ cell_gate' \in [Cell -> Gate \cup {0}]
    <3>1. ASSUME NEW j \in DOMAIN v PROVE cell_gate'[New(j)] = v[j]
      <4>1. Here(New(j)) = {j}
        BY <2>7 DEF New
      <4>2. (CHOOSE l \in Here(New(j)) : TRUE) = j
        BY <4>1
      <4> QED BY <4>1, <4>2, <2>2, <2>6
    <3>2. ASSUME NEW e \in Cell, \A j \in DOMAIN v : e # New(j) PROVE cell_gate'[e] = cell_gate[e]
      <4>1. Here(e) = {}
        BY <3>2 DEF New
      <4> QED BY <4>1, <2>2
    <3>3. ASSUME NEW e \in Cell PROVE cell_gate'[e] \in Gate \cup {0}
      BY <3>1, <3>2, <2>3, <2>4 DEF Partial
    <3> QED BY <3>1, <3>2, <3>3, <2>2
  <2>13. Partial(cell_gate', gate_cell')
    <3>1. ASSUME NEW g \in Gate, gate_cell'[g] # NoCell
          PROVE  cell_gate'[gate_cell'[g]] = g /\ chipdb.cell_type[gate_cell'[g]] = Type(g)
      <4>1. CASE \E j \in DOMAIN v : g = v[j]
        BY <4>1, <2>4, <2>6, <2>11, <2>12
      <4>2. CASE \A j \in DOMAIN v : g # v[j]
        <5>1. gate_cell'[g] = gate_cell[g] /\ gate_cell[g] \in Cell
          BY <4>2, <3>1, <2>3, <2>11 DEF Partial
        <5>2. cell_gate'[gate_cell[g]] = cell_gate[gate_cell[g]]
          BY <5>1, <3>1, <2>10, <2>12
        <5> QED BY <5>1, <5>2, <3>1, <2>3 DEF Partial
      <4> QED BY <4>1, <4>2
    <3>2. ASSUME NEW e \in Cell, cell_gate'[e] # 0 PROVE gate_cell'[cell_gate'[e]] = e
      <4>1. CASE \E j \in DOMAIN v : e = New(j)
        BY <4>1, <2>11, <2>12
      <4>2. CASE \A j \in DOMAIN v : e # New(j)
        <5>1. cell_gate'[e] = cell_gate[e] /\ cell_gate[e] \in Gate /\ gate_cell[cell_gate[e]] = e
          BY <4>2, <3>2, <2>3, <2>12 DEF Partial
        <5> QED BY <5>1, <2>10, <2>11, Nowhere
      <4> QED BY <4>1, <4>2
    <3> QED BY <3>1, <3>2, <2>11, <2>12 DEF Partial
  <2>14. /\ Len(chain_x) \in Nat /\ Len(chain_start) = Len(chain_x) /\ ChainsPlaced = 1 .. Len(chain_x)
         /\ ChainsPlaced' = ChainsPlaced \cup {c} /\ c \notin ChainsPlaced
         /\ chain_x' \in Seq(Int) /\ chain_start' \in Seq(Int) /\ Len(chain_x') = Len(chain_start')
         /\ \A i \in ChainsPlaced : chain_x'[i] = chain_x[i] /\ chain_start'[i] = chain_start[i]
         /\ chain_x'[c] = x /\ chain_start'[c] = y
    <3>1. /\ chain_x \in Seq(Int) /\ chain_start \in Seq(Int) /\ Len(chain_x) = Len(chain_start)
          /\ x \in Int /\ y \in Int
      BY <2>3, <2>5, ChipAssumption DEF InitialChains
    <3>2. /\ chain_x' \in Seq(Int) /\ chain_start' \in Seq(Int) /\ Len(chain_x') = Len(chain_x) + 1
          /\ Len(chain_start') = Len(chain_x) + 1 /\ Len(chain_x) \in Nat
          /\ DOMAIN chain_x = 1 .. Len(chain_x) /\ DOMAIN chain_x' = 1 .. Len(chain_x) + 1
          /\ \A i \in 1 .. Len(chain_x) : chain_x'[i] = chain_x[i] /\ chain_start'[i] = chain_start[i]
          /\ chain_x'[Len(chain_x) + 1] = x /\ chain_start'[Len(chain_x) + 1] = y
      BY <3>1, <2>2
    <3>3. 1 .. Len(chain_x) + 1 = (1 .. Len(chain_x)) \cup {Len(chain_x) + 1}
      BY <3>2
    <3> QED BY <3>1, <3>2, <3>3 DEF ChainsPlaced
  <2> HIDE DEF c
  <2>15. \A i \in ChainsPlaced : \A j \in DOMAIN design.chains[i] :
           gate_cell'[design.chains[i][j]] = ChainCell(chain_x'[i], chain_start'[i], j)
    <3> SUFFICES ASSUME NEW i \in ChainsPlaced, NEW j \in DOMAIN design.chains[i]
                 PROVE  gate_cell'[design.chains[i][j]] = ChainCell(chain_x'[i], chain_start'[i], j)
      OBVIOUS
    <3>1. design.chains[i][j] \in Gate /\ i \in Chain
      BY <1>1, <2>3, DesignFacts DEF InitialChains
    <3>2. gate_cell'[design.chains[i][j]] = gate_cell[design.chains[i][j]]
      BY <3>1, <2>9, <2>11
    <3>3. gate_cell[design.chains[i][j]] = ChainCell(chain_x[i], chain_start[i], j)
      BY <2>3 DEF InitialChains
    <3> QED BY <3>2, <3>3, <2>14
  <2>16. \A j \in DOMAIN v : gate_cell'[v[j]] = ChainCell(chain_x'[c], chain_start'[c], j)
    BY <2>11, <2>14 DEF New
  <2>17. /\ column_free' \in [DOMAIN chipdb.logic_columns -> Int]
         /\ \A l \in DOMAIN chipdb.logic_columns :
              /\ column_free'[l] >= column_free[l] /\ column_free[l] \in Int
              /\ column_free'[l] >= chipdb.column_free[l] /\ column_free'[l] <= chipdb.column_last[l] + 1
         /\ column_free'[k] = y + T
    <3>1. /\ column_free \in [DOMAIN chipdb.logic_columns -> Int]
          /\ \A l \in DOMAIN chipdb.logic_columns :
               column_free[l] >= chipdb.column_free[l] /\ column_free[l] <= chipdb.column_last[l] + 1
      BY <2>3 DEF InitialChains
    <3>2. column_free'[k] = y + T /\ \A l \in DOMAIN chipdb.logic_columns : l # k => column_free'[l] = column_free[l]
      BY <3>1, <2>2
    <3>3. column_free' \in [DOMAIN chipdb.logic_columns -> Int]
      BY <3>1, <2>2, <2>4, <2>5
    <3>4. ASSUME NEW l \in DOMAIN chipdb.logic_columns
          PROVE  /\ column_free'[l] >= column_free[l] /\ column_free[l] \in Int
                 /\ column_free'[l] >= chipdb.column_free[l] /\ column_free'[l] <= chipdb.column_last[l] + 1
      <4>1. column_free[l] \in Int /\ chipdb.column_free[l] \in Int
        BY <3>1, ColumnFacts
      <4>2. CASE l = k
        BY <4>1, <4>2, <3>1, <3>2, <2>4, <2>5 DEF y
      <4>3. CASE l # k
        BY <4>1, <4>3, <3>1, <3>2
      <4> QED BY <4>2, <4>3
    <3> QED BY <3>2, <3>3, <3>4
  <2>18. /\ Chain' = Chain /\ \A i \in Chain : Tiles(i)' = Tiles(i)
    BY <1>1 DEF Chain, Tiles
  <2>19. \A i \in ChainsPlaced' : \E l \in DOMAIN chipdb.logic_columns : InColumn(i, l)'
    <3> PICK d : d = c
      OBVIOUS
    <3>1. InColumn(d, k)'
      <4>1. chain_x'[c] = chipdb.logic_columns[k] /\ chain_start'[c] >= chipdb.column_free[k]
            /\ chain_start'[c] + T <= column_free'[k]
        BY <2>4, <2>5, <2>14, <2>17 DEF x
      <4>2. Tiles(d)' = T
        BY <1>1, <2>18 DEF T
      <4> QED BY <4>1, <4>2 DEF InColumn
    <3>2. ASSUME NEW i \in ChainsPlaced PROVE \E l \in DOMAIN chipdb.logic_columns : InColumn(i, l)'
      <4>1. PICK l \in DOMAIN chipdb.logic_columns : InColumn(i, l)
        BY <2>3 DEF InitialChains
      <4>2. chain_start[i] \in Int /\ Tiles(i) \in Nat /\ i \in Chain
        BY <1>1, <2>3, PlacedChain
      <4>3. column_free'[l] \in Int
        BY <2>17
      <4>4. chain_start[i] + Tiles(i) <= column_free'[l]
        BY <4>1, <4>2, <4>3, <2>17 DEF InColumn
      <4>5. InColumn(i, l)'
        BY <4>1, <4>2, <4>4, <2>14, <2>18 DEF InColumn
      <4> QED BY <4>5
    <3> QED BY <3>1, <3>2, <2>14
  <2>20. \A i, l \in ChainsPlaced' : i # l =>
           \/ chain_x'[i] # chain_x'[l]
           \/ chain_start'[i] + Tiles(i) <= chain_start'[l]
           \/ chain_start'[l] + Tiles(l) <= chain_start'[i]
    <3>1. \A i, l \in ChainsPlaced : i # l =>
            \/ chain_x[i] # chain_x[l]
            \/ chain_start[i] + Tiles(i) <= chain_start[l]
            \/ chain_start[l] + Tiles(l) <= chain_start[i]
      BY <2>3 DEF InitialChains
    <3>2. chain_x'[c] = x /\ chain_start'[c] = y
      BY <2>14
    <3>3. ASSUME NEW i \in ChainsPlaced', NEW l \in ChainsPlaced', i # l
          PROVE  \/ chain_x'[i] # chain_x'[l]
                 \/ chain_start'[i] + Tiles(i) <= chain_start'[l]
                 \/ chain_start'[l] + Tiles(l) <= chain_start'[i]
      <4>1. CASE i = c
        <5>1. l \in ChainsPlaced
          BY <4>1, <3>3, <2>14
        <5> QED BY <5>1, <4>1, <3>2, <2>8, <2>14
      <4>2. CASE l = c
        <5>1. i \in ChainsPlaced
          BY <4>2, <3>3, <2>14
        <5> QED BY <5>1, <4>2, <3>2, <2>8, <2>14
      <4>3. CASE i # c /\ l # c
        <5>1. i \in ChainsPlaced /\ l \in ChainsPlaced
          BY <4>3, <2>14
        <5> QED BY <5>1, <3>1, <3>3, <2>14
      <4> QED BY <4>1, <4>2, <4>3
    <3> QED BY <3>3
  <2>21. InitialChains'
    <3>1. \A i \in ChainsPlaced' : \A j \in DOMAIN design.chains[i] :
            gate_cell'[design.chains[i][j]] = ChainCell(chain_x'[i], chain_start'[i], j)
      BY <2>14, <2>15, <2>16 DEF v
    <3>2. ChainsPlaced' \subseteq Chain
      BY <2>3, <2>14, <1>1 DEF InitialChains, c
    <3>3. \A i, l \in ChainsPlaced' : i # l =>
            \/ chain_x'[i] # chain_x'[l]
            \/ chain_start'[i] + Tiles(i)' <= chain_start'[l]
            \/ chain_start'[l] + Tiles(l)' <= chain_start'[i]
      BY <3>2, <2>18, <2>20
    <3> QED BY <3>1, <3>2, <3>3, <1>1, <2>14, <2>17, <2>18, <2>19 DEF InitialChains
  <2>22. \A g \in Gate : gate_cell'[g] # NoCell
           => \E i \in ChainsPlaced' : \E j \in DOMAIN design.chains[i] : g = design.chains[i][j]
    <3> SUFFICES ASSUME NEW g \in Gate, gate_cell'[g] # NoCell
                 PROVE  \E i \in ChainsPlaced' : \E j \in DOMAIN design.chains[i] : g = design.chains[i][j]
      OBVIOUS
    <3>1. CASE \E j \in DOMAIN v : g = v[j]
      BY <3>1, <2>14 DEF v
    <3>2. CASE \A j \in DOMAIN v : g # v[j]
      BY <3>2, <2>3, <2>11, <2>14
    <3> QED BY <3>1, <3>2
  <2>23. Partial(cell_gate, gate_cell)'
    BY <1>1, <2>13 DEF Partial, Type
  <2>24. PlaceInv'
    BY <1>1, <2>2, <2>21, <2>22, <2>23 DEF PlaceInv, saveVars
  <2> QED BY <1>1, <2>2, <2>24 DEF PlacerInv, Moving
<1> QED BY <1>2, <1>3

-----------------------------------------------------------------------------
LEMMA InitInv ==
  ASSUME Init
  PROVE  PlacerInv
<1>1. /\ design \in Designs /\ pc = "chains"
      /\ cell_gate = [c \in Cell |-> 0] /\ gate_cell = [g \in Gate |-> NoCell]
      /\ column_free = chipdb.column_free /\ chain_x = <<>> /\ chain_start = <<>>
      /\ move_failed = FALSE /\ changed_tiles = {} /\ recompute = {}
      /\ restore_cell = <<>> /\ restore_chain = <<>> /\ restore_net_length = {}
  BY DEF Init
<1>2. ChainsPlaced = {} /\ chain_x \in Seq(Int) /\ chain_start \in Seq(Int) /\ Len(chain_x) = Len(chain_start)
  BY <1>1 DEF ChainsPlaced
<1>3. Partial(cell_gate, gate_cell)
  BY <1>1 DEF Partial
<1>4. InitialChains
  <2>1. column_free \in [DOMAIN chipdb.logic_columns -> Int]
    BY <1>1, ChipAssumption
  <2>2. \A k \in DOMAIN chipdb.logic_columns :
          column_free[k] >= chipdb.column_free[k] /\ column_free[k] <= chipdb.column_last[k] + 1
    BY <1>1, ColumnFacts, ChipAssumption
  <2> QED BY <2>1, <2>2, <1>2 DEF InitialChains
<1>5. PlaceInv
  BY <1>1, <1>3, <1>4 DEF PlaceInv
<1> QED BY <1>1, <1>5 DEF PlacerInv, Moving

(* Steps that change neither the placement nor the move.                   *)
LEMMA Unaffected ==
  ASSUME PlacerInv,
         UNCHANGED <<design, pc, placeVars, column_free, net_length, mv, saveVars, restore_net_length>>
  PROVE  PlacerInv'
<1>1. /\ UNCHANGED <<design, pc, cell_gate, gate_cell, chain_x, chain_start, column_free, net_length, mv>>
      /\ UNCHANGED <<move_failed, changed_tiles, recompute, restore_cell, restore_chain, restore_net_length>>
  BY DEF placeVars, saveVars
<1>2. /\ Chain' = Chain /\ (\A i : Tiles(i)' = Tiles(i)) /\ ChainsPlaced' = ChainsPlaced
      /\ \A i, k : InColumn(i, k)' <=> InColumn(i, k)
  BY <1>1 DEF Chain, Tiles, ChainsPlaced, InColumn
<1>3. ASSUME pc \in {"chains", "free"} PROVE PlaceInv'
  <2>1. PlaceInv
    BY <1>3 DEF PlacerInv
  <2>2. Partial(cell_gate, gate_cell)'
    BY <2>1, <1>1 DEF PlaceInv, Partial, Type
  <2>3. InitialChains'
    BY ZenonT(60), <2>1, <1>1, <1>2 DEF PlaceInv, InitialChains
  <2>4. LockedAt(gate_cell) => LockedAt(gate_cell)'
    BY <1>1 DEF LockedAt
  <2> QED BY <2>1, <2>2, <2>3, <2>4, <1>1, <1>2 DEF PlaceInv
<1>4. ASSUME pc \in Moving PROVE MoveInv'
  <2>1. MoveInv
    BY <1>4 DEF PlacerInv
  <2>2. /\ Undoable => Undoable'
        /\ Agree(cell_gate, gate_cell) => Agree(cell_gate, gate_cell)'
        /\ SavedOnce => SavedOnce' /\ SavedCells' = SavedCells
        /\ ChainsFollow => ChainsFollow'
        /\ Marked => Marked'
        /\ LockedAt(gate_cell) => LockedAt(gate_cell)'
        /\ Shape(gate_cell) => Shape(gate_cell)'
        /\ SavedGateCell' = SavedGateCell
    BY <1>1, NothingMoved DEF placeVars
  <2>3. Remeasured => Remeasured'
    BY <2>2, <1>1 DEF Remeasured, Measured
  <2>4. HalfMoved => HalfMoved'
    <3>1. \A c \in Chain : ChainMove(c) => ChainMove(c)'
      <4>1. \A i : Base(SavedGateCell, i)' = Base(SavedGateCell, i)
        BY <1>1, <2>2 DEF Base
      <4> QED BY <4>1, <1>1, <1>2 DEF ChainMove, Columns, LastRow
    <3>2. /\ \A d, e : Swapped(d, e, mv.j)' <=> Swapped(d, e, mv.j)
          /\ \A d : Visited(d, mv.j)' <=> Visited(d, mv.j)
      BY <1>1 DEF Swapped, Visited
    <3>3. \A g : /\ Swapped(SavedGateCell[g], gate_cell[g], mv.j)' <=> Swapped(SavedGateCell[g], gate_cell[g], mv.j)
                 /\ Visited(gate_cell[g], mv.j)' <=> Visited(gate_cell[g], mv.j)
      BY <1>1, <2>2 DEF Swapped, Visited
    <3> SUFFICES ASSUME HalfMoved PROVE HalfMoved'
      OBVIOUS
    <3>4. \E c \in Chain' : ChainMove(c)'
      BY <3>1, <1>2 DEF HalfMoved
    <3>5. \A d \in SavedCells' : Visited(d, mv.j)'
      <4>1. \A d \in SavedCells : Visited(d, mv.j)
        BY DEF HalfMoved
      <4>2. SavedCells' = SavedCells
        BY <1>1 DEF SavedCells
      <4>3. mv' = mv
        BY <1>1
      <4> QED BY <4>1, <4>2, <4>3 DEF Visited
    <3>6. \A g \in Gate : \/ Swapped(SavedGateCell[g], gate_cell[g], mv.j)'
                          \/ (gate_cell[g] = SavedGateCell[g])' /\ ~Visited(gate_cell[g], mv.j)'
      BY <3>3, <2>2, <1>1 DEF HalfMoved
    <3>7. /\ mv' \in [x : Int, y : Int, new_x : Int, new_y : Int, tiles : Nat, j : Nat]
          /\ mv'.j \in 1 .. mv'.tiles * TileSize
      BY <1>1 DEF HalfMoved
    <3> QED BY <3>4, <3>5, <3>6, <3>7 DEF HalfMoved
  <2> QED BY <2>1, <2>2, <2>3, <2>4, <1>1 DEF MoveInv
<1> QED BY <1>1, <1>3, <1>4 DEF PlacerInv

LEMMA NextInv ==
  ASSUME PlacerInv, [Next]_vars
  PROVE  PlacerInv'
<1>1. CASE PlaceChain
  BY <1>1, PlaceChainInv
<1>2. CASE PlaceLocked
  BY <1>2, PlaceLockedInv
<1>3. CASE \E g \in Waiting : PlaceGate(g)
  BY <1>3, PlaceGateInv
<1>4. CASE AllPlaced
  BY <1>4, AllPlacedInv
<1>5. CASE TryMove
  <2>1. CASE \E g \in FreeGates : \E e \in CellsOf(g) : MoveGate(g, e)
    BY <2>1, MoveGateInv
  <2>2. CASE \E c \in Chain : \E k \in DOMAIN chipdb.logic_columns : \E y \in 1 .. LastRow :
               BeginChain(c, chipdb.logic_columns[k], y)
    BY <2>2, BeginChainInv, ColumnFacts
  <2> QED BY <1>5, <2>1, <2>2 DEF TryMove
<1>6. CASE MoveChainCell
  BY <1>6, MoveChainCellInv
<1>7. CASE Reject
  BY <1>7, RestoreInv DEF Reject
<1>8. CASE Evaluate
  BY <1>8, EvaluateInv
<1>9. CASE Accept
  BY <1>9, AcceptInv
<1>10. CASE Refuse
  BY <1>10, RestoreInv DEF Refuse
<1>11. CASE Cool
  BY <1>11, Unaffected DEF Cool
<1>12. CASE Failed \/ UNCHANGED vars
  BY <1>12, Unaffected DEF Failed, vars, placeVars, saveVars
<1> QED BY <1>1, <1>2, <1>3, <1>4, <1>5, <1>6, <1>7, <1>8, <1>9, <1>10, <1>11, <1>12 DEF Next

LEMMA PlacerInvariant == Spec => []PlacerInv
<1> QED BY InitInv, NextInv, PTL DEF Spec

(* Placer::check() succeeds wherever place() could call it, whatever moves *)
(* were tried, kept, and undone before.                                    *)
THEOREM CheckAlwaysHolds == Spec => []CheckHolds
<1>1. ASSUME PlacerInv PROVE CheckHolds
  <2>1. ASSUME pc \in {"idle", "judge"}
        PROVE  /\ \A g \in Gate : cell_gate[gate_cell[g]] = g
               /\ \A c \in Cell : cell_gate[c] # 0 => gate_cell[cell_gate[c]] = c
               /\ \A i \in Chain :
                    /\ chain_start[i] + Tiles(i) - 1 <= LastRow
                    /\ \A j \in DOMAIN design.chains[i] :
                         cell_gate[ChainCell(chain_x[i], chain_start[i], j)] = design.chains[i][j]
               /\ \A w \in Net : net_length[w] = NetLength(design, gate_cell, w)
    <3>1. /\ design \in Designs /\ Agree(cell_gate, gate_cell) /\ ChainsFollow /\ Shape(gate_cell)
          /\ Undoable /\ Remeasured /\ (pc = "idle" => restore_cell = <<>>)
      BY <1>1, <2>1 DEF PlacerInv, MoveInv, Moving
    <3>2. ASSUME NEW i \in Chain
          PROVE  /\ chain_start[i] + Tiles(i) - 1 <= LastRow
                 /\ \A j \in DOMAIN design.chains[i] :
                      cell_gate[ChainCell(chain_x[i], chain_start[i], j)] = design.chains[i][j]
      <4>1. chain_x[i] = Base(gate_cell, i)[1] /\ chain_start[i] = Base(gate_cell, i)[2]
        BY <3>1 DEF ChainsFollow
      <4>2. LastRow \in Int /\ Tiles(i) \in Nat
        BY <3>1, TilesFacts, ChipAssumption DEF LastRow
      <4>3. Base(gate_cell, i)[2] \in 1 .. LastRow - (Tiles(i) - 1)
        BY <3>1 DEF Shape
      <4>4. chain_start[i] + Tiles(i) - 1 <= LastRow
        BY <4>1, <4>2, <4>3
      <4>5. ASSUME NEW j \in DOMAIN design.chains[i]
            PROVE  cell_gate[ChainCell(chain_x[i], chain_start[i], j)] = design.chains[i][j]
        <5>1. design.chains[i][j] \in Gate
          BY <3>1, DesignFacts
        <5>2. gate_cell[design.chains[i][j]] = ChainCell(chain_x[i], chain_start[i], j)
          BY <3>1, <4>1 DEF Shape
        <5> QED BY <5>1, <5>2, <3>1 DEF Agree
      <4> QED BY <4>4, <4>5
    <3>3. ASSUME NEW w \in Net PROVE net_length[w] = NetLength(design, gate_cell, w)
      <4>1. CASE pc = "judge"
        BY <4>1, <3>1 DEF Remeasured, Measured
      <4>2. CASE pc = "idle"
        <5>1. SavedGateCell = gate_cell
          BY <4>2, <3>1, NothingSaved
        <5>2. restore_net_length = {}
          BY <4>2, <3>1 DEF Remeasured
        <5>3. SavedNetLength[w] = net_length[w]
          BY <5>2 DEF SavedNetLength
        <5> QED BY <5>1, <5>3, <3>1 DEF Undoable, Measured
      <4> QED BY <2>1, <4>1, <4>2
    <3> QED BY <3>1, <3>2, <3>3 DEF Agree
  <2>2. pc = "idle" => ~move_failed
    BY <1>1 DEF PlacerInv, MoveInv, Moving
  <2> QED BY <2>1, <2>2 DEF CheckHolds
<1> QED BY <1>1, PlacerInvariant, PTL

-----------------------------------------------------------------------------
(* A sum is the last value of a function that is defined on all subsets.   *)
Chosen(s) == CHOOSE x \in s : TRUE
Sums(total, f, S) ==
  total = [s \in SUBSET S |-> IF s = {} THEN 0 ELSE f[Chosen(s)] + total[s \ {Chosen(s)}]]

LEMMA SumIsLast ==
  ASSUME NEW f, NEW S
  PROVE  SumFunctionOnSet(f, S) = (CHOOSE total : Sums(total, f, S))[S]
BY DEF SumFunctionOnSet, FoldFunctionOnSet, MapThenFoldSet, Sums, Chosen

LEMMA SumsAgree ==
  ASSUME NEW f, NEW S, NEW U, IsFiniteSet(U), U \subseteq S,
         NEW a, Sums(a, f, S), NEW b, Sums(b, f, U)
  PROVE  \A s \in SUBSET U : a[s] = b[s]
<1> DEFINE T == {s \in SUBSET U : a[s] # b[s]}
<1> SUFFICES ASSUME T # {} PROVE FALSE
  OBVIOUS
<1>1. PICK A \in T : \A B \in T : B \subseteq A => B = A
  <2> HIDE DEF T
  <2>1. T \in SUBSET SUBSET U
    BY DEF T
  <2> QED BY <2>1, SmallestSubset
<1>2. A \in SUBSET U /\ A \in SUBSET S /\ a[A] # b[A]
  OBVIOUS
<1>3. A # {}
  BY <1>2 DEF Sums
<1>4. Chosen(A) \in A
  BY <1>3 DEF Chosen
<1>5. /\ a[A] = f[Chosen(A)] + a[A \ {Chosen(A)}]
      /\ b[A] = f[Chosen(A)] + b[A \ {Chosen(A)}]
  BY <1>2, <1>3 DEF Sums
<1>6. A \ {Chosen(A)} \notin T
  BY <1>1, <1>4
<1>7. a[A \ {Chosen(A)}] = b[A \ {Chosen(A)}]
  BY <1>2, <1>6
<1> QED BY <1>2, <1>5, <1>7

LEMMA SumsExist ==
  ASSUME NEW f, NEW S, IsFiniteSet(S), \A x \in S : f[x] \in Int
  PROVE  \E total \in [SUBSET S -> Int] : Sums(total, f, S)
<1> DEFINE Good(U) == \E total \in [SUBSET U -> Int] : Sums(total, f, U)
           T == {U \in SUBSET S : ~Good(U)}
           Sum(s) == SumFunctionOnSet(f, s)
<1> SUFFICES ASSUME T # {} PROVE FALSE
  OBVIOUS
<1>1. PICK A \in T : \A B \in T : B \subseteq A => B = A
  <2> HIDE DEF T
  <2>1. T \in SUBSET SUBSET S
    BY DEF T
  <2> QED BY <2>1, SmallestSubset
<1>2. A \in SUBSET S /\ ~Good(A)
  OBVIOUS
<1>3. ASSUME NEW U, U \subseteq A, U # A
      PROVE  /\ Sum(U) \in Int
             /\ U = {} => Sum(U) = 0
             /\ U # {} => Sum(U) = f[Chosen(U)] + Sum(U \ {Chosen(U)})
  <2>1. ASSUME NEW V, V \subseteq A, V # A
        PROVE  \E total \in [SUBSET V -> Int] : Sums(total, f, V) /\ Sum(V) = total[V]
    <3>1. Good(V)
      BY <1>1, <1>2, <2>1
    <3>2. PICK total \in [SUBSET V -> Int] : Sums(total, f, V)
      BY <3>1
    <3>3. Sums(CHOOSE t : Sums(t, f, V), f, V)
      BY <3>2
    <3>4. IsFiniteSet(V)
      BY <1>2, <2>1, FS_Subset
    <3>5. V \in SUBSET V
      OBVIOUS
    <3>6. total[V] = (CHOOSE t : Sums(t, f, V))[V]
      BY <3>2, <3>3, <3>4, <3>5, SumsAgree
    <3> QED BY <3>2, <3>6, SumIsLast
  <2>2. PICK a \in [SUBSET U -> Int] : Sums(a, f, U) /\ Sum(U) = a[U]
    BY <2>1, <1>3
  <2>3. a[U] \in Int
    OBVIOUS
  <2>4. U = {} => a[U] = 0
    BY <2>2 DEF Sums
  <2>5. ASSUME U # {} PROVE a[U] = f[Chosen(U)] + Sum(U \ {Chosen(U)})
    <3> DEFINE V == U \ {Chosen(U)}
    <3>1. Chosen(U) \in U
      BY <2>5 DEF Chosen
    <3>2. PICK b \in [SUBSET V -> Int] : Sums(b, f, V) /\ Sum(V) = b[V]
      <4>1. V \subseteq A /\ V # A
        BY <3>1, <1>3
      <4> HIDE DEF V
      <4> QED BY <4>1, <2>1
    <3>3. V \in SUBSET V /\ V \subseteq U
      OBVIOUS
    <3>4. IsFiniteSet(V)
      BY <3>3, <1>2, <1>3, FS_Subset
    <3>5. a[V] = b[V]
      <4> HIDE DEF V
      <4> QED BY <3>2, <3>3, <3>4, <2>2, SumsAgree
    <3>6. a[U] = f[Chosen(U)] + a[V]
      BY <2>2, <2>5 DEF Sums
    <3> QED BY <3>2, <3>5, <3>6
  <2> QED BY <2>2, <2>3, <2>4, <2>5
<1> DEFINE Step(s) == IF s = {} THEN 0 ELSE f[Chosen(s)] + Sum(s \ {Chosen(s)})
           total == [s \in SUBSET A |-> IF s = A THEN Step(A) ELSE Sum(s)]
<1>4. \A s \in SUBSET A : total[s] = Step(s) /\ total[s] \in Int
  <2> SUFFICES ASSUME NEW s \in SUBSET A PROVE total[s] = Step(s) /\ total[s] \in Int
    OBVIOUS
  <2>1. CASE s # A
    BY <2>1, <1>3
  <2>2. CASE s = A
    <3>1. total[s] = Step(s)
      BY <2>2
    <3>2. Step(A) \in Int
      <4>1. CASE A = {}
        BY <4>1
      <4>2. CASE A # {}
        <5>1. Chosen(A) \in A /\ f[Chosen(A)] \in Int
          BY <4>2, <1>2 DEF Chosen
        <5>2. Sum(A \ {Chosen(A)}) \in Int
          <6> DEFINE V == A \ {Chosen(A)}
          <6>1. V \subseteq A /\ V # A
            BY <5>1
          <6> HIDE DEF V
          <6>2. Sum(V) \in Int
            BY <6>1, <1>3
          <6> QED BY <6>2 DEF V
        <5> QED BY <4>2, <5>1, <5>2
      <4> QED BY <4>1, <4>2
    <3> QED BY <2>2, <3>1, <3>2
  <2> QED BY <2>1, <2>2
<1>5. \A s \in SUBSET A : s # {} => total[s \ {Chosen(s)}] = Sum(s \ {Chosen(s)})
  <2> SUFFICES ASSUME NEW s \in SUBSET A, s # {} PROVE total[s \ {Chosen(s)}] = Sum(s \ {Chosen(s)})
    OBVIOUS
  <2>1. Chosen(s) \in s
    BY DEF Chosen
  <2>2. s \ {Chosen(s)} \in SUBSET A /\ s \ {Chosen(s)} # A
    BY <2>1
  <2> QED BY <2>2
<1>6. total \in [SUBSET A -> Int]
  BY <1>4
<1>7. Sums(total, f, A)
  <2>1. \A s \in SUBSET A : total[s] = IF s = {} THEN 0 ELSE f[Chosen(s)] + total[s \ {Chosen(s)}]
    BY <1>4, <1>5
  <2>2. total = [s \in SUBSET A |-> total[s]]
    BY <1>6
  <2> HIDE DEF total
  <2> QED BY <2>1, <2>2 DEF Sums
<1> QED BY <1>2, <1>6, <1>7
LEMMA SumUnfolds ==
  ASSUME NEW f, NEW S, IsFiniteSet(S), \A x \in S : f[x] \in Int
  PROVE  /\ SumFunctionOnSet(f, S) \in Int
         /\ S = {} => SumFunctionOnSet(f, S) = 0
         /\ S # {} => SumFunctionOnSet(f, S) = f[Chosen(S)] + SumFunctionOnSet(f, S \ {Chosen(S)})
<1>1. ASSUME NEW V, V \subseteq S
      PROVE  \E total \in [SUBSET V -> Int] : Sums(total, f, V) /\ SumFunctionOnSet(f, V) = total[V]
  <2>1. IsFiniteSet(V)
    BY <1>1, FS_Subset
  <2>2. PICK total \in [SUBSET V -> Int] : Sums(total, f, V)
    BY <1>1, <2>1, SumsExist
  <2>3. Sums(CHOOSE t : Sums(t, f, V), f, V)
    BY <2>2
  <2>4. V \in SUBSET V
    OBVIOUS
  <2>5. total[V] = (CHOOSE t : Sums(t, f, V))[V]
    BY <2>1, <2>2, <2>3, <2>4, SumsAgree
  <2> QED BY <2>2, <2>5, SumIsLast
<1>2. PICK a \in [SUBSET S -> Int] : Sums(a, f, S) /\ SumFunctionOnSet(f, S) = a[S]
  BY <1>1
<1>3. a[S] \in Int
  OBVIOUS
<1>4. S = {} => a[S] = 0
  BY <1>2 DEF Sums
<1>5. ASSUME S # {} PROVE a[S] = f[Chosen(S)] + SumFunctionOnSet(f, S \ {Chosen(S)})
  <2> DEFINE V == S \ {Chosen(S)}
  <2>1. V \in SUBSET V /\ V \subseteq S
    OBVIOUS
  <2>2. PICK b \in [SUBSET V -> Int] : Sums(b, f, V) /\ SumFunctionOnSet(f, V) = b[V]
    <3> HIDE DEF V
    <3> QED BY <2>1, <1>1
  <2>3. IsFiniteSet(V)
    BY <2>1, FS_Subset
  <2>4. a[V] = b[V]
    <3> HIDE DEF V
    <3> QED BY <2>1, <2>2, <2>3, <1>2, SumsAgree
  <2>5. a[S] = f[Chosen(S)] + a[V]
    BY <1>2, <1>5 DEF Sums
  <2> QED BY <2>2, <2>4, <2>5
<1> QED BY <1>2, <1>3, <1>4, <1>5

(* In whatever order the elements are taken.                               *)
LEMMA SumOneOut ==
  ASSUME NEW f, NEW S, IsFiniteSet(S), \A x \in S : f[x] \in Int, NEW e \in S
  PROVE  SumFunctionOnSet(f, S) = f[e] + SumFunctionOnSet(f, S \ {e})
<1> DEFINE Sum(s) == SumFunctionOnSet(f, s)
           T == {U \in SUBSET S : \E x \in U : Sum(U) # f[x] + Sum(U \ {x})}
<1> SUFFICES ASSUME T # {} PROVE FALSE
  OBVIOUS
<1>1. PICK A \in T : \A B \in T : B \subseteq A => B = A
  <2> HIDE DEF T
  <2>1. T \in SUBSET SUBSET S
    BY DEF T
  <2> QED BY <2>1, SmallestSubset
<1>2. PICK x \in A : A \in SUBSET S /\ Sum(A) # f[x] + Sum(A \ {x})
  OBVIOUS
<1> DEFINE p == Chosen(A)
<1>3. p \in A
  BY <1>2 DEF Chosen
<1>4. \A U \in SUBSET S : IsFiniteSet(U) /\ Sum(U) \in Int
  <2> SUFFICES ASSUME NEW U \in SUBSET S PROVE IsFiniteSet(U) /\ Sum(U) \in Int
    OBVIOUS
  <2>1. IsFiniteSet(U)
    BY FS_Subset
  <2> QED BY <2>1, SumUnfolds
<1>5. Sum(A) = f[p] + Sum(A \ {p})
  BY <1>2, <1>4, SumUnfolds
<1>6. p # x
  BY <1>2, <1>5
<1>7. \A y, z \in A : y # z => Sum(A \ {y}) = f[z] + Sum((A \ {y}) \ {z})
  <2> HIDE DEF p, Sum
  <2> SUFFICES ASSUME NEW y \in A, NEW z \in A, y # z
               PROVE  Sum(A \ {y}) = f[z] + Sum((A \ {y}) \ {z})
    OBVIOUS
  <2>1. A \ {y} \notin T
    <3>1. A \ {y} \subseteq A /\ A \ {y} # A
      OBVIOUS
    <3> QED BY <1>1, <3>1
  <2>2. A \ {y} \in SUBSET S /\ z \in A \ {y}
    BY <1>2
  <2> QED BY <2>1, <2>2
<1>8. (A \ {p}) \ {x} = (A \ {x}) \ {p}
  OBVIOUS
<1>9. /\ Sum(A \ {p}) = f[x] + Sum((A \ {x}) \ {p})
      /\ Sum(A \ {x}) = f[p] + Sum((A \ {x}) \ {p})
  <2> HIDE DEF p, Sum
  <2> QED BY <1>7, <1>8, <1>3, <1>2, <1>6
<1>10. f[x] \in Int /\ f[p] \in Int /\ Sum((A \ {x}) \ {p}) \in Int
  BY <1>2, <1>3, <1>4
<1> QED
  <2> HIDE DEF p, Sum
  <2> QED BY <1>2, <1>5, <1>9, <1>10

(* Two sums differ by the sum of the differences.                          *)
LEMMA SumOfDifferences ==
  ASSUME NEW S, IsFiniteSet(S), NEW f, NEW g, \A x \in S : f[x] \in Int /\ g[x] \in Int,
         NEW R \in SUBSET S, NEW d, \A x \in R : d[x] = g[x] - f[x],
         \A x \in S \ R : g[x] = f[x]
  PROVE  SumFunctionOnSet(g, S) = SumFunctionOnSet(f, S) + SumFunctionOnSet(d, R)
<1> DEFINE T == {U \in SUBSET S : SumFunctionOnSet(g, U) #
                   SumFunctionOnSet(f, U) + SumFunctionOnSet(d, R \cap U)}
<1> SUFFICES ASSUME T # {} PROVE FALSE
  <2>1. S \in SUBSET S /\ R \cap S = R
    OBVIOUS
  <2>2. T = {} => SumFunctionOnSet(g, S) = SumFunctionOnSet(f, S) + SumFunctionOnSet(d, R \cap S)
    BY <2>1
  <2> QED BY <2>1, <2>2
<1>1. PICK A \in T : \A B \in T : B \subseteq A => B = A
  <2> HIDE DEF T
  <2>1. T \in SUBSET SUBSET S
    BY DEF T
  <2> QED BY <2>1, SmallestSubset
<1>2. /\ A \in SUBSET S
      /\ SumFunctionOnSet(g, A) # SumFunctionOnSet(f, A) + SumFunctionOnSet(d, R \cap A)
  OBVIOUS
<1>3. \A U \in SUBSET S :
        /\ IsFiniteSet(U) /\ IsFiniteSet(R \cap U)
        /\ SumFunctionOnSet(f, U) \in Int /\ SumFunctionOnSet(g, U) \in Int
        /\ SumFunctionOnSet(d, R \cap U) \in Int
        /\ \A x \in R \cap U : d[x] \in Int
  <2> SUFFICES ASSUME NEW U \in SUBSET S
               PROVE  /\ IsFiniteSet(U) /\ IsFiniteSet(R \cap U)
                      /\ SumFunctionOnSet(f, U) \in Int /\ SumFunctionOnSet(g, U) \in Int
                      /\ SumFunctionOnSet(d, R \cap U) \in Int
                      /\ \A x \in R \cap U : d[x] \in Int
    OBVIOUS
  <2>1. IsFiniteSet(U) /\ IsFiniteSet(R \cap U)
    <3>1. R \cap U \in SUBSET S
      OBVIOUS
    <3> QED BY <3>1, FS_Subset
  <2>2. SumFunctionOnSet(f, U) \in Int /\ SumFunctionOnSet(g, U) \in Int
    BY <2>1, SumUnfolds
  <2>3. \A x \in R \cap U : d[x] \in Int
    OBVIOUS
  <2> QED BY <2>1, <2>2, <2>3, SumUnfolds
<1>4. A # {}
  <2> SUFFICES ASSUME A = {} PROVE FALSE
    OBVIOUS
  <2>1. R \cap A = {}
    OBVIOUS
  <2>2. SumFunctionOnSet(g, A) = 0 /\ SumFunctionOnSet(f, A) = 0
    BY <1>2, <1>3, SumUnfolds
  <2>3. SumFunctionOnSet(d, R \cap A) = 0
    BY <2>1, <1>2, <1>3, SumUnfolds
  <2> QED BY <1>2, <2>2, <2>3
<1>5. PICK x \in A : TRUE
  BY <1>4
<1> DEFINE B == A \ {x}
<1>6. B \in SUBSET S /\ B \subseteq A /\ B # A
  OBVIOUS
<1>7. SumFunctionOnSet(g, B) = SumFunctionOnSet(f, B) + SumFunctionOnSet(d, R \cap B)
  BY <1>1, <1>6
<1>8. /\ SumFunctionOnSet(g, A) = g[x] + SumFunctionOnSet(g, B)
      /\ SumFunctionOnSet(f, A) = f[x] + SumFunctionOnSet(f, B)
  BY <1>2, <1>3, SumOneOut
<1>9. CASE x \in R
  <2>1. x \in R \cap A /\ (R \cap A) \ {x} = R \cap B
    BY <1>9
  <2>2. SumFunctionOnSet(d, R \cap A) = d[x] + SumFunctionOnSet(d, (R \cap A) \ {x})
    BY <2>1, <1>2, <1>3, SumOneOut
  <2>3. d[x] = g[x] - f[x] /\ g[x] \in Int /\ f[x] \in Int
    BY <1>9, <1>2
  <2> HIDE DEF B
  <2> QED BY <2>1, <2>2, <2>3, <1>2, <1>3, <1>6, <1>7, <1>8
<1>10. CASE x \notin R
  <2>1. R \cap A = R \cap B
    BY <1>10
  <2>2. g[x] = f[x] /\ f[x] \in Int
    BY <1>10, <1>2
  <2> HIDE DEF B
  <2>3. SumFunctionOnSet(d, R \cap A) = SumFunctionOnSet(d, R \cap B)
    BY <2>1, Zenon
  <2> HIDE DEF T
  <2>4. SumFunctionOnSet(f, B) \in Int /\ SumFunctionOnSet(d, R \cap B) \in Int
    BY <1>3, <1>6
  <2> QED BY <2>2, <2>3, <2>4, <1>2, <1>7, <1>8
<1> QED BY <1>9, <1>10

-----------------------------------------------------------------------------
(* Placer implements Placement.                                            *)
LEMMA FiniteImage ==
  ASSUME NEW S, IsFiniteSet(S), NEW f
  PROVE  IsFiniteSet({f[x] : x \in S})
<1> DEFINE T == {f[x] : x \in S}
           g == [x \in S |-> f[x]]
<1>1. g \in Surjection(S, T)
  BY DEF Surjection
<1> HIDE DEF g
<1> QED BY <1>1, FS_Surjection

LEMMA SpreadInt ==
  ASSUME NEW S, \A x \in S : x \in Int, IsFiniteSet(S), S # {}
  PROVE  Spread(S) \in Int
<1>1. PICK high \in S : \A y \in S : y <= high
  BY Largest
<1>2. PICK low \in S : \A y \in S : low <= y
  <2> DEFINE f == [x \in S |-> 0 - x]
             T == {f[x] : x \in S}
  <2>1. IsFiniteSet(T)
    BY FiniteImage
  <2>2. (\A x \in T : x \in Int) /\ T # {}
    OBVIOUS
  <2> HIDE DEF T
  <2>3. PICK m \in T : \A y \in T : y <= m
    BY <2>1, <2>2, Largest
  <2>4. PICK x \in S : m = 0 - x
    BY DEF T
  <2>5. \A y \in S : 0 - y \in T
    BY DEF T
  <2> QED BY <2>3, <2>4, <2>5
<1>3. high - low \in {a - b : a, b \in S} /\ \A a, b \in S : a - b <= high - low
  BY <1>1, <1>2
<1>4. Spread(S) \in {a - b : a, b \in S}
  BY <1>3 DEF Spread
<1> QED BY <1>4

LEMMA LengthInt ==
  ASSUME design \in Designs, NEW gc \in [Gate -> Cell], NEW w \in Net
  PROVE  NetLength(design, gc, w) \in Int
<1>1. design.net_gates[w] \subseteq Gate
  BY DesignFacts
<1>2. IsFiniteSet(design.net_gates[w])
  <2>1. NGate \in Nat
    BY ChipAssumption
  <2>2. IsFiniteSet(1 .. NGate)
    BY <2>1, FS_Interval
  <2> QED BY <1>1, <2>2, FS_Subset DEF Gate
<1>3. \A g \in design.net_gates[w] : gc[g][1] \in Int /\ gc[g][2] \in Int
  BY <1>1, ChipAssumption
<1> DEFINE xs == {gc[g][1] : g \in design.net_gates[w]}
           ys == {gc[g][2] : g \in design.net_gates[w]}
<1>4. IsFiniteSet(xs) /\ IsFiniteSet(ys)
  <2> DEFINE f == [g \in Gate |-> gc[g][1]]
             h == [g \in Gate |-> gc[g][2]]
  <2>1. xs = {f[g] : g \in design.net_gates[w]} /\ ys = {h[g] : g \in design.net_gates[w]}
    BY <1>1
  <2> HIDE DEF f, h, xs, ys
  <2> QED BY <1>2, <2>1, FiniteImage
<1>5. (\A x \in xs : x \in Int) /\ (\A y \in ys : y \in Int)
  BY <1>3
<1>6. CASE w \in design.net_global \/ design.net_gates[w] = {}
  BY <1>6 DEF NetLength
<1>7. CASE ~(w \in design.net_global \/ design.net_gates[w] = {})
  <2>1. xs # {} /\ ys # {}
    BY <1>7
  <2>2. NetLength(design, gc, w) = Spread(xs) + Spread(ys)
    BY <1>7 DEF NetLength
  <2> HIDE DEF xs, ys
  <2>3. Spread(xs) \in Int /\ Spread(ys) \in Int
    BY <1>4, <1>5, <2>1, SpreadInt
  <2> QED BY <2>2, <2>3
<1> QED BY <1>6, <1>7

(* What delta is compared with: by how much the move lengthens the wires.  *)
Lengthening ==
  [w \in recompute |-> NetLength(design, gate_cell, w) - NetLength(design, SavedGateCell, w)]
DeltaInv == pc = "judge" => delta = SumFunctionOnSet(Lengthening, recompute)

LEMMA EvaluateDelta ==
  ASSUME PlacerInv, Evaluate
  PROVE  DeltaInv'
<1> DEFINE new == [w \in recompute |-> NetLength(design, gate_cell, w)]
<1>1. /\ pc = "decide" /\ UNCHANGED <<design, gate_cell, restore_cell, recompute>>
      /\ delta' = SumFunction([w \in recompute |-> new[w] - net_length[w]])
  BY DEF Evaluate, placeVars, saveVars
<1>2. recompute \subseteq Net /\ restore_net_length = {} /\ Measured(SavedNetLength, SavedGateCell)
  BY <1>1 DEF PlacerInv, MoveInv, Moving, Remeasured, Marked, Undoable
<1>3. \A w \in recompute : net_length[w] = NetLength(design, SavedGateCell, w)
  <2>1. SavedNetLength = [w \in Net |-> net_length[w]]
    BY <1>2 DEF SavedNetLength
  <2> QED BY <2>1, <1>2 DEF Measured
<1>4. [w \in recompute |-> new[w] - net_length[w]] = Lengthening
  BY <1>3 DEF Lengthening
<1>5. Lengthening' = Lengthening
  BY <1>1 DEF Lengthening, SavedGateCell, NetLength
<1>6. DOMAIN Lengthening = recompute
  BY DEF Lengthening
<1>7. delta' = SumFunctionOnSet(Lengthening, recompute)
  BY <1>1, <1>4, <1>6 DEF SumFunction
<1> QED BY <1>1, <1>5, <1>7 DEF DeltaInv

LEMMA DeltaNext ==
  ASSUME PlacerInv, DeltaInv, [Next]_vars
  PROVE  DeltaInv'
<1>1. CASE Evaluate
  BY <1>1, EvaluateDelta
<1>2. CASE UNCHANGED vars
  <2>1. UNCHANGED <<pc, delta, design, gate_cell, restore_cell, recompute>>
    BY <1>2 DEF vars
  <2>2. Lengthening' = Lengthening
    BY <2>1 DEF Lengthening, SavedGateCell, NetLength
  <2> QED BY <2>1, <2>2 DEF DeltaInv
<1>3. CASE Next /\ ~Evaluate
  <2>1. pc' # "judge"
    BY <1>3 DEF Next, PlaceChain, PlaceLocked, PlaceGate, AllPlaced, TryMove, MoveGate, BeginChain,
                MoveChainCell, Reject, Accept, AcceptIf, Refuse, Cool, Failed, vars
  <2> QED BY SMTT(30), <2>1 DEF DeltaInv
<1> QED BY <1>1, <1>2, <1>3

(* The words of module Placement mean what they mean here.                 *)
LEMMA AbstractLength ==
  ASSUME NEW D, NEW gc, NEW w
  PROVE  Abstract!NetLength(D, gc, w) = NetLength(D, gc, w)
BY DEF Abstract!NetLength, NetLength, Abstract!Spread, Spread

LEMMA AbstractSum ==
  ASSUME NEW f
  PROVE  Abstract!SumFunction(f) = SumFunctionOnSet(f, DOMAIN f)
BY DEF Abstract!SumFunction, Abstract!SumFunctionOnSet, Abstract!FoldFunctionOnSet,
       Abstract!MapThenFoldSet, SumFunctionOnSet, FoldFunctionOnSet, MapThenFoldSet

LEMMA AbstractWireLength ==
  Abstract!WireLength = SumFunctionOnSet([w \in Net |-> NetLength(design, Committed, w)], Net)
<1> DEFINE f == [w \in Net |-> NetLength(design, Committed, w)]
<1>1. [w \in Abstract!Net |-> Abstract!NetLength(design, Committed, w)] = f
  BY AbstractLength DEF Abstract!Net, Net
<1>2. DOMAIN f = Net
  OBVIOUS
<1>3. Abstract!WireLength = Abstract!SumFunction([w \in Abstract!Net |-> Abstract!NetLength(design, Committed, w)])
  BY DEF Abstract!WireLength
<1> HIDE DEF f
<1>4. Abstract!WireLength = SumFunctionOnSet(f, DOMAIN f)
  BY <1>1, <1>3, AbstractSum
<1> QED BY <1>2, <1>4 DEF f

(* What restore() would bring back is a placement in the abstract sense.   *)
LegalInv == pc \in Moving => Abstract!IsPlacement

LEMMA PlacementLegal == PlacerInv => LegalInv
<1> SUFFICES ASSUME PlacerInv, pc \in Moving PROVE Abstract!IsPlacement
  BY DEF LegalInv
<1> DEFINE gc == SavedGateCell
<1>1. /\ design \in Designs /\ Agree(SavedCellGate, gc) /\ Shape(gc) /\ LockedAt(gc)
  BY DEF PlacerInv, MoveInv, Undoable
<1>2. Committed = gc
  BY DEF Committed
<1>3. Abstract!OneToOne
  BY <1>1, <1>2 DEF Abstract!OneToOne, Abstract!Gate, Gate, Agree
<1>4. Abstract!OnItsCells
  BY <1>1, <1>2 DEF Abstract!OnItsCells, Abstract!Gate, Gate, Abstract!Cell, Cell, Agree, Shape, Type
<1>5. Abstract!ChainsIntact
  BY <1>1, <1>2 DEF Abstract!ChainsIntact, Shape, Base, ChainCell, Chain
<1>6. Abstract!LockedStay
  BY <1>1, <1>2 DEF Abstract!LockedStay, Abstract!Locked, LockedAt, Locked
<1> QED BY <1>3, <1>4, <1>5, <1>6 DEF Abstract!IsPlacement

abstractVars == <<design, Committed, pc \in Moving, hot>>

(* Steps before all gates have a cell, and steps that neither keep nor     *)
(* change what restore() would bring back.                                 *)
LEMMA StuttersBefore ==
  ASSUME pc \notin Moving, pc' \notin Moving, UNCHANGED <<design, hot>>
  PROVE  UNCHANGED abstractVars
BY DEF abstractVars, Committed

LEMMA StuttersMoving ==
  ASSUME pc \in Moving, pc' \in Moving, SavedGateCell' = SavedGateCell, UNCHANGED <<design, hot>>
  PROVE  UNCHANGED abstractVars
BY DEF abstractVars, Committed

(* Once nothing is saved any more, the placement is the one committed.     *)
LEMMA NothingSavedNext ==
  ASSUME restore_cell' = <<>>, gate_cell' \in [Gate -> Cell]
  PROVE  SavedGateCell' = gate_cell'
<1>1. (DOMAIN restore_cell)' = {}
  OBVIOUS
<1>2. SavedGateCell' = [g \in Gate |-> gate_cell'[g]]
  BY <1>1, Zenon DEF SavedGateCell
<1> QED BY <1>2

LEMMA CompleteRefines ==
  ASSUME PlacerInv, AllPlaced, LegalInv'
  PROVE  Abstract!Complete
<1>1. /\ pc = "free" /\ pc' = "idle" /\ UNCHANGED <<design, hot>>
  BY DEF AllPlaced
<1>2. pc \notin Moving /\ pc' \in Moving
  BY <1>1 DEF Moving
<1> QED BY <1>1, <1>2 DEF LegalInv, Abstract!Complete

LEMMA RestoreRefines ==
  ASSUME PlacerInv, pc \in {"decide", "judge"}, Restore, Discard, pc' = "idle", UNCHANGED <<design, hot>>
  PROVE  UNCHANGED abstractVars
<1>1. gate_cell' = SavedGateCell /\ restore_cell' = <<>>
  BY DEF Restore, Discard
<1>2. SavedGateCell \in [Gate -> Cell] /\ pc \in Moving /\ pc' \in Moving
  BY DEF PlacerInv, MoveInv, Moving, Undoable, Agree
<1>3. SavedGateCell' = SavedGateCell
  BY <1>1, <1>2, NothingSavedNext
<1> QED BY <1>2, <1>3, StuttersMoving

(* A move that is kept shortens the wires by -delta.                       *)
LEMMA AcceptRefines ==
  ASSUME PlacerInv, DeltaInv, LegalInv', Accept
  PROVE  Abstract!Move \/ UNCHANGED abstractVars
<1>1. /\ pc = "judge" /\ pc' = "idle" /\ (delta < 0 \/ hot) /\ restore_cell' = <<>>
      /\ UNCHANGED <<design, gate_cell, hot>>
  BY DEF Accept, AcceptIf, Discard, placeVars
<1>2. /\ pc \in Moving /\ pc' \in Moving /\ design \in Designs
      /\ gate_cell \in [Gate -> Cell] /\ SavedGateCell \in [Gate -> Cell] /\ Marked
  BY <1>1 DEF PlacerInv, MoveInv, Moving, Remeasured, Undoable, Agree
<1>3. Committed = SavedGateCell /\ Committed' = gate_cell
  BY <1>1, <1>2, NothingSavedNext DEF Committed
<1>4. CASE gate_cell = SavedGateCell
  BY <1>1, <1>2, <1>3, <1>4 DEF abstractVars
<1>5. CASE gate_cell # SavedGateCell
  <2> DEFINE f == [w \in Net |-> NetLength(design, SavedGateCell, w)]
             g == [w \in Net |-> NetLength(design, gate_cell, w)]
  <2>1. Abstract!WireLength = SumFunctionOnSet(f, Net)
    BY <1>3, AbstractWireLength
  <2>2. Abstract!WireLength' = SumFunctionOnSet(g, Net)
    <3>1. [w \in Abstract!Net |-> Abstract!NetLength(design, Committed, w)]' = g
      <4>1. [w \in Abstract!Net |-> Abstract!NetLength(design, Committed, w)]'
              = [w \in Net |-> Abstract!NetLength(design, gate_cell, w)]
        BY <1>1, <1>3 DEF Abstract!Net, Net, Abstract!NetLength, Abstract!Spread
      <4> QED BY <4>1, AbstractLength
    <3>2. DOMAIN g = Net
      OBVIOUS
    <3>3. Abstract!WireLength'
            = Abstract!SumFunction([w \in Abstract!Net |-> Abstract!NetLength(design, Committed, w)]')
      BY DEF Abstract!WireLength
    <3> HIDE DEF g
    <3> QED BY <3>1, <3>2, <3>3, AbstractSum
  <2>3. IsFiniteSet(Net)
    BY ChipAssumption, FS_Interval DEF Net
  <2>4. \A w \in Net : f[w] \in Int /\ g[w] \in Int
    BY <1>2, LengthInt
  <2>5. /\ recompute \in SUBSET Net
        /\ \A w \in recompute : Lengthening[w] = g[w] - f[w]
        /\ \A w \in Net \ recompute : g[w] = f[w]
    <3>1. recompute \in SUBSET Net
      BY <1>2 DEF Marked
    <3>2. ASSUME NEW w \in Net \ recompute PROVE g[w] = f[w]
      <4>1. \A i \in design.net_gates[w] : i \in Gate /\ w \in GateNets(i)
        BY <1>2, DesignFacts DEF GateNets
      <4>2. \A i \in design.net_gates[w] : gate_cell[i] = SavedGateCell[i]
        BY <4>1, <1>2 DEF Marked
      <4> QED BY <4>2, LengthLocal
    <3>3. \A w \in recompute : Lengthening[w] = g[w] - f[w]
      BY <3>1 DEF Lengthening
    <3> QED BY <3>1, <3>2, <3>3
  <2>6. SumFunctionOnSet(g, Net) = SumFunctionOnSet(f, Net) + delta
    <3>1. delta = SumFunctionOnSet(Lengthening, recompute)
      BY <1>1 DEF DeltaInv
    <3> HIDE DEF f, g
    <3>2. SumFunctionOnSet(g, Net) = SumFunctionOnSet(f, Net) + SumFunctionOnSet(Lengthening, recompute)
      BY <2>3, <2>4, <2>5, SumOfDifferences
    <3> QED BY <3>1, <3>2
  <2>7. SumFunctionOnSet(f, Net) \in Int /\ delta \in Int
    <3> HIDE DEF f, g
    <3>1. SumFunctionOnSet(f, Net) \in Int
      BY <2>3, <2>4, SumUnfolds
    <3>2. IsFiniteSet(recompute) /\ \A w \in recompute : Lengthening[w] \in Int
      BY <2>3, <2>4, <2>5, FS_Subset
    <3>3. SumFunctionOnSet(Lengthening, recompute) \in Int
      BY <3>2, SumUnfolds
    <3> QED BY <3>1, <3>3, <1>1 DEF DeltaInv
  <2> HIDE DEF f, g
  <2>8. hot \/ Abstract!WireLength' < Abstract!WireLength
    BY <1>1, <2>1, <2>2, <2>6, <2>7
  <2>9. Abstract!IsPlacement'
    BY <1>2 DEF LegalInv
  <2> QED BY <1>1, <1>2, <1>3, <1>5, <2>8, <2>9 DEF Abstract!Move
<1> QED BY <1>4, <1>5

LEMMA NextRefines ==
  ASSUME PlacerInv, DeltaInv, LegalInv', [Next]_vars
  PROVE  Abstract!Next \/ UNCHANGED abstractVars
<1>1. CASE PlaceChain \/ PlaceLocked \/ \E g \in Waiting : PlaceGate(g)
  BY <1>1, StuttersBefore DEF PlaceChain, PlaceLocked, PlaceGate, Moving
<1>2. CASE AllPlaced
  BY <1>2, CompleteRefines DEF Abstract!Next
<1>3. CASE TryMove
  <2>1. ASSUME NEW g \in FreeGates, NEW e \in CellsOf(g), MoveGate(g, e)
        PROVE  UNCHANGED abstractVars
    BY <2>1, MoveGateInv, StuttersMoving DEF MoveGate, Moving
  <2>2. ASSUME NEW c \in Chain, NEW x \in Columns, NEW y \in 1 .. LastRow, BeginChain(c, x, y)
        PROVE  UNCHANGED abstractVars
    <3>1. /\ pc \in Moving /\ pc' \in Moving
          /\ UNCHANGED <<design, hot, placeVars, net_length, restore_net_length, saveVars>>
      BY <2>2 DEF BeginChain, Moving
    <3>2. SavedGateCell' = SavedGateCell
      BY <3>1 DEF SavedGateCell, placeVars, saveVars
    <3> QED BY <3>1, <3>2, StuttersMoving
  <2> QED BY <1>3, <2>1, <2>2, ColumnFacts DEF TryMove
<1>4. CASE MoveChainCell
  BY <1>4, MoveChainCellInv, StuttersMoving DEF MoveChainCell, Moving
<1>5. CASE Reject
  BY <1>5, RestoreRefines DEF Reject
<1>6. CASE Evaluate
  <2>1. pc \in Moving /\ pc' \in Moving /\ UNCHANGED <<design, hot, gate_cell, restore_cell>>
    BY <1>6 DEF Evaluate, Moving, placeVars, saveVars
  <2>2. SavedGateCell' = SavedGateCell
    BY <2>1 DEF SavedGateCell
  <2> QED BY <2>1, <2>2, StuttersMoving
<1>7. CASE Accept
  BY <1>7, AcceptRefines DEF Abstract!Next
<1>8. CASE Refuse
  BY <1>8, RestoreRefines DEF Refuse
<1>9. CASE Cool
  <2>1. hot /\ hot' = FALSE /\ UNCHANGED <<design, pc, gate_cell, restore_cell>>
    BY <1>9 DEF Cool, placeVars, saveVars
  <2>2. Committed' = Committed
    BY <2>1 DEF Committed, SavedGateCell
  <2> QED BY <2>1, <2>2 DEF Abstract!Cool, Abstract!Next
<1>10. CASE Failed \/ UNCHANGED vars
  BY <1>10 DEF Failed, vars, abstractVars, Committed, SavedGateCell
<1> QED BY <1>1, <1>2, <1>3, <1>4, <1>5, <1>6, <1>7, <1>8, <1>9, <1>10 DEF Next

LEMMA InitRefines ==
  ASSUME Init
  PROVE  Abstract!Init /\ DeltaInv
BY DEF Init, Abstract!Init, DeltaInv, Moving

(* Whatever moves are tried, kept and undone: the placement changes from   *)
(* one complete and legal placement to another, chains stay whole,         *)
(* preplaced gates stay, and below the critical temperature every change   *)
(* shortens the wires, although only differences of a few nets are added.  *)
THEOREM PlacerImplementsPlacement == Spec => ImplementsPlacement
<1>1. Init => Abstract!Init /\ DeltaInv
  BY InitRefines
<1>2. PlacerInv /\ DeltaInv /\ [Next]_vars => DeltaInv'
  BY DeltaNext
<1>3. PlacerInv => LegalInv
  BY PlacementLegal
<1>4. PlacerInv /\ DeltaInv /\ LegalInv' /\ [Next]_vars
        => [Abstract!Next]_<<design, Committed, pc \in Moving, hot>>
  BY NextRefines DEF abstractVars
<1> QED BY <1>1, <1>2, <1>3, <1>4, PlacerInvariant, PTL DEF Spec, ImplementsPlacement, Abstract!Spec

-----------------------------------------------------------------------------
(* Conflicts of gates, and the tiles where valid() sees them.              *)
LEMMA WithRelatedSelf ==
  ASSUME NEW t
  PROVE  t \in WithRelated(t)
BY DEF WithRelated

(* The disjuncts of Clash.                                                 *)
Disagree(g, h, f) ==
  design.inst[g][f] # 0 /\ design.inst[h][f] # 0 /\ design.inst[g][f] # design.inst[h][f]
LogicClash(gc, g, h) ==
  /\ TileOf(gc[g]) = TileOf(gc[h]) /\ design.inst[g].type = "LOGIC" /\ design.inst[h].type = "LOGIC"
  /\ \/ design.inst[g].neg_clk # design.inst[h].neg_clk
     \/ \E f \in {"clk", "sr", "cen"} : Disagree(g, h, f)
PadClash(gc, g, h) ==
  /\ TileOf(gc[g]) = TileOf(gc[h]) /\ design.inst[g].type = "IO" /\ design.inst[h].type = "IO"
  /\ \/ design.inst[g].lvds \/ design.inst[h].lvds
     \/ design.inst[g].neg_trigger # design.inst[h].neg_trigger
     \/ \E f \in {"cen", "inclk", "outclk"} : Disagree(g, h, f)
BufferClash(gc, g, h) ==
  /\ TileOf(gc[g]) = TileOf(gc[h]) /\ design.inst[g].type = "GB" /\ design.inst[h].type = "IO"
  /\ design.inst[h].gb_io
DriverClash(gc, g, h) ==
  \E glb \in 0 .. 7 : /\ gc[g] \in GlobalCells(glb) /\ DrivesGlobal(design, g, gc[g], glb)
                      /\ gc[h] \in GlobalCells(glb) /\ DrivesGlobal(design, h, gc[h], glb)
PLLClash(gc, g, h) ==
  /\ design.inst[g].type = "PLL" /\ design.inst[h].type = "IO" /\ design.inst[h].d_in
  /\ \/ gc[h] = chipdb.pllout[gc[g]].a
     \/ design.inst[g].two /\ gc[h] = chipdb.pllout[gc[g]].b
BusClash(gc, g) ==
  design.inst[g].type \in {"I2C", "SPI"} /\ chipdb.bus_addr[gc[g]] # design.inst[g].bus_addr

LEMMA ClashCases ==
  ASSUME NEW gc, NEW g, NEW h
  PROVE  Clash(gc, g, h) <=>
           \/ LogicClash(gc, g, h) \/ PadClash(gc, g, h) \/ BufferClash(gc, g, h)
           \/ DriverClash(gc, g, h) \/ PLLClash(gc, g, h) \/ BusClash(gc, g)
BY DEF Clash, LogicClash, PadClash, BufferClash, DriverClash, PLLClash, BusClash, Disagree

(* A placement of every gate on a cell of its type.                        *)
Typed(cg, gc) == Agree(cg, gc) /\ \A g \in Gate : chipdb.cell_type[gc[g]] = Type(g)

LEMMA CellParts ==
  ASSUME NEW c \in Cell
  PROVE  c = <<c[1], c[2], c[3]>> /\ c[3] \in Int /\ TileOf(c) = <<c[1], c[2]>>
BY ChipAssumption DEF TileOf

LEMMA SameTile ==
  ASSUME NEW cg, NEW gc, Typed(cg, gc), NEW g \in Gate, NEW h \in Gate, g # h,
         TileOf(gc[g]) = TileOf(gc[h])
  PROVE  gc[g][3] # gc[h][3]
<1>1. gc[g] \in Cell /\ gc[h] \in Cell /\ cg[gc[g]] = g /\ cg[gc[h]] = h
  BY DEF Typed, Agree
<1>2. /\ gc[g] = <<gc[g][1], gc[g][2], gc[g][3]>> /\ gc[h] = <<gc[h][1], gc[h][2], gc[h][3]>>
      /\ gc[g][1] = gc[h][1] /\ gc[g][2] = gc[h][2]
  BY <1>1, CellParts
<1> QED BY <1>1, <1>2

LEMMA LogicClashSeen ==
  ASSUME NEW cg, NEW gc, Typed(cg, gc), NEW g \in Gate, NEW h \in Gate, g # h, LogicClash(gc, g, h)
  PROVE  ~Valid(design, cg, TileOf(gc[g]))
<1> DEFINE c == gc[g]
           e == gc[h]
           t == TileOf(c)
           cells == {d \in {<<t[1], t[2], p>> : p \in 0 .. TileSize - 1} : cg[d] # 0}
<1>1. /\ c \in Cell /\ e \in Cell /\ cg[c] = g /\ cg[e] = h /\ g # 0 /\ h # 0
      /\ chipdb.cell_type[c] = "LOGIC" /\ chipdb.cell_type[e] = "LOGIC"
  BY DEF Typed, Agree, LogicClash, Type, Gate
<1>2. /\ c[3] \in 0 .. TileSize - 1 /\ e[3] \in 0 .. TileSize - 1
      /\ chipdb.tile_type[t] = "LOGIC" /\ TileOf(e) = t
  BY <1>1, LayoutAssumption DEF LogicClash
<1>3. c \in cells /\ e \in cells
  <2>1. c = <<t[1], t[2], c[3]>> /\ e = <<t[1], t[2], e[3]>>
    BY <1>1, <1>2, CellParts
  <2> HIDE DEF c, e, t
  <2> QED BY <2>1, <1>1, <1>2
<1>4. c[3] < e[3] \/ e[3] < c[3]
  <2>1. c[3] # e[3]
    BY <1>2, SameTile
  <2> HIDE DEF c, e
  <2> QED BY <2>1, <1>2
<1>5. ASSUME ValidLogic(design, cg, t) PROVE FALSE
  <2>1. \A d1, d2 \in cells : design.inst[cg[d1]].neg_clk = design.inst[cg[d2]].neg_clk
    BY <1>5 DEF ValidLogic
  <2>2. design.inst[g].neg_clk = design.inst[h].neg_clk
    BY <2>1, <1>1, <1>3
  <2>3. \A f \in {"clk", "sr", "cen"} : OneNet(design, cg, cells, f)
    BY <1>5 DEF ValidLogic, Controls
  <2>4. ASSUME NEW f \in {"clk", "sr", "cen"}, Disagree(g, h, f) PROVE FALSE
    BY <2>3, <2>4, <1>1, <1>3, <1>4 DEF OneNet, Disagree
  <2> QED BY <2>2, <2>4 DEF LogicClash
<1> QED BY <1>2, <1>5 DEF Valid

LEMMA PadClashSeen ==
  ASSUME NEW cg, NEW gc, Typed(cg, gc), NEW g \in Gate, NEW h \in Gate, g # h, PadClash(gc, g, h)
  PROVE  ~Valid(design, cg, TileOf(gc[g]))
<1> DEFINE c == gc[g]
           e == gc[h]
           t == TileOf(c)
           pad0 == <<t[1], t[2], 0>>
           pad1 == <<t[1], t[2], 1>>
<1>1. /\ c \in Cell /\ e \in Cell /\ cg[c] = g /\ cg[e] = h /\ g # 0 /\ h # 0
      /\ chipdb.cell_type[c] = "IO" /\ chipdb.cell_type[e] = "IO"
  BY DEF Typed, Agree, PadClash, Type, Gate
<1>2. /\ c[3] \in {0, 1} /\ e[3] \in {0, 1} /\ chipdb.tile_type[t] = "IO" /\ TileOf(e) = t
  BY <1>1, LayoutAssumption DEF PadClash
<1>3. (c = pad0 /\ e = pad1) \/ (c = pad1 /\ e = pad0)
  <2>1. c = <<t[1], t[2], c[3]>> /\ e = <<t[1], t[2], e[3]>>
    BY <1>1, <1>2, CellParts
  <2>2. c[3] # e[3]
    BY <1>2, SameTile
  <2> HIDE DEF c, e, t
  <2> QED BY <2>1, <2>2, <1>2
<1>4. ASSUME ValidIO(design, cg, t) PROVE FALSE
  <2> DEFINE pads == {p \in {pad0, pad1} : GateAt(cg, p) # 0}
  <2>1. pads = {pad0, pad1}
    <3>1. GateAt(cg, c) # 0 /\ GateAt(cg, e) # 0
      BY <1>1 DEF GateAt
    <3> HIDE DEF c, e, t
    <3> QED BY <3>1, <1>3
  <2>2. /\ ~design.inst[cg[pad0]].lvds /\ ~design.inst[cg[pad1]].lvds
        /\ PadsAgree(design.inst[cg[pad0]], design.inst[cg[pad1]])
    BY <1>4, <2>1 DEF ValidIO
  <2>3. /\ ~design.inst[g].lvds /\ ~design.inst[h].lvds
        /\ \/ PadsAgree(design.inst[g], design.inst[h])
           \/ PadsAgree(design.inst[h], design.inst[g])
    <3> HIDE DEF c, e, t, pads, pad0, pad1
    <3> QED BY <2>2, <1>1, <1>3
  <2> QED BY <2>3 DEF PadClash, PadsAgree, Disagree
<1> QED BY <1>2, <1>4 DEF Valid

LEMMA BufferClashSeen ==
  ASSUME NEW cg, NEW gc, Typed(cg, gc), NEW g \in Gate, NEW h \in Gate, BufferClash(gc, g, h)
  PROVE  ~Valid(design, cg, TileOf(gc[g]))
<1> DEFINE c == gc[g]
           e == gc[h]
           t == TileOf(c)
           pad0 == <<t[1], t[2], 0>>
           pad1 == <<t[1], t[2], 1>>
<1>1. /\ c \in Cell /\ e \in Cell /\ cg[c] = g /\ cg[e] = h /\ g # 0 /\ h # 0
      /\ chipdb.cell_type[c] = "GB" /\ chipdb.cell_type[e] = "IO"
  BY DEF Typed, Agree, BufferClash, Type, Gate
<1>2. /\ c[3] = 2 /\ e[3] \in {0, 1} /\ chipdb.tile_type[t] = "IO" /\ TileOf(e) = t
  BY <1>1, LayoutAssumption DEF BufferClash
<1>3. c = <<t[1], t[2], 2>> /\ e \in {pad0, pad1}
  <2>1. c = <<t[1], t[2], c[3]>> /\ e = <<t[1], t[2], e[3]>>
    BY <1>1, <1>2, CellParts
  <2> HIDE DEF c, e, t
  <2> QED BY <2>1, <1>2
<1>4. ASSUME ValidIO(design, cg, t) PROVE FALSE
  <2> DEFINE pads == {p \in {pad0, pad1} : GateAt(cg, p) # 0}
  <2>1. GateAt(cg, c) # 0 /\ GateAt(cg, e) # 0
    BY <1>1 DEF GateAt
  <2>2. e \in pads /\ GateAt(cg, <<t[1], t[2], 2>>) # 0
    <3> HIDE DEF c, e, t
    <3> QED BY <2>1, <1>3
  <2>3. ValidBuffer(design, cg, t, pads)
    BY <1>4, <2>2 DEF ValidIO
  <2>4. ~design.inst[cg[e]].gb_io
    BY <2>2, <2>3 DEF ValidBuffer
  <2> QED BY <2>4, <1>1 DEF BufferClash
<1> QED BY <1>2, <1>4 DEF Valid

LEMMA BusClashSeen ==
  ASSUME NEW cg, NEW gc, Typed(cg, gc), NEW g \in Gate, BusClash(gc, g)
  PROVE  ~Valid(design, cg, TileOf(gc[g]))
<1>1. /\ gc[g] \in Cell /\ cg[gc[g]] = g /\ g # 0 /\ chipdb.cell_type[gc[g]] \in {"I2C", "SPI"}
  BY DEF Typed, Agree, BusClash, Type, Gate
<1>2. gc[g] \in DOMAIN chipdb.bus_addr /\ chipdb.tile_type[TileOf(gc[g])] = "EMPTY"
  BY <1>1, LayoutAssumption
<1> QED BY <1>1, <1>2 DEF Valid, ValidBus, BusClash

(* A PLL is in one of the tiles related to that of its pad.                *)
LEMMA PLLClashSeen ==
  ASSUME NEW cg, NEW gc, Typed(cg, gc), NEW g \in Gate, NEW h \in Gate, PLLClash(gc, g, h)
  PROVE  ~Valid(design, cg, TileOf(gc[g])) /\ TileOf(gc[g]) \in WithRelated(TileOf(gc[h]))
<1> DEFINE c == gc[g]
           e == gc[h]
           t == TileOf(c)
<1>1. /\ c \in Cell /\ e \in Cell /\ cg[c] = g /\ cg[e] = h /\ g # 0 /\ h # 0
      /\ chipdb.cell_type[c] = "PLL"
  BY DEF Typed, Agree, PLLClash, Type, Gate
<1>2. c[3] = 3 /\ chipdb.tile_type[t] = "IO" /\ c \in DOMAIN chipdb.pllout
  BY <1>1, LayoutAssumption
<1>3. c = <<t[1], t[2], 3>>
  BY <1>1, <1>2, CellParts
<1>4. ASSUME ValidIO(design, cg, t) PROVE FALSE
  <2>1. GateAt(cg, c) # 0
    BY <1>1 DEF GateAt
  <2>2. GateAt(cg, <<t[1], t[2], 3>>) # 0
    <3> HIDE DEF c, e, t
    <3> QED BY <2>1, <1>3
  <2>3. ValidPLL(design, cg, t)
    BY SMTT(30), <1>4, <2>2 DEF ValidIO
  <2>4. /\ cg[chipdb.pllout[c].a] # 0 => ~design.inst[cg[chipdb.pllout[c].a]].d_in
        /\ design.inst[cg[c]].two /\ cg[chipdb.pllout[c].b] # 0
             => ~design.inst[cg[chipdb.pllout[c].b]].d_in
    <3> HIDE DEF c, e, t
    <3> QED BY <2>3, <1>3 DEF ValidPLL
  <2> QED BY <2>4, <1>1 DEF PLLClash
<1>5. e \in {chipdb.pllout[c].a, chipdb.pllout[c].b}
  BY DEF PLLClash
<1>6. t \in WithRelated(TileOf(e))
  <2> HIDE DEF c, e, t
  <2>1. TileOf(e) \in {t, TileOf(chipdb.pllout[c].a), TileOf(chipdb.pllout[c].b)}
    BY <1>5
  <2> QED BY <2>1, <1>2 DEF WithRelated, t
<1> QED BY <1>2, <1>4, <1>6 DEF Valid

(* A driver of a network that is not an oscillator is looked at in its own *)
(* tile, together with all drivers of its network.                         *)
LEMMA DriverSeen ==
  ASSUME NEW cg, NEW gc, Typed(cg, gc), NEW g \in Gate, Type(g) # "OSC", NEW glb \in 0 .. 7,
         gc[g] \in GlobalCells(glb), DrivesGlobal(design, g, gc[g], glb),
         Valid(design, cg, TileOf(gc[g]))
  PROVE  ValidGlobal(design, cg, glb)
<1> DEFINE c == gc[g]
           t == TileOf(c)
           pad0 == <<t[1], t[2], 0>>
           pad1 == <<t[1], t[2], 1>>
           pads == {p \in {pad0, pad1} : GateAt(cg, p) # 0}
<1>1. /\ c \in Cell /\ cg[c] = g /\ g # 0 /\ chipdb.cell_type[c] = Type(g)
      /\ c = <<t[1], t[2], c[3]>> /\ GateAt(cg, c) # 0
  BY CellParts DEF Typed, Agree, Gate, GateAt
<1>2. \/ c \in DOMAIN chipdb.loc_pin_glb_num /\ chipdb.loc_pin_glb_num[c] = glb
      \/ c[3] = 2 /\ chipdb.gbufin[t] = glb
      \/ c \in DOMAIN chipdb.pllout
      \/ c \in DOMAIN chipdb.oscillator
  <2>1. ASSUME NEW u \in DOMAIN chipdb.gbufin, c = <<u[1], u[2], 2>>, chipdb.gbufin[u] = glb
        PROVE  c[3] = 2 /\ chipdb.gbufin[t] = glb
    <3>1. u = <<u[1], u[2]>>
      BY LayoutAssumption
    <3>2. c[3] = 2 /\ t = <<u[1], u[2]>>
      BY <2>1 DEF TileOf
    <3> QED BY <3>1, <3>2, <2>1
  <2>2. \/ c \in {d \in DOMAIN chipdb.loc_pin_glb_num : chipdb.loc_pin_glb_num[d] = glb}
        \/ c \in {<<u[1], u[2], 2>> : u \in {u \in DOMAIN chipdb.gbufin : chipdb.gbufin[u] = glb}}
        \/ c \in DOMAIN chipdb.pllout
        \/ c \in DOMAIN chipdb.oscillator
    BY DEF GlobalCells
  <2> HIDE DEF c, t
  <2> QED BY <2>1, <2>2
<1>3. /\ c \in DOMAIN chipdb.loc_pin_glb_num => Type(g) = "IO"
      /\ c \in DOMAIN chipdb.pllout => Type(g) = "PLL"
      /\ c \notin DOMAIN chipdb.oscillator
      /\ Type(g) = "IO" => chipdb.tile_type[t] = "IO" /\ c[3] \in {0, 1}
      /\ Type(g) = "GB" => chipdb.tile_type[t] = "IO" /\ c[3] = 2
      /\ Type(g) = "PLL" => chipdb.tile_type[t] = "IO" /\ c[3] = 3
  BY <1>1, LayoutAssumption
<1>4. Type(g) \in {"IO", "GB", "PLL"}
  BY DEF DrivesGlobal, Type
<1>5. ValidIO(design, cg, t)
  BY <1>3, <1>4 DEF Valid
<1>6. CASE Type(g) = "IO"
  <2>1. chipdb.loc_pin_glb_num[c] = glb /\ design.inst[g].gb_io /\ design.inst[g].gb_out
    BY <1>2, <1>3, <1>6 DEF DrivesGlobal, Type
  <2>2. c \in pads
    <3>1. c[3] \in {0, 1}
      BY <1>3, <1>6
    <3> HIDE DEF c, t
    <3> QED BY <3>1, <1>1
  <2>3. ValidPad(design, cg, c)
    BY <2>2, <1>5 DEF ValidIO
  <2> QED BY <2>1, <2>3, <1>1 DEF ValidPad
<1>7. CASE Type(g) = "GB"
  <2>1. chipdb.gbufin[t] = glb
    BY <1>2, <1>3, <1>7
  <2>2. GateAt(cg, <<t[1], t[2], 2>>) # 0
    <3>1. c[3] = 2
      BY <1>3, <1>7
    <3> HIDE DEF c, t
    <3> QED BY <3>1, <1>1
  <2>3. ValidBuffer(design, cg, t, pads)
    BY <2>2, <1>5 DEF ValidIO
  <2> QED BY <2>1, <2>3 DEF ValidBuffer
<1>8. CASE Type(g) = "PLL"
  <2>1. c = <<t[1], t[2], 3>>
    <3>1. c[3] = 3
      BY <1>3, <1>8
    <3> HIDE DEF c, t
    <3> QED BY <3>1, <1>1
  <2>2. ValidPLL(design, cg, t)
    <3>1. GateAt(cg, <<t[1], t[2], 3>>) # 0
      BY <2>1, <1>1
    <3> QED BY <3>1, <1>5 DEF ValidIO
  <2>3. \/ design.inst[g].out_a /\ chipdb.loc_pin_glb_num[chipdb.pllout[c].a] = glb
        \/ design.inst[g].out_b /\ chipdb.loc_pin_glb_num[chipdb.pllout[c].b] = glb
    BY SMTT(30), <1>8 DEF DrivesGlobal, Type
  <2>4. /\ design.inst[cg[c]].out_a
             => ValidGlobal(design, cg, chipdb.loc_pin_glb_num[chipdb.pllout[c].a])
        /\ design.inst[cg[c]].out_b
             => ValidGlobal(design, cg, chipdb.loc_pin_glb_num[chipdb.pllout[c].b])
    <3> HIDE DEF c, t
    <3> QED BY <2>1, <2>2 DEF ValidPLL
  <2> HIDE DEF c, t
  <2> QED BY <2>3, <2>4, <1>1
<1> QED BY <1>4, <1>6, <1>7, <1>8

LEMMA DriverClashSeen ==
  ASSUME NEW cg, NEW gc, Typed(cg, gc), NEW g \in Gate, NEW h \in Gate, g # h,
         DriverClash(gc, g, h), Type(g) # "OSC"
  PROVE  ~Valid(design, cg, TileOf(gc[g]))
<1>1. PICK glb \in 0 .. 7 : /\ gc[g] \in GlobalCells(glb) /\ DrivesGlobal(design, g, gc[g], glb)
                            /\ gc[h] \in GlobalCells(glb) /\ DrivesGlobal(design, h, gc[h], glb)
  BY DEF DriverClash
<1>2. cg[gc[g]] = g /\ cg[gc[h]] = h /\ g # 0 /\ h # 0
  BY DEF Typed, Agree, Gate
<1>3. ~ValidGlobal(design, cg, glb)
  BY <1>1, <1>2 DEF ValidGlobal
<1> QED BY <1>1, <1>3, DriverSeen

(* Wherever two gates are in conflict, valid() sees it in a tile related   *)
(* to the tile of each of the two; an oscillator is not looked at, and a   *)
(* wrong bus address is seen in the tile of the one gate.                  *)
LEMMA ClashSeen ==
  ASSUME NEW cg, NEW gc, Typed(cg, gc), NEW g \in Gate, NEW h \in Gate, g # h, Clash(gc, g, h)
  PROVE  /\ Type(g) = "OSC" \/ \E t \in WithRelated(TileOf(gc[g])) : ~Valid(design, cg, t)
         /\ \/ Type(h) = "OSC" \/ BusClash(gc, g)
            \/ \E t \in WithRelated(TileOf(gc[h])) : ~Valid(design, cg, t)
<1>1. TileOf(gc[g]) \in WithRelated(TileOf(gc[g])) /\ TileOf(gc[h]) \in WithRelated(TileOf(gc[h]))
  BY WithRelatedSelf
<1>2. CASE LogicClash(gc, g, h)
  BY <1>1, <1>2, LogicClashSeen DEF LogicClash
<1>3. CASE PadClash(gc, g, h)
  BY <1>1, <1>3, PadClashSeen DEF PadClash
<1>4. CASE BufferClash(gc, g, h)
  BY <1>1, <1>4, BufferClashSeen DEF BufferClash
<1>5. CASE DriverClash(gc, g, h)
  <2>1. DriverClash(gc, h, g)
    BY <1>5 DEF DriverClash
  <2> QED BY <1>1, <1>5, <2>1, DriverClashSeen
<1>6. CASE PLLClash(gc, g, h)
  BY <1>1, <1>6, PLLClashSeen
<1>7. CASE BusClash(gc, g)
  BY <1>1, <1>7, BusClashSeen
<1> QED BY <1>2, <1>3, <1>4, <1>5, <1>6, <1>7, ClashCases

-----------------------------------------------------------------------------
(* All tiles related to the cell of a gate that has moved are looked at.   *)
TilesMarked ==
  \A g \in Gate : gate_cell[g] # SavedGateCell[g] => WithRelated(TileOf(gate_cell[g])) \subseteq changed_tiles

ChangedInv ==
  /\ pc \in Moving => TilesMarked
  /\ pc = "judge" => \A t \in changed_tiles : Valid(design, cell_gate, t)

LEMMA MoveGateMarks ==
  ASSUME NEW c \in Cell, NEW e \in Cell, MoveGateFrom(c, e), TilesMarked, SavedGateCell' = SavedGateCell
  PROVE  TilesMarked'
<1>1. CASE c = e
  BY <1>1 DEF MoveGateFrom, MoveGateSeeing, placeVars, TilesMarked
<1>2. CASE c # e
  <2>1. /\ gate_cell' = [i \in Gate |-> IF i = cell_gate[c] THEN e ELSE IF i = cell_gate[e] THEN c
                                        ELSE gate_cell[i]]
        /\ changed_tiles' = changed_tiles \cup WithRelated(TileOf(c)) \cup WithRelated(TileOf(e))
    BY <1>2 DEF MoveGateFrom, MoveGateSeeing, Exchange
  <2>2. ASSUME NEW g \in Gate, gate_cell'[g] # SavedGateCell[g]
        PROVE  WithRelated(TileOf(gate_cell'[g])) \subseteq changed_tiles'
    <3>1. CASE gate_cell'[g] \in {c, e}
      BY <2>1, <3>1
    <3>2. CASE gate_cell'[g] \notin {c, e}
      <4>1. gate_cell'[g] = gate_cell[g]
        BY <2>1, <3>2
      <4> QED BY <4>1, <2>1, <2>2 DEF TilesMarked
    <3> QED BY <3>1, <3>2
  <2>3. \A g : WithRelated(TileOf(gate_cell[g]))' = WithRelated(TileOf(gate_cell'[g]))
    BY DEF WithRelated, TileOf
  <2> QED BY <2>2, <2>3 DEF TilesMarked
<1> QED BY <1>1, <1>2

LEMMA UnmovedMarks ==
  ASSUME gate_cell' = SavedGateCell'
  PROVE  TilesMarked'
BY DEF TilesMarked

LEMMA SameMarks ==
  ASSUME TilesMarked, UNCHANGED <<gate_cell, changed_tiles>>, SavedGateCell' = SavedGateCell
  PROVE  TilesMarked'
BY DEF TilesMarked, WithRelated, TileOf

LEMMA HalfMovedCells ==
  ASSUME PlacerInv, pc = "chain"
  PROVE  ChainCell(mv.x, mv.y, mv.j) \in Cell /\ ChainCell(mv.new_x, mv.new_y, mv.j) \in Cell
<1>1. design \in Designs /\ HalfMoved /\ Shape(SavedGateCell)
  BY DEF PlacerInv, MoveInv, Moving, Undoable
<1>2. PICK k \in Chain : ChainMove(k)
  BY <1>1 DEF HalfMoved
<1>3. /\ mv.tiles \in Nat
      /\ mv.x \in Columns /\ mv.y \in 1 .. LastRow - (mv.tiles - 1)
      /\ mv.new_x \in Columns /\ mv.new_y \in 1 .. LastRow - (mv.tiles - 1)
      /\ mv.j \in 1 .. mv.tiles * TileSize
  BY <1>1, <1>2, ChainMoveFacts DEF HalfMoved
<1> QED BY <1>3, ChainCells

LEMMA ChangedNext ==
  ASSUME PlacerInv, PlacerInv', ChangedInv, [Next]_vars
  PROVE  ChangedInv'
<1>1. CASE PlaceChain \/ PlaceLocked \/ \E g \in Waiting : PlaceGate(g)
  BY <1>1 DEF ChangedInv, Moving, PlaceChain, PlaceLocked, PlaceGate
<1>2. ASSUME pc' = "idle" PROVE ChangedInv'
  <2>1. restore_cell' = <<>> /\ gate_cell' \in [Gate -> Cell]
    BY <1>2 DEF PlacerInv, MoveInv, Moving, Agree
  <2> QED BY <1>2, <2>1, NothingSavedNext, UnmovedMarks DEF ChangedInv
<1>3. CASE AllPlaced \/ Reject \/ Accept \/ Refuse
  BY <1>2, <1>3 DEF AllPlaced, Reject, Accept, AcceptIf, Refuse
<1>4. CASE TryMove
  <2>1. ASSUME NEW g \in FreeGates, NEW e \in CellsOf(g), MoveGate(g, e)
        PROVE  ChangedInv'
    <3>1. pc = "idle" /\ pc' = "decide" /\ MoveGateFrom(gate_cell[g], e)
      BY <2>1 DEF MoveGate
    <3>2. gate_cell[g] \in Cell /\ e \in Cell
      BY <3>1 DEF PlacerInv, MoveInv, Moving, Agree, FreeGates, CellsOf
    <3>3. TilesMarked'
      BY <2>1, <3>1, <3>2, MoveGateInv, MoveGateMarks DEF ChangedInv, Moving
    <3> QED BY <3>1, <3>3 DEF ChangedInv
  <2>2. ASSUME NEW c \in Chain, NEW x \in Columns, NEW y \in 1 .. LastRow, BeginChain(c, x, y)
        PROVE  ChangedInv'
    <3>1. pc = "idle" /\ pc' # "judge" /\ UNCHANGED <<gate_cell, restore_cell, changed_tiles>>
      BY <2>2 DEF BeginChain, placeVars, saveVars
    <3>2. SavedGateCell' = SavedGateCell
      BY <3>1 DEF SavedGateCell
    <3> QED BY <3>1, <3>2, SameMarks DEF ChangedInv, Moving
  <2> QED BY <1>4, <2>1, <2>2, ColumnFacts DEF TryMove
<1>5. CASE MoveChainCell
  <2> DEFINE c == ChainCell(mv.x, mv.y, mv.j)
             e == ChainCell(mv.new_x, mv.new_y, mv.j)
  <2>1. pc = "chain" /\ pc' # "judge" /\ SavedGateCell' = SavedGateCell /\ TilesMarked
    BY <1>5, MoveChainCellInv DEF MoveChainCell, ChangedInv, Moving
  <2>2. \/ MoveGateFrom(c, e) \/ MoveGateFrom(e, c) \/ UNCHANGED <<placeVars, saveVars>>
    BY <1>5 DEF MoveChainCell
  <2>3. c \in Cell /\ e \in Cell
    BY <2>1, HalfMovedCells
  <2>4. TilesMarked'
    <3> HIDE DEF c, e
    <3> QED BY <2>1, <2>2, <2>3, MoveGateMarks, SameMarks DEF placeVars, saveVars
  <2> QED BY <2>1, <2>4 DEF ChangedInv
<1>6. CASE Evaluate
  <2>1. /\ pc = "decide" /\ MoveIsLegal
        /\ UNCHANGED <<design, cell_gate, gate_cell, restore_cell, changed_tiles>>
    BY <1>6 DEF Evaluate, placeVars, saveVars
  <2>2. SavedGateCell' = SavedGateCell
    BY <2>1 DEF SavedGateCell
  <2>3. TilesMarked'
    BY <2>1, <2>2, SameMarks DEF ChangedInv, Moving
  <2>4. \A t \in changed_tiles' : Valid(design, cell_gate, t)'
    <3>1. \A t \in changed_tiles : Valid(design, cell_gate, t)
      BY <2>1 DEF MoveIsLegal
    <3> QED BY <2>1, <3>1
  <2> QED BY <2>3, <2>4 DEF ChangedInv
<1>7. CASE Cool \/ Failed \/ UNCHANGED vars
  <2>1. UNCHANGED <<pc, design, cell_gate, gate_cell, restore_cell, changed_tiles>>
    BY <1>7 DEF Cool, Failed, vars, placeVars, saveVars
  <2>2. SavedGateCell' = SavedGateCell
    BY <2>1 DEF SavedGateCell
  <2>3. TilesMarked => TilesMarked'
    BY <2>1, <2>2, SameMarks
  <2> QED BY <2>1, <2>3 DEF ChangedInv
<1> QED BY <1>1, <1>3, <1>4, <1>5, <1>6, <1>7 DEF Next

(* A conflict in a kept placement was there before: else one of its gates  *)
(* has moved, and valid() would have seen it.                              *)
LEMMA KeptClash ==
  ASSUME PlacerInv, ChangedInv, pc = "judge",
         NEW g \in Gate, NEW h \in Gate, g # h, Clash(gate_cell, g, h)
  PROVE  Clash(SavedGateCell, g, h)
<1>1. /\ design \in Designs /\ Agree(cell_gate, gate_cell) /\ Shape(gate_cell)
      /\ LockedAt(gate_cell) /\ LockedAt(SavedGateCell)
      /\ TilesMarked /\ \A t \in changed_tiles : Valid(design, cell_gate, t)
  BY DEF PlacerInv, MoveInv, Moving, Undoable, ChangedInv
<1>2. Typed(cell_gate, gate_cell)
  BY <1>1 DEF Typed, Shape
<1>3. ASSUME NEW i \in Gate, gate_cell[i] # SavedGateCell[i]
      PROVE  /\ \A t \in WithRelated(TileOf(gate_cell[i])) : Valid(design, cell_gate, t)
             /\ Type(i) # "OSC"
  <2>1. i \notin Locked(design)
    BY <1>1, <1>3 DEF LockedAt
  <2>2. Type(i) # "OSC"
    BY <2>1, <1>1, DesignAssumption DEF Type
  <2> QED BY <2>2, <1>1, <1>3 DEF TilesMarked
<1>4. gate_cell[g] = SavedGateCell[g]
  BY <1>2, <1>3, ClashSeen
<1>5. gate_cell[h] = SavedGateCell[h] \/ BusClash(gate_cell, g)
  BY <1>2, <1>3, ClashSeen
<1>6. CASE gate_cell[h] = SavedGateCell[h]
  BY <1>4, <1>6 DEF Clash
<1>7. CASE BusClash(gate_cell, g)
  <2>1. BusClash(SavedGateCell, g)
    BY <1>4, <1>7 DEF BusClash
  <2> QED BY <2>1, ClashCases
<1> QED BY <1>5, <1>6, <1>7

LEMMA InitChanged == Init => ChangedInv
BY DEF Init, ChangedInv, Moving

NoNewClashStep == pc = "judge" /\ Committed' # Committed => Clashes(Committed)' \subseteq Clashes(Committed)

LEMMA KeepsApart ==
  ASSUME PlacerInv, ChangedInv, [Next]_vars
  PROVE  NoNewClashStep
<1> SUFFICES ASSUME pc = "judge", Committed' # Committed
             PROVE  Clashes(Committed)' \subseteq Clashes(Committed)
  BY DEF NoNewClashStep
<1>1. SavedGateCell \in [Gate -> Cell] /\ gate_cell \in [Gate -> Cell] /\ Committed = SavedGateCell
  BY DEF PlacerInv, MoveInv, Moving, Undoable, Agree, Committed
<1>2. CASE Accept
  <2>1. pc' \in Moving /\ restore_cell' = <<>> /\ UNCHANGED <<design, gate_cell>>
    BY <1>2 DEF Accept, AcceptIf, Discard, placeVars, Moving
  <2>2. Committed' = gate_cell
    BY <2>1, <1>1, NothingSavedNext DEF Committed
  <2>3. ASSUME NEW p \in Clashes(Committed)' PROVE p \in Clashes(Committed)
    <3>1. /\ p \in Gate \X Gate /\ p[1] # p[2] /\ Clash(Committed, p[1], p[2])'
      BY SMTT(30), <2>3 DEF Clashes
    <3>2. Clash(gate_cell, p[1], p[2])
      BY ZenonT(60), <3>1, <2>1, <2>2 DEF Clash, DrivesGlobal, GlobalCells, TileOf
    <3>3. Clash(SavedGateCell, p[1], p[2])
      BY <3>1, <3>2, KeptClash
    <3> QED BY <3>1, <3>3, <1>1 DEF Clashes
  <2> QED BY <2>3
<1>3. CASE Refuse
  <2>1. pc' = "idle" /\ UNCHANGED <<design, hot>>
    BY <1>3 DEF Refuse
  <2>2. Committed' = Committed
    BY <1>3, <2>1, RestoreRefines DEF Refuse, abstractVars
  <2> QED BY <2>2
<1>4. CASE UNCHANGED vars
  BY <1>4 DEF vars, Committed, SavedGateCell
<1>5. Accept \/ Refuse \/ UNCHANGED vars
  BY DEF Next, PlaceChain, PlaceLocked, PlaceGate, AllPlaced, TryMove, MoveGate, BeginChain,
         MoveChainCell, Reject, Evaluate, Cool, Failed
<1> QED BY <1>2, <1>3, <1>4, <1>5

(* Although only the tiles that changed, and those related to them, are    *)
(* looked at again, no move that is kept brings two gates into conflict.   *)
THEOREM MovesKeepApart == Spec => NoNewClash
<1>1. PlacerInv /\ PlacerInv' /\ ChangedInv /\ [Next]_vars => ChangedInv'
  BY ChangedNext
<1>2. PlacerInv /\ ChangedInv /\ [Next]_vars => [NoNewClashStep]_vars
  BY KeepsApart
<1>3. Spec => [][NoNewClashStep]_vars
  BY <1>1, <1>2, InitChanged, PlacerInvariant, PTL DEF Spec
<1> QED BY <1>3 DEF NoNewClash, NoNewClashStep
=============================================================================
