------------------------- MODULE Constraints_proofs -------------------------
(* Proofs about Constraints, for every chip, every design and every file.  *)
EXTENDS Constraints, FiniteSetTheorems, TLAPS

Type(g) == design.inst[g].type
Placed == DOMAIN placement
Constrained == DOMAIN net_pin_loc

(* The file names ports of the design and pins of the package, each once.  *)
FileInv ==
  /\ design \in Designs
  /\ pc \in {"parse", "pins", "plls", "rest", "done", "bad_file", "refused", "unplaced"}
  /\ Constrained \subseteq Ports
  /\ \A n \in Constrained : net_pin_loc[n] \in chipdb.loc_pin
  /\ \A n, k \in Constrained : net_pin_loc[n] = net_pin_loc[k] => n = k
  /\ pc = "pins" => Constrained = Ports
  /\ port \in Nat /\ i_inst \in Nat \ {0}

(* cell_gate is the inverse of placement, except that a second PLL takes   *)
(* the cell of the first.                                                  *)
PlacedInv ==
  /\ Placed \subseteq Gate
  /\ \A g \in Placed : /\ Type(g) \in {"IO", "PLL", "OSC"}
                       /\ placement[g] \in Cell /\ chipdb.cell_type[placement[g]] = Type(g)
                       /\ cell_gate[placement[g]] # 0
  /\ \A g, h \in Placed : placement[g] = placement[h] => g = h \/ Type(g) = "PLL"
  /\ DOMAIN cell_gate = Cell
  /\ \A c \in Cell : cell_gate[c] # 0 => cell_gate[c] \in Placed /\ placement[cell_gate[c]] = c

(* Pads, and at first PLLs, are where ports before the current one have    *)
(* their pins.                                                             *)
PinnedAt(g, n) ==
  /\ n < port /\ Gated(n) = g
  /\ placement[g] = IF Type(g) = "IO" THEN net_pin_loc[n] ELSE PLLCell(net_pin_loc[n])
OriginInv ==
  /\ pc = "parse" => Placed = {}
  /\ \A g \in Placed : Type(g) = "IO" => \E n \in Constrained : PinnedAt(g, n)
  /\ pc \in {"pins", "plls", "refused"} =>
       \A g \in Placed : Type(g) = "PLL" => \E n \in Constrained : PinnedAt(g, n)

(* What was compared for what is placed.                                   *)
Occupied == {c \in Cell : cell_gate[c] # 0}
RulesInv ==
  /\ \A g \in Placed : Type(g) = "IO" => placement[g] \in chipdb.loc_pin /\ LvdsFits(design.inst[g], placement[g])
  /\ \A g, h \in Placed :
       Type(g) = "IO" /\ Type(h) = "IO" /\ TileOf(placement[g]) = TileOf(placement[h]) =>
         g = h \/ SameControls(design.inst[g], design.inst[h])
  /\ \A c \in Occupied : chipdb.cell_type[c] = "PLL" => c \notin chipdb.pll_locked
  /\ pc \in {"rest", "done", "unplaced"} =>
       \A c \in Occupied : chipdb.cell_type[c] = "PLL" => ~PLLConflict(design.inst[cell_gate[c]], c)

(* The latch net of a bank is that of a pad there.                         *)
BankInv ==
  /\ DOMAIN bank_latch = 0 .. 3
  /\ \A b \in 0 .. 3 : bank_latch[b] # 0 =>
       \E n \in Constrained : /\ n < port /\ Type(Gated(n)) = "IO"
                              /\ bank(net_pin_loc[n]) = b /\ latch(n) = bank_latch[b]

(* The state in which the pins were refused still shows why.               *)
Misfit(n) ==
  \/ Type(Gated(n)) = "IO" /\ ~PadFits(n, net_pin_loc[n])
  \/ Type(Gated(n)) = "RGBA" /\ chipdb.rgb[design.port[n].op] # net_pin_loc[n]
  \/ Type(Gated(n)) = "PLL" /\ ~PLLAt(net_pin_loc[n])
RefusedInv ==
  pc = "refused" =>
    \/ port \in Constrained /\ Misfit(port)
    \/ \E c \in PlacedPLLs : PLLConflict(design.inst[cell_gate[c]], c)

Inv == FileInv /\ PlacedInv /\ OriginInv /\ RulesInv /\ BankInv /\ RefusedInv
-----------------------------------------------------------------------------
(* The chip and the design.                                                *)
LEMMA CellParts ==
  ASSUME NEW c \in Cell
  PROVE  c = <<c[1], c[2], c[3]>> /\ c[1] \in Int /\ c[2] \in Int /\ c[3] \in Int
BY ChipAssumption

LEMMA PadCells ==
  ASSUME NEW c \in chipdb.loc_pin
  PROVE  /\ c \in Cell /\ chipdb.cell_type[c] = "IO" /\ chipdb.tile_type[TileOf(c)] = "IO"
         /\ c[3] \in {0, 1} /\ bank(c) \in 0 .. 3
BY ChipAssumption DEF bank

LEMMA PLLCells ==
  ASSUME NEW c \in Cell, chipdb.cell_type[c] = "PLL"
  PROVE  /\ chipdb.tile_type[TileOf(c)] = "IO" /\ c[3] = 3
         /\ \A i : \A p \in PLLOutCells(i, c) : p \in Cell /\ chipdb.cell_type[p] = "IO"
<1>1. {chipdb.pllout[c].a, chipdb.pllout[c].b} \subseteq {p \in Cell : chipdb.cell_type[p] = "IO"}
  BY ChipAssumption
<1>2. \A i : PLLOutCells(i, c) \subseteq {chipdb.pllout[c].a, chipdb.pllout[c].b}
  BY DEF PLLOutCells
<1>3. chipdb.tile_type[TileOf(c)] = "IO" /\ c[3] = 3
  BY ChipAssumption
<1> QED BY <1>1, <1>2, <1>3

LEMMA PortGates ==
  ASSUME design \in Designs
  PROVE  /\ Ports \subseteq Nat
         /\ \A n \in Ports : Gated(n) \in Gate /\ Type(Gated(n)) \in {"IO", "PLL", "RGBA"}
         /\ \A n, k \in Ports : Gated(n) = Gated(k) => n = k \/ Type(Gated(n)) = "RGBA"
BY DesignAssumption DEF Ports, Gated, Type

LEMMA InstType == \A n : inst(n) = design.inst[Gated(n)] /\ inst(n).type = Type(Gated(n))
BY DEF inst, Type

-----------------------------------------------------------------------------
(* The steps keep the invariant.                                           *)
LEMMA InitInv == Init => Inv
<1> SUFFICES ASSUME Init PROVE Inv
  OBVIOUS
<1>1. Constrained = {} /\ Placed = {}
  <2>1. net_pin_loc = <<>> /\ placement = <<>>
    BY DEF Init
  <2>2. DOMAIN (<<>>) = {}
    OBVIOUS
  <2> QED BY <2>1, <2>2 DEF Constrained, Placed
<1>2. design \in Designs /\ pc = "parse" /\ port = 1 /\ i_inst = 1
  BY DEF Init
<1>3. FileInv
  BY <1>1, <1>2 DEF FileInv
<1>4. DOMAIN cell_gate = Cell /\ \A c \in Cell : cell_gate[c] = 0
  BY DEF Init
<1>5. PlacedInv
  BY <1>1, <1>4 DEF PlacedInv
<1>6. OriginInv /\ RefusedInv
  BY <1>1, <1>2 DEF OriginInv, RefusedInv
<1>7. RulesInv
  BY <1>1, <1>2, <1>4 DEF RulesInv, Occupied
<1>8. DOMAIN bank_latch = 0 .. 3 /\ \A b \in 0 .. 3 : bank_latch[b] = 0
  BY DEF Init
<1>9. BankInv
  BY <1>8 DEF BankInv
<1> QED BY <1>3, <1>5, <1>6, <1>7, <1>9 DEF Inv

(* Only pc changes.                                                        *)
LEMMA PcStep ==
  ASSUME Inv, UNCHANGED <<design, files, port, bank_latch, pull_up, cell_gate, placement, i_inst>>,
         pc' \in {"parse", "pins", "plls", "rest", "done", "bad_file", "refused", "unplaced"},
         pc' = "parse" => pc = "parse",
         pc' = "pins" => Constrained = Ports,
         pc' \in {"pins", "plls", "refused"} => pc \in {"parse", "pins", "plls", "refused"},
         pc' \in {"rest", "done", "unplaced"} =>
           \A c \in Occupied : chipdb.cell_type[c] = "PLL" => ~PLLConflict(design.inst[cell_gate[c]], c),
         pc' = "refused" => \/ port \in Constrained /\ Misfit(port)
                            \/ \E c \in PlacedPLLs : PLLConflict(design.inst[cell_gate[c]], c)
  PROVE  Inv'
<1>1. /\ design' = design /\ net_pin_loc' = net_pin_loc /\ port' = port /\ bank_latch' = bank_latch
      /\ cell_gate' = cell_gate /\ placement' = placement /\ i_inst' = i_inst
  BY DEF files
<1>2. /\ Ports' = Ports /\ Constrained' = Constrained /\ Placed' = Placed /\ Occupied' = Occupied
      /\ PlacedPLLs' = PlacedPLLs
  BY <1>1 DEF Ports, Constrained, Placed, Occupied, PlacedPLLs
<1>3. \A g, n : /\ Type(g)' = Type(g) /\ Gated(n)' = Gated(n) /\ inst(n)' = inst(n) /\ latch(n)' = latch(n)
                /\ PinnedAt(g, n)' <=> PinnedAt(g, n)
  BY <1>1 DEF Type, Gated, inst, latch, PinnedAt
<1>4. \A i, c : PLLConflict(i, c)' <=> PLLConflict(i, c)
  BY <1>1 DEF PLLConflict
<1>5. \A n : Misfit(n)' <=> Misfit(n)
  <2>1. \A n, loc : PadFits(n, loc)' <=> PadFits(n, loc)
    BY <1>1 DEF PadFits, LatchFits, latch, inst, Gated, PartnerFits, KindFits
  <2> QED BY <1>1, <1>3, <2>1 DEF Misfit
<1>6. FileInv'
  BY <1>1, <1>2 DEF Inv, FileInv
<1>7. PlacedInv'
  BY <1>1, <1>2, <1>3 DEF Inv, PlacedInv
<1>8. OriginInv'
  BY <1>1, <1>2, <1>3 DEF Inv, OriginInv
<1>9. RulesInv'
  BY <1>1, <1>2, <1>3, <1>4 DEF Inv, RulesInv
<1>10. BankInv'
  BY <1>1, <1>2, <1>3 DEF Inv, BankInv
<1>11. RefusedInv'
  BY <1>1, <1>2, <1>4, <1>5 DEF RefusedInv
<1> QED BY <1>6, <1>7, <1>8, <1>9, <1>10, <1>11 DEF Inv

(* The line names a port and a pin that were not named before.             *)
LEMMA SetIoStep ==
  ASSUME Inv, NEW line \in design.lines, SetIo(line)
  PROVE  Inv'
<1>1. /\ pc = "parse" /\ design' = design /\ pc' = pc /\ port' = port /\ bank_latch' = bank_latch
      /\ cell_gate' = cell_gate /\ placement' = placement /\ i_inst' = i_inst
  BY DEF SetIo, Line
<1>2. /\ Ports' = Ports /\ Placed' = Placed /\ Placed = {} /\ Occupied' = Occupied
      /\ \A g, n : Type(g)' = Type(g) /\ Gated(n)' = Gated(n) /\ latch(n)' = latch(n)
  BY <1>1 DEF Inv, OriginInv, Ports, Placed, Occupied, Type, Gated, latch, inst
<1>3. /\ Constrained' \subseteq Ports
      /\ \A n \in Constrained' : net_pin_loc'[n] \in chipdb.loc_pin
      /\ \A n, k \in Constrained' : net_pin_loc'[n] = net_pin_loc'[k] => n = k
      /\ \A n \in Constrained : n \in Constrained' /\ net_pin_loc'[n] = net_pin_loc[n]
  <2>1. CASE net_pin_loc' = net_pin_loc
    BY <2>1 DEF Inv, FileInv, Constrained
  <2>2. CASE line.net \in Ports /\ NewPin(line) /\ net_pin_loc' = Assign(net_pin_loc, line.net, line.pin)
    <3>1. /\ Constrained' = Constrained \cup {line.net} /\ line.net \notin Constrained
          /\ net_pin_loc'[line.net] = line.pin /\ line.pin \in chipdb.loc_pin
          /\ \A n \in Constrained : net_pin_loc'[n] = net_pin_loc[n] /\ net_pin_loc[n] # line.pin
      BY <2>2 DEF Constrained, Assign, NewPin
    <3> QED BY <2>2, <3>1 DEF Inv, FileInv
  <2> QED BY <2>1, <2>2 DEF SetIo
<1>4. FileInv'
  BY <1>1, <1>2, <1>3 DEF Inv, FileInv
<1>5. PlacedInv'
  BY <1>1, <1>2 DEF Inv, PlacedInv
<1>6. OriginInv' /\ RefusedInv'
  BY <1>1, <1>2 DEF OriginInv, RefusedInv
<1>7. RulesInv'
  BY <1>1, <1>2 DEF Inv, RulesInv
<1>8. BankInv'
  BY <1>1, <1>2, <1>3 DEF Inv, BankInv, bank
<1> QED BY <1>4, <1>5, <1>6, <1>7, <1>8 DEF Inv

(* The port is left to later, or the instance is placed already.           *)
LEMMA SkipStep ==
  ASSUME Inv, UNCHANGED <<design, pc, files, bank_latch, pull_up, cell_gate, placement>>,
         \/ pc = "pins" /\ port' = port + 1 /\ i_inst' = i_inst
         \/ pc = "rest" /\ port' = port /\ i_inst' = i_inst + 1
  PROVE  Inv'
<1>1. /\ design' = design /\ pc' = pc /\ net_pin_loc' = net_pin_loc /\ bank_latch' = bank_latch
      /\ cell_gate' = cell_gate /\ placement' = placement /\ pc # "refused"
  BY DEF files
<1>2. /\ Ports' = Ports /\ Constrained' = Constrained /\ Placed' = Placed /\ Occupied' = Occupied
      /\ \A g, n : Type(g)' = Type(g) /\ Gated(n)' = Gated(n) /\ latch(n)' = latch(n)
      /\ \A i, c : PLLConflict(i, c)' <=> PLLConflict(i, c)
  BY <1>1 DEF Ports, Constrained, Placed, Occupied, Type, Gated, latch, inst, PLLConflict
<1>3. port \in Nat /\ port' \in Nat /\ i_inst' \in Nat \ {0} /\ \A n \in Constrained : n < port => n < port'
  <2>1. \A n \in Constrained : n \in Nat
    BY PortGates DEF Inv, FileInv
  <2> QED BY <2>1 DEF Inv, FileInv
<1>4. \A g, n : n \in Constrained /\ PinnedAt(g, n) => PinnedAt(g, n)'
  BY <1>1, <1>2, <1>3 DEF PinnedAt
<1>5. FileInv'
  BY <1>1, <1>2, <1>3 DEF Inv, FileInv
<1>6. PlacedInv'
  BY <1>1, <1>2 DEF Inv, PlacedInv
<1>7. OriginInv'
  BY <1>1, <1>2, <1>4 DEF Inv, OriginInv
<1>8. RulesInv'
  BY <1>1, <1>2 DEF Inv, RulesInv
<1>9. BankInv'
  BY <1>1, <1>2, <1>3 DEF Inv, BankInv
<1>10. RefusedInv'
  BY <1>1 DEF RefusedInv
<1> QED BY <1>5, <1>6, <1>7, <1>8, <1>9, <1>10 DEF Inv

(* A gate that was not placed gets a cell of its type; only the cell of a  *)
(* PLL may have been taken.                                                *)
Takes(g, d) ==
  cell_gate' = [cell_gate EXCEPT ![d] = g] /\ placement' = Assign(placement, g, d)

LEMMA PlaceEffect ==
  ASSUME Inv, design' = design, NEW g \in Gate \ Placed, NEW d \in Cell,
         chipdb.cell_type[d] = Type(g), Type(g) \in {"IO", "PLL", "OSC"},
         cell_gate[d] = 0 \/ Type(g) = "PLL",
         Takes(g, d)
  PROVE  /\ Placed' = Placed \cup {g} /\ placement'[g] = d /\ \A h \in Placed : placement'[h] = placement[h]
         /\ cell_gate'[d] = g /\ \A c \in Cell \ {d} : cell_gate'[c] = cell_gate[c]
         /\ \A h : Type(h)' = Type(h)
         /\ PlacedInv'
<1>1. Placed' = Placed \cup {g} /\ placement'[g] = d /\ \A h \in Placed : placement'[h] = placement[h]
  BY DEF Takes, Placed, Assign
<1>2. DOMAIN cell_gate' = Cell /\ cell_gate'[d] = g /\ \A c \in Cell \ {d} : cell_gate'[c] = cell_gate[c]
  BY DEF Takes, Inv, PlacedInv
<1>3. \A h : Type(h)' = Type(h)
  BY DEF Type
<1>4. g # 0 /\ g \notin Placed
  BY SizeAssumption DEF Gate
<1>5. Placed' \subseteq Gate
  BY <1>1 DEF Inv, PlacedInv
<1>6. \A h \in Placed' : /\ Type(h)' \in {"IO", "PLL", "OSC"}
                         /\ placement'[h] \in Cell /\ chipdb.cell_type[placement'[h]] = Type(h)'
                         /\ cell_gate'[placement'[h]] # 0
  <2> TAKE h \in Placed'
  <2>1. CASE h = g
    BY <1>1, <1>2, <1>3, <1>4, <2>1
  <2>2. CASE h \in Placed
    <3>1. /\ Type(h) \in {"IO", "PLL", "OSC"} /\ placement[h] \in Cell /\ chipdb.cell_type[placement[h]] = Type(h)
          /\ cell_gate[placement[h]] # 0
      BY <2>2 DEF Inv, PlacedInv
    <3> QED BY <1>1, <1>2, <1>3, <1>4, <2>2, <3>1
  <2> QED BY <1>1, <2>1, <2>2
<1>7. \A h, k \in Placed' : placement'[h] = placement'[k] => h = k \/ Type(h)' = "PLL"
  <2>1. ASSUME NEW h \in Placed, placement[h] = d PROVE Type(h) = "PLL" /\ Type(g) = "PLL"
    BY <2>1 DEF Inv, PlacedInv
  <2>2. \A h, k \in Placed : placement[h] = placement[k] => h = k \/ Type(h) = "PLL"
    BY DEF Inv, PlacedInv
  <2> QED BY <1>1, <1>3, <2>1, <2>2
<1>8. \A c \in Cell : cell_gate'[c] # 0 => cell_gate'[c] \in Placed' /\ placement'[cell_gate'[c]] = c
  <2>1. \A c \in Cell : cell_gate[c] # 0 => cell_gate[c] \in Placed /\ placement[cell_gate[c]] = c
    BY DEF Inv, PlacedInv
  <2> QED BY <1>1, <1>2, <1>4, <2>1
<1> QED BY <1>1, <1>2, <1>3, <1>5, <1>6, <1>7, <1>8 DEF PlacedInv

LEMMA SameControlsSymmetric ==
  ASSUME NEW i, NEW j, SameControls(i, j)
  PROVE  SameControls(j, i)
BY DEF SameControls

(* The gate of a port whose turn it is has not been placed.                *)
LEMMA NotYetPlaced ==
  ASSUME Inv, NEW n \in Ports, pc = "pins", port = n, Type(Gated(n)) \in {"IO", "PLL"}
  PROVE  n \in Constrained /\ Gated(n) \in Gate \ Placed
<1>1. n \in Constrained /\ Gated(n) \in Gate
  BY PortGates DEF Inv, FileInv
<1>2. ASSUME Gated(n) \in Placed PROVE FALSE
  <2>1. PICK k \in Constrained : PinnedAt(Gated(n), k)
    BY <1>2 DEF Inv, OriginInv
  <2>2. k \in Ports /\ k < n /\ Gated(k) = Gated(n)
    BY <2>1 DEF Inv, FileInv, PinnedAt
  <2>3. k = n
    BY <2>2, PortGates DEF Inv, FileInv
  <2> QED BY <2>2, <2>3, PortGates DEF Inv, FileInv
<1> QED BY <1>1, <1>2

(* What the turn of a port keeps, wherever its gate is placed.             *)
LEMMA PutKeeps ==
  ASSUME Inv, NEW n \in Ports, pc = "pins", port = n, Type(Gated(n)) \in {"IO", "PLL"},
         NEW d \in Cell, chipdb.cell_type[d] = Type(Gated(n)),
         d = IF Type(Gated(n)) = "IO" THEN net_pin_loc[n] ELSE PLLCell(net_pin_loc[n]),
         cell_gate[d] = 0 \/ Type(Gated(n)) = "PLL",
         Put(n, d), UNCHANGED <<design, pc, files, i_inst>>
  PROVE  /\ Placed' = Placed \cup {Gated(n)} /\ placement'[Gated(n)] = d
         /\ \A h \in Placed : placement'[h] = placement[h]
         /\ cell_gate'[d] = Gated(n) /\ \A c \in Cell \ {d} : cell_gate'[c] = cell_gate[c]
         /\ \A h : Type(h)' = Type(h)
         /\ PlacedInv' /\ FileInv' /\ OriginInv' /\ RefusedInv'
<1>1. n \in Constrained /\ Gated(n) \in Gate \ Placed
  BY NotYetPlaced
<1>2. /\ design' = design /\ pc' = pc /\ net_pin_loc' = net_pin_loc /\ port' = port + 1 /\ i_inst' = i_inst
      /\ cell_gate' = [cell_gate EXCEPT ![d] = Gated(n)] /\ placement' = Assign(placement, Gated(n), d)
  BY DEF Put, files
<1>3. /\ Placed' = Placed \cup {Gated(n)} /\ placement'[Gated(n)] = d
      /\ \A h \in Placed : placement'[h] = placement[h]
      /\ cell_gate'[d] = Gated(n) /\ \A c \in Cell \ {d} : cell_gate'[c] = cell_gate[c]
      /\ \A h : Type(h)' = Type(h)
      /\ PlacedInv'
  <2>1. Takes(Gated(n), d)
    BY <1>2 DEF Takes
  <2> QED BY <1>1, <1>2, <2>1, PlaceEffect
<1>4. Ports' = Ports /\ Constrained' = Constrained /\ \A k : Gated(k)' = Gated(k)
  BY <1>2 DEF Ports, Constrained, Gated
<1>5. port \in Nat /\ Constrained \subseteq Nat
  BY PortGates DEF Inv, FileInv
<1>6. FileInv'
  BY <1>2, <1>4, <1>5 DEF Inv, FileInv
<1>7. OriginInv'
  <2>1. ASSUME NEW h \in Placed, NEW k \in Constrained, PinnedAt(h, k) PROVE PinnedAt(h, k)'
    BY <1>2, <1>3, <1>4, <1>5, <2>1 DEF PinnedAt
  <2>2. PinnedAt(Gated(n), n)'
    BY <1>2, <1>3, <1>4, <1>5 DEF PinnedAt
  <2>3. \A h \in Placed' : Type(h)' = "IO" => \E k \in Constrained' : PinnedAt(h, k)'
    <3> TAKE h \in Placed'
    <3> HAVE Type(h)' = "IO"
    <3>1. CASE h = Gated(n)
      BY <1>1, <1>4, <2>2, <3>1
    <3>2. CASE h \in Placed
      <4>1. PICK k \in Constrained : PinnedAt(h, k)
        BY <1>3, <3>2 DEF Inv, OriginInv
      <4> QED BY <1>4, <2>1, <3>2, <4>1
    <3> QED BY <1>3, <3>1, <3>2
  <2>4. \A h \in Placed' : Type(h)' = "PLL" => \E k \in Constrained' : PinnedAt(h, k)'
    <3> TAKE h \in Placed'
    <3> HAVE Type(h)' = "PLL"
    <3>1. CASE h = Gated(n)
      BY <1>1, <1>4, <2>2, <3>1
    <3>2. CASE h \in Placed
      <4>1. PICK k \in Constrained : PinnedAt(h, k)
        BY <1>3, <3>2 DEF Inv, OriginInv
      <4> QED BY <1>4, <2>1, <3>2, <4>1
    <3> QED BY <1>3, <3>1, <3>2
  <2> QED BY <1>2, <2>3, <2>4 DEF OriginInv
<1>8. RefusedInv'
  BY <1>2 DEF RefusedInv
<1> QED BY <1>3, <1>6, <1>7, <1>8

LEMMA PlacePadStep ==
  ASSUME Inv, NEW n \in Ports, PlacePad(n)
  PROVE  Inv'
<1> DEFINE d == net_pin_loc[n]
           g == Gated(n)
<1>1. /\ pc = "pins" /\ port = n /\ Type(g) = "IO" /\ PadFits(n, d) /\ Put(n, d)
      /\ UNCHANGED <<design, pc, files, i_inst>>
      /\ bank_latch' = [bank_latch EXCEPT ![bank(d)] = IF latch(n) # 0 THEN latch(n) ELSE @]
  BY InstType DEF PlacePad, At
<1>2. n \in Constrained /\ g \in Gate \ Placed
  BY <1>1, NotYetPlaced
<1>3. d \in chipdb.loc_pin /\ d \in Cell /\ chipdb.cell_type[d] = "IO" /\ d[3] \in {0, 1} /\ bank(d) \in 0 .. 3
  BY <1>2, PadCells DEF Inv, FileInv
<1>4. cell_gate[d] = 0
  <2>1. ASSUME cell_gate[d] # 0 PROVE FALSE
    <3>1. cell_gate[d] \in Placed /\ placement[cell_gate[d]] = d /\ Type(cell_gate[d]) = "IO"
      BY <1>3, <2>1 DEF Inv, PlacedInv
    <3>2. PICK k \in Constrained : PinnedAt(cell_gate[d], k)
      BY <3>1 DEF Inv, OriginInv
    <3>3. net_pin_loc[k] = d /\ k < n
      BY <1>1, <3>1, <3>2 DEF PinnedAt
    <3>4. k = n
      BY <1>2, <3>3 DEF Inv, FileInv
    <3> QED BY <1>2, <3>3, <3>4, PortGates DEF Inv, FileInv
  <2> QED BY <2>1
<1>5. /\ Placed' = Placed \cup {g} /\ placement'[g] = d /\ \A h \in Placed : placement'[h] = placement[h]
      /\ cell_gate'[d] = g /\ \A c \in Cell \ {d} : cell_gate'[c] = cell_gate[c]
      /\ \A h : Type(h)' = Type(h)
      /\ PlacedInv' /\ FileInv' /\ OriginInv' /\ RefusedInv'
  BY <1>1, <1>3, <1>4, PutKeeps
<1>6. design' = design /\ pc' = "pins" /\ net_pin_loc' = net_pin_loc /\ port' = port + 1
  BY <1>1 DEF Put, files
<1>7. ASSUME NEW h \in Placed, Type(h) = "IO", TileOf(placement[h]) = TileOf(d)
      PROVE  SameControls(design.inst[g], design.inst[h]) /\ SameControls(design.inst[h], design.inst[g])
  <2>1. /\ placement[h] \in chipdb.loc_pin /\ placement[h] \in Cell /\ placement[h][3] \in {0, 1}
        /\ cell_gate[placement[h]] # 0
    BY <1>7, PadCells DEF Inv, PlacedInv, RulesInv
  <2>2. placement[h] # d
    BY <1>4, <2>1
  <2>3. placement[h] = <<d[1], d[2], 1 - d[3]>>
    <3>1. placement[h][1] = d[1] /\ placement[h][2] = d[2]
      BY <1>7 DEF TileOf
    <3>2. placement[h] = <<d[1], d[2], placement[h][3]>> /\ d = <<d[1], d[2], d[3]>>
      BY <1>3, <2>1, <3>1, CellParts
    <3>3. placement[h][3] # d[3]
      BY <2>2, <3>2
    <3>4. placement[h][3] = 1 - d[3]
      BY <1>3, <2>1, <3>3
    <3> QED BY <3>2, <3>4
  <2>4. cell_gate[placement[h]] = h
    <3>1. cell_gate[placement[h]] \in Placed /\ placement[cell_gate[placement[h]]] = placement[h]
      BY <2>1 DEF Inv, PlacedInv
    <3> QED BY <1>7, <3>1 DEF Inv, PlacedInv
  <2>5. SameControls(inst(n), design.inst[h])
    <3>1. h # 0
      BY <2>1, <2>4
    <3>2. GateAt(cell_gate, <<d[1], d[2], 1 - d[3]>>) = h
      BY <2>1, <2>3, <2>4 DEF GateAt
    <3>3. PartnerFits(inst(n), d)
      BY <1>1 DEF PadFits
    <3> QED BY <3>1, <3>2, <3>3 DEF PartnerFits
  <2> QED BY <2>5, InstType, SameControlsSymmetric
<1>8. LvdsFits(design.inst[g], d)
  BY <1>1, InstType DEF PadFits
<1>9. RulesInv'
  <2>1. \A h \in Placed' : Type(h)' = "IO" => placement'[h] \in chipdb.loc_pin /\ LvdsFits(design'.inst[h], placement'[h])
    BY <1>3, <1>5, <1>6, <1>8 DEF Inv, RulesInv
  <2>2. \A h, k \in Placed' :
          Type(h)' = "IO" /\ Type(k)' = "IO" /\ TileOf(placement'[h]) = TileOf(placement'[k]) =>
            h = k \/ SameControls(design'.inst[h], design'.inst[k])
    <3>1. \A h, k \in Placed :
            Type(h) = "IO" /\ Type(k) = "IO" /\ TileOf(placement[h]) = TileOf(placement[k]) =>
              h = k \/ SameControls(design.inst[h], design.inst[k])
      BY DEF Inv, RulesInv
    <3> HIDE DEF g, d
    <3> QED BY <1>5, <1>6, <1>7, <3>1
  <2>3. \A c \in Occupied' : chipdb.cell_type[c] = "PLL" => c \notin chipdb.pll_locked
    <3>1. \A c \in Occupied' : c = d \/ c \in Occupied
      BY <1>5 DEF Occupied
    <3> QED BY <1>3, <3>1 DEF Inv, RulesInv
  <2> QED BY <1>6, <2>1, <2>2, <2>3 DEF RulesInv
<1>10. BankInv'
  <2>1. \A k : Gated(k)' = Gated(k) /\ latch(k)' = latch(k)
    BY <1>6 DEF Gated, latch, inst
  <2>2. Constrained' = Constrained /\ port \in Nat /\ Constrained \subseteq Nat
    BY <1>6, PortGates DEF Constrained, Inv, FileInv
  <2>3. DOMAIN bank_latch' = 0 .. 3
    BY <1>1 DEF Inv, BankInv
  <2>4. ASSUME NEW b \in 0 .. 3, bank_latch'[b] # 0
        PROVE  \E k \in Constrained : /\ k < port + 1 /\ Type(Gated(k)) = "IO"
                                      /\ bank(net_pin_loc[k]) = b /\ latch(k) = bank_latch'[b]
    <3>1. CASE b = bank(d) /\ latch(n) # 0
      <4>1. bank_latch'[b] = latch(n)
        BY <1>1, <3>1 DEF Inv, BankInv
      <4> QED BY <1>1, <1>2, <2>2, <3>1, <4>1
    <3>2. CASE ~(b = bank(d) /\ latch(n) # 0)
      <4>1. bank_latch'[b] = bank_latch[b]
        BY <1>1, <3>2 DEF Inv, BankInv
      <4>2. PICK k \in Constrained : k < port /\ Type(Gated(k)) = "IO" /\ bank(net_pin_loc[k]) = b /\ latch(k) = bank_latch[b]
        BY <2>4, <4>1 DEF Inv, BankInv
      <4>3. k < port + 1
        BY <2>2, <4>2
      <4> QED BY <4>1, <4>2, <4>3
    <3> QED BY <3>1, <3>2
  <2> QED BY <1>5, <1>6, <2>1, <2>2, <2>3, <2>4 DEF BankInv, bank
<1> QED BY <1>5, <1>9, <1>10 DEF Inv

LEMMA PlacePLLPadStep ==
  ASSUME Inv, NEW n \in Ports, PlacePLLPad(n)
  PROVE  Inv'
<1> DEFINE d == PLLCell(net_pin_loc[n])
           g == Gated(n)
<1>1. /\ pc = "pins" /\ port = n /\ Type(g) = "PLL" /\ Put(n, d)
      /\ d \in Cell \ chipdb.pll_locked /\ chipdb.cell_type[d] = "PLL"
      /\ UNCHANGED <<design, pc, files, bank_latch, pull_up, i_inst>>
  BY InstType DEF PlacePLLPad, At, PLLAt
<1>2. /\ Placed' = Placed \cup {g} /\ placement'[g] = d /\ \A h \in Placed : placement'[h] = placement[h]
      /\ cell_gate'[d] = g /\ \A c \in Cell \ {d} : cell_gate'[c] = cell_gate[c]
      /\ \A h : Type(h)' = Type(h)
      /\ PlacedInv' /\ FileInv' /\ OriginInv' /\ RefusedInv'
  BY <1>1, PutKeeps
<1>3. design' = design /\ pc' = "pins" /\ net_pin_loc' = net_pin_loc /\ port' = port + 1 /\ bank_latch' = bank_latch
  BY <1>1 DEF Put, files
<1>4. RulesInv'
  <2>1. \A h \in Placed' : Type(h)' = "IO" => h \in Placed /\ placement'[h] = placement[h] /\ Type(h) = "IO"
    BY <1>1, <1>2
  <2>2. \A c \in Occupied' : c = d \/ c \in Occupied
    BY <1>2 DEF Occupied
  <2>3. \A c \in Occupied' : chipdb.cell_type[c] = "PLL" => c \notin chipdb.pll_locked
    BY <1>1, <2>2 DEF Inv, RulesInv
  <2> HIDE DEF d, g
  <2> QED BY <1>3, <2>1, <2>3 DEF Inv, RulesInv
<1>5. BankInv'
  <2>1. \A k : Gated(k)' = Gated(k) /\ latch(k)' = latch(k)
    BY <1>3 DEF Gated, latch, inst
  <2>2. Constrained' = Constrained /\ \A k \in Constrained : k < port => k < port + 1
    <3>1. port \in Nat /\ Constrained \subseteq Nat
      BY PortGates DEF Inv, FileInv
    <3> QED BY <1>3, <3>1 DEF Constrained
  <2> HIDE DEF d, g
  <2> QED BY <1>2, <1>3, <2>1, <2>2 DEF Inv, BankInv
<1> QED BY <1>2, <1>4, <1>5 DEF Inv

LEMMA PlaceFirstFitStep ==
  ASSUME Inv, PlaceFirstFit
  PROVE  Inv'
<1>1. PICK k \in UsableCells(this) :
        /\ cell_gate' = [cell_gate EXCEPT ![CellsFor(this)[k]] = i_inst]
        /\ placement' = Assign(placement, i_inst, CellsFor(this)[k])
  BY DEF PlaceFirstFit
<1> DEFINE d == CellsFor(this)[k]
           g == i_inst
<1>2. /\ pc = "rest" /\ g \in Gate \ Placed /\ Type(g) \in {"OSC", "PLL"} /\ this = design.inst[g]
      /\ design' = design /\ pc' = pc /\ net_pin_loc' = net_pin_loc /\ port' = port
      /\ bank_latch' = bank_latch /\ i_inst' = i_inst + 1
  BY SizeAssumption DEF PlaceFirstFit, Unplaced, Inv, FileInv, Gate, Placed, Type, this, files
<1>3. d \in Cell /\ chipdb.cell_type[d] = Type(g)
  <2>1. CASE Type(g) = "OSC"
    <3>1. this.p.kind \in DOMAIN chipdb.osc_cells
      BY <1>2, <2>1, DesignAssumption DEF Inv, FileInv, Type
    <3>2. CellsFor(this) = chipdb.osc_cells[this.p.kind]
      BY <1>2, <2>1 DEF CellsFor, Type
    <3>3. k \in DOMAIN chipdb.osc_cells[this.p.kind]
      BY <3>2 DEF UsableCells
    <3> QED BY <2>1, <3>1, <3>2, <3>3, ChipAssumption
  <2>2. CASE Type(g) = "PLL"
    <3>1. CellsFor(this) = chipdb.pll_cells
      BY <1>2, <2>2 DEF CellsFor, Type
    <3>2. k \in DOMAIN chipdb.pll_cells
      BY <3>1 DEF UsableCells
    <3> QED BY <2>2, <3>1, <3>2, ChipAssumption
  <2> QED BY <1>2, <2>1, <2>2
<1>4. cell_gate[d] = 0 /\ (Type(g) = "PLL" => d \notin chipdb.pll_locked /\ ~PLLConflict(design.inst[g], d))
  BY <1>2 DEF UsableCells, Usable, Type
<1> HIDE DEF d
<1>5. /\ Placed' = Placed \cup {g} /\ placement'[g] = d /\ \A h \in Placed : placement'[h] = placement[h]
      /\ cell_gate'[d] = g /\ \A c \in Cell \ {d} : cell_gate'[c] = cell_gate[c]
      /\ \A h : Type(h)' = Type(h)
      /\ PlacedInv'
  <2>1. Takes(g, d)
    BY <1>1 DEF Takes, d
  <2> HIDE DEF g
  <2> QED BY <1>2, <1>3, <1>4, <2>1, PlaceEffect
<1>6. /\ Ports' = Ports /\ Constrained' = Constrained
      /\ \A n : Gated(n)' = Gated(n) /\ latch(n)' = latch(n)
  BY <1>2 DEF Ports, Constrained, Gated, latch, inst
<1>7. FileInv'
  BY <1>2, <1>6 DEF Inv, FileInv
<1>8. \A h \in Placed' : Type(h)' = "IO" => h \in Placed /\ placement'[h] = placement[h] /\ Type(h) = "IO"
  BY <1>2, <1>5
<1>9. OriginInv'
  <2>1. \A h \in Placed : \A n : placement'[h] = placement[h] /\ PinnedAt(h, n) => PinnedAt(h, n)'
    BY <1>2, <1>5, <1>6 DEF PinnedAt
  <2> QED BY <1>2, <1>6, <1>8, <2>1 DEF Inv, OriginInv
<1>10. RulesInv'
  <2> DEFINE NewConflict(i, c) == \E p \in PLLOutCells(i, c) : cell_gate'[p] # 0 /\ HasInput(design.inst[cell_gate'[p]])
  <2>1. \A c \in Occupied' : c = d \/ (c \in Occupied /\ cell_gate'[c] = cell_gate[c])
    BY <1>5 DEF Occupied
  <2>2. \A c \in Occupied' : chipdb.cell_type[c] = "PLL" => c \notin chipdb.pll_locked
    BY <1>3, <1>4, <2>1 DEF Inv, RulesInv
  <2>3. ASSUME NEW c \in Cell, chipdb.cell_type[c] = "PLL", NEW i, NewConflict(i, c) PROVE PLLConflict(i, c)
    <3>1. PICK p \in PLLOutCells(i, c) : cell_gate'[p] # 0 /\ HasInput(design.inst[cell_gate'[p]])
      BY <2>3
    <3>2. p \in Cell /\ p # d
      BY <1>2, <1>3, <2>3, <3>1, PLLCells
    <3>3. cell_gate'[p] = cell_gate[p]
      BY <1>5, <3>2
    <3> QED BY <3>1, <3>3 DEF PLLConflict
  <2>4. \A c \in Occupied' : chipdb.cell_type[c] = "PLL" => ~PLLConflict(design.inst[cell_gate[c]], c)'
    <3> TAKE c \in Occupied'
    <3> HAVE chipdb.cell_type[c] = "PLL"
    <3>1. c \in Cell
      BY DEF Occupied
    <3> SUFFICES ASSUME NewConflict(design.inst[cell_gate'[c]], c) PROVE FALSE
      BY <1>2 DEF PLLConflict
    <3> HIDE DEF NewConflict
    <3>2. CASE c = d
      BY <1>4, <1>2, <1>3, <1>5, <2>3, <3>1, <3>2
    <3>3. CASE c \in Occupied /\ cell_gate'[c] = cell_gate[c]
      <4>1. ~PLLConflict(design.inst[cell_gate[c]], c)
        BY <1>2, <3>3 DEF Inv, RulesInv
      <4> QED BY <1>2, <2>3, <3>1, <3>3, <4>1
    <3> QED BY <2>1, <3>2, <3>3
  <2> QED BY <1>2, <1>8, <2>2, <2>4 DEF Inv, RulesInv
<1>11. BankInv' /\ RefusedInv'
  BY <1>2, <1>5, <1>6 DEF Inv, BankInv, RefusedInv
<1> QED BY <1>5, <1>7, <1>9, <1>10, <1>11 DEF Inv

-----------------------------------------------------------------------------
LEMMA NextInv ==
  ASSUME Inv, [Next]_vars
  PROVE  Inv'
<1>1. ASSUME NEW line \in design.lines, SetIo(line) PROVE Inv'
  BY <1>1, SetIoStep
<1>2. ASSUME NEW line \in design.lines, BadLine(line) PROVE Inv'
  BY <1>2, PcStep DEF BadLine, Stop
<1>3. CASE MissingPorts
  BY <1>3, PcStep DEF MissingPorts, Stop
<1>4. CASE EndOfFile \/ NoFile
  BY <1>4, PcStep DEF EndOfFile, NoFile, Constrained
<1>5. ASSUME NEW n \in Ports, PlacePad(n) PROVE Inv'
  BY <1>5, PlacePadStep
<1>6. ASSUME NEW n \in Ports, SkipRgb(n) PROVE Inv'
  BY <1>6, SkipStep DEF SkipRgb, At
<1>7. ASSUME NEW n \in Ports, PlacePLLPad(n) PROVE Inv'
  BY <1>7, PlacePLLPadStep
<1>8. ASSUME NEW n \in Ports, PinMisfits(n) PROVE Inv'
  <2>1. pc = "pins" /\ port = n /\ Misfit(n)
    BY <1>8, InstType DEF PinMisfits, At, Misfit
  <2>2. port \in Constrained
    BY <2>1 DEF Inv, FileInv
  <2> QED BY <1>8, <2>1, <2>2, PcStep DEF PinMisfits, Stop
<1>9. CASE AllPins
  BY <1>9, PcStep DEF AllPins
<1>10. CASE CheckPLLs
  <2>1. Occupied \cap {c \in Cell : chipdb.cell_type[c] = "PLL"} \subseteq PlacedPLLs
    BY ChipAssumption DEF Occupied, PlacedPLLs
  <2>2. pc = "plls" /\ pc' = "rest" /\ UNCHANGED <<design, files, port, bank_latch, pull_up, cell_gate, placement, i_inst>>
    BY <1>10 DEF CheckPLLs
  <2>3. \A c \in Occupied : chipdb.cell_type[c] = "PLL" => ~PLLConflict(design.inst[cell_gate[c]], c)
    BY <1>10, <2>1 DEF CheckPLLs, Occupied
  <2> QED BY <2>2, <2>3, PcStep
<1>11. CASE BadPLLs
  BY <1>11, PcStep DEF BadPLLs, Stop
<1>12. CASE SkipInstance
  BY <1>12, SkipStep DEF SkipInstance
<1>13. CASE PinRequired \/ NoCellLeft \/ Finish
  <2>1. /\ pc = "rest" /\ pc' \in {"unplaced", "done"}
        /\ UNCHANGED <<design, files, port, bank_latch, pull_up, cell_gate, placement, i_inst>>
    BY <1>13 DEF PinRequired, NoCellLeft, Finish, Stop, Unplaced
  <2>2. \A c \in Occupied : chipdb.cell_type[c] = "PLL" => ~PLLConflict(design.inst[cell_gate[c]], c)
    BY <2>1 DEF Inv, RulesInv
  <2> QED BY <2>1, <2>2, PcStep
<1>14. CASE PlaceFirstFit
  BY <1>14, PlaceFirstFitStep
<1>15. CASE Stopped \/ UNCHANGED vars
  <2>1. UNCHANGED vars
    BY <1>15 DEF Stopped
  <2>2. pc' = pc /\ UNCHANGED <<design, files, port, bank_latch, pull_up, cell_gate, placement, i_inst>>
    BY <2>1 DEF vars
  <2> QED BY <2>2, PcStep DEF Inv, FileInv, RulesInv, RefusedInv
<1> QED BY <1>1, <1>2, <1>3, <1>4, <1>5, <1>6, <1>7, <1>8, <1>9, <1>10, <1>11, <1>12, <1>13, <1>14, <1>15
        DEF Next

(* The invariant of the placement of constrained pads and PLLs.            *)
THEOREM Invariance == Spec => []Inv
<1> QED BY InitInv, NextInv, PTL DEF Spec
-----------------------------------------------------------------------------
(* What valid() sees of the instances.                                     *)
LEMMA PadView ==
  ASSUME NEW g \in Gate, Type(g) = "IO"
  PROVE  LET i == design.inst[g]
             v == ViewOf(design).inst[g]
         IN /\ v.neg_trigger = i.p.neg_trigger /\ v.cen = Port(i, "CLOCK_ENABLE")
            /\ v.inclk = Port(i, "INPUT_CLK") /\ v.outclk = Port(i, "OUTPUT_CLK")
            /\ v.lvds = i.p.lvds /\ v.gb_io = i.p.gb_io
            /\ v.gb_out = Connected(i, "GLOBAL_BUFFER_OUTPUT") /\ v.d_in = Connected(i, "D_IN_0")
<1> DEFINE i == design.inst[g]
           v == ViewOf(design).inst[g]
<1>1. i.type = "IO"
  BY DEF Type
<1>2. v = View(design, i)
  BY DEF ViewOf
<1>3. View(design, i) =
        [type |-> "IO",
         gb_io |-> i.p.gb_io, gb_out |-> Connected(i, "GLOBAL_BUFFER_OUTPUT"), lvds |-> i.p.lvds,
         neg_trigger |-> i.p.neg_trigger, cen |-> Port(i, "CLOCK_ENABLE"),
         inclk |-> Port(i, "INPUT_CLK"), outclk |-> Port(i, "OUTPUT_CLK"),
         d_in |-> Connected(i, "D_IN_0")]
  BY <1>1 DEF View
<1> HIDE DEF i, v
<1>4. v.neg_trigger = i.p.neg_trigger /\ v.cen = Port(i, "CLOCK_ENABLE")
  BY <1>2, <1>3
<1>5. v.inclk = Port(i, "INPUT_CLK") /\ v.outclk = Port(i, "OUTPUT_CLK")
  BY <1>2, <1>3
<1>6. v.lvds = i.p.lvds /\ v.gb_io = i.p.gb_io
  BY <1>2, <1>3
<1>7. v.gb_out = Connected(i, "GLOBAL_BUFFER_OUTPUT") /\ v.d_in = Connected(i, "D_IN_0")
  BY <1>2, <1>3
<1> QED BY <1>4, <1>5, <1>6, <1>7 DEF i, v

LEMMA PLLView ==
  ASSUME NEW g \in Gate, Type(g) = "PLL"
  PROVE  LET i == design.inst[g]
             v == ViewOf(design).inst[g]
         IN v.two = (i.p.variant \in TwoPorts)
<1> DEFINE i == design.inst[g]
           v == ViewOf(design).inst[g]
<1>1. i.type = "PLL"
  BY DEF Type
<1>2. v = View(design, i)
  BY DEF ViewOf
<1>3. View(design, i) = [type |-> "PLL", out_a |-> Connected(i, GlobalA(i)),
                         out_b |-> Connected(i, "PLLOUTGLOBALB"), two |-> i.p.variant \in TwoPorts]
  BY <1>1 DEF View
<1> HIDE DEF i, v
<1>4. v.two = (i.p.variant \in TwoPorts)
  BY <1>2, <1>3
<1> QED BY <1>4 DEF i, v

LEMMA SameControlsView ==
  ASSUME NEW g \in Gate, NEW h \in Gate, Type(g) = "IO", Type(h) = "IO"
  PROVE  SameControls(design.inst[g], design.inst[h]) <=>
           PadsAgree(ViewOf(design).inst[g], ViewOf(design).inst[h])
<1> DEFINE i == design.inst[g]
           j == design.inst[h]
           v == ViewOf(design).inst[g]
           w == ViewOf(design).inst[h]
<1>1. \A f : (Connected(i, f) /\ Connected(j, f) => i.ports[f] = j.ports[f]) <=>
             (Port(i, f) # 0 /\ Port(j, f) # 0 => Port(i, f) = Port(j, f))
  BY DEF Connected, Port
<1>2. /\ v.neg_trigger = i.p.neg_trigger /\ v.cen = Port(i, "CLOCK_ENABLE")
      /\ v.inclk = Port(i, "INPUT_CLK") /\ v.outclk = Port(i, "OUTPUT_CLK")
  BY PadView
<1>3. /\ w.neg_trigger = j.p.neg_trigger /\ w.cen = Port(j, "CLOCK_ENABLE")
      /\ w.inclk = Port(j, "INPUT_CLK") /\ w.outclk = Port(j, "OUTPUT_CLK")
  BY PadView
<1> HIDE DEF i, j, v, w
<1>4. SameControls(i, j) <=> PadsAgree(v, w)
  BY <1>1, <1>2, <1>3 DEF SameControls, PadsAgree
<1> QED BY <1>4 DEF i, j, v, w

(* Which instances are in which tile.                                      *)
LEMMA WhoIsWhere ==
  ASSUME Inv, NEW c \in Cell, cell_gate[c] # 0
  PROVE  /\ cell_gate[c] \in Placed /\ cell_gate[c] \in Gate /\ placement[cell_gate[c]] = c
         /\ Type(cell_gate[c]) = chipdb.cell_type[c]
         /\ \/ chipdb.cell_type[c] = "IO" /\ chipdb.tile_type[TileOf(c)] = "IO" /\ c[3] \in {0, 1}
            \/ chipdb.cell_type[c] = "PLL" /\ chipdb.tile_type[TileOf(c)] = "IO" /\ c[3] = 3
            \/ chipdb.cell_type[c] = "OSC" /\ chipdb.tile_type[TileOf(c)] = "EMPTY"
<1>1. /\ cell_gate[c] \in Placed /\ cell_gate[c] \in Gate /\ placement[cell_gate[c]] = c
      /\ Type(cell_gate[c]) = chipdb.cell_type[c] /\ chipdb.cell_type[c] \in {"IO", "PLL", "OSC"}
  BY DEF Inv, PlacedInv
<1> QED BY <1>1, ChipAssumption

LEMMA LegalLogicTile ==
  ASSUME Inv, NEW cg, \A c \in Cell : cg[c] = cell_gate[c],
         NEW t \in Tile, chipdb.tile_type[t] = "LOGIC"
  PROVE  ValidLogic(ViewOf(design), cg, t)
<1> DEFINE V == ViewOf(design)
           cells == {c \in {<<t[1], t[2], p>> : p \in 0 .. TileSize - 1} : cg[c] # 0}
<1> HIDE DEF V
<1>1. cells = {}
  <2>1. ASSUME NEW p \in 0 .. TileSize - 1, cg[<<t[1], t[2], p>>] # 0 PROVE FALSE
    <3>1. <<t[1], t[2], p>> \in Cell /\ t = <<t[1], t[2]>>
      BY ChipAssumption
    <3>2. chipdb.tile_type[TileOf(<<t[1], t[2], p>>)] = "LOGIC"
      BY <3>1 DEF TileOf
    <3> QED BY <2>1, <3>1, <3>2, WhoIsWhere
  <2> QED BY <2>1
<1>2. LocalWires(V, cg, {}) = {}
  BY DEF LocalWires
<1>3. Cardinality(LocalWires(V, cg, {})) <= MaxLocal
  BY <1>2, FS_EmptySet, SizeAssumption
<1>4. \A f \in Controls : OneNet(V, cg, {}, f)
  BY DEF OneNet
<1>5. ValidLogic(V, cg, t)
  BY <1>1, <1>3, <1>4 DEF ValidLogic
<1> QED BY <1>5 DEF V

LEMMA LegalCorner ==
  ASSUME Inv, NEW cg, \A c \in Cell : cg[c] = cell_gate[c], NEW t \in Tile
  PROVE  ValidBus(ViewOf(design), cg, t)
<1>1. \A c \in DOMAIN chipdb.bus_addr : c \in Cell /\ chipdb.cell_type[c] \in {"I2C", "SPI"}
  BY ChipAssumption
<1>2. \A c \in DOMAIN chipdb.bus_addr : cg[c] = 0
  BY <1>1, WhoIsWhere
<1> QED BY <1>2 DEF ValidBus

LEMMA LegalPLL ==
  ASSUME Inv, pc = "done", NEW cg, \A c \in Cell : cg[c] = cell_gate[c], ~TwoDrivers(cg),
         NEW t \in Tile, chipdb.tile_type[t] = "IO", GateAt(cg, <<t[1], t[2], 3>>) # 0
  PROVE  ValidPLL(ViewOf(design), cg, t)
<1> DEFINE c == <<t[1], t[2], 3>>
           g == cell_gate[c]
           V == ViewOf(design)
<1>1. c \in Cell /\ cg[c] = g /\ g # 0
  BY DEF GateAt
<1>2. chipdb.cell_type[c] = "PLL" /\ g \in Gate /\ Type(g) = "PLL"
  <2>1. c[3] = 3 /\ TileOf(c) = t
    BY ChipAssumption DEF TileOf
  <2> HIDE DEF c
  <2> QED BY <1>1, <2>1, WhoIsWhere
<1>3. c \notin chipdb.pll_locked /\ ~PLLConflict(design.inst[g], c)
  BY <1>1, <1>2 DEF Inv, RulesInv, Occupied
<1>4. \A glb \in 0 .. 7 : ValidGlobal(V, cg, glb)
  BY DEF TwoDrivers
<1>5. /\ chipdb.loc_pin_glb_num[chipdb.pllout[c].a] \in 0 .. 7
      /\ chipdb.loc_pin_glb_num[chipdb.pllout[c].b] \in 0 .. 7
  BY <1>1, <1>2, ChipAssumption
<1>6. ASSUME NEW p \in PLLOutCells(design.inst[g], c) PROVE cg[p] # 0 => ~V.inst[cg[p]].d_in
  <2>1. p \in Cell /\ chipdb.cell_type[p] = "IO"
    BY <1>1, <1>2, PLLCells
  <2>2. SUFFICES ASSUME cg[p] # 0 PROVE ~V.inst[cg[p]].d_in
    OBVIOUS
  <2>3. cg[p] = cell_gate[p] /\ cg[p] \in Gate /\ Type(cg[p]) = "IO"
    BY <2>1, <2>2, WhoIsWhere
  <2>4. ~HasInput(design.inst[cg[p]])
    BY <1>3, <2>2, <2>3 DEF PLLConflict
  <2>5. ~Connected(design.inst[cg[p]], "D_IN_0")
    BY <2>4 DEF HasInput
  <2> QED BY <2>3, <2>5, PadView
<1>7. V.inst[g].two => design.inst[g].p.variant \in TwoPorts
  BY <1>2, PLLView
<1>8. /\ chipdb.pllout[c].a \in PLLOutCells(design.inst[g], c)
      /\ V.inst[g].two => chipdb.pllout[c].b \in PLLOutCells(design.inst[g], c)
  BY <1>7 DEF PLLOutCells
<1> HIDE DEF g, V
<1> QED BY <1>1, <1>3, <1>4, <1>5, <1>6, <1>8 DEF ValidPLL, V

LEMMA LegalIOTile ==
  ASSUME Inv, pc = "done", NEW cg, \A c \in Cell : cg[c] = cell_gate[c],
         ~TwoDrivers(cg), ~OffNetwork(cg),
         NEW t \in Tile, chipdb.tile_type[t] = "IO", ~LvdsHasPartner(cg, t)
  PROVE  ValidIO(ViewOf(design), cg, t)
<1> DEFINE V == ViewOf(design)
           pad0 == <<t[1], t[2], 0>>
           pad1 == <<t[1], t[2], 1>>
           pads == {p \in {pad0, pad1} : GateAt(cg, p) # 0}
<1>1. /\ TileOf(pad0) = t /\ TileOf(pad1) = t /\ pad0[3] = 0 /\ pad1[3] = 1 /\ pad0 # pad1
      /\ TileOf(<<t[1], t[2], 2>>) = t
  BY ChipAssumption DEF TileOf
<1>2. pads \subseteq {pad0, pad1} /\ \A p \in pads : p \in Cell /\ cg[p] = cell_gate[p] /\ cg[p] # 0
  BY DEF GateAt
<1>3. GateAt(cg, <<t[1], t[2], 2>>) = 0
  <2>1. ASSUME GateAt(cg, <<t[1], t[2], 2>>) # 0 PROVE FALSE
    <3> DEFINE c == <<t[1], t[2], 2>>
    <3>1. c \in Cell /\ cell_gate[c] # 0 /\ TileOf(c) = t /\ c[3] = 2
      BY <1>1, <2>1 DEF GateAt
    <3> HIDE DEF c
    <3> QED BY <3>1, WhoIsWhere
  <2> QED BY <2>1
<1> HIDE DEF V, pad0, pad1, pads
<1>4. ASSUME NEW p \in pads
      PROVE  /\ cg[p] \in Placed /\ cg[p] \in Gate /\ Type(cg[p]) = "IO" /\ placement[cg[p]] = p
             /\ p \in chipdb.loc_pin /\ LvdsFits(design.inst[cg[p]], p) /\ TileOf(p) = t
  <2>1. p \in Cell /\ cell_gate[p] # 0 /\ cg[p] = cell_gate[p] /\ TileOf(p) = t /\ p[3] # 3
    BY <1>1, <1>2
  <2>2. cg[p] \in Placed /\ cg[p] \in Gate /\ Type(cg[p]) = "IO" /\ placement[cg[p]] = p
    BY <2>1, WhoIsWhere
  <2> QED BY <2>1, <2>2 DEF Inv, RulesInv
<1>5. \A p \in pads : V.inst[cg[p]].lvds = design.inst[cg[p]].p.lvds
  BY <1>4, PadView DEF V
<1>6. ASSUME NEW p \in pads PROVE ValidPad(V, cg, p)
  <2>1. p \in chipdb.loc_pin
    BY <1>4
  <2>2. ASSUME V.inst[cg[p]].gb_io, V.inst[cg[p]].gb_out PROVE ValidGlobal(V, cg, chipdb.loc_pin_glb_num[p])
    <3>1. design.inst[cg[p]].p.gb_io /\ Connected(design.inst[cg[p]], "GLOBAL_BUFFER_OUTPUT")
      BY <1>4, <2>2, PadView DEF V
    <3>2. p \in DOMAIN chipdb.loc_pin_glb_num
      BY <1>2, <2>1, <3>1 DEF OffNetwork
    <3>3. chipdb.loc_pin_glb_num[p] \in 0 .. 7
      BY <3>2, ChipAssumption
    <3> QED BY <3>3 DEF TwoDrivers, V
  <2> QED BY <2>1, <2>2 DEF ValidPad
<1>7. pad0 \in pads /\ V.inst[cg[pad0]].lvds => t \in chipdb.lvds_tiles /\ pad1 \notin pads
  <2>1. SUFFICES ASSUME pad0 \in pads, V.inst[cg[pad0]].lvds PROVE t \in chipdb.lvds_tiles /\ pad1 \notin pads
    OBVIOUS
  <2>2. design.inst[cg[pad0]].p.lvds
    BY <1>5, <2>1
  <2>3. t \in chipdb.lvds_tiles
    BY <1>4, <2>1, <2>2 DEF LvdsFits
  <2>4. ASSUME pad1 \in pads PROVE FALSE
    <3>1. pads = {pad0} \cup {pad1} /\ pad1 \notin {pad0}
      BY <1>1, <1>2, <2>1, <2>4
    <3>2. Cardinality(pads) = 2
      <4>1. IsFiniteSet({pad0}) /\ Cardinality({pad0}) = 1
        BY FS_Singleton
      <4>2. Cardinality({pad0} \cup {pad1}) = 1 + 1
        BY <3>1, <4>1, FS_AddElement
      <4> QED BY <3>1, <4>2
    <3> QED BY <2>1, <2>2, <3>2 DEF LvdsHasPartner, pads, pad0, pad1
  <2> QED BY <2>3, <2>4
<1>8. pad1 \in pads => ~V.inst[cg[pad1]].lvds
  BY <1>1, <1>4, <1>5 DEF LvdsFits
<1>9. pads = {pad0, pad1} => PadsAgree(V.inst[cg[pad0]], V.inst[cg[pad1]])
  <2>1. SUFFICES ASSUME pads = {pad0, pad1} PROVE PadsAgree(V.inst[cg[pad0]], V.inst[cg[pad1]])
    OBVIOUS
  <2>2. pad0 \in pads /\ pad1 \in pads
    BY <2>1
  <2>3. cg[pad0] # cg[pad1]
    BY <1>1, <1>4, <2>2
  <2>4. SameControls(design.inst[cg[pad0]], design.inst[cg[pad1]])
    BY <1>4, <2>2, <2>3 DEF Inv, RulesInv
  <2> QED BY <1>4, <2>2, <2>4, SameControlsView DEF V
<1>10. GateAt(cg, <<t[1], t[2], 3>>) # 0 => ValidPLL(V, cg, t)
  BY LegalPLL DEF V
<1>11. ValidIO(V, cg, t)
  BY <1>3, <1>6, <1>7, <1>8, <1>9, <1>10 DEF ValidIO, pads, pad0, pad1
<1> QED BY <1>11 DEF V

(* place_initial() may rely on what place_constraints() hands over.        *)
THEOREM AcceptedFilesLegal == Spec => []AcceptedIsLegal
<1>1. Inv => AcceptedIsLegal
  <2> SUFFICES ASSUME Inv, pc = "done", ~TwoPLLs, ~OffNetwork(PlacedAt), ~TwoDrivers(PlacedAt)
               PROVE  /\ \A g \in Placed : chipdb.cell_type[placement[g]] = Type(g)
                      /\ \A g, h \in Placed : g # h => placement[g] # placement[h]
                      /\ \A t \in Tile : Valid(ViewOf(design), PlacedAt, t) \/ LvdsHasPartner(PlacedAt, t)
    BY DEF AcceptedIsLegal, Placed, Type
  <2>1. \A g \in Placed : chipdb.cell_type[placement[g]] = Type(g)
    BY DEF Inv, PlacedInv
  <2>2. \A g, h \in Placed : g # h => placement[g] # placement[h]
    <3> SUFFICES ASSUME NEW g \in Placed, NEW h \in Placed, placement[g] = placement[h], g # h PROVE FALSE
      OBVIOUS
    <3>1. Type(g) = "PLL" /\ Type(h) = "PLL"
      BY DEF Inv, PlacedInv
    <3> QED BY <3>1 DEF TwoPLLs, Placed, Type
  <2>3. ASSUME NEW c \in Cell PROVE PlacedAt[c] = cell_gate[c]
    <3>1. CASE cell_gate[c] = 0
      BY <3>1 DEF Inv, PlacedInv, PlacedAt, Placed
    <3>2. CASE cell_gate[c] # 0
      <4>1. cell_gate[c] \in Placed /\ placement[cell_gate[c]] = c
        BY <3>2 DEF Inv, PlacedInv
      <4>2. \A g \in Placed : placement[g] = c => g = cell_gate[c]
        BY <2>2, <4>1
      <4> QED BY <4>1, <4>2 DEF PlacedAt, Placed
    <3> QED BY <3>1, <3>2
  <2>4. ASSUME NEW t \in Tile, ~LvdsHasPartner(PlacedAt, t) PROVE Valid(ViewOf(design), PlacedAt, t)
    <3> HIDE DEF PlacedAt
    <3>1. chipdb.tile_type[t] = "LOGIC" => ValidLogic(ViewOf(design), PlacedAt, t)
      BY <2>3, LegalLogicTile
    <3>2. chipdb.tile_type[t] = "IO" => ValidIO(ViewOf(design), PlacedAt, t)
      BY <2>3, <2>4, LegalIOTile
    <3>3. ValidBus(ViewOf(design), PlacedAt, t)
      BY <2>3, LegalCorner
    <3> QED BY <3>1, <3>2, <3>3 DEF Valid
  <2> QED BY <2>1, <2>2, <2>4
<1> QED BY <1>1, Invariance, PTL

-----------------------------------------------------------------------------
(* What the constraints want at the pin of a pad is that pad.              *)
LEMMA WantedPad ==
  ASSUME Inv, NEW n \in Constrained, Type(Gated(n)) = "IO"
  PROVE  LET c == net_pin_loc[n]
         IN /\ c \in Cell /\ c \in chipdb.loc_pin /\ c[3] \in {0, 1}
            /\ Gated(n) \in Gate /\ Gated(n) \in Wanted(c) /\ AllWanted[c] = Gated(n)
            /\ TileOf(c) \in Tile /\ chipdb.tile_type[TileOf(c)] = "IO"
<1> DEFINE c == net_pin_loc[n]
<1>1. c \in Cell /\ c \in chipdb.loc_pin /\ c[3] \in {0, 1} /\ chipdb.tile_type[TileOf(c)] = "IO"
  BY PadCells DEF Inv, FileInv
<1>2. TileOf(c) \in Tile
  BY <1>1, ChipAssumption
<1>3. Gated(n) \in Gate
  BY PortGates DEF Inv, FileInv
<1>4. Wanted(c) = {Gated(n)}
  <2>1. Gated(n) \in Wanted(c)
    BY InstType DEF Wanted, Constrained
  <2>2. ASSUME NEW k \in Constrained, inst(k).type = "IO" /\ net_pin_loc[k] = c PROVE k = n
    BY <2>2 DEF Inv, FileInv
  <2>3. ASSUME NEW k \in Constrained, PLLCell(net_pin_loc[k]) = c PROVE FALSE
    BY <1>1, <2>3 DEF PLLCell
  <2> QED BY <2>1, <2>2, <2>3 DEF Wanted, Constrained
<1>5. Gated(n) # 0
  BY <1>3, SizeAssumption DEF Gate
<1>6. AllWanted[c] = Gated(n)
  BY <1>1, <1>4 DEF AllWanted
<1> QED BY <1>1, <1>2, <1>3, <1>4, <1>6

(* The pads and PLLs that are placed are where they are wanted.            *)
LEMMA PlacedWhereWanted ==
  ASSUME Inv, pc = "refused", NEW c \in Cell, cell_gate[c] # 0, chipdb.cell_type[c] \in {"IO", "PLL"}
  PROVE  /\ cell_gate[c] \in Gate /\ Type(cell_gate[c]) = chipdb.cell_type[c] /\ cell_gate[c] \in Wanted(c)
         /\ chipdb.cell_type[c] = "IO" =>
              \E k \in Constrained : Gated(k) = cell_gate[c] /\ net_pin_loc[k] = c
<1> DEFINE g == cell_gate[c]
<1>1. g \in Placed /\ g \in Gate /\ placement[g] = c /\ Type(g) = chipdb.cell_type[c]
  BY WhoIsWhere
<1> HIDE DEF g
<1>2. PICK k \in Constrained : PinnedAt(g, k)
  BY <1>1 DEF Inv, OriginInv
<1>3. /\ Gated(k) = g /\ inst(k).type = Type(g)
      /\ c = IF Type(g) = "IO" THEN net_pin_loc[k] ELSE PLLCell(net_pin_loc[k])
  BY <1>1, <1>2, InstType DEF PinnedAt
<1>4. g \in Wanted(c)
  BY <1>1, <1>3 DEF Wanted, Constrained
<1> QED BY <1>1, <1>3, <1>4 DEF g

(* A pad that does not fit breaks a rule of its own, or valid() rejects    *)
(* its tile.                                                               *)
LEMMA RefusedLatch ==
  ASSUME Inv, NEW n \in Constrained, Type(Gated(n)) = "IO", ~LatchFits(n, net_pin_loc[n])
  PROVE  PinRulesBroken
<1> DEFINE b == bank(net_pin_loc[n])
<1>1. b \in 0 .. 3
  BY PadCells DEF Inv, FileInv
<1>2. latch(n) # 0 /\ bank_latch[b] # 0 /\ bank_latch[b] # latch(n)
  BY DEF LatchFits
<1> HIDE DEF b
<1>3. PICK k \in Constrained : Type(Gated(k)) = "IO" /\ bank(net_pin_loc[k]) = b /\ latch(k) = bank_latch[b]
  BY <1>1, <1>2 DEF Inv, BankInv
<1>4. n \in Ports /\ k \in Ports /\ inst(n).type = "IO" /\ inst(k).type = "IO"
  BY <1>3, InstType DEF Inv, FileInv
<1> QED BY <1>2, <1>3, <1>4 DEF PinRulesBroken, b

LEMMA RefusedLvds ==
  ASSUME Inv, NEW n \in Constrained, Type(Gated(n)) = "IO", ~LvdsFits(inst(n), net_pin_loc[n])
  PROVE  \E t \in Tile : ~Valid(ViewOf(design), AllWanted, t)
<1> DEFINE c == net_pin_loc[n]
           t == TileOf(c)
           V == ViewOf(design)
           cg == AllWanted
           pad0 == <<t[1], t[2], 0>>
           pad1 == <<t[1], t[2], 1>>
           pads == {p \in {pad0, pad1} : GateAt(cg, p) # 0}
<1>1. /\ c \in Cell /\ c[3] \in {0, 1} /\ Gated(n) \in Gate /\ cg[c] = Gated(n)
      /\ t \in Tile /\ chipdb.tile_type[t] = "IO"
  BY WantedPad
<1>2. c = <<c[1], c[2], c[3]>>
  BY <1>1, CellParts
<1>3. t[1] = c[1] /\ t[2] = c[2]
  BY DEF TileOf
<1>4. (c[3] = 0 => c = pad0) /\ (c[3] = 1 => c = pad1)
  BY <1>2, <1>3
<1>5. Gated(n) # 0
  BY <1>1, SizeAssumption DEF Gate
<1> HIDE DEF c, t, cg, V
<1>6. GateAt(cg, c) # 0
  BY <1>1, <1>5 DEF GateAt
<1>7. V.inst[cg[c]].lvds
  <2>1. inst(n).p.lvds
    BY DEF LvdsFits
  <2> QED BY <1>1, <2>1, PadView DEF V, inst
<1>8. ~(t \in chipdb.lvds_tiles /\ c[3] = 0)
  BY DEF LvdsFits, c, t
<1>9. ~ValidIO(V, cg, t)
  BY <1>1, <1>4, <1>6, <1>7, <1>8 DEF ValidIO
<1> QED BY <1>1, <1>9 DEF Valid, V, cg

LEMMA RefusedPartner ==
  ASSUME Inv, pc = "refused", NEW n \in Constrained, Type(Gated(n)) = "IO",
         ~PartnerFits(inst(n), net_pin_loc[n])
  PROVE  \E t \in Tile : ~Valid(ViewOf(design), AllWanted, t)
<1> DEFINE c == net_pin_loc[n]
           d == <<c[1], c[2], 1 - c[3]>>
           t == TileOf(c)
           V == ViewOf(design)
           cg == AllWanted
           pad0 == <<t[1], t[2], 0>>
           pad1 == <<t[1], t[2], 1>>
           pads == {p \in {pad0, pad1} : GateAt(cg, p) # 0}
<1>1. /\ c \in Cell /\ c[3] \in {0, 1} /\ Gated(n) \in Gate /\ cg[c] = Gated(n)
      /\ t \in Tile /\ chipdb.tile_type[t] = "IO"
  BY WantedPad
<1>2. c = <<c[1], c[2], c[3]>>
  BY <1>1, CellParts
<1>3. t[1] = c[1] /\ t[2] = c[2] /\ TileOf(d) = t /\ d[3] = 1 - c[3]
  BY DEF TileOf
<1>4. (c[3] = 0 /\ c = pad0 /\ d = pad1) \/ (c[3] = 1 /\ c = pad1 /\ d = pad0)
  BY <1>1, <1>2, <1>3
<1>5. d \in Cell /\ cell_gate[d] # 0 /\ ~SameControls(inst(n), design.inst[cell_gate[d]])
  BY DEF PartnerFits, GateAt
<1> HIDE DEF c, d, t, cg, V
<1>6. chipdb.cell_type[d] = "IO"
  BY <1>1, <1>3, <1>5, WhoIsWhere
<1>7. PICK k \in Constrained : Gated(k) = cell_gate[d] /\ net_pin_loc[k] = d
  BY <1>5, <1>6, PlacedWhereWanted
<1>8. Gated(k) \in Gate /\ Type(Gated(k)) = "IO"
  BY <1>5, <1>6, <1>7, PlacedWhereWanted
<1>9. cg[d] = Gated(k)
  BY <1>7, <1>8, WantedPad DEF cg
<1>10. Gated(n) # 0 /\ Gated(k) # 0
  BY <1>1, <1>8, SizeAssumption DEF Gate
<1>11. GateAt(cg, c) # 0 /\ GateAt(cg, d) # 0
  BY <1>1, <1>5, <1>9, <1>10 DEF GateAt
<1>12. ~SameControls(design.inst[cg[c]], design.inst[cg[d]]) /\ ~SameControls(design.inst[cg[d]], design.inst[cg[c]])
  BY <1>1, <1>5, <1>7, <1>9, SameControlsSymmetric DEF inst
<1>13. ~PadsAgree(V.inst[cg[c]], V.inst[cg[d]]) /\ ~PadsAgree(V.inst[cg[d]], V.inst[cg[c]])
  BY <1>1, <1>8, <1>9, <1>12, SameControlsView DEF V
<1>14. pads = {pad0, pad1}
  BY <1>4, <1>11
<1>15. ~PadsAgree(V.inst[cg[pad0]], V.inst[cg[pad1]])
  BY <1>4, <1>13
<1>16. ~ValidIO(V, cg, t)
  BY <1>14, <1>15 DEF ValidIO
<1> QED BY <1>1, <1>16 DEF Valid, V, cg

LEMMA RefusedPLL ==
  ASSUME Inv, pc = "refused", NEW c \in PlacedPLLs, PLLConflict(design.inst[cell_gate[c]], c)
  PROVE  PinRulesBroken
<1> DEFINE g == cell_gate[c]
<1>1. c \in Cell /\ chipdb.cell_type[c] = "PLL" /\ g # 0
  <2>1. c \in {chipdb.pll_cells[k] : k \in DOMAIN chipdb.pll_cells} /\ g # 0
    BY DEF PlacedPLLs
  <2>2. {chipdb.pll_cells[k] : k \in DOMAIN chipdb.pll_cells} = {e \in Cell : chipdb.cell_type[e] = "PLL"}
    BY ChipAssumption
  <2> QED BY <2>1, <2>2
<1>2. g \in Wanted(c)
  BY <1>1, PlacedWhereWanted
<1>3. PICK p \in PLLOutCells(design.inst[g], c) : cell_gate[p] # 0 /\ HasInput(design.inst[cell_gate[p]])
  BY DEF PLLConflict
<1> HIDE DEF g
<1>4. p \in Cell /\ chipdb.cell_type[p] = "IO"
  BY <1>1, <1>3, PLLCells
<1>5. cell_gate[p] \in Wanted(p)
  BY <1>3, <1>4, PlacedWhereWanted
<1> QED BY <1>1, <1>2, <1>3, <1>5 DEF PinRulesBroken

(* place_constraints() refuses no pins for the order it takes them in: a   *)
(* rule for pins, banks or PLLs is broken, or valid() rejects a tile of    *)
(* the pads as they were asked for.                                        *)
THEOREM RefusedFilesIllegal == Spec => []RefusedIsIllegal
<1>1. Inv => RefusedIsIllegal
  <2> SUFFICES ASSUME Inv, pc = "refused"
               PROVE  PinRulesBroken \/ \E t \in Tile : ~Valid(ViewOf(design), AllWanted, t)
    BY DEF RefusedIsIllegal
  <2>1. CASE port \in Constrained /\ Misfit(port)
    <3>1. port \in Ports /\ inst(port).type = Type(Gated(port))
      BY <2>1, InstType DEF Inv, FileInv
    <3>2. CASE Type(Gated(port)) = "IO" /\ ~PadFits(port, net_pin_loc[port])
      <4>1. CASE ~KindFits(inst(port), net_pin_loc[port])
        BY <3>1, <3>2, <4>1 DEF PinRulesBroken
      <4> QED BY <2>1, <3>2, <4>1, RefusedLatch, RefusedLvds, RefusedPartner DEF PadFits
    <3>3. CASE Type(Gated(port)) = "RGBA" /\ chipdb.rgb[design.port[port].op] # net_pin_loc[port]
      BY <3>1, <3>3 DEF PinRulesBroken
    <3>4. CASE Type(Gated(port)) = "PLL" /\ ~PLLAt(net_pin_loc[port])
      BY <3>1, <3>4 DEF PinRulesBroken
    <3> QED BY <2>1, <3>2, <3>3, <3>4 DEF Misfit
  <2>2. CASE \E c \in PlacedPLLs : PLLConflict(design.inst[cell_gate[c]], c)
    BY <2>2, RefusedPLL
  <2> QED BY <2>1, <2>2 DEF Inv, RefusedInv
<1> QED BY <1>1, Invariance, PTL
=============================================================================
