----------------------------- MODULE Constraints -----------------------------
(***************************************************************************)
(* Physical constraints: read_pcf() reads which port is at which pin, and  *)
(* place_constraints(), after instantiate_io() and pack(), places the pads *)
(* and PLLs of those ports, then the oscillators and the other PLLs.       *)
(* place_initial() takes over what is placed here and asserts that valid() *)
(* accepts it, but place_constraints() has tests of its own for that.      *)
(*                                                                         *)
(* The ports of the design are numbered in the order of their names.  A    *)
(* pin is the location of its pad.  All pads have type "IO"; p.kind tells  *)
(* SB_IO, SB_GB_IO, SB_IO_I3C and SB_IO_OD apart, and the oscillators.     *)
(* Malformed lines, at which the program ends, are left out.               *)
(***************************************************************************)
EXTENDS Cells, Sequences

CONSTANTS
  Designs,   \* [inst, port, lines]: port[n] = [gate, op], lines that a file may have
  MaxLines   \* bound on the lines of the file

ASSUME SizeAssumption == NGate \in Nat /\ MaxLocal \in Nat

(* What lies where: two pads and a PLL at their positions in I/O tiles,    *)
(* oscillators in tiles of no type.  Pins are pads, and so are the outputs *)
(* of a PLL, on networks.                                                  *)
ASSUME ChipAssumption ==
  LET Cells(type) == {c \in Cell : chipdb.cell_type[c] = type}
  IN /\ Cell \subseteq Int \X Int \X Int /\ Tile \subseteq Int \X Int
     /\ \A c \in Cell : TileOf(c) \in Tile
     /\ \A t \in Tile, p \in 0 .. TileSize - 1 : chipdb.tile_type[t] = "LOGIC" => <<t[1], t[2], p>> \in Cell
     /\ \A c \in Cells("IO") : chipdb.tile_type[TileOf(c)] = "IO" /\ c[3] \in {0, 1}
     /\ \A c \in Cells("PLL") : chipdb.tile_type[TileOf(c)] = "IO" /\ c[3] = 3
     /\ \A c \in Cells("OSC") : chipdb.tile_type[TileOf(c)] = "EMPTY"
     /\ \A c \in chipdb.loc_pin : c \in Cells("IO") /\ chipdb.tile_bank[TileOf(c)] \in 0 .. 3
     /\ \A c \in DOMAIN chipdb.loc_pin_glb_num : chipdb.loc_pin_glb_num[c] \in 0 .. 7
     /\ {chipdb.pll_cells[k] : k \in DOMAIN chipdb.pll_cells} = Cells("PLL")
     /\ \A c \in Cells("PLL") :
          {chipdb.pllout[c].a, chipdb.pllout[c].b} \subseteq Cells("IO") \cap DOMAIN chipdb.loc_pin_glb_num
     /\ \A f \in DOMAIN chipdb.osc_cells : \A k \in DOMAIN chipdb.osc_cells[f] :
          chipdb.osc_cells[f][k] \in Cells("OSC")
     /\ DOMAIN chipdb.bus_addr \subseteq Cells("I2C") \cup Cells("SPI")

(* A port is the pin of one pad or PLL, or of the RGB driver, which alone  *)
(* has several (the assertion of top_port_io_gate()).                      *)
ASSUME DesignAssumption ==
  \A D \in Designs :
    LET Type(n) == D.inst[D.port[n].gate].type
    IN /\ DOMAIN D.port \subseteq Nat
       /\ \A n \in DOMAIN D.port : D.port[n].gate \in Gate /\ Type(n) \in {"IO", "PLL", "RGBA"}
       /\ \A n, k \in DOMAIN D.port : D.port[n].gate = D.port[k].gate => n = k \/ Type(n) = "RGBA"
       /\ \A g \in Gate : D.inst[g].type = "OSC" => D.inst[g].p.kind \in DOMAIN chipdb.osc_cells

VARIABLES
  design, pc,
  n_lines,           \* lines read, for MaxLines
  net_pin_loc, net_pin_pull_up,
  port,              \* the port that place() is at
  bank_latch,
  pull_up,           \* the PULLUP parameters
  cell_gate,         \* ConstraintsPlacer::cell_gate
  placement,         \* DesignState::placement
  i_inst             \* the instance that place() is at, in the last loop

files == <<n_lines, net_pin_loc, net_pin_pull_up>>
vars == <<design, pc, files, port, bank_latch, pull_up, cell_gate, placement, i_inst>>

Ports == DOMAIN design.port
Assign(f, x, y) == [z \in DOMAIN f \cup {x} |-> IF z = x THEN y ELSE f[z]]

Init ==
  /\ design \in Designs
  /\ pc = "parse"
  /\ n_lines = 0 /\ net_pin_loc = <<>> /\ net_pin_pull_up = <<>>
  /\ port = 1
  /\ bank_latch = [b \in 0 .. 3 |-> 0]
  /\ pull_up = [g \in Gate |-> FALSE]
  /\ cell_gate = [c \in Cell |-> 0]
  /\ placement = <<>>
  /\ i_inst = 1

Stop(why) ==
  /\ pc' = why
  /\ UNCHANGED <<design, files, port, bank_latch, pull_up, cell_gate, placement, i_inst>>

-----------------------------------------------------------------------------
(* PCFParser::parse() *)

Line(line) == pc = "parse" /\ n_lines < MaxLines /\ line \in design.lines
NewPin(line) ==
  /\ line.pin \in chipdb.loc_pin
  /\ line.net \notin DOMAIN net_pin_loc
  /\ \A n \in DOMAIN net_pin_loc : net_pin_loc[n] # line.pin

(* set_io, without -pullup ("unset"), or with it; lines that name no port  *)
(* are skipped.                                                            *)
SetIo(line) ==
  /\ Line(line)
  /\ n_lines' = n_lines + 1
  /\ \/ line.net \notin Ports /\ UNCHANGED <<net_pin_loc, net_pin_pull_up>>
     \/ /\ line.net \in Ports /\ NewPin(line)
        /\ net_pin_loc' = Assign(net_pin_loc, line.net, line.pin)
        /\ net_pin_pull_up' = IF line.pull_up = "unset" THEN net_pin_pull_up
                              ELSE Assign(net_pin_pull_up, line.net, line.pull_up = "yes")
  /\ UNCHANGED <<design, pc, port, bank_latch, pull_up, cell_gate, placement, i_inst>>

(* An unknown or duplicate pin, a second pin for a net.                    *)
BadLine(line) == Line(line) /\ line.net \in Ports /\ ~NewPin(line) /\ Stop("bad_file")

(* At the end every port must have a pin.                                  *)
MissingPorts == pc = "parse" /\ Ports # DOMAIN net_pin_loc /\ Stop("bad_file")

EndOfFile ==
  /\ pc = "parse" /\ Ports = DOMAIN net_pin_loc
  /\ pc' = "pins"
  /\ UNCHANGED <<design, files, port, bank_latch, pull_up, cell_gate, placement, i_inst>>

(* Without a constraints file the placer chooses all pins.                 *)
NoFile ==
  /\ pc = "parse" /\ n_lines = 0
  /\ pc' = "plls"
  /\ UNCHANGED <<design, files, port, bank_latch, pull_up, cell_gate, placement, i_inst>>

-----------------------------------------------------------------------------
(* ConstraintsPlacer::place(): the ports in the order of their names *)

Gated(n) == design.port[n].gate
inst(n) == design.inst[Gated(n)]
latch(n) == Port(inst(n), "LATCH_INPUT_VALUE")
bank(loc) == chipdb.tile_bank[TileOf(loc)]

(* Mutant: the latch nets of all banks are compared. *)
LatchFitsEverywhere(n, loc) == latch(n) # 0 => \A b \in 0 .. 3 : bank_latch[b] \in {0, latch(n)}

LatchFits(n, loc) == latch(n) # 0 => bank_latch[bank(loc)] \in {0, latch(n)}

LvdsFits(i, loc) == i.p.lvds => TileOf(loc) \in chipdb.lvds_tiles /\ loc[3] = 0

(* Mutant: the pads of a tile may have different clocks. *)
SameControlsNoClocks(i, j) ==
  /\ i.p.neg_trigger = j.p.neg_trigger
  /\ Connected(i, "CLOCK_ENABLE") /\ Connected(j, "CLOCK_ENABLE") => i.ports["CLOCK_ENABLE"] = j.ports["CLOCK_ENABLE"]

SameControls(i, j) ==
  /\ i.p.neg_trigger = j.p.neg_trigger
  /\ \A f \in {"CLOCK_ENABLE", "INPUT_CLK", "OUTPUT_CLK"} :
       Connected(i, f) /\ Connected(j, f) => i.ports[f] = j.ports[f]

(* The other pad of the tile, if it was placed before.                     *)
PartnerFits(i, loc) ==
  LET other == GateAt(cell_gate, <<loc[1], loc[2], 1 - loc[3]>>)
  IN other # 0 => SameControls(i, design.inst[other])

(* I3C pads have pins of their own, and open drain pads those of the RGB   *)
(* driver, which must not use them.                                        *)
KindFits(i, loc) ==
  /\ i.p.kind = "IO_I3C" => loc \in DOMAIN chipdb.i3c
  /\ i.p.kind = "IO_OD" =>
       \E op \in DOMAIN chipdb.rgb :
         /\ chipdb.rgb[op] = loc
         /\ \A g \in Gate : design.inst[g].type = "RGBA" => ~design.inst[g].p.current[op]

PadFits(n, loc) ==
  /\ LatchFits(n, loc) /\ LvdsFits(inst(n), loc)
  /\ PartnerFits(inst(n), loc) /\ KindFits(inst(n), loc)

PLLCell(loc) == <<loc[1], loc[2], 3>>
PLLAt(loc) == PLLCell(loc) \in Cell \ chipdb.pll_locked /\ chipdb.cell_type[PLLCell(loc)] = "PLL"

At(n) == pc = "pins" /\ port = n /\ n \in Ports

Put(n, c) ==
  /\ cell_gate' = [cell_gate EXCEPT ![c] = Gated(n)]
  /\ placement' = Assign(placement, Gated(n), c)
  /\ port' = port + 1

PlacePad(n) ==
  /\ At(n) /\ inst(n).type = "IO" /\ PadFits(n, net_pin_loc[n])
  /\ bank_latch' = [bank_latch EXCEPT ![bank(net_pin_loc[n])] = IF latch(n) # 0 THEN latch(n) ELSE @]
  /\ pull_up' = IF n \in DOMAIN net_pin_pull_up
                THEN [pull_up EXCEPT ![Gated(n)] = net_pin_pull_up[n]] ELSE pull_up
  /\ Put(n, net_pin_loc[n])
  /\ UNCHANGED <<design, pc, files, i_inst>>

(* The driver of the RGB pads has three ports, and is placed later.        *)
SkipRgb(n) ==
  /\ At(n) /\ inst(n).type = "RGBA" /\ chipdb.rgb[design.port[n].op] = net_pin_loc[n]
  /\ port' = port + 1
  /\ UNCHANGED <<design, pc, files, bank_latch, pull_up, cell_gate, placement, i_inst>>

(* A PLL with a pad is at the pad's tile, whichever of its pads it is.     *)
PlacePLLPad(n) ==
  /\ At(n) /\ inst(n).type = "PLL" /\ PLLAt(net_pin_loc[n])
  /\ Put(n, PLLCell(net_pin_loc[n]))
  /\ UNCHANGED <<design, pc, files, bank_latch, pull_up, i_inst>>

PinMisfits(n) ==
  /\ At(n)
  /\ \/ inst(n).type = "IO" /\ ~PadFits(n, net_pin_loc[n])
     \/ inst(n).type = "RGBA" /\ chipdb.rgb[design.port[n].op] # net_pin_loc[n]
     \/ inst(n).type = "PLL" /\ ~PLLAt(net_pin_loc[n])
  /\ Stop("refused")

AllPins ==
  /\ pc = "pins" /\ port \notin Ports
  /\ pc' = "plls"
  /\ UNCHANGED <<design, files, port, bank_latch, pull_up, cell_gate, placement, i_inst>>

-----------------------------------------------------------------------------
(* ConstraintsPlacer::place(): PLLs and pads, and the other instances *)

(* DesignState::pll_out_io_cells() *)
PLLOutCells(i, c) ==
  {chipdb.pllout[c].a} \cup (IF i.p.variant \in TwoPorts THEN {chipdb.pllout[c].b} ELSE {})

HasInput(i) ==
  Connected(i, "D_IN_0") \/ Connected(i, "D_IN_1") \/ i.p.pintype_0 # 1 \/ i.p.pintype_1 # 0

PLLConflict(i, c) ==
  \E p \in PLLOutCells(i, c) : cell_gate[p] # 0 /\ HasInput(design.inst[cell_gate[p]])

PlacedPLLs == {c \in {chipdb.pll_cells[k] : k \in DOMAIN chipdb.pll_cells} : cell_gate[c] # 0}

CheckPLLs ==
  /\ pc = "plls" /\ \A c \in PlacedPLLs : ~PLLConflict(design.inst[cell_gate[c]], c)
  /\ pc' = "rest"
  /\ UNCHANGED <<design, files, port, bank_latch, pull_up, cell_gate, placement, i_inst>>

BadPLLs == pc = "plls" /\ (\E c \in PlacedPLLs : PLLConflict(design.inst[cell_gate[c]], c)) /\ Stop("refused")

this == design.inst[i_inst]
Unplaced == pc = "rest" /\ i_inst <= NGate /\ i_inst \notin DOMAIN placement
NeedsPin == this.type = "IO" /\ this.p.kind # "SB_IO"

SkipInstance ==
  /\ pc = "rest" /\ i_inst <= NGate
  /\ i_inst \in DOMAIN placement \/ (this.type \notin {"OSC", "PLL"} /\ ~NeedsPin)
  /\ i_inst' = i_inst + 1
  /\ UNCHANGED <<design, pc, files, port, bank_latch, pull_up, cell_gate, placement>>

PinRequired == Unplaced /\ NeedsPin /\ Stop("unplaced")

(* The first free cell of the kind; a PLL wants no input at its outputs.   *)
CellsFor(i) ==
  IF i.type = "OSC" THEN chipdb.osc_cells[i.p.kind] ELSE chipdb.pll_cells
Usable(i, c) ==
  /\ cell_gate[c] = 0
  /\ i.type = "PLL" => c \notin chipdb.pll_locked /\ ~PLLConflict(i, c)
UsableCells(i) == {k \in DOMAIN CellsFor(i) : Usable(i, CellsFor(i)[k])}

PlaceFirstFit ==
  /\ Unplaced /\ this.type \in {"OSC", "PLL"} /\ UsableCells(this) # {}
  /\ \E k \in UsableCells(this) :
       /\ \A j \in UsableCells(this) : k <= j
       /\ cell_gate' = [cell_gate EXCEPT ![CellsFor(this)[k]] = i_inst]
       /\ placement' = Assign(placement, i_inst, CellsFor(this)[k])
  /\ i_inst' = i_inst + 1
  /\ UNCHANGED <<design, pc, files, port, bank_latch, pull_up>>

NoCellLeft == Unplaced /\ this.type \in {"OSC", "PLL"} /\ UsableCells(this) = {} /\ Stop("unplaced")

Finish ==
  /\ pc = "rest" /\ i_inst > NGate
  /\ pc' = "done"
  /\ UNCHANGED <<design, files, port, bank_latch, pull_up, cell_gate, placement, i_inst>>

Stopped == pc \in {"done", "bad_file", "refused", "unplaced"} /\ UNCHANGED vars

Next ==
  \/ \E line \in design.lines : SetIo(line) \/ BadLine(line)
  \/ MissingPorts \/ EndOfFile \/ NoFile
  \/ \E n \in Ports : PlacePad(n) \/ SkipRgb(n) \/ PlacePLLPad(n) \/ PinMisfits(n)
  \/ AllPins \/ CheckPLLs \/ BadPLLs
  \/ SkipInstance \/ PinRequired \/ PlaceFirstFit \/ NoCellLeft \/ Finish \/ Stopped

Spec == Init /\ [][Next]_vars
-----------------------------------------------------------------------------
(* Properties *)

(* What is at a cell by the placement, which is all that the placer gets.  *)
PlacedAt ==
  [c \in Cell |-> IF \E g \in DOMAIN placement : placement[g] = c
                  THEN CHOOSE g \in DOMAIN placement : placement[g] = c ELSE 0]

(* What place_constraints() does not look for and a later stage stops at   *)
(* (promote() at a global pad that has no network, place_initial() by its  *)
(* assertions at the others): also an LVDS input beside another pad, two   *)
(* drivers of one global network, and the pads of two PLLs in one tile.    *)
LvdsHasPartner(cg, t) ==
  LET pads == {c \in {<<t[1], t[2], 0>>, <<t[1], t[2], 1>>} : GateAt(cg, c) # 0}
  IN Cardinality(pads) = 2 /\ \E c \in pads : design.inst[cg[c]].p.lvds
OffNetwork(cg) ==
  \E c \in chipdb.loc_pin \ DOMAIN chipdb.loc_pin_glb_num :
    cg[c] # 0 /\ design.inst[cg[c]].p.gb_io /\ Connected(design.inst[cg[c]], "GLOBAL_BUFFER_OUTPUT")
TwoDrivers(cg) == \E glb \in 0 .. 7 : ~ValidGlobal(ViewOf(design), cg, glb)
TwoPLLs ==
  \E g, h \in DOMAIN placement :
    g # h /\ placement[g] = placement[h] /\ design.inst[g].type = "PLL" /\ design.inst[h].type = "PLL"

(* The assertions of place_initial() on what it takes over: apart from     *)
(* these combinations, what place_constraints() accepts pairwise, pin      *)
(* after pin, is a one-to-one placement on cells of the right type that    *)
(* valid() accepts in every tile.                                          *)
AcceptedIsLegal ==
  pc = "done" /\ ~TwoPLLs /\ ~OffNetwork(PlacedAt) /\ ~TwoDrivers(PlacedAt) =>
    /\ \A g \in DOMAIN placement : chipdb.cell_type[placement[g]] = design.inst[g].type
    /\ \A g, h \in DOMAIN placement : g # h => placement[g] # placement[h]
    /\ \A t \in Tile : Valid(ViewOf(design), PlacedAt, t) \/ LvdsHasPartner(PlacedAt, t)

(* Where the constraints want the pads and the PLLs with pads.             *)
Wanted(c) ==
  {Gated(n) : n \in {n \in DOMAIN net_pin_loc :
     \/ inst(n).type = "IO" /\ net_pin_loc[n] = c
     \/ inst(n).type = "PLL" /\ PLLCell(net_pin_loc[n]) = c}}
AllWanted == [c \in Cell |-> IF Wanted(c) = {} THEN 0 ELSE CHOOSE g \in Wanted(c) : TRUE]

(* The rules for which valid() has no counterpart.                         *)
PinRulesBroken ==
  \/ \E n \in Ports : inst(n).type = "IO" /\ ~KindFits(inst(n), net_pin_loc[n])
  \/ \E n \in Ports : inst(n).type = "RGBA" /\ chipdb.rgb[design.port[n].op] # net_pin_loc[n]
  \/ \E n \in Ports : inst(n).type = "PLL" /\ ~PLLAt(net_pin_loc[n])
  \/ \E n, k \in {n \in Ports : inst(n).type = "IO"} :
       /\ 0 \notin {latch(n), latch(k)} /\ latch(n) # latch(k)
       /\ bank(net_pin_loc[n]) = bank(net_pin_loc[k])
  \/ \E c \in Cell : \E g \in Wanted(c) :
       /\ chipdb.cell_type[c] = "PLL"
       /\ \E p \in PLLOutCells(design.inst[g], c) : \E h \in Wanted(p) : HasInput(design.inst[h])

(* A complete set of pins is refused for a reason that does not depend on  *)
(* the order of the ports: a rule for single pins, banks or PLLs is        *)
(* broken, or the placer itself would not accept the pads there.           *)
RefusedIsIllegal ==
  pc = "refused" => PinRulesBroken \/ OffNetwork(AllWanted) \/ \E t \in Tile : ~Valid(ViewOf(design), AllWanted, t)
=============================================================================
