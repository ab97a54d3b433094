------------------------------ MODULE Handover ------------------------------
(***************************************************************************)
(* What the stages after the placer make of a placement: configure() of    *)
(* place.cc turns gates and pads into configuration bits, and the first    *)
(* part of route() turns the nets into a routing problem.  Both trust that *)
(* valid() has accepted every tile: two gates that want one bit to have    *)
(* two values, or one wire of the chip to carry two nets, end in a failing *)
(* assertion, or silently in a broken chip.                                *)
(*                                                                         *)
(* A bit is <<tile, name, index>>, a wire (cnet) likewise; a field of      *)
(* several bits that is only ever written as a whole is one bit with       *)
(* several values.  conf and cnet_net are relations, so that a second      *)
(* value is kept beside the first.                                         *)
(***************************************************************************)
EXTENDS Cells, Sequences

CONSTANTS
  Designs,        \* the netlists considered, for NGate gates and NNet nets
  Placements(_)   \* the placements considered of a netlist

(* What lies where, as the constructor of ChipDB adds the cells: two pads, *)
(* a buffer and a PLL in an I/O tile.  Pins are pads that the tables know, *)
(* each with bits of its own, and so are both pads of an LVDS input.       *)
ASSUME ChipAssumption ==
  LET Cells(type) == {c \in Cell : chipdb.cell_type[c] = type}
      In(type, tileType) == \A c \in Cells(type) : chipdb.tile_type[TileOf(c)] = tileType
      Plain(t) == t \in Tile => chipdb.tile_type[t] \notin {"LOGIC", "IO"}
  IN /\ NGate \in Nat /\ NNet \in Nat /\ TileSize \in Nat
     /\ Cell \subseteq Int \X Int \X Int /\ Tile \subseteq Int \X Int
     /\ \A c \in Cell : TileOf(c) \in Tile
     /\ In("LOGIC", "LOGIC") /\ In("IO", "IO") /\ In("GB", "IO") /\ In("PLL", "IO") /\ In("RAM", "RAMT")
     /\ \A c \in Cells("LOGIC") : c[3] \in 0 .. TileSize - 1
     /\ \A c \in Cells("IO") : c[3] \in {0, 1}
     /\ \A c \in Cells("GB") : c[3] = 2
     /\ \A c \in Cells("PLL") : c[3] = 3
     /\ \A c \in Cells("RAM") : c[3] = 0
     /\ \A c \in Cells("RAM") : Plain(<<c[1], c[2] - 1>>)
     /\ \A c \in Cells("MAC16"), k \in 0 .. 3 : Plain(<<c[1], c[2] + k>>)
     /\ chipdb.loc_pin \subseteq Cells("IO") \cap DOMAIN chipdb.ieren
     /\ chipdb.ieren \in [DOMAIN chipdb.ieren -> Int \X Int \X {0, 1}]
     /\ \A c, d \in DOMAIN chipdb.ieren : chipdb.ieren[c] = chipdb.ieren[d] => c = d
     /\ \A t \in chipdb.lvds_tiles, p \in {0, 1} : <<t[1], t[2], p>> \in DOMAIN chipdb.ieren
     /\ DOMAIN chipdb.loc_pin_glb_num \subseteq Cells("IO")
     /\ \A c \in Cells("PLL") : \E p \in DOMAIN chipdb.loc_pin_glb_num : TileOf(p) = TileOf(c)

(* The global networks: a pad and a buffer each, the outputs of the PLLs   *)
(* on pads of their own, and one oscillator at most.                       *)
ASSUME NetworkAssumption ==
  LET Cells(type) == {c \in Cell : chipdb.cell_type[c] = type}
      glb == chipdb.loc_pin_glb_num
      out == chipdb.pllout
  IN /\ glb \in [DOMAIN glb -> 0 .. 7] /\ \A c, d \in DOMAIN glb : glb[c] = glb[d] => c = d
     /\ \A c \in Cells("GB") : TileOf(c) \in DOMAIN chipdb.gbufin /\ chipdb.gbufin[TileOf(c)] \in 0 .. 7
     /\ DOMAIN out = Cells("PLL")
     /\ \A c \in DOMAIN out : {out[c].a, out[c].b} \subseteq DOMAIN glb
     /\ \A c, d \in DOMAIN out :
          out[c].a # out[d].b /\ (c # d => out[c].a # out[d].a /\ out[c].b # out[d].b)
     /\ chipdb.oscillator \in [Cells("OSC") -> 0 .. 7]
     /\ \A c, d \in Cells("OSC") : chipdb.oscillator[c] = chipdb.oscillator[d] => c = d

(* The wires that are named after ports, and those that the chip database  *)
(* lists for the ports of a block: no two ports have the same.             *)
LogicPorts == {"CLK", "CEN", "SR", "CIN", "COUT", "LO", "O", "I0", "I1", "I2", "I3"}
PadPorts ==
  {"D_IN_0", "D_IN_1", "D_OUT_0", "D_OUT_1", "OUTPUT_ENABLE",
   "LATCH_INPUT_VALUE", "CLOCK_ENABLE", "INPUT_CLK", "OUTPUT_CLK"}
I3CPorts == {"PU_ENB", "WEAK_PU_ENB"}
RamTiles ==
  LET cells == {c \in Cell : chipdb.cell_type[c] = "RAM"}
  IN {<<c[1], c[2]>> : c \in cells} \cup {<<c[1], c[2] - 1>> : c \in cells}
NamedWire(w) ==
  \/ w[2] = "glb_netwk"
  \/ w[1] \in Tile /\ chipdb.tile_type[w[1]] = "LOGIC" /\ w[2] \in LogicPorts \cup {"carry_in_mux"}
  \/ w[1] \in Tile /\ chipdb.tile_type[w[1]] = "IO" /\ w[2] \in PadPorts
  \/ w[1] \in RamTiles

ASSUME WireAssumption ==
  /\ \A c \in DOMAIN chipdb.mfv : \A f \in DOMAIN chipdb.mfv[c] :
       /\ ~NamedWire(chipdb.mfv[c][f])
       /\ \A d \in DOMAIN chipdb.mfv : \A k \in DOMAIN chipdb.mfv[d] :
            chipdb.mfv[c][f] = chipdb.mfv[d][k] => c = d /\ f = k
       /\ \A d \in DOMAIN chipdb.i3c : \A k \in I3CPorts : chipdb.mfv[c][f] # chipdb.i3c[d][k]
  /\ \A c \in DOMAIN chipdb.i3c, f \in I3CPorts :
       /\ ~NamedWire(chipdb.i3c[c][f])
       /\ \A d \in DOMAIN chipdb.i3c, k \in I3CPorts : chipdb.i3c[c][f] = chipdb.i3c[d][k] => c = d /\ f = k

VARIABLES
  design,
  place,      \* gate_cell
  pc,
  gate,       \* the gate that configure() is at
  conf,       \* Configuration::cbits
  extra,      \* Configuration::extra_cbits: <<gate, network>>
  cnet_net,
  net,        \* the net that route() is at
  net_source, net_targets

vars == <<design, place, pc, gate, conf, extra, cnet_net, net, net_source, net_targets>>

-----------------------------------------------------------------------------
(* What the placer can end with: every gate has a cell of its own, of its  *)
(* type, and valid() accepts all tiles.  place_constraints() places every  *)
(* global buffer of a pad itself, and promote() refuses those on pads      *)
(* without a network.  That I3C pads are on pads of that kind is up to the *)
(* constraints.                                                            *)
CellsOf(i) ==
  {c \in Cell : /\ chipdb.cell_type[c] = i.type
                /\ i.type = "IO" /\ i.p.gb_io => c \in DOMAIN chipdb.loc_pin_glb_num
                /\ i.type = "IO" /\ (\E f \in I3CPorts : Connected(i, f)) => c \in DOMAIN chipdb.i3c}
IsPlacement(D, at) ==
  /\ at \in [Gate -> Cell]
  /\ \A g \in Gate : at[g] \in CellsOf(D.inst[g])
  /\ \A g, h \in Gate : at[g] = at[h] => g = h
Legal(D, at) == \A t \in Tile : Valid(ViewOf(D), CellGate(D, at), t)

(* The bits that are not a parameter of a block (those have the names of   *)
(* the block's own).                                                       *)
Strengths == {"10K", "6P8K", "3P3K"}   \* the assertion of configure_io()
Fields ==
  {"lut", "dff", "carry", "CarryInSet", "NegClk", "set_noreset", "async_sr",
   "pintype_0", "pintype_1", "pintype_2_5", "write_mode", "read_mode", "cascade", "select_b", "type",
   "REN", "IE", "padeb_test", "cf_100K", "LVDS", "PowerUp"} \cup Strengths

ASSUME DesignAssumption ==
  \A D \in Designs, g \in Gate :
    LET i == D.inst[g]
    IN /\ i.type = "IO" => i.p.lvds \in BOOLEAN /\ i.p.strength \in {"100K"} \cup Strengths
       /\ i.type \in {"MAC16", "OSC", "BLOCK", "I2C", "SPI", "RGBA", "PLL"} =>
            DOMAIN i.p.params \cap Fields = {}

Outputs == {"O", "COUT", "LO", "D_IN_0", "D_IN_1", "GLOBAL_BUFFER_OUTPUT", "RDATA", "CLK_OUT", "DATAOUT",
            "PLLOUTGLOBAL", "PLLOUTGLOBALA", "PLLOUTGLOBALB", "PLLOUTCORE", "PLLOUTCOREA", "PLLOUTCOREB"}

(* The wire that the chip database lists for a port of a PLL or a block,   *)
(* if any: the carry in of a multiplier is a dedicated wire.               *)
PLLPorts(variant) ==
  IF variant \in TwoPorts THEN {"PLLOUTGLOBALA", "PLLOUTGLOBALB", "PLLOUTCOREA", "PLLOUTCOREB"}
                          ELSE {"PLLOUTGLOBAL", "PLLOUTCORE"}
AllPLLPorts == PLLPorts("2_PAD") \cup PLLPorts("PAD")
ListedPort(i, f) ==
  CASE i.type = "PLL" -> f \notin AllPLLPorts
    [] i.type = "MAC16" -> f \notin {"ACCUMCI", "SIGNEXTIN"}
    [] OTHER -> i.type \notin {"LOGIC", "IO", "GB", "RAM"}
ListedName(i, f) ==
  IF i.type = "OSC" /\ f = "CLK_OUT" /\ i.p.through_fabric THEN "CLK_FABRIC" ELSE f

(* The ports of the library's models, and the drivers of a net.            *)
ASSUME PortAssumption ==
  \A D \in Designs, g \in Gate :
    LET i == D.inst[g]
        ports == DOMAIN i.ports
    IN /\ i.ports \in [ports -> 0 .. NNet]
       /\ i.type = "LOGIC" => ports \subseteq LogicPorts
       /\ i.type = "IO" => /\ ports \subseteq PadPorts \cup I3CPorts \cup {"GLOBAL_BUFFER_OUTPUT"}
                           /\ Connected(i, "GLOBAL_BUFFER_OUTPUT") => i.p.gb_io
       /\ i.type = "GB" => ports \subseteq {"USER_SIGNAL_TO_GLOBAL_BUFFER", "GLOBAL_BUFFER_OUTPUT"}
       /\ i.type = "RAM" => /\ "glb_netwk" \notin ports
                            /\ ~({"RCLK", "RCLKN"} \subseteq ports) /\ ~({"WCLK", "WCLKN"} \subseteq ports)
       /\ i.type = "PLL" => ports \cap AllPLLPorts \subseteq PLLPorts(i.p.variant)
       /\ i.type = "OSC" => "CLK_FABRIC" \notin ports /\ i.p.through_fabric \in BOOLEAN
       /\ \A c \in CellsOf(i), f \in ports :
            ListedPort(i, f) /\ ~(i.type = "OSC" /\ f = "CLK_OUT" /\ ~i.p.through_fabric) =>
              c \in DOMAIN chipdb.mfv /\ ListedName(i, f) \in DOMAIN chipdb.mfv[c]
       /\ \A h \in Gate : \A f \in ports \cap Outputs, k \in DOMAIN D.inst[h].ports \cap Outputs :
            i.ports[f] = D.inst[h].ports[k] /\ i.ports[f] # 0 => g = h /\ f = k

Init ==
  /\ design \in Designs
  /\ place \in {at \in Placements(design) : IsPlacement(design, at) /\ Legal(design, at)}
  /\ pc = (IF NGate = 0 THEN "pins" ELSE "gates") /\ gate = 1
  /\ conf = {} /\ extra = {} /\ cnet_net = {}
  /\ net = 1
  /\ net_source = <<>> /\ net_targets = <<>>

-----------------------------------------------------------------------------
(* Placer::configure(): the gates *)

inst == design.inst[gate]
loc == place[gate]
tile == TileOf(loc)
Bit(B) == IF B THEN 1 ELSE 0

(* The bits of the current gate's parameters, each at its cell.            *)
ParamBits(params) == {<<<<tile, f, loc[3]>>, params[f]>> : f \in DOMAIN params}
TileBit(f, v) == <<<<tile, f, 0>>, v>>

ConfigureGate(type, bits, glbs) ==
  /\ pc = "gates" /\ inst.type = type /\ ~inst.p.bad
  /\ conf' = conf \cup bits
  /\ extra' = extra \cup ({gate} \X glbs)
  /\ gate' = gate + 1
  /\ pc' = IF gate = NGate THEN "pins" ELSE "gates"
  /\ UNCHANGED <<design, place, cnet_net, net, net_source, net_targets>>

(* The carry in is only set at the bottom of a tile; the clock bits only   *)
(* if the flip-flop is used.                                               *)
CarryInSet ==
  LET n == Port(inst, "CIN")
  IN IF inst.p.carry = 1 /\ loc[3] = 0 /\ n \in DOMAIN design.constant
     THEN {TileBit("CarryInSet", design.constant[n])}
     ELSE {}

LogicBits ==
  ParamBits([f \in {"lut", "dff"} |-> inst.p[f]])
  \cup (IF inst.p.carry = 1 THEN ParamBits([carry |-> 1]) \cup CarryInSet ELSE {})
  \cup (IF inst.p.dff = 1
        THEN {TileBit("NegClk", inst.p.neg_clk)}
             \cup ParamBits([f \in {"set_noreset", "async_sr"} |-> inst.p[f]])
        ELSE {})

ConfigureLogic == ConfigureGate("LOGIC", LogicBits, {})

(* PIN_TYPE, and both NegClk bits of the tile, for either pad.             *)
PadBits ==
  ParamBits([f \in {"pintype_0", "pintype_1", "pintype_2_5"} |-> inst.p[f]])
  \cup {TileBit("NegClk", inst.p.neg_trigger)}

ConfigurePad ==
  ConfigureGate("IO", PadBits,
                IF inst.p.gb_io /\ Connected(inst, "GLOBAL_BUFFER_OUTPUT")
                THEN {chipdb.loc_pin_glb_num[loc]} ELSE {})

(* A fabric buffer needs no bit.                                           *)
ConfigureBuffer == ConfigureGate("GB", {}, {})

(* A RAM takes two tiles; its cell is in the upper one.                    *)
Below(t) == <<t[1], t[2] - 1>>
RamBits ==
  {TileBit("write_mode", inst.p.write_mode), TileBit("read_mode", inst.p.read_mode)}
  \cup (IF inst.p.neg_read THEN {TileBit("NegClk", 1)} ELSE {})
  \cup (IF inst.p.neg_write THEN {<<<<Below(tile), "NegClk", 0>>, 1>>} ELSE {})

ConfigureRam == ConfigureGate("RAM", RamBits, {})

(* A multiplier also sets the logic and cascade bits of its four tiles.    *)
FillTile(t) == {<<<<t, "lut", k>>, 1>> : k \in 0 .. TileSize - 1}
               \cup {<<<<t, "cascade", k>>, 1>> : k \in 0 .. TileSize - 1}

ConfigureMac ==
  ConfigureGate("MAC16", ParamBits(inst.p.params)
                         \cup UNION {FillTile(<<tile[1], tile[2] + k>>) : k \in 0 .. 3}, {})

(* Oscillators lie in tiles of no type, and have a network of their own.   *)
ConfigureOscillator ==
  ConfigureGate("OSC", ParamBits(inst.p.params),
                IF DrivesNetwork(inst) THEN {chipdb.oscillator[loc]} ELSE {})

(* SB_SPRAM256KA, SB_I2C, SB_SPI and SB_RGBA_DRV have bits that enable     *)
(* them, SB_WARMBOOT and SB_LEDDA_IP have none.                            *)
ConfigureBlock == \E type \in {"BLOCK", "I2C", "SPI", "RGBA"} : ConfigureGate(type, ParamBits(inst.p.params), {})

PLLType(variant) ==
  CASE variant = "PAD" -> 2 [] variant = "2_PAD" -> 4 [] variant = "2F_PAD" -> 6
    [] variant = "CORE" -> 3 [] variant = "2F_CORE" -> 7

PLLOut(f) == IF f = "PLLOUTGLOBALB" THEN chipdb.pllout[loc].b ELSE chipdb.pllout[loc].a

(* Mutant: PLLOUTGLOBALB opens the network of the first output.            *)
PLLNetworksOneOutput ==
  {chipdb.loc_pin_glb_num[PLLOut(GlobalA(inst))] :
     f \in {f \in {GlobalA(inst), "PLLOUTGLOBALB"} : Connected(inst, f)}}

PLLNetworks ==
  {chipdb.loc_pin_glb_num[PLLOut(f)] : f \in {f \in {GlobalA(inst), "PLLOUTGLOBALB"} : Connected(inst, f)}}

(* The pad of the PLL's own tile passes the output on: PIN_TYPE 01 in its  *)
(* lower bits, whoever is placed there.                                    *)
PLLPad == CHOOSE c \in DOMAIN chipdb.loc_pin_glb_num : TileOf(c) = tile

PLLBits ==
  {<<<<tile, "pintype_0", PLLPad[3]>>, 1>>, <<<<tile, "pintype_1", PLLPad[3]>>, 0>>}
  \cup ParamBits(inst.p.params)
  \cup ParamBits([select_b |-> IF inst.p.variant \in TwoPorts THEN inst.p.select_b ELSE 0,
                  type |-> PLLType(inst.p.variant)])

ConfigurePLL == ConfigureGate("PLL", PLLBits, PLLNetworks)

(* fatal(): a PIN_TYPE of less than 6 bits, an unknown delay mode.         *)
BadParameter ==
  /\ pc = "gates" /\ inst.p.bad
  /\ pc' = "failed"
  /\ UNCHANGED <<design, place, gate, conf, extra, cnet_net, net, net_source, net_targets>>

-----------------------------------------------------------------------------
(* Placer::configure(): the pads, used or not.  The input enable and       *)
(* pull-up bits of a pad are in the tile that chipdb->ieren says.          *)

GateOn(c) == IF c \in Cell /\ (\E g \in Gate : place[g] = c)
             THEN CHOOSE g \in Gate : place[g] = c ELSE 0
PLLPins == UNION {{chipdb.pllout[c].a, chipdb.pllout[c].b} : c \in DOMAIN chipdb.pllout}
Partner(c) == <<c[1], c[2], 1 - c[3]>>
LvdsPins == {c \in chipdb.loc_pin \ PLLPins : GateOn(c) # 0 /\ design.inst[GateOn(c)].p.lvds}

Use(input, output, pullup, weak, strength) ==
  [input |-> input, output |-> output, pullup |-> pullup, weak |-> weak, strength |-> strength]
Unused == Use(FALSE, FALSE, TRUE, FALSE, "100K")

PadUse(i) ==
  Use(/\ ~i.p.lvds
      /\ \/ Connected(i, "D_IN_0") \/ Connected(i, "D_IN_1")
         \/ i.p.gb_io /\ Connected(i, "GLOBAL_BUFFER_OUTPUT"),
      i.p.pintype_2_5 # 0,
      i.p.pullup /\ ~i.p.lvds,
      chipdb.device = "5k" /\ i.p.weak_pullup,
      IF chipdb.device = "5k" THEN i.p.strength ELSE "100K")

PinUse(c) ==
  IF c \in PLLPins THEN Use(TRUE, TRUE, FALSE, FALSE, "100K")
  ELSE IF GateOn(c) # 0 THEN PadUse(design.inst[GateOn(c)])
  ELSE Unused

(* The second pad of an LVDS input goes with the first, its pad enabled.   *)
Partners == {Partner(c) : c \in LvdsPins}
PartnerUse(c) == [PinUse(c) EXCEPT !.output = TRUE]

(* configure_io(): IE is active low on the 1k; padeb_test_ is swapped.     *)
IoBits(c, u) ==
  LET t == TileOf(c) pos == c[3]
      ie == Bit(IF chipdb.device = "1k" THEN ~u.input ELSE u.input)
  IN {<<<<t, "REN", pos>>, Bit(~u.pullup)>>, <<<<t, "IE", pos>>, ie>>}
     \cup (IF chipdb.device # "5k" THEN {}
           ELSE {<<<<t, "padeb_test", 1 - pos>>, Bit(~u.output)>>,
                 <<<<t, "cf_100K", pos>>, Bit(~((u.pullup /\ u.strength = "100K") \/ u.weak))>>}
                \cup (IF u.pullup /\ u.strength # "100K"
                      THEN {<<<<t, u.strength, pos>>, 1>>} ELSE {}))

PartnerBits == UNION {IoBits(chipdb.ieren[Partner(c)], PartnerUse(c)) : c \in LvdsPins}

(* Mutant: the partner of an LVDS pad is configured as any other pin, too. *)
PinBitsPartnerToo ==
  PartnerBits \cup UNION {IoBits(chipdb.ieren[c], PinUse(c)) : c \in chipdb.loc_pin}

(* The pins of the package.                                                *)
PinBits == PartnerBits \cup UNION {IoBits(chipdb.ieren[c], PinUse(c)) : c \in chipdb.loc_pin \ Partners}

(* Every pad in use that is not a PLL's says whether its tile is LVDS.     *)
LvdsBits ==
  {<<<<TileOf(c), "LVDS", 0>>, Bit(design.inst[GateOn(c)].p.lvds)>> :
     c \in {c \in chipdb.loc_pin \ PLLPins : GateOn(c) # 0}}

(* Bits of I/O tiles that belong to no pad.                                *)
OrphanBits ==
  UNION {IoBits(c, Unused) :
           c \in {<<t[1], t[2], p>> : t \in {t \in Tile : chipdb.tile_type[t] = "IO"}, p \in {0, 1}}
                 \ {chipdb.ieren[d] : d \in DOMAIN chipdb.ieren}}

ConfigurePins ==
  /\ pc = "pins"
  /\ conf' = conf \cup PinBits \cup LvdsBits \cup OrphanBits
  /\ pc' = "tiles"
  /\ UNCHANGED <<design, place, gate, extra, cnet_net, net, net_source, net_targets>>

(* The tiles that are configured whatever is in them, all IPCON tiles but  *)
(* one, and whether a RAM is powered up (active low on the 1k).            *)
IpConBits == UNION {FillTile(t) : t \in {t \in Tile : chipdb.tile_type[t] = "IPCON"} \ chipdb.ipcon_unset}
PowerUpBits ==
  {<<<<Below(t), "PowerUp", 0>>,
     Bit(IF chipdb.device = "1k" THEN GateOn(<<t[1], t[2], 0>>) = 0
                                 ELSE GateOn(<<t[1], t[2], 0>>) # 0)>> :
     t \in {t \in Tile : chipdb.tile_type[t] = "RAMT"}}

ConfigureTiles ==
  /\ pc = "tiles"
  /\ conf' = conf \cup IpConBits \cup PowerUpBits
  /\ pc' = "nets"
  /\ UNCHANGED <<design, place, gate, extra, cnet_net, net, net_source, net_targets>>

-----------------------------------------------------------------------------
(* Router::port_cnet() and the nets of Router::route() *)

None == <<>>
Network(glb) == <<<<0, 0>>, "glb_netwk", glb>>
TileWire(t, f) == <<t, f, -1>>
At(c, f) == <<TileOf(c), f, c[3]>>

LogicCnet(c, f) ==
  IF f \in {"CLK", "CEN", "SR"} THEN TileWire(TileOf(c), f)
  ELSE IF f # "CIN" THEN At(c, f)
  ELSE IF c[3] = 0 THEN TileWire(TileOf(c), "carry_in_mux") ELSE None

PadCnet(c, f) ==
  IF f \in {"LATCH_INPUT_VALUE", "CLOCK_ENABLE", "INPUT_CLK", "OUTPUT_CLK"}
  THEN TileWire(TileOf(c), f)
  ELSE IF f \in {"PU_ENB", "WEAK_PU_ENB"} THEN chipdb.i3c[c][f]
  ELSE IF f = "GLOBAL_BUFFER_OUTPUT" THEN Network(chipdb.loc_pin_glb_num[c])
  ELSE At(c, f)

BufferCnet(c, f) ==
  IF f = "GLOBAL_BUFFER_OUTPUT" THEN Network(chipdb.gbufin[TileOf(c)])
  ELSE TileWire(TileOf(c), "fabout")

(* ram_gate_chip, and the tile below if the wire is not in this one.       *)
RamWire(f) == IF f = "RCLKN" THEN "RCLK" ELSE IF f = "WCLKN" THEN "WCLK" ELSE f
RamCnet(c, f) ==
  TileWire(IF RamWire(f) \in chipdb.ramt_wires THEN TileOf(c) ELSE Below(TileOf(c)), RamWire(f))

PLLCnet(c, f) ==
  LET out == chipdb.pllout[c]
  IN IF f \in {"PLLOUTGLOBAL", "PLLOUTGLOBALA"} THEN Network(chipdb.loc_pin_glb_num[out.a])
     ELSE IF f = "PLLOUTGLOBALB" THEN Network(chipdb.loc_pin_glb_num[out.b])
     ELSE IF f \in {"PLLOUTCORE", "PLLOUTCOREA"} THEN At(out.a, "D_IN_0")
     ELSE IF f = "PLLOUTCOREB" THEN At(out.b, "D_IN_0")
     ELSE chipdb.mfv[c][f]

(* The wires of the other cells are listed by the chip database; the carry *)
(* in of a multiplier is a dedicated wire.                                 *)
CellCnet(i, c, f) ==
  IF i.type = "MAC16" /\ f \in {"ACCUMCI", "SIGNEXTIN"} THEN None
  ELSE IF i.type = "OSC" /\ f = "CLK_OUT"
       THEN IF i.p.through_fabric THEN chipdb.mfv[c].CLK_FABRIC ELSE Network(chipdb.oscillator[c])
  ELSE chipdb.mfv[c][f]

port_cnet(g, f) ==
  LET i == design.inst[g] c == place[g]
  IN CASE i.type = "LOGIC" -> LogicCnet(c, f)
       [] i.type = "IO" -> PadCnet(c, f)
       [] i.type = "GB" -> BufferCnet(c, f)
       [] i.type = "RAM" -> RamCnet(c, f)
       [] i.type = "PLL" -> PLLCnet(c, f)
       [] OTHER -> CellCnet(i, c, f)

Connections(w) ==
  {q \in Gate \X UNION {DOMAIN design.inst[g].ports : g \in Gate} :
     Port(design.inst[q[1]], q[2]) = w}

(* A net with a source and targets that are wires is to be routed.         *)
CollectNet ==
  /\ pc = "nets" /\ net <= NNet
  /\ LET routed == {q \in Connections(net) : port_cnet(q[1], q[2]) # None}
         source == {port_cnet(q[1], q[2]) : q \in {q \in routed : q[2] \in Outputs}}
         targets == {port_cnet(q[1], q[2]) : q \in {q \in routed : q[2] \notin Outputs}}
     IN /\ cnet_net' = cnet_net \cup ((source \cup targets) \X {net})
        /\ IF source # {} /\ targets # {}
           THEN net_source' = Append(net_source, source) /\ net_targets' = Append(net_targets, targets)
           ELSE UNCHANGED <<net_source, net_targets>>
  /\ net' = net + 1
  /\ UNCHANGED <<design, place, pc, gate, conf, extra>>

BeginRouting ==
  /\ pc = "nets" /\ net > NNet
  /\ pc' = "route"
  /\ UNCHANGED <<design, place, gate, conf, extra, cnet_net, net, net_source, net_targets>>

Stopped == pc \in {"route", "failed"} /\ UNCHANGED vars

Next ==
  \/ ConfigureLogic \/ ConfigurePad \/ ConfigureBuffer \/ ConfigureRam \/ ConfigureMac
  \/ ConfigureOscillator \/ ConfigureBlock \/ ConfigurePLL \/ BadParameter
  \/ ConfigurePins \/ ConfigureTiles
  \/ CollectNet \/ BeginRouting \/ Stopped

Spec == Init /\ [][Next]_vars
-----------------------------------------------------------------------------
(* Properties *)

(* The assertion of Configuration::set_cbit(): no bit is given two values, *)
(* whichever gates share a tile, and whatever pins, PLL outputs and LVDS   *)
(* partners are configured after the gates.                                *)
BitsAgree == \A s, t \in conf : s[1] = t[1] => s[2] = t[2]

(* The assertions of Router::route(), and what the router relies on: no    *)
(* wire belongs to two nets, and a net to be routed has one source.  The   *)
(* placer keeps apart what would share a wire.                             *)
NetsApart ==
  /\ \A s, t \in cnet_net : s[1] = t[1] => s[2] = t[2]
  /\ \A k \in DOMAIN net_source : Cardinality(net_source[k]) = 1

(* The net that is on a global network, if any, and who drives it.         *)
NetOn(glb) == {s[2] : s \in {s \in cnet_net : s[1] = Network(glb)}}
PadDriven(w) == \A q \in Connections(w) : design.inst[q[1]].type = "GB" => q[2] \notin Outputs

(* Two translations of one design agree: when route() has taken a network  *)
(* or the input of a pad as a source, configure() has opened it, once: the *)
(* network's extra bit, unless a fabric buffer drives it, and the input    *)
(* buffer of the pad, at the place ieren says and after all other pins     *)
(* were configured, too.                                                   *)
SourcesOpen ==
  pc = "route" =>
    /\ \A glb \in 0 .. 7 :
         Cardinality({e \in extra : e[2] = glb}) = IF \E w \in NetOn(glb) : PadDriven(w) THEN 1 ELSE 0
    /\ \A c \in chipdb.loc_pin :
         (\E s \in cnet_net : s[1] \in {At(c, "D_IN_0"), At(c, "D_IN_1")}) /\ c \notin LvdsPins =>
           <<<<TileOf(chipdb.ieren[c]), "IE", chipdb.ieren[c][3]>>, Bit(chipdb.device # "1k")>> \in conf
=============================================================================
