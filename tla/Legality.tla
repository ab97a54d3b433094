------------------------------ MODULE Legality ------------------------------
(***************************************************************************)
(* What the placer of place.cc may put where: valid(t), and the length of  *)
(* a net.  The operators take the design D and the placement, cg           *)
(* (cell_gate) or gc (gate_cell), as parameters.                           *)
(*                                                                         *)
(* A cell is its location <<x, y, pos>>.  Gates and nets are numbered from *)
(* 1; 0 is none.  An instance is a record of what valid() reads from it:   *)
(*   LOGIC  clk, sr, cen, neg_clk, local_np (a set of <<net, parity>>)     *)
(*   IO     gb_io, gb_out (GLOBAL_BUFFER_OUTPUT is connected), lvds,       *)
(*          neg_trigger, cen, inclk, outclk, d_in (D_IN_0 is connected)    *)
(*   GB     gc (the class of global networks, a bit mask), gb_out          *)
(*   PLL    out_a, out_b (the global outputs that are connected), two (a   *)
(*          variant with two pads)                                         *)
(*   OSC    glb_out (an output on a network, not routed through the fabric)*)
(*   I2C, SPI  bus_addr                                                    *)
(* The test that a bank has one latch net reads gate_latch, which the      *)
(* constructor never sets: it cannot fail, and is left out.                *)
(***************************************************************************)
EXTENDS Integers, FiniteSets

CONSTANTS
  NGate, NNet,   \* n_gates, and the number of nets
  TileSize,      \* logic cells in a tile (8)
  MaxLocal,      \* local wires of a logic tile (29)
  chipdb         \* the tables of the chip and its package

Gate == 1 .. NGate
Net == 1 .. NNet
Cell == DOMAIN chipdb.cell_type
Tile == DOMAIN chipdb.tile_type

TileOf(c) == <<c[1], c[2]>>
Chained(D) == UNION {{D.chains[i][j] : j \in DOMAIN D.chains[i]} : i \in DOMAIN D.chains}
Locked(D) == DOMAIN D.placement

-----------------------------------------------------------------------------
(* Logic tiles *)

(* Mutant: the clock enables are not compared. *)
ControlsNoCen == {"clk", "sr"}

Controls == {"clk", "sr", "cen"}

(* valid() walks up the positions: the first net it meets binds all later  *)
(* positions, unused ones included, but not the earlier ones.              *)
OneNet(D, cg, cells, f) ==
  \A c, e \in cells : c[3] < e[3] /\ D.inst[cg[c]][f] # 0
                        => D.inst[cg[e]][f] = D.inst[cg[c]][f]

(* The local wires of a tile: what the inputs can be reached by (odd and   *)
(* even positions swap the parity), and the control nets that are not      *)
(* global.                                                                 *)
LocalWires(D, cg, cells) ==
  (UNION {{<<np[1], (np[2] + c[3]) % 2>> : np \in D.inst[cg[c]].local_np} : c \in cells})
  \cup {<<w, 0>> : w \in UNION {{D.inst[cg[c]][f] : c \in cells} : f \in Controls}
                            \ ({0} \cup D.net_global)}

ValidLogic(D, cg, t) ==
  LET cells == {c \in {<<t[1], t[2], p>> : p \in 0 .. TileSize - 1} : cg[c] # 0}
  IN /\ \A f \in Controls : OneNet(D, cg, cells, f)
     /\ \A c, e \in cells : D.inst[cg[c]].neg_clk = D.inst[cg[e]].neg_clk
     /\ Cardinality(LocalWires(D, cg, cells)) <= MaxLocal

-----------------------------------------------------------------------------
(* Global networks *)

GlobalCells(glb) ==
  {c \in DOMAIN chipdb.loc_pin_glb_num : chipdb.loc_pin_glb_num[c] = glb}
  \cup {<<t[1], t[2], 2>> : t \in {t \in DOMAIN chipdb.gbufin : chipdb.gbufin[t] = glb}}
  \cup {c \in DOMAIN chipdb.pllout :
          glb \in {chipdb.loc_pin_glb_num[chipdb.pllout[c].a],
                   chipdb.loc_pin_glb_num[chipdb.pllout[c].b]}}
  \cup {c \in DOMAIN chipdb.oscillator : chipdb.oscillator[c] = glb}

DrivesGlobal(D, g, c, glb) ==
  LET i == D.inst[g]
  IN \/ i.type = "IO" /\ i.gb_io /\ i.gb_out
     \/ i.type = "GB" /\ i.gb_out
     \/ i.type = "OSC" /\ i.glb_out
     \/ /\ i.type = "PLL"
        /\ \/ i.out_a /\ chipdb.loc_pin_glb_num[chipdb.pllout[c].a] = glb
           \/ i.out_b /\ chipdb.loc_pin_glb_num[chipdb.pllout[c].b] = glb

(* At most one driver of a global network. *)
ValidGlobal(D, cg, glb) ==
  \A c, e \in {c \in GlobalCells(glb) : cg[c] # 0 /\ DrivesGlobal(D, cg[c], c, glb)} : c = e

-----------------------------------------------------------------------------
(* I/O tiles: two pads, a global buffer at position 2, a PLL at position 3 *)

GateAt(cg, c) == IF c \in Cell THEN cg[c] ELSE 0

ValidPad(D, cg, c) ==
  LET i == D.inst[cg[c]]
  IN /\ c \in chipdb.loc_pin
     /\ i.gb_io /\ i.gb_out => ValidGlobal(D, cg, chipdb.loc_pin_glb_num[c])

(* Mutant: the pads may have different clocks. *)
PadsAgreeNoClocks(i, j) ==
  /\ i.neg_trigger = j.neg_trigger
  /\ i["cen"] # 0 /\ j["cen"] # 0 => i["cen"] = j["cen"]

(* The two pads of a tile share their clocks and the clock enable. *)
PadsAgree(i, j) ==
  /\ i.neg_trigger = j.neg_trigger
  /\ \A f \in {"cen", "inclk", "outclk"} : i[f] # 0 /\ j[f] # 0 => i[f] = j[f]

ValidBuffer(D, cg, t, pads) ==
  LET c == <<t[1], t[2], 2>>
      glb == chipdb.gbufin[t]
  IN /\ \A p \in pads : ~D.inst[cg[p]].gb_io
     /\ (D.inst[cg[c]].gc \div 2^glb) % 2 = 1
     /\ ValidGlobal(D, cg, glb)

(* The pads that a PLL drives may hold an output, but no input. *)
ValidPLL(D, cg, t) ==
  LET c == <<t[1], t[2], 3>>
      i == D.inst[cg[c]]
      out == chipdb.pllout[c]
      NoInput(p) == cg[p] # 0 => ~D.inst[cg[p]].d_in
  IN /\ c \notin chipdb.pll_locked
     /\ i.out_a => ValidGlobal(D, cg, chipdb.loc_pin_glb_num[out.a])
     /\ i.out_b => ValidGlobal(D, cg, chipdb.loc_pin_glb_num[out.b])
     /\ NoInput(out.a)
     /\ i.two => NoInput(out.b)

ValidIO(D, cg, t) ==
  LET pad0 == <<t[1], t[2], 0>>
      pad1 == <<t[1], t[2], 1>>
      pads == {p \in {pad0, pad1} : GateAt(cg, p) # 0}
  IN /\ \A p \in pads : ValidPad(D, cg, p)
     /\ pad0 \in pads /\ D.inst[cg[pad0]].lvds => t \in chipdb.lvds_tiles /\ pad1 \notin pads
     /\ pad1 \in pads => ~D.inst[cg[pad1]].lvds
     /\ pads = {pad0, pad1} => PadsAgree(D.inst[cg[pad0]], D.inst[cg[pad1]])
     /\ GateAt(cg, <<t[1], t[2], 2>>) # 0 => ValidBuffer(D, cg, t, pads)
     /\ GateAt(cg, <<t[1], t[2], 3>>) # 0 => ValidPLL(D, cg, t)

(* The I2C and SPI cells of the 5k lie in the corners, one in each, and    *)
(* answer to one bus address there.                                        *)
ValidBus(D, cg, t) ==
  \A c \in DOMAIN chipdb.bus_addr :
    TileOf(c) = t /\ cg[c] # 0 => D.inst[cg[c]].bus_addr = chipdb.bus_addr[c]

Valid(D, cg, t) ==
  /\ chipdb.tile_type[t] = "LOGIC" => ValidLogic(D, cg, t)
  /\ chipdb.tile_type[t] = "IO" => ValidIO(D, cg, t)
  /\ chipdb.tile_type[t] = "EMPTY" => ValidBus(D, cg, t)

-----------------------------------------------------------------------------
(* Wire length: half the perimeter of the box around the gates of a net *)

Spread(S) == CHOOSE d \in {a - b : a, b \in S} : \A a, b \in S : a - b <= d

NetLength(D, gc, w) ==
  IF w \in D.net_global \/ D.net_gates[w] = {}
  THEN 0
  ELSE Spread({gc[g][1] : g \in D.net_gates[w]}) + Spread({gc[g][2] : g \in D.net_gates[w]})
=============================================================================
