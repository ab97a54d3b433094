----------------------------- MODULE MCHandover -----------------------------
(* Model of Handover: six gates on a small chip of the 5k's kind, with a   *)
(* logic tile of two cells, three I/O tiles, a RAM and one of each block.  *)
EXTENDS Handover, SequencesExt

MCPads == {<<x, 0, p>> : x \in 1 .. 3, p \in {0, 1}}
MCTiles ==
  [t \in {<<0, 0>>, <<1, 0>>, <<2, 0>>, <<3, 0>>, <<1, 1>>, <<2, 2>>, <<3, 1>>, <<4, 1>>, <<4, 2>>} |->
     CASE t = <<0, 0>> -> "EMPTY" [] t = <<1, 1>> -> "LOGIC" [] t = <<2, 2>> -> "RAMT"
       [] t = <<3, 1>> -> "DSP0" [] t \in {<<4, 1>>, <<4, 2>>} -> "IPCON" [] OTHER -> "IO"]
MCCells ==
  [c \in MCPads |-> "IO"]
  @@ [c \in {<<1, 1, 0>>, <<1, 1, 1>>} |-> "LOGIC"]
  @@ [c \in {<<1, 0, 2>>, <<3, 0, 2>>} |-> "GB"]
  @@ <<1, 0, 3>> :> "PLL" @@ <<2, 2, 0>> :> "RAM" @@ <<3, 1, 0>> :> "MAC16"
  @@ <<0, 0, 0>> :> "OSC" @@ <<0, 0, 1>> :> "BLOCK"

(* The bits of the pads of tiles 2 and 3 are interchanged; one pad of tile *)
(* 3 has no pin and one location of tile 1 no pad.  The oscillator drives  *)
(* the network of the second buffer and of a pad.                          *)
MCChipdb ==
  [device |-> "5k",
   tile_type |-> MCTiles, cell_type |-> MCCells,
   loc_pin |-> MCPads \ {<<3, 0, 1>>},
   lvds_tiles |-> {<<1, 0>>, <<2, 0>>},
   pll_locked |-> {},
   loc_pin_glb_num |-> <<1, 0, 1>> :> 0 @@ <<2, 0, 0>> :> 1 @@ <<3, 0, 0>> :> 4,
   gbufin |-> <<1, 0>> :> 1 @@ <<3, 0>> :> 4,
   pllout |-> <<1, 0, 3>> :> [a |-> <<1, 0, 1>>, b |-> <<2, 0, 0>>],
   oscillator |-> <<0, 0, 0>> :> 4, bus_addr |-> <<>>,
   ieren |-> <<1, 0, 1>> :> <<1, 0, 0>> @@ <<1, 0, 0>> :> <<3, 0, 0>>
             @@ <<2, 0, 0>> :> <<3, 0, 1>> @@ <<2, 0, 1>> :> <<2, 0, 1>>
             @@ <<3, 0, 0>> :> <<2, 0, 0>>,
   ipcon_unset |-> {<<4, 2>>},
   ramt_wires |-> {"RCLK", "RE"},
   i3c |-> [c \in MCPads |-> [PU_ENB |-> <<<<4, 1>>, "lutff_in", 2 * c[1] + c[3]>>,
                              WEAK_PU_ENB |-> <<<<4, 2>>, "lutff_in", 2 * c[1] + c[3]>>]],
   mfv |-> <<1, 0, 3>> :> [REFERENCECLK |-> <<<<1, 0>>, "fabout", -1>>, BYPASS |-> <<<<1, 0>>, "bypass", -1>>]
           @@ <<3, 1, 0>> :> [CLK |-> <<<<3, 1>>, "CLK", -1>>, DATAOUT |-> <<<<3, 1>>, "mult_O", 0>>]
           @@ <<0, 0, 0>> :> [CLK_FABRIC |-> <<<<0, 0>>, "slf_op", 0>>, EN |-> <<<<0, 0>>, "in", 0>>]
           @@ <<0, 0, 1>> :> [CLK |-> <<<<0, 0>>, "clk", 0>>, DATAOUT |-> <<<<0, 0>>, "out", 0>>]]

-----------------------------------------------------------------------------
LCWith(ports, carry, dff, neg_clk) ==
  [type |-> "LOGIC", ports |-> ports,
   p |-> [bad |-> FALSE, lut |-> 3, carry |-> carry, dff |-> dff, neg_clk |-> neg_clk,
          set_noreset |-> 0, async_sr |-> 1]]

PadWith(ports, gb_io, lvds, neg, out, bad) ==
  [type |-> "IO", ports |-> ports,
   p |-> [bad |-> bad, pintype_0 |-> 1, pintype_1 |-> 0, pintype_2_5 |-> out, gb_io |-> gb_io, lvds |-> lvds,
          neg_trigger |-> neg, pullup |-> out = 0, weak_pullup |-> out = 2, strength |-> "10K"]]
In(w, clk) == PadWith([D_IN_0 |-> w, INPUT_CLK |-> clk], FALSE, FALSE, 0, 0, FALSE)
InNeg(w, clk) == PadWith([D_IN_1 |-> w, INPUT_CLK |-> clk], FALSE, FALSE, 1, 0, FALSE)
Out(w) == PadWith([D_OUT_0 |-> w], FALSE, FALSE, 0, 6, FALSE)
GlobalIn(w) == PadWith([GLOBAL_BUFFER_OUTPUT |-> w], TRUE, FALSE, 0, 0, FALSE)
Lvds(w) == PadWith([D_IN_0 |-> w], FALSE, TRUE, 0, 0, FALSE)
I3C(w) == PadWith([PU_ENB |-> w, D_OUT_0 |-> w], FALSE, FALSE, 0, 2, FALSE)
Latched(w, latch) == PadWith([D_IN_0 |-> w, LATCH_INPUT_VALUE |-> latch], FALSE, FALSE, 0, 0, FALSE)

BufferWith(gc, in, out) ==
  [type |-> "GB", ports |-> [USER_SIGNAL_TO_GLOBAL_BUFFER |-> in, GLOBAL_BUFFER_OUTPUT |-> out],
   p |-> [bad |-> FALSE, gc |-> gc]]
PLLWith(variant, ports) ==
  [type |-> "PLL", ports |-> ports,
   p |-> [bad |-> FALSE, variant |-> variant, params |-> [divf |-> 5], select_b |-> 2]]
OscWith(fabric, out) ==
  [type |-> "OSC", ports |-> [CLK_OUT |-> out, EN |-> 1],
   p |-> [bad |-> FALSE, through_fabric |-> fabric, params |-> [div |-> 1]]]
RamWith(neg_read, rclk, wclk, data) ==
  [type |-> "RAM", ports |-> (IF neg_read THEN "RCLKN" ELSE "RCLK") :> rclk @@ [WCLKN |-> wclk, RDATA |-> data],
   p |-> [bad |-> FALSE, write_mode |-> 1, read_mode |-> 2, neg_read |-> neg_read, neg_write |-> TRUE]]
Mac(clk, out) ==
  [type |-> "MAC16", ports |-> [CLK |-> clk, ACCUMCI |-> 1, DATAOUT |-> out],
   p |-> [bad |-> FALSE, params |-> [A_REG |-> 1, B_REG |-> 0]]]
SPRam(clk, out) ==
  [type |-> "BLOCK", ports |-> [CLK |-> clk, DATAOUT |-> out], p |-> [bad |-> FALSE, params |-> [SPRAM_EN |-> 1]]]

(* Net 1 is a constant, 2 and 3 are clocks, the others data.               *)
Netlist(gates) == [inst |-> gates, constant |-> 1 :> 0]

Logic(neg, clk) ==
  Netlist(<<LCWith([CLK |-> 2, I0 |-> 4, O |-> 5], 0, 1, neg),
            LCWith([CLK |-> clk, CIN |-> 1, I3 |-> 5, O |-> 6], 1, 1, 1),
            In(4, clk), Out(6), OscWith(TRUE, 2), RamWith(FALSE, clk, 2, 8)>>)

Clocks(pad, buffer, fabric) ==
  Netlist(<<pad, In(4, 2), In(5, 3), InNeg(6, 3), buffer, OscWith(fabric, 2)>>)

PLLs(variant, ports, pad) ==
  Netlist(<<PLLWith(variant, ports), pad, In(4, 2), Out(5), BufferWith(18, 4, 3),
            SPRam(2, 5)>>)

MCDesigns ==
  {\* two cells of an adder, or two flip-flops, with a RAM
   Netlist(<<LCWith([CIN |-> 1, COUT |-> 5, I1 |-> 4], 1, 0, 0),
             LCWith([CIN |-> 5, I2 |-> 4, CLK |-> 2, O |-> 6], 1, 1, 0),
             In(4, 2), InNeg(7, 2), OscWith(FALSE, 2), RamWith(TRUE, 2, 2, 8)>>),
   Logic(0, 2), Logic(1, 2), Logic(1, 3),
   \* pads with two clocks or edges, and a network for which two sources compete
   Clocks(GlobalIn(3), BufferWith(18, 4, 7), FALSE),
   Clocks(GlobalIn(3), BufferWith(18, 4, 7), TRUE),
   Clocks(Out(4), BufferWith(18, 4, 3), FALSE),
   \* PLLs with one or two outputs
   PLLs("CORE", [REFERENCECLK |-> 4, PLLOUTGLOBAL |-> 2, PLLOUTCORE |-> 6], Out(6)),
   PLLs("2F_CORE", [REFERENCECLK |-> 4, PLLOUTGLOBALA |-> 2, PLLOUTGLOBALB |-> 7, PLLOUTCOREB |-> 6], Out(6)),
   PLLs("2_PAD", [BYPASS |-> 4, PLLOUTGLOBALB |-> 7, PLLOUTCOREA |-> 8], GlobalIn(2)),
   \* LVDS and I3C pads, a multiplier
   Netlist(<<Lvds(4), I3C(4), In(5, 2), Mac(2, 6), BufferWith(255, 5, 2), Out(6)>>),
   Netlist(<<Lvds(4), PadWith([D_OUT_0 |-> 4], FALSE, FALSE, 0, 6, TRUE), In(5, 2), Mac(2, 6),
             BufferWith(255, 5, 2), SPRam(2, 8)>>)}

(* All placements, gate by gate.                                           *)
MCPlacements(D) ==
  FoldLeft(LAMBDA S, g : UNION {{Append(f, c) : c \in CellsOf(D.inst[g]) \ {f[h] : h \in DOMAIN f}} : f \in S},
           {<<>>}, [g \in Gate |-> g])

(* Two latch nets for four pads: two pads of a tile may have either.       *)
LatchDesigns ==
  {Netlist(<<Latched(2, 3), Latched(4, 5), Out(2), Out(4), In(3, 0), SPRam(2, 5)>>)}
=============================================================================
