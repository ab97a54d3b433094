--------------------------- MODULE MCConstraints ----------------------------
(* Model of Constraints: three ports, or two and instances without a port, *)
(* on three I/O tiles in two banks.                                        *)
EXTENDS Constraints, TLC

MCTiles == {<<x, 0>> : x \in 1 .. 3} \cup {<<0, 0>>}
MCPads == {<<x, 0, p>> : x \in 1 .. 3, p \in {0, 1}}
PLL1 == <<1, 0, 3>>
PLL3 == <<3, 0, 3>>
Osc == <<0, 0, 0>>

(* The first PLL has its outputs in both tiles of the first bank.  A chip  *)
(* with something of every device.                                         *)
MCChipdb ==
  [tile_type |-> [t \in MCTiles |-> IF t = <<0, 0>> THEN "EMPTY" ELSE "IO"],
   cell_type |-> [c \in MCPads |-> "IO"] @@ [c \in {PLL1, PLL3} |-> "PLL"] @@ Osc :> "OSC",
   tile_bank |-> <<1, 0>> :> 2 @@ <<2, 0>> :> 2 @@ <<3, 0>> :> 3,
   loc_pin |-> MCPads \ {<<3, 0, 1>>},
   lvds_tiles |-> {<<1, 0>>, <<3, 0>>},
   loc_pin_glb_num |-> <<1, 0, 1>> :> 0 @@ <<2, 0, 0>> :> 1 @@ <<3, 0, 0>> :> 4 @@ <<3, 0, 1>> :> 5,
   gbufin |-> <<>>,
   pllout |-> PLL1 :> [a |-> <<1, 0, 1>>, b |-> <<2, 0, 0>>] @@ PLL3 :> [a |-> <<3, 0, 0>>, b |-> <<3, 0, 1>>],
   pll_locked |-> {},
   pll_cells |-> <<PLL1, PLL3>>,
   oscillator |-> Osc :> 4, bus_addr |-> <<>>,
   osc_cells |-> [HFOSC |-> <<Osc>>, LFOSC |-> <<>>],
   i3c |-> [c \in {<<2, 0, 1>>, <<3, 0, 0>>} |-> {}],
   rgb |-> [RGB0 |-> <<1, 0, 0>>, RGB1 |-> <<2, 0, 1>>]]

-----------------------------------------------------------------------------
Pad(kind, ports, pintype_0, lvds, neg) ==
  [type |-> "IO", ports |-> ports,
   p |-> [kind |-> kind, gb_io |-> kind = "SB_GB_IO", lvds |-> lvds, neg_trigger |-> neg,
          pintype_0 |-> pintype_0, pintype_1 |-> 0]]
In(w, clk) == Pad("SB_IO", [D_IN_0 |-> w, INPUT_CLK |-> clk], 1, FALSE, 0)
Latched(w) == Pad("SB_IO", [D_IN_0 |-> 6, LATCH_INPUT_VALUE |-> w], 1, FALSE, 0)
Out(neg) == Pad("SB_IO", [D_OUT_0 |-> 6, CLOCK_ENABLE |-> 5], 1, FALSE, neg)
Registered == Pad("SB_IO", [D_OUT_0 |-> 6, OUTPUT_CLK |-> 2], 0, FALSE, 0)
Lvds == Pad("SB_IO", [D_IN_0 |-> 6], 1, TRUE, 0)
GlobalIn(w) == Pad("SB_GB_IO", [GLOBAL_BUFFER_OUTPUT |-> w], 1, FALSE, 0)
I3C == Pad("IO_I3C", [D_OUT_0 |-> 6], 1, FALSE, 0)
OpenDrain == Pad("IO_OD", [DOUT0 |-> 6], 1, FALSE, 0)
PLL(variant, w) ==
  [type |-> "PLL", p |-> [variant |-> variant],
   ports |-> IF variant \in TwoPorts THEN [PLLOUTGLOBALB |-> w] ELSE [PLLOUTGLOBAL |-> w]]
Oscillator(kind) == [type |-> "OSC", ports |-> [CLK_OUT |-> 4], p |-> [kind |-> kind, through_fabric |-> FALSE]]
Rgb(red) == [type |-> "RGBA", ports |-> <<>>, p |-> [current |-> [RGB0 |-> red, RGB1 |-> TRUE]]]

At3 == {<<3, 0, 0>>, <<2, 0, 1>>}

SetIos(nets, pins, pull) == [net : nets, pin : pins, pull_up : pull]

(* Four lines: three ports anywhere, one line that repeats or misleads.    *)
ThreePorts(i, j, k) ==
  [inst |-> <<i, j, k, In(6, 0)>>,
   port |-> [n \in 1 .. 3 |-> [gate |-> n, op |-> "PACKAGE_PIN"]],
   lines |-> SetIos(1 .. 3, MCPads \ {<<3, 0, 1>>}, {"unset"}) \cup SetIos({2, 4}, {<<3, 0, 1>>}, {"yes"})]

(* Two ports; the other instances have none.                               *)
TwoPortsAnd(i, j, k, l) ==
  [inst |-> <<i, j, k, l>>,
   port |-> <<[gate |-> 1, op |-> "RGB0"], [gate |-> 2, op |-> "PACKAGE_PIN"]>>,
   lines |-> SetIos(1 .. 2, MCPads, {"unset"}) \cup SetIos({2}, At3, {"yes", "no"})]

MCDesigns ==
  {ThreePorts(In(6, 2), In(6, 3), Out(1)), ThreePorts(In(6, 2), Lvds, Registered),
   ThreePorts(Latched(2), Latched(3), In(6, 2)), ThreePorts(Latched(2), Out(0), Latched(2)),
   ThreePorts(PLL("2_PAD", 3), GlobalIn(2), In(6, 0)), ThreePorts(PLL("PAD", 3), PLL("PAD", 2), Registered),
   TwoPortsAnd(Rgb(TRUE), OpenDrain, Oscillator("HFOSC"), PLL("2F_CORE", 3)),
   TwoPortsAnd(Rgb(FALSE), OpenDrain, PLL("CORE", 3), PLL("CORE", 2)),
   TwoPortsAnd(GlobalIn(2), I3C, Oscillator("HFOSC"), PLL("2F_CORE", 3)),
   TwoPortsAnd(In(6, 2), Registered, PLL("2F_CORE", 3), Oscillator("LFOSC")),
   TwoPortsAnd(GlobalIn(2), In(6, 0), PLL("2F_CORE", 3), PLL("CORE", 5))}
=============================================================================
