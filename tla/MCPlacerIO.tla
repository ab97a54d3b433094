----------------------------- MODULE MCPlacerIO -----------------------------
(* Model of Placer: pads, global buffers and PLLs on four I/O tiles, and   *)
(* I2C cells in two corners.                                               *)
EXTENDS Placer, TLC

MCTiles == {<<x, 0>> : x \in 1 .. 4}
MCPads == {<<x, 0, p>> : x \in 1 .. 4, p \in {0, 1}}
MCBuffers == {<<1, 0, 2>>, <<3, 0, 2>>}
MCPLLs == {<<1, 0, 3>>, <<3, 0, 3>>}
MCCorners == {<<0, 4>>, <<5, 4>>}

(* A PLL has one of its pads in its own tile, the other in the next.  The  *)
(* buffer of a PLL's tile drives a global network of the other PLL.        *)
MCChipdb ==
  [height |-> 5,
   tile_type |-> [t \in MCTiles |-> "IO"] @@ [t \in MCCorners |-> "EMPTY"],
   cell_type |-> [c \in MCPads \cup MCBuffers \cup MCPLLs |->
                    IF c \in MCPads THEN "IO" ELSE IF c \in MCBuffers THEN "GB" ELSE "PLL"]
                 @@ [c \in {<<t[1], t[2], 0>> : t \in MCCorners} |-> "I2C"],
   bus_addr |-> <<0, 4, 0>> :> 1 @@ <<5, 4, 0>> :> 3,
   logic_columns |-> <<>>, column_free |-> <<>>, column_last |-> <<>>,
   loc_pin |-> MCPads \ {<<4, 0, 1>>},
   lvds_tiles |-> {<<2, 0>>, <<4, 0>>},
   pll_locked |-> {},
   oscillator |-> <<>>,
   loc_pin_glb_num |-> <<1, 0, 1>> :> 0 @@ <<2, 0, 0>> :> 1 @@ <<3, 0, 1>> :> 2 @@ <<4, 0, 0>> :> 3,
   gbufin |-> <<1, 0>> :> 2 @@ <<3, 0>> :> 0,
   pllout |-> <<1, 0, 3>> :> [a |-> <<1, 0, 1>>, b |-> <<2, 0, 0>>]
                @@ <<3, 0, 3>> :> [a |-> <<3, 0, 1>>, b |-> <<4, 0, 0>>]]

Pad(gb_io, lvds, inclk, d_in) ==
  [type |-> "IO", gb_io |-> gb_io, gb_out |-> gb_io, lvds |-> lvds, neg_trigger |-> 0,
   cen |-> 0, inclk |-> inclk, outclk |-> 0, d_in |-> d_in]
PLL(out_a, out_b, two) == [type |-> "PLL", out_a |-> out_a, out_b |-> out_b, two |-> two]
I2C(bus_addr) == [type |-> "I2C", bus_addr |-> bus_addr]
GB(gc) == [type |-> "GB", gc |-> gc, gb_out |-> TRUE]

(* Gate 1 is a PLL, 2 to 4 are pads or I2C, 5 is a global buffer.          *)
Peripheral(pads, pll, gc, placement) ==
  [inst |-> <<pll>> \o pads \o <<GB(gc)>>,
   net_gates |-> <<{1, 2, 5}, {3, 4}>>,
   net_global |-> {},
   chains |-> <<>>,
   placement |-> placement]

Input(inclk) == Pad(FALSE, FALSE, inclk, TRUE)
Output == Pad(FALSE, FALSE, 0, FALSE)
LVDS == Pad(FALSE, TRUE, 0, TRUE)
GlobalPad == Pad(TRUE, FALSE, 0, FALSE)

MCDesigns ==
  {\* two outputs, inputs with different clocks
   Peripheral(<<Input(1), Input(2), Output>>, PLL(FALSE, TRUE, TRUE), 255, <<>>),
   Peripheral(<<Input(1), Input(2), Output>>, PLL(TRUE, TRUE, TRUE), 255, <<>>),
   \* a global pad with a constraint, an LVDS pair, a PLL with one pad
   Peripheral(<<GlobalPad, LVDS, Input(0)>>, PLL(TRUE, FALSE, FALSE), 255, 2 :> <<1, 0, 1>>),
   Peripheral(<<GlobalPad, Input(1), Input(2)>>, PLL(TRUE, TRUE, TRUE), 4, 2 :> <<4, 0, 0>>),
   \* I2C on their buses, and two on one bus
   Peripheral(<<I2C(3), I2C(1), Output>>, PLL(FALSE, FALSE, FALSE), 255, 4 :> <<4, 0, 0>>),
   Peripheral(<<I2C(3), I2C(3), Output>>, PLL(FALSE, FALSE, FALSE), 255, 4 :> <<4, 0, 0>>),
   \* no buffer reaches the class of the global buffer
   Peripheral(<<Output, Output, Output>>, PLL(FALSE, FALSE, FALSE), 2, <<>>)}
=============================================================================
