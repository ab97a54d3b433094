--------------------------- MODULE MCPlacerLogic ----------------------------
(* Model of Placer: logic cells and carry chains in two columns of three   *)
(* tiles with two cells each.                                              *)
EXTENDS Placer, TLC

MCTiles == {1, 2} \X (1 .. 3)

(* The bottom tile of one column and the top tile of the other are kept    *)
(* free of chains at first (on the devices: where PLL outputs enter the    *)
(* fabric), but not when chains are moved.                                 *)
MCChipdb ==
  [height |-> 5,
   tile_type |-> [t \in MCTiles |-> "LOGIC"],
   cell_type |-> [c \in {1, 2} \X (1 .. 3) \X {0, 1} |-> "LOGIC"],
   logic_columns |-> <<1, 2>>,
   column_free |-> <<2, 1>>,
   column_last |-> <<3, 2>>,
   loc_pin |-> {}, oscillator |-> <<>>, bus_addr |-> <<>>, lvds_tiles |-> {}, pll_locked |-> {},
   loc_pin_glb_num |-> <<>>, gbufin |-> <<>>, pllout |-> <<>>]

Logic(clk, cen, inputs) ==
  [type |-> "LOGIC", clk |-> clk, sr |-> 0, cen |-> cen, neg_clk |-> 0, local_np |-> inputs]

(* Gate 1 is preplaced, the rest is in chains or free.  clk gives the      *)
(* clocks of gates 4, 5, 7 and 8.                                          *)
Clocked(clk, chains) ==
  [inst |-> <<Logic(0, 0, {}),
              Logic(0, 0, {<<1, 0>>}), Logic(0, 0, {<<1, 1>>}), Logic(clk[1], 0, {}),
              Logic(clk[2], 0, {}), Logic(0, 0, {<<2, 0>>}),
              Logic(clk[3], 3, {<<1, 0>>, <<2, 1>>}), Logic(clk[4], clk[4] + 1, {<<2, 0>>})>>,
   net_gates |-> <<{1, 4, 7}, {2, 8}, {3, 5, 7, 8}>>,
   net_global |-> {3},
   chains |-> chains,
   placement |-> (1 :> <<1, 1, 0>>)]

(* Two chains of two and one tiles and two free gates, placed in either    *)
(* order, and three chains of which the last does not fit.                 *)
MCDesigns ==
  {Clocked(<<a, b, 1, d>>, <<<<2, 3, 4>>, <<5, 6>>>>) : a \in {0, 1}, b \in {0, 1}, d \in {1, 2}}
  \cup {Clocked(<<2, 2, 2, 2>>, <<<<5, 6>>, <<2, 3, 4>>>>),
        Clocked(<<0, 0, 0, 0>>, <<<<2, 3, 4>>, <<5, 6, 7>>, <<8>>>>)}
=============================================================================
