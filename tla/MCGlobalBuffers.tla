-------------------------- MODULE MCGlobalBuffers ---------------------------
(* Model of GlobalBuffers with the eight networks and five classes of the  *)
(* devices.                                                                *)
EXTENDS GlobalBuffers, TLC

MCNetwork == 0 .. 7
(* gc_re, gc_sr, gc_rclke, gc_cen, gc_clk *)
MCClasses == <<{2, 4, 6}, {0, 2, 4, 6}, {1, 3, 7}, {1, 3, 5, 7}, 0 .. 7>>
MCBlocked == (0 :> 7 @@ 1 :> 6 @@ 2 :> 1 @@ 3 :> 0 @@ 4 :> 3 @@ 5 :> 2 @@ 6 :> 5 @@ 7 :> 4)

Net(driver, at, ins) ==
  [driver |-> driver, at |-> at,
   inputs |-> [k \in Kind |-> IF k \in DOMAIN ins THEN ins[k] ELSE 0]]

(* A net worth a network of class k, which also feeds something else.      *)
Busy(k) ==
  Net("fabric", 0, CASE k = 1 -> (1 :> 5 @@ 2 :> 1)
                     [] k = 2 -> (2 :> 6 @@ Lut :> 6)
                     [] k = 3 -> (3 :> 5 @@ 4 :> 2)
                     [] k = 4 -> (4 :> 7 @@ 5 :> 5)
                     [] k = 5 -> (5 :> 8 @@ 4 :> 1 @@ Other :> 1))

Copies(k, m) == [j \in 1 .. m |-> Busy(k)]

(* Nets that do not need, or may not get, a network. *)
Quiet == <<Net("none", 0, 5 :> 9), Net("fabric", 0, 5 :> 4 @@ Lut :> 9)>>

(* What the design brings: nothing, a PLL on two networks, pads whose nets *)
(* mix classes, a pad without a network, an oscillator, buffers of its own, too many of them.       *)
Given ==
  {<<>>,
   <<Net("pll", 3, 5 :> 1 @@ 4 :> 2 @@ 2 :> 1), Net("pll", 5, Lut :> 1)>>,
   <<Net("pad", 0, 5 :> 2 @@ 2 :> 3 @@ 4 :> 4)>>,
   <<Net("pad", 6, 1 :> 5), Net("osc", 4, Other :> 2), Net("gb", 0, 3 :> 1)>>,
   <<Net("gb", 0, 4 :> 2 @@ 5 :> 1), Net("gb", 0, 4 :> 1 @@ 2 :> 1), Net("gb", 0, 5 :> 1)>>,
   <<Net("pad", 0, 5 :> 1), Net("pad", 8, 5 :> 1)>>,
   [j \in 1 .. 4 |-> Net("gb", 0, 1 :> 1)]}

MCDesigns ==
  {given \o Quiet \o Copies(1, m[1]) \o Copies(2, m[2]) \o Copies(3, m[3])
         \o Copies(4, m[4]) \o Copies(5, m[5]) :
     given \in Given,
     m \in ({0, 4} \X {0, 2} \X {0, 4} \X {0, 2} \X {0, 8}) \cup {<<2, 1, 1, 2, 4>>, <<1, 2, 2, 1, 4>>}}
=============================================================================
