------------------------------- MODULE Cells --------------------------------
(***************************************************************************)
(* What the stages around the placer read of an instance, and what its     *)
(* constructor lets valid() see of it.  An instance is a record of its     *)
(* cell type, the nets of its ports (only of the connected ones, without   *)
(* the package pins, which are not routed) and its parameters p.           *)
(***************************************************************************)
EXTENDS Legality

Port(i, name) == IF name \in DOMAIN i.ports THEN i.ports[name] ELSE 0
Connected(i, name) == Port(i, name) # 0
TwoPorts == {"2_PAD", "2F_PAD", "2F_CORE"}   \* the PLLs with PLLOUTGLOBALA and -B
GlobalA(i) == IF i.p.variant \in TwoPorts THEN "PLLOUTGLOBALA" ELSE "PLLOUTGLOBAL"
DrivesNetwork(i) == Connected(i, "CLK_OUT") /\ ~i.p.through_fabric   \* CLKHF, CLKLF

(* Placer::Placer: what valid() sees of an instance.  LATCH_INPUT_VALUE is *)
(* stored in gate_cen, where the checks of I/O tiles do not look for it.   *)

View(D, i) ==
  CASE i.type = "LOGIC" ->
         [type |-> "LOGIC",
          clk |-> Port(i, "CLK"), sr |-> Port(i, "SR"), cen |-> Port(i, "CEN"),
          neg_clk |-> i.p.neg_clk,
          local_np |-> {<<i.ports[f], IF f \in {"I1", "I3"} THEN 1 ELSE 0>> :
                          f \in {f \in DOMAIN i.ports \cap {"I0", "I1", "I2", "I3"} :
                                   i.ports[f] \notin DOMAIN D.constant}}]
    [] i.type = "IO" ->
         [type |-> "IO",
          gb_io |-> i.p.gb_io, gb_out |-> Connected(i, "GLOBAL_BUFFER_OUTPUT"), lvds |-> i.p.lvds,
          neg_trigger |-> i.p.neg_trigger, cen |-> Port(i, "CLOCK_ENABLE"),
          inclk |-> Port(i, "INPUT_CLK"), outclk |-> Port(i, "OUTPUT_CLK"),
          d_in |-> Connected(i, "D_IN_0")]
    [] i.type = "GB" ->
         [type |-> "GB", gc |-> i.p.gc, gb_out |-> Connected(i, "GLOBAL_BUFFER_OUTPUT")]
    [] i.type = "PLL" ->
         [type |-> "PLL", out_a |-> Connected(i, GlobalA(i)), out_b |-> Connected(i, "PLLOUTGLOBALB"),
          two |-> i.p.variant \in TwoPorts]
    [] i.type = "OSC" -> [type |-> "OSC", glb_out |-> DrivesNetwork(i)]
    [] i.type \in {"I2C", "SPI"} -> [type |-> i.type, bus_addr |-> i.p.bus_addr]
    [] OTHER -> [type |-> i.type]

ViewOf(D) ==
  [inst |-> [g \in Gate |-> View(D, D.inst[g])],
   net_global |-> {D.inst[g].ports["GLOBAL_BUFFER_OUTPUT"] :
                     g \in {g \in Gate : D.inst[g].type = "GB"
                                         /\ Connected(D.inst[g], "GLOBAL_BUFFER_OUTPUT")}}
                  \cup {D.inst[g].ports["CLK_OUT"] :
                          g \in {g \in Gate : D.inst[g].type = "OSC" /\ DrivesNetwork(D.inst[g])}}]

CellGate(D, at) ==
  [c \in Cell |-> IF \E g \in Gate : at[g] = c THEN CHOOSE g \in Gate : at[g] = c ELSE 0]
=============================================================================
