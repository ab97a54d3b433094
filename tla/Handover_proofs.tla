-------------------------- MODULE Handover_proofs ---------------------------
(* Proofs about Handover, for every chip, every netlist and every          *)
(* placement that valid() accepts.                                         *)
EXTENDS Handover, FiniteSetTheorems, TLAPS

Type(g) == design.inst[g].type
Holder == CellGate(design, place)   \* cell_gate
Seen == ViewOf(design)              \* what valid() sees

(* What never changes: the placement is legal.                             *)
Fixed == design \in Designs /\ IsPlacement(design, place) /\ Legal(design, place)
-----------------------------------------------------------------------------
(* The gates and their cells.                                              *)
LEMMA CellParts ==
  ASSUME NEW c \in Cell
  PROVE  /\ c = <<c[1], c[2], c[3]>> /\ c[1] \in Int /\ c[2] \in Int /\ c[3] \in Int
         /\ TileOf(c) \in Tile
BY ChipAssumption

LEMMA SameCell ==
  ASSUME NEW c \in Cell, NEW d \in Cell, TileOf(c) = TileOf(d), c[3] = d[3]
  PROVE  c = d
<1>1. c[1] = d[1] /\ c[2] = d[2]
  BY DEF TileOf
<1> QED BY <1>1, CellParts

LEMMA GateCell ==
  ASSUME Fixed, NEW g \in Gate
  PROVE  /\ place[g] \in Cell /\ chipdb.cell_type[place[g]] = Type(g)
         /\ Holder[place[g]] = g /\ GateOn(place[g]) = g /\ GateAt(Holder, place[g]) = g
<1>1. place[g] \in Cell /\ chipdb.cell_type[place[g]] = Type(g)
  BY DEF Fixed, IsPlacement, CellsOf, Type
<1>2. \A h \in Gate : place[h] = place[g] => h = g
  BY DEF Fixed, IsPlacement
<1>3. \E h \in Gate : place[h] = place[g]
  OBVIOUS
<1>4. (CHOOSE h \in Gate : place[h] = place[g]) = g
  BY <1>2
<1>5. Holder[place[g]] = g
  BY <1>1, <1>3, <1>4 DEF Holder, CellGate
<1>6. GateOn(place[g]) = g
  BY <1>1, <1>3, <1>4 DEF GateOn
<1> QED BY <1>1, <1>5, <1>6 DEF GateAt

LEMMA HeldCell ==
  ASSUME Fixed, NEW c \in Cell
  PROVE  /\ Holder[c] = GateOn(c) /\ GateAt(Holder, c) = GateOn(c)
         /\ GateOn(c) # 0 => GateOn(c) \in Gate /\ place[GateOn(c)] = c
<1>1. Holder[c] = GateOn(c) /\ GateAt(Holder, c) = GateOn(c)
  BY DEF Holder, CellGate, GateOn, GateAt
<1>2. GateOn(c) # 0 => GateOn(c) \in Gate /\ place[GateOn(c)] = c
  <2>1. ASSUME \E g \in Gate : place[g] = c PROVE GateOn(c) \in Gate /\ place[GateOn(c)] = c
    BY <2>1 DEF GateOn
  <2>2. (~\E g \in Gate : place[g] = c) => GateOn(c) = 0
    BY DEF GateOn
  <2> QED BY <2>1, <2>2
<1> QED BY <1>1, <1>2

LEMMA NobodyThere ==
  ASSUME Fixed, NEW c, GateOn(c) # 0
  PROVE  GateOn(c) \in Gate /\ place[GateOn(c)] = c /\ c \in Cell
BY HeldCell DEF GateOn

(* What valid() sees of a pad, a logic cell, a PLL.                        *)
LEMMA PadView ==
  ASSUME NEW g \in Gate, Type(g) = "IO"
  PROVE  LET i == design.inst[g]
             v == Seen.inst[g]
         IN /\ v.type = "IO" /\ v.neg_trigger = i.p.neg_trigger /\ v.cen = Port(i, "CLOCK_ENABLE")
            /\ v.inclk = Port(i, "INPUT_CLK") /\ v.outclk = Port(i, "OUTPUT_CLK")
            /\ v.lvds = i.p.lvds /\ v.gb_io = i.p.gb_io
            /\ v.gb_out = Connected(i, "GLOBAL_BUFFER_OUTPUT") /\ v.d_in = Connected(i, "D_IN_0")
<1> DEFINE i == design.inst[g]
           v == Seen.inst[g]
<1>1. i.type = "IO"
  BY DEF Type
<1>2. v = View(design, i)
  BY DEF Seen, ViewOf
<1>3. View(design, i) =
        [type |-> "IO",
         gb_io |-> i.p.gb_io, gb_out |-> Connected(i, "GLOBAL_BUFFER_OUTPUT"), lvds |-> i.p.lvds,
         neg_trigger |-> i.p.neg_trigger, cen |-> Port(i, "CLOCK_ENABLE"),
         inclk |-> Port(i, "INPUT_CLK"), outclk |-> Port(i, "OUTPUT_CLK"),
         d_in |-> Connected(i, "D_IN_0")]
  BY <1>1 DEF View
<1> HIDE DEF i, v
<1>4. v.type = "IO" /\ v.neg_trigger = i.p.neg_trigger /\ v.cen = Port(i, "CLOCK_ENABLE")
  BY <1>2, <1>3
<1>5. v.inclk = Port(i, "INPUT_CLK") /\ v.outclk = Port(i, "OUTPUT_CLK")
  BY <1>2, <1>3
<1>6. v.lvds = i.p.lvds /\ v.gb_io = i.p.gb_io
  BY <1>2, <1>3
<1>7. v.gb_out = Connected(i, "GLOBAL_BUFFER_OUTPUT") /\ v.d_in = Connected(i, "D_IN_0")
  BY <1>2, <1>3
<1> QED BY <1>4, <1>5, <1>6, <1>7 DEF i, v

LEMMA LogicView ==
  ASSUME NEW g \in Gate, Type(g) = "LOGIC"
  PROVE  LET i == design.inst[g]
             v == Seen.inst[g]
         IN /\ v["clk"] = Port(i, "CLK") /\ v["sr"] = Port(i, "SR") /\ v["cen"] = Port(i, "CEN")
            /\ v.neg_clk = i.p.neg_clk
<1> DEFINE i == design.inst[g]
           v == Seen.inst[g]
           np == {<<i.ports[f], IF f \in {"I1", "I3"} THEN 1 ELSE 0>> :
                    f \in {f \in DOMAIN i.ports \cap {"I0", "I1", "I2", "I3"} :
                             i.ports[f] \notin DOMAIN design.constant}}
<1>1. i.type = "LOGIC"
  BY DEF Type
<1>2. v = View(design, i)
  BY DEF Seen, ViewOf
<1>3. View(design, i) = [type |-> "LOGIC", clk |-> Port(i, "CLK"), sr |-> Port(i, "SR"),
                         cen |-> Port(i, "CEN"), neg_clk |-> i.p.neg_clk, local_np |-> np]
  BY <1>1 DEF View
<1> HIDE DEF i, v, np
<1>4. v["clk"] = Port(i, "CLK") /\ v["sr"] = Port(i, "SR")
  BY <1>2, <1>3
<1>5. v["cen"] = Port(i, "CEN") /\ v.neg_clk = i.p.neg_clk
  BY <1>2, <1>3
<1> QED BY <1>4, <1>5 DEF i, v

LEMMA PLLView ==
  ASSUME NEW g \in Gate, Type(g) = "PLL"
  PROVE  LET i == design.inst[g]
             v == Seen.inst[g]
         IN /\ v.type = "PLL" /\ v.two = (i.p.variant \in TwoPorts)
            /\ v.out_a = Connected(i, GlobalA(i)) /\ v.out_b = Connected(i, "PLLOUTGLOBALB")
<1> DEFINE i == design.inst[g]
           v == Seen.inst[g]
<1>1. i.type = "PLL"
  BY DEF Type
<1>2. v = View(design, i)
  BY DEF Seen, ViewOf
<1>3. View(design, i) = [type |-> "PLL", out_a |-> Connected(i, GlobalA(i)),
                         out_b |-> Connected(i, "PLLOUTGLOBALB"), two |-> i.p.variant \in TwoPorts]
  BY <1>1 DEF View
<1> HIDE DEF i, v
<1>4. v.type = "PLL" /\ v.two = (i.p.variant \in TwoPorts)
  BY <1>2, <1>3
<1>5. v.out_a = Connected(i, GlobalA(i)) /\ v.out_b = Connected(i, "PLLOUTGLOBALB")
  BY <1>2, <1>3
<1> QED BY <1>4, <1>5 DEF i, v
-----------------------------------------------------------------------------
(* What valid() has accepted.                                              *)
LEMMA LogicTiles ==
  ASSUME Fixed, NEW g \in Gate, NEW h \in Gate, Type(g) = "LOGIC", Type(h) = "LOGIC",
         TileOf(place[g]) = TileOf(place[h])
  PROVE  /\ design.inst[g].p.neg_clk = design.inst[h].p.neg_clk
         /\ \A f \in Controls : /\ place[g][3] < place[h][3] /\ Seen.inst[g][f] # 0
                                => Seen.inst[h][f] = Seen.inst[g][f]
<1> DEFINE t == TileOf(place[g])
           cells == {c \in {<<t[1], t[2], p>> : p \in 0 .. TileSize - 1} : Holder[c] # 0}
<1>1. t \in Tile /\ chipdb.tile_type[t] = "LOGIC"
  BY GateCell, CellParts, ChipAssumption
<1>2. ValidLogic(Seen, Holder, t)
  BY <1>1 DEF Fixed, Legal, Valid, Seen, Holder
<1>3. /\ \A f \in Controls : OneNet(Seen, Holder, cells, f)
      /\ \A c, e \in cells : Seen.inst[Holder[c]].neg_clk = Seen.inst[Holder[e]].neg_clk
  BY <1>2 DEF ValidLogic
<1>4. ASSUME NEW k \in Gate, Type(k) = "LOGIC", TileOf(place[k]) = t
      PROVE  place[k] \in cells /\ Holder[place[k]] = k
  <2>1. place[k] \in Cell /\ chipdb.cell_type[place[k]] = "LOGIC" /\ Holder[place[k]] = k
    BY <1>4, GateCell
  <2>2. place[k][3] \in 0 .. TileSize - 1
    BY <2>1, ChipAssumption
  <2>3. place[k] = <<t[1], t[2], place[k][3]>>
    <3>1. t[1] = place[k][1] /\ t[2] = place[k][2]
      BY <1>4 DEF TileOf
    <3> QED BY <3>1, <2>1, CellParts
  <2>4. k # 0
    BY ChipAssumption DEF Gate
  <2> QED BY <2>1, <2>2, <2>3, <2>4
<1>5. g \in Gate /\ h \in Gate /\ place[g] \in cells /\ place[h] \in cells /\ Holder[place[g]] = g /\ Holder[place[h]] = h
  BY <1>4
<1> HIDE DEF cells
<1>6. design.inst[g].p.neg_clk = design.inst[h].p.neg_clk
  BY <1>3, <1>5, LogicView
<1>7. \A f \in Controls : /\ place[g][3] < place[h][3] /\ Seen.inst[g][f] # 0
                          => Seen.inst[h][f] = Seen.inst[g][f]
  BY <1>3, <1>5 DEF OneNet
<1> QED BY <1>6, <1>7
LEMMA PadTiles ==
  ASSUME Fixed, NEW g \in Gate, Type(g) = "IO"
  PROVE  LET c == place[g]
             t == TileOf(c)
             v == Seen.inst[g]
         IN /\ c \in chipdb.loc_pin /\ ValidIO(Seen, Holder, t)
            /\ c[3] \in {0, 1} /\ t \in Tile /\ chipdb.tile_type[t] = "IO"
            /\ v.gb_io /\ v.gb_out => ValidGlobal(Seen, Holder, chipdb.loc_pin_glb_num[c])
            /\ v.lvds => c[3] = 0 /\ t \in chipdb.lvds_tiles
            /\ v.lvds => \A h \in Gate : Type(h) = "IO" /\ TileOf(place[h]) = t => h = g
<1> DEFINE c == place[g]
           t == TileOf(c)
           v == Seen.inst[g]
           pad0 == <<t[1], t[2], 0>>
           pad1 == <<t[1], t[2], 1>>
           pads == {p \in {pad0, pad1} : GateAt(Holder, p) # 0}
<1>1. /\ c \in Cell /\ chipdb.cell_type[c] = "IO" /\ Holder[c] = g /\ GateAt(Holder, c) = g
      /\ t \in Tile /\ c = <<t[1], t[2], c[3]>>
  BY GateCell, CellParts DEF TileOf
<1>2. chipdb.tile_type[t] = "IO" /\ c[3] \in {0, 1}
  BY <1>1, ChipAssumption
<1>3. ValidIO(Seen, Holder, t)
  BY <1>1, <1>2 DEF Fixed, Legal, Valid, Seen, Holder
<1>4. /\ \A p \in pads : ValidPad(Seen, Holder, p)
      /\ pad0 \in pads /\ Seen.inst[Holder[pad0]].lvds => t \in chipdb.lvds_tiles /\ pad1 \notin pads
      /\ pad1 \in pads => ~Seen.inst[Holder[pad1]].lvds
  BY <1>3 DEF ValidIO
<1>5. ASSUME NEW h \in Gate, Type(h) = "IO", TileOf(place[h]) = t
      PROVE  /\ place[h] \in pads /\ Holder[place[h]] = h
             /\ \/ place[h] = pad0 /\ place[h][3] = 0
                \/ place[h] = pad1 /\ place[h][3] = 1
  <2>1. place[h] \in Cell /\ chipdb.cell_type[place[h]] = "IO" /\ Holder[place[h]] = h /\ GateAt(Holder, place[h]) = h
    BY <1>5, GateCell
  <2>2. place[h][3] \in {0, 1}
    BY <2>1, ChipAssumption
  <2>3. place[h] = <<t[1], t[2], place[h][3]>>
    <3>1. t[1] = place[h][1] /\ t[2] = place[h][2]
      BY <1>5 DEF TileOf
    <3> QED BY <3>1, <2>1, CellParts
  <2>4. h # 0
    BY ChipAssumption DEF Gate
  <2> QED BY <2>1, <2>2, <2>3, <2>4
<1>6. c \in pads /\ ((c = pad0 /\ c[3] = 0) \/ (c = pad1 /\ c[3] = 1))
  BY <1>5
<1> HIDE DEF pads, pad0, pad1, t
<1>7. c \in chipdb.loc_pin /\ (v.gb_io /\ v.gb_out => ValidGlobal(Seen, Holder, chipdb.loc_pin_glb_num[c]))
  BY <1>1, <1>4, <1>6 DEF ValidPad
<1>8. v.lvds => c[3] = 0 /\ t \in chipdb.lvds_tiles /\ pad1 \notin pads /\ c = pad0
  BY <1>1, <1>4, <1>6
<1>9. ASSUME v.lvds, NEW h \in Gate, Type(h) = "IO", TileOf(place[h]) = t PROVE h = g
  <2>1. place[h] = pad0
    BY <1>5, <1>8, <1>9
  <2> QED BY <2>1, <1>1, <1>5, <1>8, <1>9
<1> QED BY <1>1, <1>2, <1>3, <1>7, <1>8, <1>9 DEF t

LEMMA PadsInTile ==
  ASSUME Fixed, NEW g \in Gate, NEW h \in Gate, Type(g) = "IO", Type(h) = "IO",
         TileOf(place[g]) = TileOf(place[h])
  PROVE  /\ design.inst[g].p.neg_trigger = design.inst[h].p.neg_trigger
         /\ \A f \in {"cen", "inclk", "outclk"} :
              Seen.inst[g][f] # 0 /\ Seen.inst[h][f] # 0 => Seen.inst[g][f] = Seen.inst[h][f]
<1>1. CASE g = h
  BY <1>1
<1>2. CASE g # h
  <2> DEFINE t == TileOf(place[g])
             pad0 == <<t[1], t[2], 0>>
             pad1 == <<t[1], t[2], 1>>
             pads == {p \in {pad0, pad1} : GateAt(Holder, p) # 0}
  <2>1. ValidIO(Seen, Holder, t)
    BY PadTiles
  <2>2. pads = {pad0, pad1} => PadsAgree(Seen.inst[Holder[pad0]], Seen.inst[Holder[pad1]])
    BY <2>1 DEF ValidIO
  <2>3. ASSUME NEW k \in Gate, Type(k) = "IO", TileOf(place[k]) = t
        PROVE  place[k] \in {pad0, pad1} /\ GateAt(Holder, place[k]) = k /\ k # 0 /\ Holder[place[k]] = k
    <3>1. place[k] \in Cell /\ chipdb.cell_type[place[k]] = "IO" /\ Holder[place[k]] = k /\ GateAt(Holder, place[k]) = k
      BY <2>3, GateCell
    <3>2. place[k][3] \in {0, 1}
      BY <3>1, ChipAssumption
    <3>3. place[k] = <<t[1], t[2], place[k][3]>>
      <4>1. t[1] = place[k][1] /\ t[2] = place[k][2]
        BY <2>3 DEF TileOf
      <4> QED BY <4>1, <3>1, CellParts
    <3>4. k # 0
      BY ChipAssumption DEF Gate
    <3> QED BY <3>1, <3>2, <3>3, <3>4
  <2>4. /\ place[g] \in {pad0, pad1} /\ GateAt(Holder, place[g]) = g /\ g # 0 /\ Holder[place[g]] = g
        /\ place[h] \in {pad0, pad1} /\ GateAt(Holder, place[h]) = h /\ h # 0 /\ Holder[place[h]] = h
    BY <2>3
  <2> HIDE DEF t, pad0, pad1
  <2>5. pads = {pad0, pad1}
    BY <1>2, <2>4
  <2>6. PadsAgree(Seen.inst[g], Seen.inst[h]) \/ PadsAgree(Seen.inst[h], Seen.inst[g])
    BY <1>2, <2>2, <2>4, <2>5
  <2>7. Seen.inst[g].neg_trigger = Seen.inst[h].neg_trigger
    BY <2>6 DEF PadsAgree
  <2>8. \A f \in {"cen", "inclk", "outclk"} :
          Seen.inst[g][f] # 0 /\ Seen.inst[h][f] # 0 => Seen.inst[g][f] = Seen.inst[h][f]
    BY <2>6 DEF PadsAgree
  <2> QED BY <2>7, <2>8, PadView
<1> QED BY <1>1, <1>2
-----------------------------------------------------------------------------
(* The value of every bit, from the placement alone.                       *)

Position(b) == <<b[1][1], b[1][2], b[3]>>
Owner(b) == GateOn(Position(b))
OwnedBy(b, type) == Owner(b) # 0 /\ Type(Owner(b)) = type

(* The clock edge of a tile: that of its flip-flops, of its pads, or the   *)
(* negative one, which a RAM asks for.                                     *)
EdgeOf(g) == IF Type(g) = "LOGIC" THEN design.inst[g].p.neg_clk ELSE design.inst[g].p.neg_trigger
Clocked(t) == {g \in Gate : Type(g) \in {"LOGIC", "IO"} /\ TileOf(place[g]) = t}
TileEdge(t) == IF Clocked(t) = {} THEN 1 ELSE EdgeOf(CHOOSE g \in Clocked(t) : TRUE)

(* The pin whose input enable and pull-up are at e, and how it is used.    *)
PinOf(e) == CHOOSE c \in DOMAIN chipdb.ieren : chipdb.ieren[c] = e
UseAt(e) ==
  IF e \notin {chipdb.ieren[c] : c \in DOMAIN chipdb.ieren} THEN Unused
  ELSE IF PinOf(e) \in Partners THEN PartnerUse(Partner(PinOf(e)))
  ELSE PinUse(PinOf(e))

PinBit(f, u) ==
  CASE f = "REN" -> Bit(~u.pullup)
    [] f = "IE" -> Bit(IF chipdb.device = "1k" THEN ~u.input ELSE u.input)
    [] f = "padeb_test" -> Bit(~u.output)
    [] f = "cf_100K" -> Bit(~((u.pullup /\ u.strength = "100K") \/ u.weak))
    [] OTHER -> 1
PinFields == {"REN", "IE", "padeb_test", "cf_100K"} \cup Strengths

TileBitValue(b) ==
  CASE b[2] = "NegClk" -> TileEdge(b[1])
    [] b[2] = "LVDS" -> Bit(\E g \in Gate : Type(g) = "IO" /\ TileOf(place[g]) = b[1] /\ design.inst[g].p.lvds)
    [] OTHER -> Bit(IF chipdb.device = "1k" THEN GateOn(<<b[1][1], b[1][2] + 1, 0>>) = 0
                                            ELSE GateOn(<<b[1][1], b[1][2] + 1, 0>>) # 0)
TileFields == {"NegClk", "LVDS", "PowerUp"}

(* The low bits of PIN_TYPE are 01 where a PLL goes through a pad.         *)
CellBit(b) ==
  LET f == b[2]
      i == design.inst[Owner(b)]
  IN CASE f = "CarryInSet" -> design.constant[Port(i, "CIN")]
       [] f = "lut" -> IF OwnedBy(b, "LOGIC") THEN i.p.lut ELSE 1
       [] f = "pintype_0" -> IF OwnedBy(b, "IO") THEN i.p.pintype_0 ELSE 1
       [] f = "pintype_1" -> IF OwnedBy(b, "IO") THEN i.p.pintype_1 ELSE 0
       [] f = "select_b" -> IF i.p.variant \in TwoPorts THEN i.p.select_b ELSE 0
       [] f = "type" -> PLLType(i.p.variant)
       [] f \in {"carry", "cascade"} -> 1
       [] f \in {"dff", "set_noreset", "async_sr", "pintype_2_5", "write_mode", "read_mode"} -> i.p[f]
       [] OTHER -> i.p.params[f]

BitValue(b) ==
  IF b[2] \in TileFields THEN TileBitValue(b)
  ELSE IF b[2] = "padeb_test" THEN PinBit(b[2], UseAt(Partner(Position(b))))
  ELSE IF b[2] \in PinFields THEN PinBit(b[2], UseAt(Position(b)))
  ELSE CellBit(b)

AllMeant(bits) == \A s \in bits : s[2] = BitValue(s[1])

(* Pads with a PLL's output on them have the PIN_TYPE that the PLL sets    *)
(* (01 in the lower bits), which valid() does not ask for.                 *)
PadOfPLL(g) == CHOOSE c \in DOMAIN chipdb.loc_pin_glb_num : TileOf(c) = TileOf(place[g])
PLLPadsPlain ==
  \A g, h \in Gate :
    Type(g) = "PLL" /\ Type(h) = "IO" /\ place[h] = PadOfPLL(g) =>
      design.inst[h].p.pintype_0 = 1 /\ design.inst[h].p.pintype_1 = 0

(* The fields, one by one.                                                 *)
LEMMA OwnValue ==
  ASSUME Fixed, NEW g \in Gate, NEW f, NEW b, b = <<TileOf(place[g]), f, place[g][3]>>
  PROVE  Position(b) = place[g] /\ Owner(b) = g /\ b[1] = TileOf(place[g]) /\ b[2] = f /\ g # 0
<1>1. place[g] \in Cell /\ GateOn(place[g]) = g
  BY GateCell
<1>2. Position(b) = place[g]
  BY <1>1, CellParts DEF Position, TileOf
<1>3. g # 0
  BY ChipAssumption DEF Gate
<1> QED BY <1>1, <1>2, <1>3 DEF Owner

LEMMA FieldValue ==
  ASSUME NEW b
  PROVE  LET i == design.inst[Owner(b)]
         IN /\ b[2] = "CarryInSet" => BitValue(b) = design.constant[Port(i, "CIN")]
            /\ b[2] = "lut" => BitValue(b) = IF OwnedBy(b, "LOGIC") THEN i.p.lut ELSE 1
            /\ b[2] = "pintype_0" => BitValue(b) = IF OwnedBy(b, "IO") THEN i.p.pintype_0 ELSE 1
            /\ b[2] = "pintype_1" => BitValue(b) = IF OwnedBy(b, "IO") THEN i.p.pintype_1 ELSE 0
            /\ b[2] = "select_b" => BitValue(b) = IF i.p.variant \in TwoPorts THEN i.p.select_b ELSE 0
            /\ b[2] = "type" => BitValue(b) = PLLType(i.p.variant)
            /\ b[2] \in {"carry", "cascade"} => BitValue(b) = 1
            /\ b[2] \in {"dff", "set_noreset", "async_sr", "pintype_2_5", "write_mode", "read_mode"} =>
                 BitValue(b) = i.p[b[2]]
            /\ b[2] \notin Fields => BitValue(b) = i.p.params[b[2]]
<1> DEFINE i == design.inst[Owner(b)]
<1>1. b[2] \notin TileFields \cup PinFields => BitValue(b) = CellBit(b)
  BY DEF BitValue, PinFields
<1> HIDE DEF i
<1>2. CellBit(b) =
        CASE b[2] = "CarryInSet" -> design.constant[Port(i, "CIN")]
          [] b[2] = "lut" -> IF OwnedBy(b, "LOGIC") THEN i.p.lut ELSE 1
          [] b[2] = "pintype_0" -> IF OwnedBy(b, "IO") THEN i.p.pintype_0 ELSE 1
          [] b[2] = "pintype_1" -> IF OwnedBy(b, "IO") THEN i.p.pintype_1 ELSE 0
          [] b[2] = "select_b" -> IF i.p.variant \in TwoPorts THEN i.p.select_b ELSE 0
          [] b[2] = "type" -> PLLType(i.p.variant)
          [] b[2] \in {"carry", "cascade"} -> 1
          [] b[2] \in {"dff", "set_noreset", "async_sr", "pintype_2_5", "write_mode", "read_mode"} -> i.p[b[2]]
          [] OTHER -> i.p.params[b[2]]
  BY DEF CellBit, i
<1>3. b[2] = "CarryInSet" => BitValue(b) = design.constant[Port(i, "CIN")]
  BY <1>1, <1>2 DEF TileFields, PinFields, Strengths
<1>4. b[2] = "lut" => BitValue(b) = IF OwnedBy(b, "LOGIC") THEN i.p.lut ELSE 1
  BY <1>1, <1>2 DEF TileFields, PinFields, Strengths
<1>5. b[2] = "pintype_0" => BitValue(b) = IF OwnedBy(b, "IO") THEN i.p.pintype_0 ELSE 1
  BY <1>1, <1>2 DEF TileFields, PinFields, Strengths
<1>6. b[2] = "pintype_1" => BitValue(b) = IF OwnedBy(b, "IO") THEN i.p.pintype_1 ELSE 0
  BY <1>1, <1>2 DEF TileFields, PinFields, Strengths
<1>7. b[2] = "select_b" => BitValue(b) = IF i.p.variant \in TwoPorts THEN i.p.select_b ELSE 0
  BY <1>1, <1>2 DEF TileFields, PinFields, Strengths
<1>8. b[2] = "type" => BitValue(b) = PLLType(i.p.variant)
  BY <1>1, <1>2 DEF TileFields, PinFields, Strengths
<1>9. b[2] \in {"carry", "cascade"} => BitValue(b) = 1
  BY <1>1, <1>2 DEF TileFields, PinFields, Strengths
<1>10. b[2] \in {"dff", "set_noreset", "async_sr", "pintype_2_5", "write_mode", "read_mode"} =>
         BitValue(b) = i.p[b[2]]
  BY <1>1, <1>2 DEF TileFields, PinFields, Strengths
<1>11. b[2] \notin Fields => BitValue(b) = i.p.params[b[2]]
  BY <1>1, <1>2 DEF TileFields, PinFields, Fields
<1> QED BY <1>3, <1>4, <1>5, <1>6, <1>7, <1>8, <1>9, <1>10, <1>11 DEF i

LEMMA EdgeValue ==
  ASSUME Fixed
  PROVE  /\ \A g \in Gate : Type(g) \in {"LOGIC", "IO"} => TileEdge(TileOf(place[g])) = EdgeOf(g)
         /\ \A t : (t \in Tile => chipdb.tile_type[t] \notin {"LOGIC", "IO"}) => TileEdge(t) = 1
         /\ \A t : BitValue(<<t, "NegClk", 0>>) = TileEdge(t)
<1>1. ASSUME NEW g \in Gate, Type(g) \in {"LOGIC", "IO"} PROVE TileEdge(TileOf(place[g])) = EdgeOf(g)
  <2> DEFINE t == TileOf(place[g])
             h == CHOOSE h \in Clocked(t) : TRUE
  <2>1. g \in Clocked(t)
    BY <1>1 DEF Clocked
  <2>2. h \in Clocked(t)
    BY <2>1
  <2>3. h \in Gate /\ Type(h) \in {"LOGIC", "IO"} /\ TileOf(place[h]) = TileOf(place[g])
    BY <2>2 DEF Clocked
  <2>4. TileEdge(t) = EdgeOf(h)
    BY <2>1 DEF TileEdge
  <2> HIDE DEF h
  <2>5. Type(h) = Type(g)
    <3>1. \A k \in Gate : Type(k) \in {"LOGIC", "IO"} => chipdb.tile_type[TileOf(place[k])] = Type(k)
      BY GateCell, ChipAssumption
    <3> QED BY <3>1, <2>3, <1>1
  <2>6. EdgeOf(h) = EdgeOf(g)
    BY <1>1, <2>3, <2>5, LogicTiles, PadsInTile DEF EdgeOf
  <2> QED BY <2>4, <2>6
<1>2. ASSUME NEW t, t \in Tile => chipdb.tile_type[t] \notin {"LOGIC", "IO"} PROVE TileEdge(t) = 1
  <2>1. \A k \in Gate : Type(k) \in {"LOGIC", "IO"} =>
          TileOf(place[k]) \in Tile /\ chipdb.tile_type[TileOf(place[k])] = Type(k)
    BY GateCell, ChipAssumption
  <2>2. Clocked(t) = {}
    BY <2>1, <1>2 DEF Clocked
  <2> QED BY <2>2 DEF TileEdge
<1>3. ASSUME NEW t PROVE BitValue(<<t, "NegClk", 0>>) = TileEdge(t)
  <2> DEFINE b == <<t, "NegClk", 0>>
  <2>1. b[1] = t /\ b[2] = "NegClk"
    OBVIOUS
  <2> HIDE DEF b
  <2>2. BitValue(b) = TileBitValue(b)
    BY <2>1 DEF BitValue, TileFields
  <2>3. TileBitValue(b) = TileEdge(t)
    BY <2>1 DEF TileBitValue
  <2> QED BY <2>2, <2>3 DEF b
<1> QED BY <1>1, <1>2, <1>3

(* What is set for the current gate.                                       *)
LEMMA CurrentGate ==
  ASSUME Fixed, gate \in Gate
  PROVE  /\ loc \in Cell /\ chipdb.cell_type[loc] = inst.type /\ loc = place[gate] /\ tile = TileOf(loc)
         /\ inst = design.inst[gate] /\ inst.type = Type(gate)
BY GateCell DEF loc, inst, tile, Type

LEMMA ParamsMeant ==
  ASSUME Fixed, gate \in Gate, NEW params,
         \A f \in DOMAIN params : params[f] = BitValue(<<tile, f, loc[3]>>)
  PROVE  AllMeant(ParamBits(params))
<1> SUFFICES ASSUME NEW s \in ParamBits(params) PROVE s[2] = BitValue(s[1])
  BY DEF AllMeant
<1>1. PICK f \in DOMAIN params : s = <<<<tile, f, loc[3]>>, params[f]>>
  BY DEF ParamBits
<1> QED BY <1>1

LEMMA OwnField ==
  ASSUME Fixed, gate \in Gate, NEW f
  PROVE  LET b == <<tile, f, loc[3]>>
         IN Owner(b) = gate /\ b[2] = f /\ gate # 0 /\ design.inst[Owner(b)] = inst
BY OwnValue, CurrentGate

LEMMA OwnParams ==
  ASSUME Fixed, gate \in Gate, NEW params, params = inst.p.params, DOMAIN params \cap Fields = {}
  PROVE  AllMeant(ParamBits(params))
<1>1. ASSUME NEW f \in DOMAIN params PROVE params[f] = BitValue(<<tile, f, loc[3]>>)
  <2> DEFINE b == <<tile, f, loc[3]>>
  <2>1. Owner(b) = gate /\ b[2] = f /\ design.inst[Owner(b)] = inst
    BY OwnField
  <2> HIDE DEF b
  <2>2. BitValue(b) = inst.p.params[f]
    BY <2>1, FieldValue
  <2> QED BY <2>2 DEF b
<1> QED BY <1>1, ParamsMeant

LEMMA LogicMeant ==
  ASSUME Fixed, gate \in Gate, inst.type = "LOGIC"
  PROVE  AllMeant(LogicBits)
<1> DEFINE luts == [f \in {"lut", "dff"} |-> inst.p[f]]
           sets == [f \in {"set_noreset", "async_sr"} |-> inst.p[f]]
<1>1. AllMeant(ParamBits(luts))
  <2>1. ASSUME NEW f \in {"lut", "dff"} PROVE luts[f] = BitValue(<<tile, f, loc[3]>>)
    <3> DEFINE b == <<tile, f, loc[3]>>
    <3>1. Owner(b) = gate /\ b[2] = f /\ design.inst[Owner(b)] = inst /\ gate # 0
      BY OwnField
    <3> HIDE DEF b
    <3>2. OwnedBy(b, "LOGIC")
      BY <3>1, CurrentGate DEF OwnedBy
    <3>3. f = "lut" => BitValue(b) = inst.p.lut
      BY <3>1, <3>2, FieldValue
    <3>4. f = "dff" => BitValue(b) = inst.p[f]
      BY <3>1, FieldValue
    <3>5. luts[f] = inst.p[f]
      OBVIOUS
    <3> QED BY <3>3, <3>4, <3>5 DEF b
  <2>2. DOMAIN luts = {"lut", "dff"}
    OBVIOUS
  <2> QED BY <2>1, <2>2, ParamsMeant
<1>2. AllMeant(ParamBits(sets))
  <2>1. ASSUME NEW f \in {"set_noreset", "async_sr"} PROVE sets[f] = BitValue(<<tile, f, loc[3]>>)
    <3> DEFINE b == <<tile, f, loc[3]>>
    <3>1. Owner(b) = gate /\ b[2] = f /\ design.inst[Owner(b)] = inst
      BY OwnField
    <3> HIDE DEF b
    <3>2. BitValue(b) = inst.p[f]
      BY <3>1, FieldValue
    <3> QED BY <3>2 DEF b
  <2>2. DOMAIN sets = {"set_noreset", "async_sr"}
    OBVIOUS
  <2> QED BY <2>1, <2>2, ParamsMeant
<1>3. AllMeant(ParamBits([carry |-> 1]))
  <2>1. ASSUME NEW f \in DOMAIN [carry |-> 1] PROVE [carry |-> 1][f] = BitValue(<<tile, f, loc[3]>>)
    <3>1. f = "carry"
      OBVIOUS
    <3> QED BY <3>1, FieldValue
  <2> QED BY <2>1, ParamsMeant
<1>4. AllMeant(CarryInSet)
  <2> DEFINE n == Port(inst, "CIN")
             b == <<tile, "CarryInSet", loc[3]>>
  <2>1. ASSUME NEW s \in CarryInSet PROVE s[2] = BitValue(s[1])
    <3>1. loc[3] = 0 /\ s = TileBit("CarryInSet", design.constant[n])
      BY <2>1 DEF CarryInSet
    <3>2. s = <<b, design.constant[n]>>
      BY <3>1 DEF TileBit
    <3>3. BitValue(b) = design.constant[n]
      <4>1. design.inst[Owner(b)] = inst /\ b[2] = "CarryInSet"
        BY OwnField
      <4> HIDE DEF b
      <4> QED BY <4>1, FieldValue
    <3> HIDE DEF b, n
    <3> QED BY <3>2, <3>3
  <2> QED BY <2>1 DEF AllMeant
<1>5. AllMeant({TileBit("NegClk", inst.p.neg_clk)})
  <2>1. BitValue(<<tile, "NegClk", 0>>) = inst.p.neg_clk
    BY EdgeValue, CurrentGate DEF EdgeOf
  <2> QED BY <2>1 DEF AllMeant, TileBit
<1> HIDE DEF luts, sets
<1>6. LogicBits \subseteq ParamBits(luts) \cup ParamBits([carry |-> 1]) \cup CarryInSet
                          \cup {TileBit("NegClk", inst.p.neg_clk)} \cup ParamBits(sets)
  BY DEF LogicBits, luts, sets
<1> QED BY <1>1, <1>2, <1>3, <1>4, <1>5, <1>6 DEF AllMeant

LEMMA PadMeant ==
  ASSUME Fixed, gate \in Gate, inst.type = "IO"
  PROVE  AllMeant(PadBits)
<1> DEFINE types == [f \in {"pintype_0", "pintype_1", "pintype_2_5"} |-> inst.p[f]]
<1>1. AllMeant(ParamBits(types))
  <2>1. ASSUME NEW f \in {"pintype_0", "pintype_1", "pintype_2_5"} PROVE types[f] = BitValue(<<tile, f, loc[3]>>)
    <3> DEFINE b == <<tile, f, loc[3]>>
    <3>1. Owner(b) = gate /\ b[2] = f /\ design.inst[Owner(b)] = inst /\ gate # 0
      BY OwnField
    <3> HIDE DEF b
    <3>2. OwnedBy(b, "IO")
      BY <3>1, CurrentGate DEF OwnedBy
    <3>3. f = "pintype_0" => BitValue(b) = inst.p.pintype_0
      BY <3>1, <3>2, FieldValue
    <3>4. f = "pintype_1" => BitValue(b) = inst.p.pintype_1
      BY <3>1, <3>2, FieldValue
    <3>5. f = "pintype_2_5" => BitValue(b) = inst.p[f]
      BY <3>1, FieldValue
    <3>6. types[f] = inst.p[f]
      OBVIOUS
    <3> QED BY <3>3, <3>4, <3>5, <3>6 DEF b
  <2>2. DOMAIN types = {"pintype_0", "pintype_1", "pintype_2_5"}
    OBVIOUS
  <2> QED BY <2>1, <2>2, ParamsMeant
<1>2. AllMeant({TileBit("NegClk", inst.p.neg_trigger)})
  <2>1. BitValue(<<tile, "NegClk", 0>>) = inst.p.neg_trigger
    BY EdgeValue, CurrentGate DEF EdgeOf
  <2> QED BY <2>1 DEF AllMeant, TileBit
<1> HIDE DEF types
<1>3. PadBits = ParamBits(types) \cup {TileBit("NegClk", inst.p.neg_trigger)}
  BY DEF PadBits, types
<1> QED BY <1>1, <1>2, <1>3 DEF AllMeant

LEMMA RamMeant ==
  ASSUME Fixed, gate \in Gate, inst.type = "RAM"
  PROVE  AllMeant(RamBits)
<1>1. loc[3] = 0 /\ loc \in Cell /\ chipdb.cell_type[loc] = "RAM" /\ tile = <<loc[1], loc[2]>>
  BY CurrentGate, ChipAssumption DEF TileOf
<1>2. ASSUME NEW f \in {"write_mode", "read_mode"} PROVE BitValue(<<tile, f, 0>>) = inst.p[f]
  <2> DEFINE b == <<tile, f, 0>>
  <2>1. Owner(b) = gate /\ b[2] = f /\ design.inst[Owner(b)] = inst
    BY OwnField, <1>1
  <2> HIDE DEF b
  <2>2. BitValue(b) = inst.p[f]
    BY <2>1, FieldValue
  <2> QED BY <2>2 DEF b
<1>3. BitValue(<<tile, "NegClk", 0>>) = 1
  <2>1. chipdb.tile_type[tile] = "RAMT"
    BY CurrentGate, ChipAssumption
  <2> QED BY <2>1, EdgeValue
<1>4. BitValue(<<Below(tile), "NegClk", 0>>) = 1
  <2>1. Below(tile) = <<loc[1], loc[2] - 1>>
    BY <1>1 DEF Below
  <2>2. Below(tile) \in Tile => chipdb.tile_type[Below(tile)] \notin {"LOGIC", "IO"}
    BY <1>1, <2>1, ChipAssumption
  <2> QED BY <2>2, EdgeValue
<1>5. BitValue(<<tile, "write_mode", 0>>) = inst.p.write_mode /\ BitValue(<<tile, "read_mode", 0>>) = inst.p.read_mode
  BY <1>2
<1>6. AllMeant({TileBit("write_mode", inst.p.write_mode), TileBit("read_mode", inst.p.read_mode)})
  BY <1>5 DEF AllMeant, TileBit
<1>7. AllMeant({TileBit("NegClk", 1)}) /\ AllMeant({<<<<Below(tile), "NegClk", 0>>, 1>>})
  BY <1>3, <1>4 DEF AllMeant, TileBit
<1> QED BY <1>6, <1>7 DEF AllMeant, RamBits

(* Tiles without logic cells have the bits of a filled tile at 1.          *)
LEMMA FillMeant ==
  ASSUME Fixed, NEW t \in Int \X Int, t \in Tile => chipdb.tile_type[t] # "LOGIC"
  PROVE  AllMeant(FillTile(t))
<1> SUFFICES ASSUME NEW s \in FillTile(t) PROVE s[2] = BitValue(s[1])
  BY DEF AllMeant
<1>1. PICK f \in {"lut", "cascade"}, k \in 0 .. TileSize - 1 : s = <<<<t, f, k>>, 1>>
  BY DEF FillTile
<1> DEFINE b == <<t, f, k>>
<1>2. b[1] = t /\ b[2] = f /\ b[3] = k
  OBVIOUS
<1> HIDE DEF b
<1>3. ~OwnedBy(b, "LOGIC")
  <2>1. SUFFICES ASSUME Owner(b) # 0, Type(Owner(b)) = "LOGIC" PROVE FALSE
    BY DEF OwnedBy
  <2>2. Owner(b) \in Gate /\ place[Owner(b)] = Position(b)
    BY <2>1, NobodyThere DEF Owner
  <2>3. Position(b) \in Cell /\ chipdb.cell_type[Position(b)] = "LOGIC"
    BY <2>1, <2>2, GateCell
  <2>4. TileOf(Position(b)) \in Tile /\ chipdb.tile_type[TileOf(Position(b))] = "LOGIC"
    BY <2>3, ChipAssumption
  <2>5. TileOf(Position(b)) = t
    BY <1>2 DEF Position, TileOf
  <2> QED BY <2>4, <2>5
<1>4. BitValue(b) = 1
  BY <1>1, <1>2, <1>3, FieldValue
<1> QED BY <1>1, <1>4 DEF b

LEMMA MacMeant ==
  ASSUME Fixed, gate \in Gate, inst.type = "MAC16"
  PROVE  AllMeant(UNION {FillTile(<<tile[1], tile[2] + k>>) : k \in 0 .. 3})
<1>1. loc \in Cell /\ chipdb.cell_type[loc] = "MAC16" /\ tile = <<loc[1], loc[2]>> /\ loc[1] \in Int /\ loc[2] \in Int
  BY CurrentGate, CellParts DEF TileOf
<1>2. ASSUME NEW k \in 0 .. 3 PROVE AllMeant(FillTile(<<tile[1], tile[2] + k>>))
  <2> DEFINE t == <<tile[1], tile[2] + k>>
  <2>1. t = <<loc[1], loc[2] + k>> /\ t \in Int \X Int
    BY <1>1
  <2>2. t \in Tile => chipdb.tile_type[t] \notin {"LOGIC", "IO"}
    BY <1>1, <2>1, ChipAssumption
  <2> HIDE DEF t
  <2>3. AllMeant(FillTile(t))
    BY <2>1, <2>2, FillMeant
  <2> QED BY <2>3 DEF t
<1> QED BY <1>2 DEF AllMeant

LEMMA PLLMeant ==
  ASSUME Fixed, PLLPadsPlain, gate \in Gate, inst.type = "PLL"
  PROVE  AllMeant(PLLBits)
<1> DEFINE c == PadOfPLL(gate)
<1>1. PLLPad = c /\ c \in Cell /\ chipdb.cell_type[c] = "IO" /\ TileOf(c) = tile
  <2>1. \E p \in DOMAIN chipdb.loc_pin_glb_num : TileOf(p) = TileOf(place[gate])
    BY CurrentGate, ChipAssumption
  <2>2. c \in DOMAIN chipdb.loc_pin_glb_num /\ TileOf(c) = TileOf(place[gate])
    BY <2>1 DEF PadOfPLL
  <2>3. tile = TileOf(place[gate])
    BY CurrentGate
  <2>4. PLLPad = c
    BY <2>3 DEF PLLPad, PadOfPLL
  <2> QED BY <2>2, <2>3, <2>4, ChipAssumption
<1> HIDE DEF c
<1>2. ASSUME NEW f PROVE Position(<<tile, f, PLLPad[3]>>) = c
  <2>1. tile[1] = c[1] /\ tile[2] = c[2]
    BY <1>1 DEF TileOf
  <2> QED BY <1>1, <2>1, CellParts DEF Position
<1>3. ASSUME NEW b, Position(b) = c, OwnedBy(b, "IO")
      PROVE  design.inst[Owner(b)].p.pintype_0 = 1 /\ design.inst[Owner(b)].p.pintype_1 = 0
  <2>1. Owner(b) # 0 /\ Type(Owner(b)) = "IO" /\ Owner(b) = GateOn(c)
    BY <1>3 DEF OwnedBy, Owner
  <2>2. Owner(b) \in Gate /\ place[Owner(b)] = c
    BY <2>1, HeldCell, <1>1
  <2>3. c = PadOfPLL(gate) /\ Type(gate) = "PLL"
    BY CurrentGate DEF c
  <2> QED BY <2>1, <2>2, <2>3 DEF PLLPadsPlain
<1>4. BitValue(<<tile, "pintype_0", PLLPad[3]>>) = 1
  <2> DEFINE b == <<tile, "pintype_0", PLLPad[3]>>
  <2>1. Position(b) = c /\ b[2] = "pintype_0"
    BY <1>2
  <2> HIDE DEF b
  <2>2. BitValue(b) = IF OwnedBy(b, "IO") THEN design.inst[Owner(b)].p.pintype_0 ELSE 1
    BY <2>1, FieldValue
  <2> QED BY <2>1, <2>2, <1>3 DEF b
<1>5. BitValue(<<tile, "pintype_1", PLLPad[3]>>) = 0
  <2> DEFINE b == <<tile, "pintype_1", PLLPad[3]>>
  <2>1. Position(b) = c /\ b[2] = "pintype_1"
    BY <1>2
  <2> HIDE DEF b
  <2>2. BitValue(b) = IF OwnedBy(b, "IO") THEN design.inst[Owner(b)].p.pintype_1 ELSE 0
    BY <2>1, FieldValue
  <2> QED BY <2>1, <2>2, <1>3 DEF b
<1>6. AllMeant({<<<<tile, "pintype_0", PLLPad[3]>>, 1>>, <<<<tile, "pintype_1", PLLPad[3]>>, 0>>})
  BY <1>4, <1>5 DEF AllMeant
<1>7. AllMeant(ParamBits(inst.p.params))
  <2>1. DOMAIN inst.p.params \cap Fields = {}
    BY CurrentGate, DesignAssumption DEF Fixed
  <2> QED BY <2>1, OwnParams
<1> DEFINE kind == [select_b |-> IF inst.p.variant \in TwoPorts THEN inst.p.select_b ELSE 0,
                    type |-> PLLType(inst.p.variant)]
<1>8. AllMeant(ParamBits(kind))
  <2>1. ASSUME NEW f \in {"select_b", "type"} PROVE kind[f] = BitValue(<<tile, f, loc[3]>>)
    <3> DEFINE b == <<tile, f, loc[3]>>
    <3>1. b[2] = f /\ design.inst[Owner(b)] = inst
      BY OwnField
    <3> HIDE DEF b
    <3>2. f = "select_b" => BitValue(b) = IF inst.p.variant \in TwoPorts THEN inst.p.select_b ELSE 0
      BY <3>1, FieldValue
    <3>3. f = "type" => BitValue(b) = PLLType(inst.p.variant)
      BY <3>1, FieldValue
    <3>4. /\ f = "select_b" => kind[f] = IF inst.p.variant \in TwoPorts THEN inst.p.select_b ELSE 0
          /\ f = "type" => kind[f] = PLLType(inst.p.variant)
      OBVIOUS
    <3> HIDE DEF kind
    <3> QED BY <3>2, <3>3, <3>4 DEF b
  <2>2. DOMAIN kind = {"select_b", "type"}
    OBVIOUS
  <2> HIDE DEF kind
  <2> QED BY <2>1, <2>2, ParamsMeant
<1> HIDE DEF kind
<1>9. PLLBits = {<<<<tile, "pintype_0", PLLPad[3]>>, 1>>, <<<<tile, "pintype_1", PLLPad[3]>>, 0>>}
                \cup ParamBits(inst.p.params) \cup ParamBits(kind)
  BY DEF PLLBits, kind
<1> QED BY <1>6, <1>7, <1>8, <1>9 DEF AllMeant

(* What is set for the pins and the other tiles.                           *)
LEMMA PinFieldValue ==
  ASSUME NEW b
  PROVE  /\ b[2] = "padeb_test" => BitValue(b) = Bit(~UseAt(Partner(Position(b))).output)
         /\ b[2] = "REN" => BitValue(b) = Bit(~UseAt(Position(b)).pullup)
         /\ b[2] = "IE" => BitValue(b) = Bit(IF chipdb.device = "1k" THEN ~UseAt(Position(b)).input
                                                                    ELSE UseAt(Position(b)).input)
         /\ b[2] = "cf_100K" => BitValue(b) = Bit(~(\/ UseAt(Position(b)).pullup
                                                       /\ UseAt(Position(b)).strength = "100K"
                                                    \/ UseAt(Position(b)).weak))
         /\ b[2] \in Strengths => BitValue(b) = 1
<1> DEFINE u == UseAt(Position(b))
           w == UseAt(Partner(Position(b)))
<1>1. b[2] = "padeb_test" => BitValue(b) = PinBit(b[2], w)
  BY DEF BitValue, TileFields
<1>2. b[2] \in PinFields \ {"padeb_test"} => BitValue(b) = PinBit(b[2], u)
  BY DEF BitValue, TileFields, PinFields, Strengths
<1> HIDE DEF u, w
<1>3. b[2] = "padeb_test" => BitValue(b) = Bit(~w.output)
  BY <1>1 DEF PinBit
<1>4. b[2] = "REN" => BitValue(b) = Bit(~u.pullup)
  BY <1>2 DEF PinBit, PinFields
<1>5. b[2] = "IE" => BitValue(b) = Bit(IF chipdb.device = "1k" THEN ~u.input ELSE u.input)
  BY <1>2 DEF PinBit, PinFields
<1>6. b[2] = "cf_100K" => BitValue(b) = Bit(~((u.pullup /\ u.strength = "100K") \/ u.weak))
  BY <1>2 DEF PinBit, PinFields
<1>7. b[2] \in Strengths => BitValue(b) = 1
  BY <1>2 DEF PinBit, PinFields, Strengths
<1> QED BY <1>3, <1>4, <1>5, <1>6, <1>7 DEF u, w

LEMMA IoMeant ==
  ASSUME NEW e \in Int \X Int \X {0, 1}, NEW u, UseAt(e) = u, u.pullup => u.strength \in {"100K"} \cup Strengths
  PROVE  AllMeant(IoBits(e, u))
<1> DEFINE t == TileOf(e)
           bit(f) == <<t, f, e[3]>>
           other == <<t, "padeb_test", 1 - e[3]>>
<1>1. ASSUME NEW f PROVE Position(bit(f)) = e /\ bit(f)[2] = f
  BY DEF Position, TileOf
<1>2. Partner(Position(other)) = e /\ other[2] = "padeb_test"
  BY DEF Position, TileOf, Partner
<1> HIDE DEF bit, other
<1>3. BitValue(bit("REN")) = Bit(~u.pullup)
  BY <1>1, PinFieldValue
<1>4. BitValue(bit("IE")) = Bit(IF chipdb.device = "1k" THEN ~u.input ELSE u.input)
  BY <1>1, PinFieldValue
<1>5. BitValue(other) = Bit(~u.output)
  BY <1>2, PinFieldValue
<1>6. BitValue(bit("cf_100K")) = Bit(~((u.pullup /\ u.strength = "100K") \/ u.weak))
  BY <1>1, PinFieldValue
<1>7. u.pullup /\ u.strength # "100K" => BitValue(bit(u.strength)) = 1
  BY <1>1, PinFieldValue
<1>8. IoBits(e, u) \subseteq
        {<<bit("REN"), Bit(~u.pullup)>>,
         <<bit("IE"), Bit(IF chipdb.device = "1k" THEN ~u.input ELSE u.input)>>,
         <<other, Bit(~u.output)>>,
         <<bit("cf_100K"), Bit(~((u.pullup /\ u.strength = "100K") \/ u.weak))>>}
        \cup (IF u.pullup /\ u.strength # "100K" THEN {<<bit(u.strength), 1>>} ELSE {})
  BY DEF IoBits, bit, other
<1> HIDE DEF t
<1> QED BY <1>3, <1>4, <1>5, <1>6, <1>7, <1>8 DEF AllMeant

LEMMA LvdsPartner ==
  ASSUME Fixed, NEW c \in LvdsPins
  PROVE  /\ c \in chipdb.loc_pin \ PLLPins /\ GateOn(c) \in Gate /\ Type(GateOn(c)) = "IO" /\ place[GateOn(c)] = c
         /\ design.inst[GateOn(c)].p.lvds
         /\ c[3] = 0 /\ TileOf(c) \in chipdb.lvds_tiles /\ Partner(c) = <<c[1], c[2], 1>>
         /\ Partner(c) \in DOMAIN chipdb.ieren /\ Partner(Partner(c)) = c
<1> DEFINE g == GateOn(c)
<1>1. c \in chipdb.loc_pin \ PLLPins /\ g # 0 /\ design.inst[g].p.lvds
  BY DEF LvdsPins
<1>2. c \in Cell /\ chipdb.cell_type[c] = "IO"
  BY <1>1, ChipAssumption
<1>3. g \in Gate /\ place[g] = c
  BY <1>1, <1>2, HeldCell
<1> HIDE DEF g
<1>4. Type(g) = "IO"
  BY <1>2, <1>3, GateCell
<1>5. c[3] = 0 /\ TileOf(c) \in chipdb.lvds_tiles
  <2>1. Seen.inst[g].lvds
    BY <1>1, <1>3, <1>4, PadView
  <2> QED BY <2>1, <1>3, <1>4, PadTiles
<1>6. c = <<c[1], c[2], 0>> /\ c[1] \in Int /\ c[2] \in Int
  BY <1>2, <1>5, CellParts
<1>7. Partner(c) = <<c[1], c[2], 1>> /\ Partner(Partner(c)) = c
  BY <1>6 DEF Partner
<1>8. Partner(c) \in DOMAIN chipdb.ieren
  <2> DEFINE t == TileOf(c)
  <2>1. t \in chipdb.lvds_tiles /\ <<t[1], t[2], 1>> = <<c[1], c[2], 1>>
    BY <1>5 DEF TileOf
  <2>2. <<t[1], t[2], 1>> \in DOMAIN chipdb.ieren
    BY <2>1, ChipAssumption
  <2> QED BY <2>1, <2>2, <1>7
<1> QED BY <1>1, <1>3, <1>4, <1>5, <1>7, <1>8 DEF g

LEMMA PinOfIeren ==
  ASSUME NEW c \in DOMAIN chipdb.ieren
  PROVE  PinOf(chipdb.ieren[c]) = c /\ chipdb.ieren[c] \in Int \X Int \X {0, 1}
<1>1. \A d \in DOMAIN chipdb.ieren : chipdb.ieren[d] = chipdb.ieren[c] => d = c
  BY ChipAssumption
<1>2. PinOf(chipdb.ieren[c]) = c
  BY <1>1 DEF PinOf
<1> QED BY <1>2, ChipAssumption

LEMMA PinUses ==
  ASSUME Fixed
  PROVE  /\ \A c \in chipdb.loc_pin \ Partners : UseAt(chipdb.ieren[c]) = PinUse(c)
         /\ \A c \in LvdsPins : UseAt(chipdb.ieren[Partner(c)]) = PartnerUse(c)
         /\ \A e : e \notin {chipdb.ieren[c] : c \in DOMAIN chipdb.ieren} => UseAt(e) = Unused
<1>1. ASSUME NEW c \in chipdb.loc_pin \ Partners PROVE UseAt(chipdb.ieren[c]) = PinUse(c)
  <2>1. c \in DOMAIN chipdb.ieren
    BY ChipAssumption
  <2> QED BY <2>1, <1>1, PinOfIeren DEF UseAt
<1>2. ASSUME NEW c \in LvdsPins PROVE UseAt(chipdb.ieren[Partner(c)]) = PartnerUse(c)
  <2>1. Partner(c) \in DOMAIN chipdb.ieren /\ Partner(Partner(c)) = c /\ Partner(c) \in Partners
    BY LvdsPartner DEF Partners
  <2>2. PinOf(chipdb.ieren[Partner(c)]) = Partner(c)
    BY <2>1, PinOfIeren
  <2> QED BY <2>1, <2>2 DEF UseAt
<1>3. ASSUME NEW e, e \notin {chipdb.ieren[c] : c \in DOMAIN chipdb.ieren} PROVE UseAt(e) = Unused
  BY <1>3 DEF UseAt
<1> QED BY <1>1, <1>2, <1>3

LEMMA PinStrength ==
  ASSUME Fixed, NEW c \in chipdb.loc_pin
  PROVE  /\ PinUse(c).strength \in {"100K"} \cup Strengths
         /\ PartnerUse(c).strength = PinUse(c).strength /\ PartnerUse(c).pullup = PinUse(c).pullup
         /\ PartnerUse(c).output
<1> DEFINE i == design.inst[GateOn(c)]
<1>1. GateOn(c) # 0 => GateOn(c) \in Gate /\ Type(GateOn(c)) = "IO"
  <2>1. c \in Cell /\ chipdb.cell_type[c] = "IO"
    BY ChipAssumption
  <2> QED BY <2>1, HeldCell, GateCell
<1>2. GateOn(c) # 0 => i.p.strength \in {"100K"} \cup Strengths
  BY <1>1, DesignAssumption DEF Fixed, Type
<1> DEFINE in == /\ ~i.p.lvds
                 /\ \/ Connected(i, "D_IN_0") \/ Connected(i, "D_IN_1")
                    \/ i.p.gb_io /\ Connected(i, "GLOBAL_BUFFER_OUTPUT")
           pulled == i.p.pullup /\ ~i.p.lvds
           weak == chipdb.device = "5k" /\ i.p.weak_pullup
           strength == IF chipdb.device = "5k" THEN i.p.strength ELSE "100K"
<1>3. PadUse(i) = [input |-> in, output |-> i.p.pintype_2_5 # 0, pullup |-> pulled, weak |-> weak, strength |-> strength]
  BY DEF PadUse, Use
<1> HIDE DEF in, pulled, weak
<1>4. PadUse(i).strength = strength
  BY <1>3
<1>5. GateOn(c) # 0 => PadUse(i).strength \in {"100K"} \cup Strengths
  BY <1>2, <1>4
<1> HIDE DEF i, strength
<1>6. Unused.strength = "100K" /\ Use(TRUE, TRUE, FALSE, FALSE, "100K").strength = "100K"
  BY DEF Unused, Use
<1>7. \/ PinUse(c) = Unused
      \/ PinUse(c) = Use(TRUE, TRUE, FALSE, FALSE, "100K")
      \/ GateOn(c) # 0 /\ PinUse(c) = PadUse(i)
  BY DEF PinUse, i
<1>8. PinUse(c).strength \in {"100K"} \cup Strengths
  BY <1>5, <1>6, <1>7
<1>9. \E a, b, d, e, f : PinUse(c) = [input |-> a, output |-> b, pullup |-> d, weak |-> e, strength |-> f]
  BY <1>3, <1>7 DEF Unused, Use
<1>10. PartnerUse(c).strength = PinUse(c).strength /\ PartnerUse(c).pullup = PinUse(c).pullup
       /\ PartnerUse(c).output
  BY <1>9 DEF PartnerUse
<1> QED BY <1>8, <1>10

LEMMA PinsMeant ==
  ASSUME Fixed
  PROVE  AllMeant(PinBits) /\ AllMeant(OrphanBits)
<1>1. ASSUME NEW c \in chipdb.loc_pin \ Partners PROVE AllMeant(IoBits(chipdb.ieren[c], PinUse(c)))
  <2>1. chipdb.ieren[c] \in Int \X Int \X {0, 1}
    BY ChipAssumption, PinOfIeren
  <2>2. UseAt(chipdb.ieren[c]) = PinUse(c) /\ PinUse(c).strength \in {"100K"} \cup Strengths
    BY PinUses, PinStrength
  <2> QED BY <2>1, <2>2, IoMeant
<1>2. ASSUME NEW c \in LvdsPins PROVE AllMeant(IoBits(chipdb.ieren[Partner(c)], PartnerUse(c)))
  <2>1. c \in chipdb.loc_pin /\ chipdb.ieren[Partner(c)] \in Int \X Int \X {0, 1}
    BY LvdsPartner, PinOfIeren
  <2>2. UseAt(chipdb.ieren[Partner(c)]) = PartnerUse(c) /\ PartnerUse(c).strength \in {"100K"} \cup Strengths
    BY <2>1, PinUses, PinStrength
  <2> QED BY <2>1, <2>2, IoMeant
<1>3. AllMeant(PinBits)
  <2>1. ASSUME NEW s \in PinBits PROVE s[2] = BitValue(s[1])
    <3>1. CASE s \in UNION {IoBits(chipdb.ieren[c], PinUse(c)) : c \in chipdb.loc_pin \ Partners}
      <4>1. PICK c \in chipdb.loc_pin \ Partners : s \in IoBits(chipdb.ieren[c], PinUse(c))
        BY <3>1
      <4> QED BY <1>1, <4>1 DEF AllMeant
    <3>2. CASE s \in PartnerBits
      <4>1. PICK c \in LvdsPins : s \in IoBits(chipdb.ieren[Partner(c)], PartnerUse(c))
        BY <3>2 DEF PartnerBits
      <4> QED BY <1>2, <4>1 DEF AllMeant
    <3> QED BY <2>1, <3>1, <3>2 DEF PinBits
  <2> QED BY <2>1 DEF AllMeant
<1>4. ASSUME NEW t \in Tile, NEW p \in {0, 1}, <<t[1], t[2], p>> \notin {chipdb.ieren[d] : d \in DOMAIN chipdb.ieren}
      PROVE  AllMeant(IoBits(<<t[1], t[2], p>>, Unused))
  <2>1. <<t[1], t[2], p>> \in Int \X Int \X {0, 1}
    BY ChipAssumption
  <2>2. UseAt(<<t[1], t[2], p>>) = Unused
    BY <1>4, PinUses
  <2>3. Unused.strength = "100K"
    BY DEF Unused, Use
  <2> QED BY <2>1, <2>2, <2>3, IoMeant
<1>5. AllMeant(OrphanBits)
  <2> DEFINE image == {chipdb.ieren[d] : d \in DOMAIN chipdb.ieren}
             pads == {<<t[1], t[2], p>> : t \in {t \in Tile : chipdb.tile_type[t] = "IO"}, p \in {0, 1}}
  <2>1. ASSUME NEW c \in pads \ image PROVE AllMeant(IoBits(c, Unused))
    <3>1. PICK t \in Tile, p \in {0, 1} : c = <<t[1], t[2], p>>
      BY <2>1
    <3>2. <<t[1], t[2], p>> \notin {chipdb.ieren[d] : d \in DOMAIN chipdb.ieren}
      BY <2>1, <3>1
    <3> HIDE DEF pads, image
    <3>3. AllMeant(IoBits(<<t[1], t[2], p>>, Unused))
      BY <1>4, <3>2
    <3> QED BY <3>1, <3>3
  <2>2. OrphanBits = UNION {IoBits(c, Unused) : c \in pads \ image}
    BY DEF OrphanBits
  <2> HIDE DEF pads, image
  <2>3. ASSUME NEW s \in OrphanBits PROVE s[2] = BitValue(s[1])
    <3>1. PICK c \in pads \ image : s \in IoBits(c, Unused)
      BY <2>2, <2>3
    <3> QED BY <2>1, <3>1 DEF AllMeant
  <2> QED BY <2>3 DEF AllMeant
<1> QED BY <1>3, <1>5

LEMMA LvdsMeant ==
  ASSUME Fixed
  PROVE  AllMeant(LvdsBits)
<1> SUFFICES ASSUME NEW c \in chipdb.loc_pin \ PLLPins, GateOn(c) # 0
             PROVE  BitValue(<<TileOf(c), "LVDS", 0>>) = Bit(design.inst[GateOn(c)].p.lvds)
  BY DEF AllMeant, LvdsBits
<1> DEFINE g == GateOn(c)
           b == <<TileOf(c), "LVDS", 0>>
<1>1. g \in Gate /\ place[g] = c /\ Type(g) = "IO"
  <2>1. c \in Cell /\ chipdb.cell_type[c] = "IO"
    BY ChipAssumption
  <2> QED BY <2>1, HeldCell, GateCell
<1>2. b[1] = TileOf(c) /\ b[2] = "LVDS"
  OBVIOUS
<1> HIDE DEF g, b
<1>3. BitValue(b) = Bit(\E h \in Gate : Type(h) = "IO" /\ TileOf(place[h]) = TileOf(c) /\ design.inst[h].p.lvds)
  BY <1>2 DEF BitValue, TileFields, TileBitValue
<1>4. (\E h \in Gate : Type(h) = "IO" /\ TileOf(place[h]) = TileOf(c) /\ design.inst[h].p.lvds) <=> design.inst[g].p.lvds
  <2>1. ASSUME NEW h \in Gate, Type(h) = "IO", TileOf(place[h]) = TileOf(c), design.inst[h].p.lvds PROVE g = h
    <3>1. Seen.inst[h].lvds
      BY <2>1, PadView
    <3> QED BY <3>1, <2>1, <1>1, PadTiles
  <2> QED BY <2>1, <1>1
<1>5. BitValue(b) = Bit(design.inst[g].p.lvds)
  BY <1>3, <1>4 DEF Bit
<1> QED BY <1>5 DEF g, b

LEMMA TilesMeant ==
  ASSUME Fixed
  PROVE  AllMeant(IpConBits) /\ AllMeant(PowerUpBits)
<1>1. ASSUME NEW t \in Tile, chipdb.tile_type[t] = "IPCON" PROVE AllMeant(FillTile(t))
  <2>1. t \in Int \X Int /\ chipdb.tile_type[t] # "LOGIC"
    BY <1>1, ChipAssumption
  <2> QED BY <2>1, FillMeant
<1>2. AllMeant(IpConBits)
  BY <1>1 DEF AllMeant, IpConBits
<1>3. ASSUME NEW t \in Tile
      PROVE  BitValue(<<Below(t), "PowerUp", 0>>) =
               Bit(IF chipdb.device = "1k" THEN GateOn(<<t[1], t[2], 0>>) = 0 ELSE GateOn(<<t[1], t[2], 0>>) # 0)
  <2> DEFINE b == <<Below(t), "PowerUp", 0>>
  <2>1. b[1][1] = t[1] /\ b[1][2] + 1 = t[2] /\ b[2] = "PowerUp"
    BY ChipAssumption DEF Below
  <2> HIDE DEF b
  <2>2. BitValue(b) = TileBitValue(b)
    BY <2>1 DEF BitValue, TileFields
  <2>3. TileBitValue(b) =
          Bit(IF chipdb.device = "1k" THEN GateOn(<<t[1], t[2], 0>>) = 0 ELSE GateOn(<<t[1], t[2], 0>>) # 0)
    BY <2>1 DEF TileBitValue
  <2> QED BY <2>2, <2>3 DEF b
<1>4. AllMeant(PowerUpBits)
  <2>1. ASSUME NEW s \in PowerUpBits PROVE s[2] = BitValue(s[1])
    <3>1. PICK t \in Tile :
            s = <<<<Below(t), "PowerUp", 0>>,
                  Bit(IF chipdb.device = "1k" THEN GateOn(<<t[1], t[2], 0>>) = 0 ELSE GateOn(<<t[1], t[2], 0>>) # 0)>>
      BY <2>1 DEF PowerUpBits
    <3> QED BY <1>3, <3>1
  <2> QED BY <2>1 DEF AllMeant
<1> QED BY <1>2, <1>4
-----------------------------------------------------------------------------
(* No bit gets two values: each gets the one that the placement means.     *)

BitsInv ==
  /\ Fixed
  /\ pc = "gates" => gate \in Gate
  /\ PLLPadsPlain => AllMeant(conf)

LEMMA InitBits == Init => BitsInv
<1> SUFFICES ASSUME Init PROVE BitsInv
  OBVIOUS
<1>1. Fixed /\ conf = {} /\ gate = 1
  BY DEF Init, Fixed
<1>2. AllMeant(conf)
  BY <1>1 DEF AllMeant
<1>3. pc = "gates" => gate \in Gate
  BY <1>1, ChipAssumption DEF Init, Gate
<1> QED BY <1>1, <1>2, <1>3 DEF BitsInv

(* The placement, and with it what every bit means, stays.                 *)
LEMMA StillGates ==
  ASSUME UNCHANGED <<design, place>>
  PROVE  /\ \A c : GateOn(c)' = GateOn(c)
         /\ \A g : Type(g)' = Type(g)
         /\ Fixed' = Fixed
         /\ PLLPadsPlain' = PLLPadsPlain
         /\ LvdsPins' = LvdsPins /\ Partners' = Partners
<1>1. \A c : GateOn(c)' = GateOn(c)
  BY DEF GateOn
<1>2. \A g : Type(g)' = Type(g)
  BY DEF Type
<1>3. Fixed' = Fixed
  BY DEF Fixed, IsPlacement, Legal
<1>4. PLLPadsPlain' = PLLPadsPlain
  BY DEF PLLPadsPlain, PadOfPLL, Type
<1>5. LvdsPins' = LvdsPins
  BY <1>1 DEF LvdsPins
<1>6. Partners' = Partners
  BY <1>5 DEF Partners
<1> QED BY <1>1, <1>2, <1>3, <1>4, <1>5, <1>6

LEMMA StillMeant ==
  ASSUME UNCHANGED <<design, place>>
  PROVE  \A b : BitValue(b)' = BitValue(b)
<1>1. ASSUME NEW c PROVE PinUse(c)' = PinUse(c)
  <2>1. GateOn(c)' = GateOn(c)
    BY StillGates
  <2>2. design.inst[GateOn(c)]' = design.inst[GateOn(c)]
    BY <2>1
  <2>3. PadUse(design.inst[GateOn(c)])' = PadUse(design.inst[GateOn(c)])
    BY <2>2 DEF PadUse, Connected, Port, Use
  <2> QED BY <2>1, <2>3 DEF PinUse, PLLPins, Unused, Use
<1>2. ASSUME NEW e PROVE UseAt(e)' = UseAt(e)
  <2>1. PinUse(PinOf(e))' = PinUse(PinOf(e)) /\ PinUse(Partner(PinOf(e)))' = PinUse(Partner(PinOf(e)))
    BY <1>1 DEF PinOf, Partner
  <2>2. PartnerUse(Partner(PinOf(e)))' = PartnerUse(Partner(PinOf(e)))
    BY <2>1 DEF PartnerUse
  <2> QED BY <2>1, <2>2, StillGates DEF UseAt, PinOf, Unused, Use
<1>3. ASSUME NEW f, NEW e PROVE PinBit(f, UseAt(e))' = PinBit(f, UseAt(e))
  BY <1>2 DEF PinBit, Bit
<1>4. ASSUME NEW b PROVE TileBitValue(b)' = TileBitValue(b)
  <2>1. Clocked(b[1])' = Clocked(b[1])
    BY DEF Clocked, Type
  <2>2. \A g : EdgeOf(g)' = EdgeOf(g)
    BY DEF EdgeOf, Type
  <2>3. TileEdge(b[1])' = TileEdge(b[1])
    BY <2>1, <2>2 DEF TileEdge
  <2>4. \A c : GateOn(c)' = GateOn(c)
    BY StillGates
  <2> QED BY <2>3, <2>4 DEF TileBitValue, Bit, Type
<1>5. ASSUME NEW b PROVE CellBit(b)' = CellBit(b)
  <2>1. Owner(b)' = Owner(b)
    BY StillGates DEF Owner, Position
  <2>2. \A type : OwnedBy(b, type)' = OwnedBy(b, type)
    BY <2>1 DEF OwnedBy, Type
  <2> QED BY <2>1, <2>2 DEF CellBit, PLLType, Port
<1>6. ASSUME NEW b PROVE BitValue(b)' = BitValue(b)
  <2>1. PinBit(b[2], UseAt(Partner(Position(b))))' = PinBit(b[2], UseAt(Partner(Position(b))))
    BY <1>3 DEF Partner, Position
  <2>2. PinBit(b[2], UseAt(Position(b)))' = PinBit(b[2], UseAt(Position(b)))
    BY <1>3 DEF Position
  <2> QED BY <2>1, <2>2, <1>4, <1>5 DEF BitValue
<1> QED BY <1>6

LEMMA BitsGrow ==
  ASSUME BitsInv, UNCHANGED <<design, place>>, NEW bits, PLLPadsPlain => AllMeant(bits), conf' \subseteq conf \cup bits,
         pc' = "gates" => gate' \in Gate
  PROVE  BitsInv'
<1>1. ASSUME PLLPadsPlain' PROVE AllMeant(conf)'
  <2>1. AllMeant(conf) /\ AllMeant(bits)
    BY <1>1, StillGates DEF BitsInv
  <2>2. \A s \in conf' : s[2] = BitValue(s[1])
    BY <2>1 DEF AllMeant
  <2>3. \A s \in conf' : s[2] = BitValue(s[1])'
    BY <2>2, StillMeant
  <2> QED BY <2>3 DEF AllMeant
<1> QED BY <1>1, StillGates DEF BitsInv

(* A gate of its kind is configured.                                       *)
LEMMA GateStep ==
  ASSUME BitsInv, NEW type, NEW bits, NEW glbs, ConfigureGate(type, bits, glbs),
         Fixed /\ PLLPadsPlain /\ gate \in Gate /\ inst.type = type => AllMeant(bits)
  PROVE  BitsInv'
<1>1. gate \in Gate /\ inst.type = type /\ conf' = conf \cup bits /\ UNCHANGED <<design, place>>
  BY DEF BitsInv, ConfigureGate
<1>2. pc' = "gates" => gate' \in Gate
  <2>1. gate' = gate + 1 /\ (pc' = "gates" => gate # NGate)
    BY DEF ConfigureGate
  <2> QED BY <1>1, <2>1, ChipAssumption DEF Gate
<1>3. PLLPadsPlain => AllMeant(bits)
  BY <1>1 DEF BitsInv
<1> QED BY <1>1, <1>2, <1>3, BitsGrow

LEMMA BlockMeant ==
  ASSUME Fixed, gate \in Gate, inst.type \in {"MAC16", "OSC", "BLOCK", "I2C", "SPI", "RGBA"}
  PROVE  AllMeant(ParamBits(inst.p.params))
<1>1. DOMAIN inst.p.params \cap Fields = {}
  BY CurrentGate, DesignAssumption DEF Fixed
<1> QED BY <1>1, OwnParams

LEMMA NextBits == BitsInv /\ [Next]_vars => BitsInv'
<1> SUFFICES ASSUME BitsInv, [Next]_vars PROVE BitsInv'
  OBVIOUS
<1>0. AllMeant({})
  BY DEF AllMeant
<1>1. CASE ConfigureLogic
  BY <1>1, GateStep, LogicMeant DEF ConfigureLogic
<1>2. CASE ConfigurePad
  BY <1>2, GateStep, PadMeant DEF ConfigurePad
<1>3. CASE ConfigureBuffer
  BY <1>0, <1>3, GateStep DEF ConfigureBuffer
<1>4. CASE ConfigureRam
  BY <1>4, GateStep, RamMeant DEF ConfigureRam
<1>5. CASE ConfigureMac
  <2> DEFINE filled == UNION {FillTile(<<tile[1], tile[2] + k>>) : k \in 0 .. 3}
             own == ParamBits(inst.p.params)
  <2>1. ConfigureGate("MAC16", own \cup filled, {})
    BY <1>5 DEF ConfigureMac
  <2>2. ASSUME Fixed, gate \in Gate, inst.type = "MAC16" PROVE AllMeant(own \cup filled)
    <3>1. AllMeant(own) /\ AllMeant(filled)
      BY <2>2, BlockMeant, MacMeant
    <3> HIDE DEF own, filled
    <3> QED BY <3>1 DEF AllMeant
  <2> HIDE DEF own, filled
  <2> QED BY <2>1, <2>2, GateStep
<1>6. CASE ConfigureOscillator
  BY <1>6, GateStep, BlockMeant DEF ConfigureOscillator
<1>7. CASE ConfigureBlock
  <2>1. PICK type \in {"BLOCK", "I2C", "SPI", "RGBA"} : ConfigureGate(type, ParamBits(inst.p.params), {})
    BY <1>7 DEF ConfigureBlock
  <2>2. Fixed /\ gate \in Gate /\ inst.type = type => AllMeant(ParamBits(inst.p.params))
    BY BlockMeant
  <2> QED BY <2>1, <2>2, GateStep
<1>8. CASE ConfigurePLL
  BY <1>8, GateStep, PLLMeant DEF ConfigurePLL
<1>9. CASE BadParameter
  <2>1. UNCHANGED <<design, place, conf>> /\ pc' # "gates"
    BY <1>9 DEF BadParameter
  <2> QED BY <1>0, <2>1, BitsGrow
<1>10. CASE ConfigurePins
  <2>1. UNCHANGED <<design, place>> /\ pc' # "gates" /\ conf' = conf \cup (PinBits \cup LvdsBits \cup OrphanBits)
    BY <1>10 DEF ConfigurePins
  <2>2. AllMeant(PinBits) /\ AllMeant(LvdsBits) /\ AllMeant(OrphanBits)
    BY PinsMeant, LvdsMeant DEF BitsInv
  <2>3. AllMeant(PinBits \cup LvdsBits \cup OrphanBits)
    BY <2>2 DEF AllMeant
  <2> QED BY <2>1, <2>3, BitsGrow
<1>11. CASE ConfigureTiles
  <2>1. UNCHANGED <<design, place>> /\ pc' # "gates" /\ conf' = conf \cup (IpConBits \cup PowerUpBits)
    BY <1>11 DEF ConfigureTiles
  <2>2. AllMeant(IpConBits) /\ AllMeant(PowerUpBits)
    BY TilesMeant DEF BitsInv
  <2>3. AllMeant(IpConBits \cup PowerUpBits)
    BY <2>2 DEF AllMeant
  <2> QED BY <2>1, <2>3, BitsGrow
<1>12. CASE CollectNet
  <2>1. UNCHANGED <<design, place, conf>> /\ pc' # "gates"
    BY <1>12 DEF CollectNet
  <2> QED BY <1>0, <2>1, BitsGrow
<1>13. CASE BeginRouting
  <2>1. UNCHANGED <<design, place, conf>> /\ pc' # "gates"
    BY <1>13 DEF BeginRouting
  <2> QED BY <1>0, <2>1, BitsGrow
<1>14. CASE Stopped \/ UNCHANGED vars
  <2>1. UNCHANGED <<design, place, conf, pc, gate>>
    BY <1>14 DEF Stopped, vars
  <2>2. pc' = "gates" => gate' \in Gate
    BY <2>1 DEF BitsInv
  <2> QED BY <1>0, <2>1, <2>2, BitsGrow
<1> QED BY <1>1, <1>2, <1>3, <1>4, <1>5, <1>6, <1>7, <1>8, <1>9, <1>10, <1>11, <1>12, <1>13, <1>14 DEF Next

(* No bit of the chip is given two values, the assertion of set_cbit(),    *)
(* for every placement that valid() accepts and in which pads that a PLL   *)
(* goes through have the PIN_TYPE that it sets.                            *)
THEOREM BitsNeverConflict == Spec => [](PLLPadsPlain => BitsAgree)
<1>1. BitsInv => (PLLPadsPlain => BitsAgree)
  BY DEF BitsInv, AllMeant, BitsAgree
<1> QED BY InitBits, NextBits, <1>1, PTL DEF Spec
-----------------------------------------------------------------------------
(* The wires of the ports: a wire tells the kind of the port it belongs to.*)
IsUse(g, f) == g \in Gate /\ f \in DOMAIN design.inst[g].ports /\ Connected(design.inst[g], f)
NetAt(g, f) == Port(design.inst[g], f)
IsWired(g, f) == IsUse(g, f) /\ port_cnet(g, f) # None

GlobalPorts == {"PLLOUTGLOBAL", "PLLOUTGLOBALA", "PLLOUTGLOBALB"}
Kind(g, f) ==
  CASE Type(g) = "LOGIC" -> "logic"
    [] Type(g) = "IO" -> IF f = "GLOBAL_BUFFER_OUTPUT" THEN "network"
                         ELSE IF f \in I3CPorts THEN "listed" ELSE "pad"
    [] Type(g) = "GB" -> IF f = "GLOBAL_BUFFER_OUTPUT" THEN "network" ELSE "buffer"
    [] Type(g) = "RAM" -> "ram"
    [] Type(g) = "PLL" -> IF f \in GlobalPorts THEN "network"
                          ELSE IF f \in AllPLLPorts THEN "pad" ELSE "listed"
    [] Type(g) = "OSC" -> IF f = "CLK_OUT" /\ ~design.inst[g].p.through_fabric THEN "network" ELSE "listed"
    [] OTHER -> "listed"
WireKind(w) ==
  IF w[2] = "glb_netwk" THEN "network"
  ELSE IF w[1] \in RamTiles THEN "ram"
  ELSE IF w[1] \in Tile /\ chipdb.tile_type[w[1]] = "LOGIC" /\ w[2] \in LogicPorts \cup {"carry_in_mux"} THEN "logic"
  ELSE IF w[1] \in Tile /\ chipdb.tile_type[w[1]] = "IO" /\ w[2] \in PadPorts THEN "pad"
  ELSE "other"

LEMMA RamTileTypes ==
  ASSUME NEW t \in RamTiles
  PROVE  t \in Tile => chipdb.tile_type[t] \notin {"LOGIC", "IO"}
<1> DEFINE cells == {c \in Cell : chipdb.cell_type[c] = "RAM"}
<1>1. CASE \E c \in cells : t = <<c[1], c[2]>>
  BY <1>1, ChipAssumption DEF TileOf
<1>2. CASE \E c \in cells : t = <<c[1], c[2] - 1>>
  BY <1>2, ChipAssumption
<1> QED BY <1>1, <1>2 DEF RamTiles

LEMMA KindsOfWires ==
  ASSUME NEW w
  PROVE  /\ w[2] = "glb_netwk" => WireKind(w) = "network"
         /\ w[2] # "glb_netwk" /\ w[1] \in RamTiles => WireKind(w) = "ram"
         /\ w[1] \in Tile /\ chipdb.tile_type[w[1]] = "LOGIC" /\ w[2] \in LogicPorts \cup {"carry_in_mux"} =>
              WireKind(w) = "logic"
         /\ w[1] \in Tile /\ chipdb.tile_type[w[1]] = "IO" /\ w[2] \in PadPorts => WireKind(w) = "pad"
         /\ w[1] \in Tile /\ chipdb.tile_type[w[1]] = "IO" /\ w[2] = "fabout" => WireKind(w) = "other"
         /\ ~NamedWire(w) => WireKind(w) = "other"
<1>1. w[1] \in RamTiles /\ w[1] \in Tile => chipdb.tile_type[w[1]] \notin {"LOGIC", "IO"}
  BY RamTileTypes
<1>2. "glb_netwk" \notin LogicPorts \cup {"carry_in_mux"} /\ "glb_netwk" \notin PadPorts /\ "fabout" \notin PadPorts
  BY DEF LogicPorts, PadPorts
<1>3. w[2] = "glb_netwk" => WireKind(w) = "network"
  BY DEF WireKind
<1>4. w[2] # "glb_netwk" /\ w[1] \in RamTiles => WireKind(w) = "ram"
  BY DEF WireKind
<1>5. w[1] \in Tile /\ chipdb.tile_type[w[1]] = "LOGIC" /\ w[2] \in LogicPorts \cup {"carry_in_mux"} =>
        WireKind(w) = "logic"
  BY <1>1, <1>2 DEF WireKind
<1>6. w[1] \in Tile /\ chipdb.tile_type[w[1]] = "IO" /\ w[2] \in PadPorts => WireKind(w) = "pad"
  BY <1>1, <1>2 DEF WireKind
<1>7. w[1] \in Tile /\ chipdb.tile_type[w[1]] = "IO" /\ w[2] = "fabout" => WireKind(w) = "other"
  BY <1>1, <1>2 DEF WireKind
<1>8. ~NamedWire(w) => WireKind(w) = "other"
  BY DEF WireKind, NamedWire
<1> QED BY <1>3, <1>4, <1>5, <1>6, <1>7, <1>8

LEMMA UsePorts ==
  ASSUME Fixed, NEW g \in Gate, NEW f, IsUse(g, f)
  PROVE  LET i == design.inst[g]
         IN /\ i.type = "LOGIC" => f \in LogicPorts
            /\ i.type = "IO" => f \in PadPorts \cup I3CPorts \cup {"GLOBAL_BUFFER_OUTPUT"}
            /\ i.type = "IO" /\ f = "GLOBAL_BUFFER_OUTPUT" => i.p.gb_io
            /\ i.type = "GB" => f \in {"USER_SIGNAL_TO_GLOBAL_BUFFER", "GLOBAL_BUFFER_OUTPUT"}
            /\ i.type = "RAM" => f # "glb_netwk"
            /\ i.type = "PLL" /\ f \in AllPLLPorts => f \in PLLPorts(i.p.variant)
            /\ i.type = "OSC" => f # "CLK_FABRIC"
            /\ ListedPort(i, f) /\ ~(i.type = "OSC" /\ f = "CLK_OUT" /\ ~i.p.through_fabric) =>
                 place[g] \in DOMAIN chipdb.mfv /\ ListedName(i, f) \in DOMAIN chipdb.mfv[place[g]]
            /\ i.ports[f] = NetAt(g, f) /\ NetAt(g, f) # 0
<1> DEFINE i == design.inst[g]
<1>1. design \in Designs /\ place[g] \in CellsOf(i) /\ f \in DOMAIN i.ports /\ Connected(i, f)
  BY DEF Fixed, IsPlacement, IsUse
<1>2. /\ i.type = "LOGIC" => f \in LogicPorts
      /\ i.type = "IO" => f \in PadPorts \cup I3CPorts \cup {"GLOBAL_BUFFER_OUTPUT"}
      /\ i.type = "IO" /\ f = "GLOBAL_BUFFER_OUTPUT" => i.p.gb_io
      /\ i.type = "GB" => f \in {"USER_SIGNAL_TO_GLOBAL_BUFFER", "GLOBAL_BUFFER_OUTPUT"}
  BY <1>1, PortAssumption
<1>3. /\ i.type = "RAM" => f # "glb_netwk"
      /\ i.type = "PLL" /\ f \in AllPLLPorts => f \in PLLPorts(i.p.variant)
      /\ i.type = "OSC" => f # "CLK_FABRIC"
  BY <1>1, PortAssumption
<1>4. ListedPort(i, f) /\ ~(i.type = "OSC" /\ f = "CLK_OUT" /\ ~i.p.through_fabric) =>
        place[g] \in DOMAIN chipdb.mfv /\ ListedName(i, f) \in DOMAIN chipdb.mfv[place[g]]
  BY <1>1, PortAssumption
<1>5. i.ports[f] = NetAt(g, f) /\ NetAt(g, f) # 0
  BY <1>1 DEF Connected, Port, NetAt
<1> QED BY <1>2, <1>3, <1>4, <1>5
(* What port_cnet() returns for the ports of each type.                    *)
LEMMA LogicWire ==
  ASSUME Fixed, NEW g \in Gate, NEW f, IsWired(g, f), Type(g) = "LOGIC"
  PROVE  LET c == place[g]
             w == port_cnet(g, f)
         IN /\ f \in LogicPorts
            /\ \/ f \in {"CLK", "CEN", "SR"} /\ w = <<TileOf(c), f, -1>>
               \/ f = "CIN" /\ c[3] = 0 /\ w = <<TileOf(c), "carry_in_mux", -1>>
               \/ f \notin {"CLK", "CEN", "SR", "CIN"} /\ w = <<TileOf(c), f, c[3]>>
<1>1. f \in LogicPorts
  BY UsePorts DEF IsWired, Type
<1>2. port_cnet(g, f) = LogicCnet(place[g], f) /\ port_cnet(g, f) # None
  BY DEF port_cnet, Type, IsWired
<1> QED BY <1>1, <1>2 DEF LogicCnet, TileWire, At

LEMMA PadWire ==
  ASSUME Fixed, NEW g \in Gate, NEW f, IsWired(g, f), Type(g) = "IO"
  PROVE  LET c == place[g]
             w == port_cnet(g, f)
         IN \/ /\ f \in {"LATCH_INPUT_VALUE", "CLOCK_ENABLE", "INPUT_CLK", "OUTPUT_CLK"}
               /\ w = <<TileOf(c), f, -1>>
            \/ f \in I3CPorts /\ c \in DOMAIN chipdb.i3c /\ w = chipdb.i3c[c][f]
            \/ f = "GLOBAL_BUFFER_OUTPUT" /\ design.inst[g].p.gb_io /\ w = Network(chipdb.loc_pin_glb_num[c])
            \/ f \in {"D_IN_0", "D_IN_1", "D_OUT_0", "D_OUT_1", "OUTPUT_ENABLE"} /\ w = <<TileOf(c), f, c[3]>>
<1>1. /\ f \in PadPorts \cup I3CPorts \cup {"GLOBAL_BUFFER_OUTPUT"}
      /\ f = "GLOBAL_BUFFER_OUTPUT" => design.inst[g].p.gb_io
  BY UsePorts DEF IsWired, Type
<1>2. port_cnet(g, f) = PadCnet(place[g], f)
  BY DEF port_cnet, Type
<1>3. f \in I3CPorts => place[g] \in DOMAIN chipdb.i3c
  BY DEF Fixed, IsPlacement, CellsOf, IsWired, IsUse, Type
<1> QED BY <1>1, <1>2, <1>3 DEF PadCnet, TileWire, At, PadPorts, I3CPorts

LEMMA BufferWire ==
  ASSUME Fixed, NEW g \in Gate, NEW f, IsWired(g, f), Type(g) = "GB"
  PROVE  LET c == place[g]
             w == port_cnet(g, f)
         IN \/ f = "GLOBAL_BUFFER_OUTPUT" /\ w = Network(chipdb.gbufin[TileOf(c)])
            \/ f = "USER_SIGNAL_TO_GLOBAL_BUFFER" /\ w = <<TileOf(c), "fabout", -1>>
<1>1. f \in {"USER_SIGNAL_TO_GLOBAL_BUFFER", "GLOBAL_BUFFER_OUTPUT"}
  BY UsePorts DEF IsWired, Type
<1>2. port_cnet(g, f) = BufferCnet(place[g], f)
  BY DEF port_cnet, Type
<1> QED BY <1>1, <1>2 DEF BufferCnet, TileWire

LEMMA RamPortWire ==
  ASSUME Fixed, NEW g \in Gate, NEW f, IsWired(g, f), Type(g) = "RAM"
  PROVE  LET t == TileOf(place[g])
         IN port_cnet(g, f) = <<IF RamWire(f) \in chipdb.ramt_wires THEN t ELSE Below(t), RamWire(f), -1>>
BY DEF port_cnet, Type, RamCnet, TileWire

LEMMA PLLWire ==
  ASSUME Fixed, NEW g \in Gate, NEW f, IsWired(g, f), Type(g) = "PLL"
  PROVE  LET c == place[g]
             w == port_cnet(g, f)
             out == chipdb.pllout[c]
         IN \/ f \in {"PLLOUTGLOBAL", "PLLOUTGLOBALA"} /\ w = Network(chipdb.loc_pin_glb_num[out.a])
            \/ f = "PLLOUTGLOBALB" /\ w = Network(chipdb.loc_pin_glb_num[out.b])
            \/ f \in {"PLLOUTCORE", "PLLOUTCOREA"} /\ w = <<TileOf(out.a), "D_IN_0", out.a[3]>>
            \/ f = "PLLOUTCOREB" /\ w = <<TileOf(out.b), "D_IN_0", out.b[3]>>
            \/ /\ f \notin AllPLLPorts /\ c \in DOMAIN chipdb.mfv /\ f \in DOMAIN chipdb.mfv[c]
               /\ w = chipdb.mfv[c][f]
<1>1. port_cnet(g, f) = PLLCnet(place[g], f)
  BY DEF port_cnet, Type
<1>2. AllPLLPorts = {"PLLOUTGLOBAL", "PLLOUTGLOBALA", "PLLOUTGLOBALB", "PLLOUTCORE", "PLLOUTCOREA", "PLLOUTCOREB"}
  BY DEF AllPLLPorts, PLLPorts, TwoPorts
<1>3. f \notin AllPLLPorts => place[g] \in DOMAIN chipdb.mfv /\ f \in DOMAIN chipdb.mfv[place[g]]
  BY UsePorts DEF IsWired, Type, ListedPort, ListedName
<1> QED BY <1>1, <1>2, <1>3 DEF PLLCnet, At

LEMMA OtherWire ==
  ASSUME Fixed, NEW g \in Gate, NEW f, IsWired(g, f), Type(g) \notin {"LOGIC", "IO", "GB", "RAM", "PLL"}
  PROVE  LET i == design.inst[g]
             c == place[g]
             w == port_cnet(g, f)
         IN \/ i.type = "OSC" /\ f = "CLK_OUT" /\ ~i.p.through_fabric /\ w = Network(chipdb.oscillator[c])
            \/ /\ Kind(g, f) = "listed" /\ c \in DOMAIN chipdb.mfv /\ ListedName(i, f) \in DOMAIN chipdb.mfv[c]
               /\ w = chipdb.mfv[c][ListedName(i, f)]
<1> DEFINE i == design.inst[g]
           c == place[g]
<1>1. port_cnet(g, f) = CellCnet(i, c, f) /\ port_cnet(g, f) # None
  BY DEF port_cnet, Type, IsWired
<1>2. CASE i.type = "MAC16"
  <2>1. f \notin {"ACCUMCI", "SIGNEXTIN"}
    BY <1>1, <1>2 DEF CellCnet
  <2>2. ListedPort(i, f) /\ ListedName(i, f) = f
    BY <1>2, <2>1 DEF ListedPort, ListedName
  <2>3. port_cnet(g, f) = chipdb.mfv[c][f]
    BY <1>1, <1>2, <2>1 DEF CellCnet
  <2> QED BY <1>2, <2>2, <2>3, UsePorts DEF IsWired, Kind, Type
<1>3. CASE i.type = "OSC"
  <2>1. ListedPort(i, f)
    BY <1>3 DEF ListedPort
  <2>2. CASE f = "CLK_OUT" /\ ~i.p.through_fabric
    BY <1>1, <1>3, <2>2 DEF CellCnet
  <2>3. CASE ~(f = "CLK_OUT" /\ ~i.p.through_fabric)
    <3>1. c \in DOMAIN chipdb.mfv /\ ListedName(i, f) \in DOMAIN chipdb.mfv[c]
      BY <2>1, <2>3, UsePorts DEF IsWired
    <3>2. port_cnet(g, f) = chipdb.mfv[c][ListedName(i, f)]
      BY <1>1, <1>3, <2>3 DEF CellCnet, ListedName
    <3>3. Kind(g, f) = "listed"
      BY <1>3, <2>3 DEF Kind, Type
    <3> QED BY <3>1, <3>2, <3>3
  <2> QED BY <2>2, <2>3
<1>4. CASE i.type \notin {"MAC16", "OSC"}
  <2>1. i.type \notin {"LOGIC", "IO", "GB", "RAM", "PLL"}
    BY DEF Type
  <2>2. ListedPort(i, f) /\ ListedName(i, f) = f /\ Kind(g, f) = "listed"
    BY <1>4, <2>1 DEF ListedPort, ListedName, Kind, Type
  <2>3. port_cnet(g, f) = chipdb.mfv[c][f]
    BY <1>1, <1>4 DEF CellCnet
  <2> QED BY <1>4, <2>2, <2>3, UsePorts DEF IsWired
<1> QED BY <1>2, <1>3, <1>4

LEMMA PLLOutputs ==
  ASSUME NEW c \in Cell, chipdb.cell_type[c] = "PLL"
  PROVE  /\ c \in DOMAIN chipdb.pllout
         /\ \A p \in {chipdb.pllout[c].a, chipdb.pllout[c].b} :
              /\ p \in DOMAIN chipdb.loc_pin_glb_num /\ p \in Cell /\ chipdb.cell_type[p] = "IO"
              /\ TileOf(p) \in Tile /\ chipdb.tile_type[TileOf(p)] = "IO"
<1>1. c \in DOMAIN chipdb.pllout /\ {chipdb.pllout[c].a, chipdb.pllout[c].b} \subseteq DOMAIN chipdb.loc_pin_glb_num
  BY NetworkAssumption
<1>2. \A p \in DOMAIN chipdb.loc_pin_glb_num : p \in Cell /\ chipdb.cell_type[p] = "IO"
  BY ChipAssumption
<1>3. \A p \in Cell : chipdb.cell_type[p] = "IO" => TileOf(p) \in Tile /\ chipdb.tile_type[TileOf(p)] = "IO"
  BY ChipAssumption
<1> QED BY <1>1, <1>2, <1>3

LEMMA KindOfPort ==
  ASSUME Fixed, NEW g \in Gate, NEW f, IsWired(g, f)
  PROVE  WireKind(port_cnet(g, f)) = IF Kind(g, f) \in {"buffer", "listed"} THEN "other" ELSE Kind(g, f)
<1> DEFINE c == place[g]
           w == port_cnet(g, f)
<1>0. /\ c \in Cell /\ chipdb.cell_type[c] = Type(g) /\ TileOf(c) \in Tile
      /\ Type(g) = "LOGIC" => chipdb.tile_type[TileOf(c)] = "LOGIC"
      /\ Type(g) \in {"IO", "GB"} => chipdb.tile_type[TileOf(c)] = "IO"
  BY GateCell, CellParts, ChipAssumption
<1>1. \A glb : Network(glb)[2] = "glb_netwk"
  BY DEF Network
<1> HIDE DEF c
<1>2. CASE Type(g) = "LOGIC"
  <2>1. w[1] = TileOf(c) /\ w[2] \in LogicPorts \cup {"carry_in_mux"}
    BY <1>2, LogicWire DEF c
  <2> QED BY <1>0, <1>2, <2>1, KindsOfWires DEF Kind
<1>3. CASE Type(g) = "IO"
  <2>1. CASE f = "GLOBAL_BUFFER_OUTPUT"
    <3>1. w = Network(chipdb.loc_pin_glb_num[c])
      BY <1>3, <2>1, PadWire DEF c, I3CPorts
    <3> QED BY <1>1, <1>3, <2>1, <3>1, KindsOfWires DEF Kind
  <2>2. CASE f \in I3CPorts
    <3>1. c \in DOMAIN chipdb.i3c /\ w = chipdb.i3c[c][f]
      BY <1>3, <2>2, PadWire DEF c, I3CPorts
    <3>2. ~NamedWire(w)
      BY <2>2, <3>1, WireAssumption
    <3> QED BY <1>3, <2>2, <3>2, KindsOfWires DEF Kind, I3CPorts
  <2>3. CASE f \notin I3CPorts \cup {"GLOBAL_BUFFER_OUTPUT"}
    <3>1. w[1] = TileOf(c) /\ w[2] \in PadPorts
      BY <1>3, <2>3, PadWire DEF c, I3CPorts, PadPorts
    <3> QED BY <1>0, <1>3, <2>3, <3>1, KindsOfWires DEF Kind
  <2> QED BY <2>1, <2>2, <2>3
<1>4. CASE Type(g) = "GB"
  <2>1. CASE f = "GLOBAL_BUFFER_OUTPUT"
    BY <1>1, <1>4, <2>1, BufferWire, KindsOfWires DEF Kind
  <2>2. CASE f # "GLOBAL_BUFFER_OUTPUT"
    <3>1. w[1] = TileOf(c) /\ w[2] = "fabout"
      BY <1>4, <2>2, BufferWire DEF c
    <3> QED BY <1>0, <1>4, <2>2, <3>1, KindsOfWires DEF Kind
  <2> QED BY <2>1, <2>2
<1>5. CASE Type(g) = "RAM"
  <2>1. w[1] \in {TileOf(c), Below(TileOf(c))} /\ w[2] = RamWire(f)
    BY <1>5, RamPortWire DEF c
  <2>2. TileOf(c) \in RamTiles /\ Below(TileOf(c)) \in RamTiles
    BY <1>0, <1>5 DEF RamTiles, TileOf, Below
  <2>3. RamWire(f) # "glb_netwk"
    BY <1>5, UsePorts DEF RamWire, IsWired, Type
  <2> QED BY <1>5, <2>1, <2>2, <2>3, KindsOfWires DEF Kind
<1>6. CASE Type(g) = "PLL"
  <2>0. AllPLLPorts = GlobalPorts \cup {"PLLOUTCORE", "PLLOUTCOREA", "PLLOUTCOREB"}
    BY DEF AllPLLPorts, PLLPorts, TwoPorts, GlobalPorts
  <2>1. CASE f \in GlobalPorts
    BY <1>1, <1>6, <2>0, <2>1, PLLWire, KindsOfWires DEF Kind, GlobalPorts
  <2>2. CASE f \in AllPLLPorts \ GlobalPorts
    <3>1. \E p \in {chipdb.pllout[c].a, chipdb.pllout[c].b} : w[1] = TileOf(p) /\ w[2] = "D_IN_0"
      BY <1>6, <2>0, <2>2, PLLWire DEF c, GlobalPorts
    <3>2. \A p \in {chipdb.pllout[c].a, chipdb.pllout[c].b} : TileOf(p) \in Tile /\ chipdb.tile_type[TileOf(p)] = "IO"
      BY <1>0, <1>6, PLLOutputs
    <3>3. w[1] \in Tile /\ chipdb.tile_type[w[1]] = "IO" /\ w[2] \in PadPorts
      BY <3>1, <3>2 DEF PadPorts
    <3> QED BY <1>6, <2>2, <3>3, KindsOfWires DEF Kind
  <2>3. CASE f \notin AllPLLPorts
    <3>1. c \in DOMAIN chipdb.mfv /\ f \in DOMAIN chipdb.mfv[c] /\ w = chipdb.mfv[c][f]
      BY <1>6, <2>0, <2>3, PLLWire DEF c, GlobalPorts
    <3>2. ~NamedWire(w)
      BY <3>1, WireAssumption
    <3> QED BY <1>6, <2>0, <2>3, <3>2, KindsOfWires DEF Kind
  <2> QED BY <2>1, <2>2, <2>3
<1>7. CASE Type(g) \notin {"LOGIC", "IO", "GB", "RAM", "PLL"}
  <2> DEFINE i == design.inst[g]
  <2>1. CASE i.type = "OSC" /\ f = "CLK_OUT" /\ ~i.p.through_fabric
    <3>1. Kind(g, f) = "network"
      BY <2>1 DEF Kind, Type
    <3>2. w = Network(chipdb.oscillator[c])
      BY <1>7, <2>1, <3>1, OtherWire DEF c
    <3> QED BY <1>1, <3>1, <3>2, KindsOfWires
  <2>2. CASE ~(i.type = "OSC" /\ f = "CLK_OUT" /\ ~i.p.through_fabric)
    <3>1. /\ Kind(g, f) = "listed" /\ c \in DOMAIN chipdb.mfv /\ ListedName(i, f) \in DOMAIN chipdb.mfv[c]
          /\ w = chipdb.mfv[c][ListedName(i, f)]
      BY <1>7, <2>2, OtherWire DEF c
    <3>2. ~NamedWire(w)
      BY <3>1, WireAssumption
    <3> QED BY <3>1, <3>2, KindsOfWires
  <2> QED BY <2>1, <2>2
<1> QED BY <1>2, <1>3, <1>4, <1>5, <1>6, <1>7
-----------------------------------------------------------------------------
(* Ports that share a wire are on one net: by the test of logic and I/O    *)
(* tiles, by that of the global networks, and because no other ports share *)
(* a wire.                                                                 *)

(* What valid() does not compare: the latch nets of the pads of a tile,    *)
(* and the input of a buffer with the port of another block that the chip  *)
(* database lists with the same wire.                                      *)
LatchesAgree ==
  \A g, h \in Gate :
    /\ Type(g) = "IO" /\ Type(h) = "IO" /\ TileOf(place[g]) = TileOf(place[h])
    /\ IsUse(g, "LATCH_INPUT_VALUE") /\ IsUse(h, "LATCH_INPUT_VALUE")
    => NetAt(g, "LATCH_INPUT_VALUE") = NetAt(h, "LATCH_INPUT_VALUE")
BuffersAlone ==
  \A g, h \in Gate : \A f \in DOMAIN design.inst[h].ports :
    /\ Type(g) = "GB" /\ IsUse(g, "USER_SIGNAL_TO_GLOBAL_BUFFER") /\ Type(h) # "GB" /\ IsUse(h, f)
    /\ port_cnet(h, f) = <<TileOf(place[g]), "fabout", -1>>
    => NetAt(g, "USER_SIGNAL_TO_GLOBAL_BUFFER") = NetAt(h, f)

LEMMA SameGate ==
  ASSUME Fixed, NEW g \in Gate, NEW h \in Gate, TileOf(place[g]) = TileOf(place[h]), place[g][3] = place[h][3]
  PROVE  g = h
BY GateCell, SameCell DEF Fixed, IsPlacement

LEMMA LogicApart ==
  ASSUME Fixed, NEW g \in Gate, NEW h \in Gate, NEW f, NEW k, IsWired(g, f), IsWired(h, k),
         Type(g) = "LOGIC", Type(h) = "LOGIC", port_cnet(g, f) = port_cnet(h, k)
  PROVE  NetAt(g, f) = NetAt(h, k)
<1> DEFINE c == place[g]
           d == place[h]
<1>0. c[3] \in 0 .. TileSize - 1 /\ d[3] \in 0 .. TileSize - 1 /\ TileSize \in Nat
  BY GateCell, ChipAssumption
<1>1. /\ f \in LogicPorts
      /\ \/ f \in {"CLK", "CEN", "SR"} /\ port_cnet(g, f) = <<TileOf(c), f, -1>>
         \/ f = "CIN" /\ c[3] = 0 /\ port_cnet(g, f) = <<TileOf(c), "carry_in_mux", -1>>
         \/ f \notin {"CLK", "CEN", "SR", "CIN"} /\ port_cnet(g, f) = <<TileOf(c), f, c[3]>>
  BY LogicWire
<1>2. /\ k \in LogicPorts
      /\ \/ k \in {"CLK", "CEN", "SR"} /\ port_cnet(h, k) = <<TileOf(d), k, -1>>
         \/ k = "CIN" /\ d[3] = 0 /\ port_cnet(h, k) = <<TileOf(d), "carry_in_mux", -1>>
         \/ k \notin {"CLK", "CEN", "SR", "CIN"} /\ port_cnet(h, k) = <<TileOf(d), k, d[3]>>
  BY LogicWire
<1>3. TileOf(c) = TileOf(d)
  BY <1>1, <1>2
<1>4. "carry_in_mux" \notin LogicPorts
  BY DEF LogicPorts
<1>5. CASE f \in {"CLK", "CEN", "SR"}
  <2>1. k = f
    <3>1. port_cnet(h, k)[2] = f /\ port_cnet(h, k)[3] = -1
      BY <1>1, <1>5
    <3>2. k = "CIN" => port_cnet(h, k)[2] = "carry_in_mux"
      BY <1>2
    <3>3. k \notin {"CLK", "CEN", "SR", "CIN"} => port_cnet(h, k)[3] = d[3]
      BY <1>2
    <3>4. k \in {"CLK", "CEN", "SR"} => port_cnet(h, k)[2] = k
      BY <1>2
    <3> QED BY <3>1, <3>2, <3>3, <3>4, <1>0, <1>1, <1>4
  <2>2. CASE c[3] = d[3]
    <3>1. g = h
      BY <1>3, <2>2, SameGate
    <3> QED BY <2>1, <3>1
  <2>3. CASE c[3] # d[3]
    <3>1. PICK v \in Controls : \A e \in {g, h} : Seen.inst[e][v] = NetAt(e, f)
      BY <1>5, LogicView DEF Controls, NetAt
    <3>2. Seen.inst[g][v] # 0 /\ Seen.inst[h][v] # 0
      BY <2>1, <3>1, UsePorts DEF IsWired
    <3>3. c[3] < d[3] \/ d[3] < c[3]
      BY <1>0, <2>3
    <3>4. Seen.inst[g][v] = Seen.inst[h][v]
      BY <1>3, <3>2, <3>3, LogicTiles
    <3> QED BY <2>1, <3>1, <3>4
  <2> QED BY <2>2, <2>3
<1>6. CASE f = "CIN"
  <2>1. k = "CIN" /\ d[3] = 0 /\ c[3] = 0
    BY <1>1, <1>2, <1>4, <1>6
  <2>2. g = h
    BY <1>3, <2>1, SameGate
  <2> QED BY <1>6, <2>1, <2>2
<1>7. CASE f \notin {"CLK", "CEN", "SR", "CIN"}
  <2>1. port_cnet(g, f) = <<TileOf(c), f, c[3]>>
    BY <1>1, <1>7
  <2>2. k = f /\ c[3] = d[3]
    BY <1>0, <1>1, <1>2, <1>4, <1>7, <2>1
  <2>3. g = h
    BY <1>3, <2>2, SameGate
  <2> QED BY <2>2, <2>3
<1> QED BY <1>5, <1>6, <1>7

LEMMA RamApart ==
  ASSUME Fixed, NEW g \in Gate, NEW h \in Gate, NEW f, NEW k, IsWired(g, f), IsWired(h, k),
         Type(g) = "RAM", Type(h) = "RAM", port_cnet(g, f) = port_cnet(h, k)
  PROVE  NetAt(g, f) = NetAt(h, k)
<1> DEFINE c == place[g]
           d == place[h]
<1>0. /\ c \in Cell /\ d \in Cell /\ c[3] = 0 /\ d[3] = 0
      /\ c[1] \in Int /\ c[2] \in Int /\ d[1] \in Int /\ d[2] \in Int
  BY GateCell, CellParts, ChipAssumption
<1> DEFINE s == IF RamWire(f) \in chipdb.ramt_wires THEN TileOf(c) ELSE Below(TileOf(c))
           t == IF RamWire(k) \in chipdb.ramt_wires THEN TileOf(d) ELSE Below(TileOf(d))
<1>1. port_cnet(g, f) = <<s, RamWire(f), -1>> /\ port_cnet(h, k) = <<t, RamWire(k), -1>>
  BY RamPortWire
<1> HIDE DEF s, t
<1>2. RamWire(f) = RamWire(k) /\ s = t
  <2>1. <<s, RamWire(f), -1>> = <<t, RamWire(k), -1>>
    BY <1>1, Zenon
  <2> QED BY <2>1
<1>3. TileOf(c) = TileOf(d) \/ Below(TileOf(c)) = Below(TileOf(d))
  BY <1>2 DEF s, t
<1>4. TileOf(c) = TileOf(d)
  BY <1>0, <1>3 DEF TileOf, Below
<1>5. g = h
  BY <1>0, <1>4, SameGate
<1>6. LET ports == DOMAIN design.inst[g].ports
      IN f \in ports /\ k \in ports /\ ~({"RCLK", "RCLKN"} \subseteq ports) /\ ~({"WCLK", "WCLKN"} \subseteq ports)
  <2>1. design \in Designs /\ design.inst[g].type = "RAM"
    BY DEF Fixed, Type
  <2> QED BY <1>5, <2>1, PortAssumption DEF IsWired, IsUse
<1>7. f = k
  BY <1>2, <1>6 DEF RamWire
<1> QED BY <1>5, <1>7
(* The pads, and the PLLs that drive the input of a pad: no pad there may  *)
(* use it.                                                                 *)
LEMMA PLLTiles ==
  ASSUME Fixed, NEW g \in Gate, Type(g) = "PLL"
  PROVE  LET c == place[g]
             i == design.inst[g]
             out == chipdb.pllout[c]
         IN /\ \A h \in Gate : place[h] = out.a => ~Connected(design.inst[h], "D_IN_0")
            /\ i.p.variant \in TwoPorts => \A h \in Gate : place[h] = out.b => ~Connected(design.inst[h], "D_IN_0")
            /\ Connected(i, GlobalA(i)) => ValidGlobal(Seen, Holder, chipdb.loc_pin_glb_num[out.a])
            /\ Connected(i, "PLLOUTGLOBALB") => ValidGlobal(Seen, Holder, chipdb.loc_pin_glb_num[out.b])
<1> DEFINE c == place[g]
           t == TileOf(c)
           out == chipdb.pllout[c]
           v == Seen.inst[g]
<1>1. /\ c \in Cell /\ chipdb.cell_type[c] = "PLL" /\ Holder[c] = g /\ GateAt(Holder, c) = g
      /\ t \in Tile /\ c = <<t[1], t[2], c[3]>>
  BY GateCell, CellParts DEF TileOf
<1>2. chipdb.tile_type[t] = "IO" /\ c[3] = 3 /\ g # 0
  BY <1>1, ChipAssumption DEF Gate
<1>3. ValidIO(Seen, Holder, t)
  BY <1>1, <1>2 DEF Fixed, Legal, Valid, Seen, Holder
<1>4. c = <<t[1], t[2], 3>>
  BY <1>1, <1>2
<1>5. ValidPLL(Seen, Holder, t)
  BY <1>1, <1>2, <1>3, <1>4 DEF ValidIO
<1>6. /\ v.out_a => ValidGlobal(Seen, Holder, chipdb.loc_pin_glb_num[out.a])
      /\ v.out_b => ValidGlobal(Seen, Holder, chipdb.loc_pin_glb_num[out.b])
      /\ Holder[out.a] # 0 => ~Seen.inst[Holder[out.a]].d_in
      /\ v.two => (Holder[out.b] # 0 => ~Seen.inst[Holder[out.b]].d_in)
  BY <1>1, <1>4, <1>5 DEF ValidPLL
<1>7. ASSUME NEW h \in Gate, place[h] \in {out.a, out.b}
      PROVE  Holder[place[h]] = h /\ h # 0 /\ Seen.inst[h].d_in = Connected(design.inst[h], "D_IN_0")
  <2>1. chipdb.cell_type[place[h]] = "IO"
    BY <1>1, <1>7, PLLOutputs
  <2>2. Holder[place[h]] = h /\ Type(h) = "IO" /\ h # 0
    BY <2>1, GateCell, ChipAssumption DEF Gate
  <2> QED BY <2>2, PadView
<1> HIDE DEF c, out, v
<1>8. \A h \in Gate : place[h] = out.a => ~Connected(design.inst[h], "D_IN_0")
  BY <1>6, <1>7
<1>9. v.two => \A h \in Gate : place[h] = out.b => ~Connected(design.inst[h], "D_IN_0")
  BY <1>6, <1>7
<1>10. /\ v.two = (design.inst[g].p.variant \in TwoPorts)
       /\ v.out_a = Connected(design.inst[g], GlobalA(design.inst[g]))
       /\ v.out_b = Connected(design.inst[g], "PLLOUTGLOBALB")
  BY PLLView DEF v
<1> QED BY <1>6, <1>8, <1>9, <1>10 DEF c, out

(* The pad whose input an output of a PLL takes.                           *)
LEMMA CoreWire ==
  ASSUME Fixed, NEW g \in Gate, NEW f, IsWired(g, f), Type(g) = "PLL", Kind(g, f) = "pad"
  PROVE  LET out == chipdb.pllout[place[g]]
             p == IF f = "PLLOUTCOREB" THEN out.b ELSE out.a
         IN /\ port_cnet(g, f) = <<TileOf(p), "D_IN_0", p[3]>>
            /\ f \in {"PLLOUTCORE", "PLLOUTCOREA", "PLLOUTCOREB"} /\ f \in PLLPorts(design.inst[g].p.variant)
            /\ p \in Cell /\ chipdb.cell_type[p] = "IO"
            /\ \A h \in Gate : place[h] = p => ~Connected(design.inst[h], "D_IN_0")
<1> DEFINE out == chipdb.pllout[place[g]]
           p == IF f = "PLLOUTCOREB" THEN out.b ELSE out.a
<1>1. f \in AllPLLPorts \ GlobalPorts
  BY DEF Kind
<1>2. f \in {"PLLOUTCORE", "PLLOUTCOREA", "PLLOUTCOREB"}
  BY <1>1 DEF AllPLLPorts, PLLPorts, GlobalPorts, TwoPorts
<1>3. f \in PLLPorts(design.inst[g].p.variant)
  BY <1>1, UsePorts DEF IsWired, Type
<1>4. port_cnet(g, f) = <<TileOf(p), "D_IN_0", p[3]>>
  <2>1. CASE f = "PLLOUTCOREB"
    BY <1>1, <2>1, PLLWire
  <2>2. CASE f # "PLLOUTCOREB"
    BY <1>1, <1>2, <2>2, PLLWire DEF GlobalPorts
  <2> QED BY <2>1, <2>2
<1>5. p \in Cell /\ chipdb.cell_type[p] = "IO"
  BY GateCell, PLLOutputs
<1>6. ASSUME NEW h \in Gate, place[h] = p PROVE ~Connected(design.inst[h], "D_IN_0")
  <2>1. CASE f = "PLLOUTCOREB"
    <3>1. design.inst[g].p.variant \in TwoPorts
      BY <1>3, <2>1 DEF PLLPorts
    <3> QED BY <1>6, <2>1, <3>1, PLLTiles
  <2>2. CASE f # "PLLOUTCOREB"
    BY <1>6, <2>2, PLLTiles
  <2> QED BY <2>1, <2>2
<1> QED BY <1>2, <1>3, <1>4, <1>5, <1>6

LEMMA PadsApart ==
  ASSUME Fixed, LatchesAgree, NEW g \in Gate, NEW h \in Gate, NEW f, NEW k, IsWired(g, f), IsWired(h, k),
         Type(g) = "IO", Type(h) = "IO", Kind(g, f) = "pad", Kind(h, k) = "pad",
         port_cnet(g, f) = port_cnet(h, k)
  PROVE  NetAt(g, f) = NetAt(h, k)
<1> DEFINE c == place[g]
           d == place[h]
           shared == {"LATCH_INPUT_VALUE", "CLOCK_ENABLE", "INPUT_CLK", "OUTPUT_CLK"}
           own == {"D_IN_0", "D_IN_1", "D_OUT_0", "D_OUT_1", "OUTPUT_ENABLE"}
<1>0. c[3] \in {0, 1} /\ d[3] \in {0, 1}
  BY GateCell, ChipAssumption
<1>1. /\ f \notin I3CPorts \cup {"GLOBAL_BUFFER_OUTPUT"}
      /\ k \notin I3CPorts \cup {"GLOBAL_BUFFER_OUTPUT"}
  BY DEF Kind
<1>2. \/ f \in shared /\ port_cnet(g, f) = <<TileOf(c), f, -1>>
      \/ f \in own /\ port_cnet(g, f) = <<TileOf(c), f, c[3]>>
  BY <1>1, PadWire
<1>3. \/ k \in shared /\ port_cnet(h, k) = <<TileOf(d), k, -1>>
      \/ k \in own /\ port_cnet(h, k) = <<TileOf(d), k, d[3]>>
  BY <1>1, PadWire
<1>4. f = k /\ TileOf(c) = TileOf(d)
  BY <1>2, <1>3
<1>5. CASE f = "LATCH_INPUT_VALUE"
  BY <1>4, <1>5 DEF LatchesAgree, IsWired
<1>6. CASE f \in shared \ {"LATCH_INPUT_VALUE"}
  <2>1. PICK v \in {"cen", "inclk", "outclk"} : \A e \in {g, h} : Seen.inst[e][v] = NetAt(e, f)
    BY <1>6, PadView DEF NetAt
  <2>2. Seen.inst[g][v] # 0 /\ Seen.inst[h][v] # 0
    BY <1>4, <2>1, UsePorts DEF IsWired
  <2>3. Seen.inst[g][v] = Seen.inst[h][v]
    BY <1>4, <2>2, PadsInTile
  <2> QED BY <1>4, <2>1, <2>3
<1>7. CASE f \in own
  <2>1. c[3] = d[3]
    BY <1>0, <1>2, <1>3, <1>4, <1>7
  <2>2. g = h
    BY <1>4, <2>1, SameGate
  <2> QED BY <1>4, <2>2
<1> QED BY <1>2, <1>5, <1>6, <1>7
LEMMA PadNotPLL ==
  ASSUME Fixed, NEW g \in Gate, NEW h \in Gate, NEW f, NEW k, IsWired(g, f), IsWired(h, k),
         Type(g) = "PLL", Type(h) = "IO", Kind(g, f) = "pad", Kind(h, k) = "pad"
  PROVE  port_cnet(g, f) # port_cnet(h, k)
<1> SUFFICES ASSUME port_cnet(g, f) = port_cnet(h, k) PROVE FALSE
  OBVIOUS
<1> DEFINE out == chipdb.pllout[place[g]]
           p == IF f = "PLLOUTCOREB" THEN out.b ELSE out.a
           d == place[h]
<1>1. /\ port_cnet(g, f) = <<TileOf(p), "D_IN_0", p[3]>>
      /\ p \in Cell /\ chipdb.cell_type[p] = "IO"
      /\ \A e \in Gate : place[e] = p => ~Connected(design.inst[e], "D_IN_0")
  BY CoreWire
<1> HIDE DEF p
<1>2. p[3] \in {0, 1} /\ d \in Cell
  BY <1>1, GateCell, ChipAssumption
<1>3. \/ k \in {"LATCH_INPUT_VALUE", "CLOCK_ENABLE", "INPUT_CLK", "OUTPUT_CLK"} /\ port_cnet(h, k) = <<TileOf(d), k, -1>>
      \/ port_cnet(h, k) = <<TileOf(d), k, d[3]>>
  BY PadWire DEF Kind
<1>4. k = "D_IN_0" /\ TileOf(d) = TileOf(p) /\ d[3] = p[3]
  BY <1>1, <1>2, <1>3
<1>5. d = p
  BY <1>1, <1>2, <1>4, SameCell
<1> QED BY <1>1, <1>4, <1>5 DEF IsWired, IsUse

LEMMA PLLsApart ==
  ASSUME Fixed, NEW g \in Gate, NEW h \in Gate, NEW f, NEW k, IsWired(g, f), IsWired(h, k),
         Type(g) = "PLL", Type(h) = "PLL", Kind(g, f) = "pad", Kind(h, k) = "pad",
         port_cnet(g, f) = port_cnet(h, k)
  PROVE  NetAt(g, f) = NetAt(h, k)
<1> DEFINE c == place[g]
           d == place[h]
           p == IF f = "PLLOUTCOREB" THEN chipdb.pllout[c].b ELSE chipdb.pllout[c].a
           q == IF k = "PLLOUTCOREB" THEN chipdb.pllout[d].b ELSE chipdb.pllout[d].a
<1>1. /\ port_cnet(g, f) = <<TileOf(p), "D_IN_0", p[3]>> /\ p \in Cell
      /\ f \in {"PLLOUTCORE", "PLLOUTCOREA", "PLLOUTCOREB"} /\ f \in PLLPorts(design.inst[g].p.variant)
  BY CoreWire
<1>2. /\ port_cnet(h, k) = <<TileOf(q), "D_IN_0", q[3]>> /\ q \in Cell
      /\ k \in {"PLLOUTCORE", "PLLOUTCOREA", "PLLOUTCOREB"} /\ k \in PLLPorts(design.inst[h].p.variant)
  BY CoreWire
<1>3. p = q
  <2> HIDE DEF p, q
  <2>1. TileOf(p) = TileOf(q) /\ p[3] = q[3]
    <3>1. <<TileOf(p), "D_IN_0", p[3]>> = <<TileOf(q), "D_IN_0", q[3]>>
      BY <1>1, <1>2, Zenon
    <3> QED BY <3>1
  <2> QED BY <1>1, <1>2, <2>1, SameCell
<1>4. c \in DOMAIN chipdb.pllout /\ d \in DOMAIN chipdb.pllout
  BY GateCell, PLLOutputs
<1>5. c = d /\ (f = "PLLOUTCOREB" <=> k = "PLLOUTCOREB")
  BY <1>3, <1>4, NetworkAssumption
<1>6. g = h
  BY <1>5 DEF Fixed, IsPlacement
<1>7. f = k
  BY <1>1, <1>2, <1>5, <1>6 DEF PLLPorts
<1> QED BY <1>6, <1>7

(* The drivers of a network.                                               *)
LEMMA BufferView ==
  ASSUME NEW g \in Gate, Type(g) = "GB"
  PROVE  Seen.inst[g].type = "GB" /\ Seen.inst[g].gb_out = Connected(design.inst[g], "GLOBAL_BUFFER_OUTPUT")
<1>1. Seen.inst[g] = View(design, design.inst[g]) /\ design.inst[g].type = "GB"
  BY DEF Seen, ViewOf, Type
<1>2. View(design, design.inst[g]) = [type |-> "GB", gc |-> design.inst[g].p.gc,
                                      gb_out |-> Connected(design.inst[g], "GLOBAL_BUFFER_OUTPUT")]
  BY <1>1 DEF View
<1> QED BY <1>1, <1>2

LEMMA OscillatorView ==
  ASSUME NEW g \in Gate, Type(g) = "OSC"
  PROVE  Seen.inst[g].type = "OSC" /\ Seen.inst[g].glb_out = DrivesNetwork(design.inst[g])
<1>1. Seen.inst[g] = View(design, design.inst[g]) /\ design.inst[g].type = "OSC"
  BY DEF Seen, ViewOf, Type
<1>2. View(design, design.inst[g]) = [type |-> "OSC", glb_out |-> DrivesNetwork(design.inst[g])]
  BY <1>1 DEF View
<1> QED BY <1>1, <1>2

LEMMA BufferTiles ==
  ASSUME Fixed, NEW g \in Gate, Type(g) = "GB"
  PROVE  LET t == TileOf(place[g])
         IN /\ place[g] = <<t[1], t[2], 2>> /\ t \in DOMAIN chipdb.gbufin
            /\ ValidGlobal(Seen, Holder, chipdb.gbufin[t])
<1> DEFINE c == place[g]
           t == TileOf(c)
<1>1. /\ c \in Cell /\ chipdb.cell_type[c] = "GB" /\ Holder[c] = g /\ GateAt(Holder, c) = g
      /\ t \in Tile /\ c = <<t[1], t[2], c[3]>>
  BY GateCell, CellParts DEF TileOf
<1>2. chipdb.tile_type[t] = "IO" /\ c[3] = 2 /\ g # 0
  BY <1>1, ChipAssumption DEF Gate
<1>3. ValidIO(Seen, Holder, t)
  BY <1>1, <1>2 DEF Fixed, Legal, Valid, Seen, Holder
<1>4. c = <<t[1], t[2], 2>>
  BY <1>1, <1>2
<1>5. \E pads : ValidBuffer(Seen, Holder, t, pads)
  BY <1>1, <1>2, <1>3, <1>4 DEF ValidIO
<1>6. ValidGlobal(Seen, Holder, chipdb.gbufin[t])
  BY <1>5 DEF ValidBuffer
<1>7. t \in DOMAIN chipdb.gbufin
  BY <1>1, NetworkAssumption
<1> QED BY <1>4, <1>6, <1>7
(* The network that a port is on: valid() has seen that its gate drives    *)
(* it, and no gate but an oscillator drives one without a test that it is  *)
(* alone.                                                                  *)
NetworkOf(g, f) ==
  LET c == place[g]
      out == chipdb.pllout[c]
  IN CASE Type(g) = "IO" -> chipdb.loc_pin_glb_num[c]
       [] Type(g) = "GB" -> chipdb.gbufin[TileOf(c)]
       [] Type(g) = "PLL" -> chipdb.loc_pin_glb_num[IF f = "PLLOUTGLOBALB" THEN out.b ELSE out.a]
       [] OTHER -> chipdb.oscillator[c]
Drives(g, glb) ==
  /\ place[g] \in GlobalCells(glb) /\ DrivesGlobal(Seen, g, place[g], glb)
  /\ Type(g) # "OSC" => ValidGlobal(Seen, Holder, glb)

LEMMA NetworkPorts ==
  ASSUME Fixed, NEW g \in Gate, NEW f, IsWired(g, f), Kind(g, f) = "network"
  PROVE  /\ Type(g) \in {"IO", "GB", "PLL", "OSC"}
         /\ Type(g) \in {"IO", "GB"} => f = "GLOBAL_BUFFER_OUTPUT"
         /\ Type(g) = "IO" => place[g] \in DOMAIN chipdb.loc_pin_glb_num
         /\ Type(g) = "OSC" => f = "CLK_OUT"
         /\ Type(g) = "PLL" => f \in GlobalPorts /\ f \in PLLPorts(design.inst[g].p.variant)
         /\ port_cnet(g, f) = Network(NetworkOf(g, f))
         /\ Drives(g, NetworkOf(g, f))
<1> DEFINE c == place[g]
           i == design.inst[g]
<1>0. c \in Cell /\ chipdb.cell_type[c] = Type(g) /\ IsUse(g, f) /\ Connected(i, f) /\ i.type = Type(g)
  BY GateCell DEF IsWired, IsUse, Type
<1>1. CASE Type(g) = "IO"
  <2>1. f = "GLOBAL_BUFFER_OUTPUT"
    BY <1>1 DEF Kind
  <2>2. i.p.gb_io /\ port_cnet(g, f) = Network(chipdb.loc_pin_glb_num[c])
    BY <1>1, <2>1, PadWire DEF I3CPorts
  <2>3. c \in DOMAIN chipdb.loc_pin_glb_num
    BY <1>1, <2>2 DEF Fixed, IsPlacement, CellsOf, Type
  <2>4. Seen.inst[g].type = "IO" /\ Seen.inst[g].gb_io /\ Seen.inst[g].gb_out
    BY <1>0, <1>1, <2>1, <2>2, PadView
  <2>5. ValidGlobal(Seen, Holder, chipdb.loc_pin_glb_num[c])
    BY <1>1, <2>4, PadTiles
  <2>6. NetworkOf(g, f) = chipdb.loc_pin_glb_num[c]
    BY <1>1 DEF NetworkOf
  <2>7. Drives(g, NetworkOf(g, f))
    BY <2>3, <2>4, <2>5, <2>6 DEF Drives, GlobalCells, DrivesGlobal
  <2> QED BY <1>1, <2>1, <2>2, <2>3, <2>6, <2>7
<1>2. CASE Type(g) = "GB"
  <2>1. f = "GLOBAL_BUFFER_OUTPUT"
    BY <1>2 DEF Kind
  <2>2. port_cnet(g, f) = Network(chipdb.gbufin[TileOf(c)])
    BY <1>2, <2>1, BufferWire
  <2>3. Seen.inst[g].type = "GB" /\ Seen.inst[g].gb_out
    BY <1>0, <1>2, <2>1, BufferView
  <2>4. NetworkOf(g, f) = chipdb.gbufin[TileOf(c)]
    BY <1>2 DEF NetworkOf
  <2>5. /\ c = <<TileOf(c)[1], TileOf(c)[2], 2>> /\ TileOf(c) \in DOMAIN chipdb.gbufin
        /\ ValidGlobal(Seen, Holder, chipdb.gbufin[TileOf(c)])
    BY <1>2, BufferTiles
  <2>6. c \in GlobalCells(NetworkOf(g, f))
    <3> HIDE DEF c
    <3> QED BY <2>4, <2>5 DEF GlobalCells
  <2>7. Drives(g, NetworkOf(g, f))
    BY <2>3, <2>4, <2>5, <2>6 DEF Drives, DrivesGlobal
  <2> QED BY <1>2, <2>1, <2>2, <2>4, <2>7
<1>3. CASE Type(g) = "PLL"
  <2> DEFINE out == chipdb.pllout[c]
             p == IF f = "PLLOUTGLOBALB" THEN out.b ELSE out.a
  <2>1. f \in GlobalPorts
    BY <1>3 DEF Kind
  <2>2. f \in PLLPorts(i.p.variant)
    <3>1. f \in AllPLLPorts
      BY <2>1 DEF GlobalPorts, AllPLLPorts, PLLPorts, TwoPorts
    <3> QED BY <1>0, <1>3, <3>1, UsePorts
  <2>3. port_cnet(g, f) = Network(chipdb.loc_pin_glb_num[p])
    BY <1>3, <2>1, PLLWire DEF GlobalPorts, AllPLLPorts, PLLPorts, TwoPorts
  <2>4. f # "PLLOUTGLOBALB" => f = GlobalA(i)
    BY <2>1, <2>2 DEF GlobalPorts, PLLPorts, GlobalA
  <2>5. /\ f = "PLLOUTGLOBALB" => Seen.inst[g].out_b
        /\ f # "PLLOUTGLOBALB" => Seen.inst[g].out_a
        /\ Seen.inst[g].type = "PLL"
    BY <1>0, <1>3, <2>4, PLLView
  <2>6. NetworkOf(g, f) = chipdb.loc_pin_glb_num[p]
    BY <1>3 DEF NetworkOf
  <2>7. c \in DOMAIN chipdb.pllout
    BY <1>0, <1>3, PLLOutputs
  <2>8. c \in GlobalCells(NetworkOf(g, f))
    BY <2>6, <2>7 DEF GlobalCells
  <2>9. DrivesGlobal(Seen, g, c, NetworkOf(g, f))
    BY <2>5, <2>6 DEF DrivesGlobal
  <2>10. ValidGlobal(Seen, Holder, NetworkOf(g, f))
    BY <1>0, <1>3, <2>4, <2>6, PLLTiles
  <2> QED BY <1>3, <2>1, <2>2, <2>3, <2>6, <2>8, <2>9, <2>10 DEF Drives
<1>4. CASE Type(g) \notin {"IO", "GB", "PLL"}
  <2>1. Type(g) = "OSC" /\ f = "CLK_OUT" /\ ~i.p.through_fabric
    BY <1>4 DEF Kind
  <2>2. port_cnet(g, f) = Network(chipdb.oscillator[c])
    BY <1>0, <2>1, OtherWire
  <2>3. Seen.inst[g].type = "OSC" /\ Seen.inst[g].glb_out
    BY <1>0, <2>1, OscillatorView DEF DrivesNetwork
  <2>4. NetworkOf(g, f) = chipdb.oscillator[c]
    BY <2>1 DEF NetworkOf
  <2>5. c \in DOMAIN chipdb.oscillator
    BY <1>0, <2>1, NetworkAssumption
  <2>6. Drives(g, NetworkOf(g, f))
    BY <2>1, <2>3, <2>4, <2>5 DEF Drives, GlobalCells, DrivesGlobal
  <2> QED BY <2>1, <2>2, <2>4, <2>6
<1> QED BY <1>1, <1>2, <1>3, <1>4

(* Two drivers of a network are one.                                       *)
LEMMA OneDriver ==
  ASSUME Fixed, NEW g \in Gate, NEW h \in Gate, NEW f, NEW k, IsWired(g, f), IsWired(h, k),
         Kind(g, f) = "network", Kind(h, k) = "network", NetworkOf(g, f) = NetworkOf(h, k)
  PROVE  g = h
<1> DEFINE glb == NetworkOf(g, f)
<1>1. Drives(g, glb) /\ Drives(h, glb)
  BY NetworkPorts
<1>2. /\ Holder[place[g]] = g /\ Holder[place[h]] = h /\ g # 0 /\ h # 0
      /\ \A a, b \in Gate : place[a] = place[b] => a = b
  <2>1. g # 0 /\ h # 0
    BY ChipAssumption DEF Gate
  <2> QED BY <2>1, GateCell DEF Fixed, IsPlacement
<1>3. CASE Type(g) = "OSC" /\ Type(h) = "OSC"
  <2>1. chipdb.oscillator[place[g]] = chipdb.oscillator[place[h]]
    BY <1>3 DEF NetworkOf
  <2>2. place[g] = place[h]
    <3>1. /\ place[g] \in Cell /\ chipdb.cell_type[place[g]] = "OSC"
          /\ place[h] \in Cell /\ chipdb.cell_type[place[h]] = "OSC"
      BY <1>3, GateCell
    <3> QED BY <2>1, <3>1, NetworkAssumption
  <2> QED BY <1>2, <2>2
<1>4. CASE ~(Type(g) = "OSC" /\ Type(h) = "OSC")
  <2> HIDE DEF glb
  <2>1. ValidGlobal(Seen, Holder, glb)
    BY <1>1, <1>4 DEF Drives
  <2>2. place[g] = place[h]
    BY <1>1, <1>2, <2>1 DEF Drives, ValidGlobal
  <2> QED BY <1>2, <2>2
<1> QED BY <1>3, <1>4

LEMMA NetworksApart ==
  ASSUME Fixed, NEW g \in Gate, NEW h \in Gate, NEW f, NEW k, IsWired(g, f), IsWired(h, k),
         Kind(g, f) = "network", Kind(h, k) = "network", port_cnet(g, f) = port_cnet(h, k)
  PROVE  g = h /\ f = k
<1>1. NetworkOf(g, f) = NetworkOf(h, k)
  BY NetworkPorts DEF Network
<1>2. g = h
  BY <1>1, OneDriver
<1>3. CASE Type(g) # "PLL"
  BY <1>2, <1>3, NetworkPorts
<1>4. CASE Type(g) = "PLL"
  <2> DEFINE out == chipdb.pllout[place[g]]
  <2>1. f \in GlobalPorts /\ k \in GlobalPorts /\ {f, k} \subseteq PLLPorts(design.inst[g].p.variant)
    BY <1>2, <1>4, NetworkPorts
  <2>2. f = "PLLOUTGLOBALB" <=> k = "PLLOUTGLOBALB"
    <3>1. place[g] \in DOMAIN chipdb.pllout /\ {out.a, out.b} \subseteq DOMAIN chipdb.loc_pin_glb_num
      BY <1>4, GateCell, PLLOutputs
    <3>2. out.a # out.b
      BY <3>1, NetworkAssumption
    <3>3. chipdb.loc_pin_glb_num[out.a] # chipdb.loc_pin_glb_num[out.b]
      BY <3>1, <3>2, NetworkAssumption
    <3> QED BY <1>1, <1>2, <1>4, <3>3 DEF NetworkOf
  <2>3. f = k
    BY <2>1, <2>2 DEF GlobalPorts, PLLPorts
  <2> QED BY <1>2, <2>3
<1> QED BY <1>3, <1>4
(* The wires that the chip database lists.                                 *)
LEMMA ListedWire ==
  ASSUME Fixed, NEW g \in Gate, NEW f, IsWired(g, f), Kind(g, f) = "listed"
  PROVE  LET i == design.inst[g]
             c == place[g]
             w == port_cnet(g, f)
         IN \/ Type(g) = "IO" /\ f \in I3CPorts /\ c \in DOMAIN chipdb.i3c /\ w = chipdb.i3c[c][f]
            \/ /\ Type(g) # "IO" /\ c \in DOMAIN chipdb.mfv /\ ListedName(i, f) \in DOMAIN chipdb.mfv[c]
               /\ w = chipdb.mfv[c][ListedName(i, f)]
<1>1. CASE Type(g) = "IO"
  <2>1. f \in I3CPorts
    <3>1. f # "GLOBAL_BUFFER_OUTPUT"
      BY <1>1 DEF Kind
    <3> QED BY <1>1, <3>1 DEF Kind
  <2> QED BY <1>1, <2>1, PadWire DEF I3CPorts
<1>2. CASE Type(g) = "PLL"
  <2>1. f \notin GlobalPorts /\ f \notin AllPLLPorts
    BY <1>2 DEF Kind
  <2>2. ListedName(design.inst[g], f) = f
    BY <1>2 DEF ListedName, Type
  <2> QED BY <1>2, <2>1, <2>2, PLLWire DEF AllPLLPorts, PLLPorts, TwoPorts
<1>3. CASE Type(g) \notin {"IO", "PLL"}
  <2>1. Type(g) \notin {"LOGIC", "GB", "RAM"}
    BY <1>3 DEF Kind
  <2>2. ~(Type(g) = "OSC" /\ f = "CLK_OUT" /\ ~design.inst[g].p.through_fabric)
    BY <1>3, <2>1 DEF Kind
  <2> QED BY <1>3, <2>1, <2>2, OtherWire DEF Type
<1> QED BY <1>1, <1>2, <1>3

LEMMA ListedApart ==
  ASSUME Fixed, NEW g \in Gate, NEW h \in Gate, NEW f, NEW k, IsWired(g, f), IsWired(h, k),
         Kind(g, f) = "listed", Kind(h, k) = "listed", port_cnet(g, f) = port_cnet(h, k)
  PROVE  g = h /\ f = k
<1> DEFINE c == place[g]
           d == place[h]
           m == ListedName(design.inst[g], f)
           n == ListedName(design.inst[h], k)
<1>1. \/ Type(g) = "IO" /\ f \in I3CPorts /\ c \in DOMAIN chipdb.i3c /\ port_cnet(g, f) = chipdb.i3c[c][f]
      \/ /\ Type(g) # "IO" /\ c \in DOMAIN chipdb.mfv /\ m \in DOMAIN chipdb.mfv[c]
         /\ port_cnet(g, f) = chipdb.mfv[c][m]
  BY ListedWire
<1>2. \/ Type(h) = "IO" /\ k \in I3CPorts /\ d \in DOMAIN chipdb.i3c /\ port_cnet(h, k) = chipdb.i3c[d][k]
      \/ /\ Type(h) # "IO" /\ d \in DOMAIN chipdb.mfv /\ n \in DOMAIN chipdb.mfv[d]
         /\ port_cnet(h, k) = chipdb.mfv[d][n]
  BY ListedWire
<1> HIDE DEF m, n
<1>3. c = d => g = h
  BY DEF Fixed, IsPlacement
<1>4. CASE Type(g) = "IO" /\ Type(h) = "IO"
  BY <1>1, <1>2, <1>3, <1>4, WireAssumption
<1>5. CASE Type(g) # "IO" /\ Type(h) # "IO"
  <2>1. c = d /\ m = n
    BY <1>1, <1>2, <1>5, WireAssumption
  <2>2. f = k
    <3>1. g = h
      BY <1>3, <2>1
    <3>2. design.inst[g].type = "OSC" => f # "CLK_FABRIC" /\ k # "CLK_FABRIC"
      BY <3>1, UsePorts DEF IsWired
    <3> QED BY <2>1, <3>1, <3>2 DEF m, n, ListedName
  <2> QED BY <1>3, <2>1, <2>2
<1>6. CASE Type(g) = "IO" /\ Type(h) # "IO"
  BY <1>1, <1>2, <1>6, WireAssumption
<1>7. CASE Type(g) # "IO" /\ Type(h) = "IO"
  BY <1>1, <1>2, <1>7, WireAssumption
<1> QED BY <1>4, <1>5, <1>6, <1>7

(* The input of a buffer.                                                  *)
LEMMA BufferApart ==
  ASSUME Fixed, BuffersAlone, NEW g \in Gate, NEW h \in Gate, NEW f, NEW k, IsWired(g, f), IsWired(h, k),
         Kind(g, f) = "buffer", port_cnet(g, f) = port_cnet(h, k)
  PROVE  NetAt(g, f) = NetAt(h, k)
<1>1. Type(g) = "GB" /\ f # "GLOBAL_BUFFER_OUTPUT"
  BY DEF Kind
<1>2. f = "USER_SIGNAL_TO_GLOBAL_BUFFER" /\ port_cnet(g, f) = <<TileOf(place[g]), "fabout", -1>>
  BY <1>1, BufferWire
<1>3. CASE Type(h) # "GB"
  BY <1>1, <1>2, <1>3 DEF BuffersAlone, IsWired, IsUse
<1>4. CASE Type(h) = "GB"
  <2>1. k # "GLOBAL_BUFFER_OUTPUT"
    <3> SUFFICES ASSUME k = "GLOBAL_BUFFER_OUTPUT" PROVE FALSE
      OBVIOUS
    <3>1. Kind(h, k) = "network"
      BY <1>4 DEF Kind
    <3> QED BY <3>1, KindOfPort
  <2>2. k = "USER_SIGNAL_TO_GLOBAL_BUFFER" /\ port_cnet(h, k) = <<TileOf(place[h]), "fabout", -1>>
    BY <1>4, <2>1, BufferWire
  <2>3. TileOf(place[g]) = TileOf(place[h])
    BY <1>2, <2>2
  <2>4. place[g][3] = 2 /\ place[h][3] = 2
    <3>1. \A e \in {g, h} : place[e] \in Cell /\ chipdb.cell_type[place[e]] = "GB"
      BY <1>1, <1>4, GateCell
    <3> QED BY <3>1, ChipAssumption
  <2> QED BY <1>2, <2>2, <2>3, <2>4, SameGate
<1> QED BY <1>3, <1>4

(* A wire belongs to one net.                                              *)
LEMMA WiresApart ==
  ASSUME Fixed, LatchesAgree, BuffersAlone,
         NEW g \in Gate, NEW h \in Gate, NEW f, NEW k, IsWired(g, f), IsWired(h, k),
         port_cnet(g, f) = port_cnet(h, k)
  PROVE  NetAt(g, f) = NetAt(h, k)
<1>1. /\ WireKind(port_cnet(g, f)) = IF Kind(g, f) \in {"buffer", "listed"} THEN "other" ELSE Kind(g, f)
      /\ WireKind(port_cnet(h, k)) = IF Kind(h, k) \in {"buffer", "listed"} THEN "other" ELSE Kind(h, k)
  BY KindOfPort
<1>2. Kind(g, f) \in {"logic", "network", "pad", "ram", "buffer", "listed"}
  BY DEF Kind
<1>3. CASE Kind(g, f) = "logic"
  <2>1. Kind(h, k) = "logic"
    BY <1>1, <1>3
  <2>2. Type(g) = "LOGIC" /\ Type(h) = "LOGIC"
    BY <1>3, <2>1 DEF Kind
  <2> QED BY <2>2, LogicApart
<1>4. CASE Kind(g, f) = "network"
  <2>1. Kind(h, k) = "network"
    BY <1>1, <1>4
  <2> QED BY <1>4, <2>1, NetworksApart
<1>5. CASE Kind(g, f) = "pad"
  <2>1. Kind(h, k) = "pad"
    BY <1>1, <1>5
  <2>2. Type(g) \in {"IO", "PLL"} /\ Type(h) \in {"IO", "PLL"}
    BY <1>5, <2>1 DEF Kind
  <2>3. CASE Type(g) = "IO" /\ Type(h) = "IO"
    BY <1>5, <2>1, <2>3, PadsApart
  <2>4. CASE Type(g) = "PLL" /\ Type(h) = "PLL"
    BY <1>5, <2>1, <2>4, PLLsApart
  <2>5. CASE Type(g) = "PLL" /\ Type(h) = "IO"
    BY <1>5, <2>1, <2>5, PadNotPLL
  <2>6. CASE Type(g) = "IO" /\ Type(h) = "PLL"
    BY <1>5, <2>1, <2>6, PadNotPLL
  <2> QED BY <2>2, <2>3, <2>4, <2>5, <2>6
<1>6. CASE Kind(g, f) = "ram"
  <2>1. Kind(h, k) = "ram"
    BY <1>1, <1>6
  <2>2. Type(g) = "RAM" /\ Type(h) = "RAM"
    BY <1>6, <2>1 DEF Kind
  <2> QED BY <2>2, RamApart
<1>7. CASE Kind(g, f) = "buffer"
  BY <1>7, BufferApart
<1>8. CASE Kind(g, f) = "listed"
  <2>1. Kind(h, k) \in {"buffer", "listed"}
    <3>1. Kind(h, k) # "other"
      BY DEF Kind
    <3> QED BY <1>1, <1>8, <3>1
  <2>2. CASE Kind(h, k) = "buffer"
    BY <2>2, BufferApart
  <2>3. CASE Kind(h, k) = "listed"
    BY <1>8, <2>3, ListedApart
  <2> QED BY <2>1, <2>2, <2>3
<1> QED BY <1>2, <1>3, <1>4, <1>5, <1>6, <1>7, <1>8
(* Every wire that has a net belongs to a port of that net, and the source *)
(* of a net that is to be routed is the wire of one port.                  *)
PortOfWire(s) ==
  \E g \in Gate : \E f \in DOMAIN design.inst[g].ports : IsWired(g, f) /\ s = <<port_cnet(g, f), NetAt(g, f)>>
Single == {{w} : w \in {port_cnet(q[1], q[2]) : q \in Gate \X UNION {DOMAIN design.inst[g].ports : g \in Gate}}}
NetsInv ==
  /\ Fixed
  /\ net \in Nat \ {0}
  /\ \A s \in cnet_net : PortOfWire(s)
  /\ net_source \in Seq(Single)

LEMMA NetsInvImplies == NetsInv => (LatchesAgree /\ BuffersAlone => NetsApart)
<1> SUFFICES ASSUME NetsInv, LatchesAgree, BuffersAlone PROVE NetsApart
  OBVIOUS
<1>1. ASSUME NEW s \in cnet_net, NEW t \in cnet_net, s[1] = t[1] PROVE s[2] = t[2]
  <2>1. PICK g \in Gate : \E f \in DOMAIN design.inst[g].ports : IsWired(g, f) /\ s = <<port_cnet(g, f), NetAt(g, f)>>
    BY DEF NetsInv, PortOfWire
  <2>2. PICK f \in DOMAIN design.inst[g].ports : IsWired(g, f) /\ s = <<port_cnet(g, f), NetAt(g, f)>>
    BY <2>1
  <2>3. PICK h \in Gate : \E k \in DOMAIN design.inst[h].ports : IsWired(h, k) /\ t = <<port_cnet(h, k), NetAt(h, k)>>
    BY DEF NetsInv, PortOfWire
  <2>4. PICK k \in DOMAIN design.inst[h].ports : IsWired(h, k) /\ t = <<port_cnet(h, k), NetAt(h, k)>>
    BY <2>3
  <2>5. port_cnet(g, f) = port_cnet(h, k)
    BY <1>1, <2>2, <2>4
  <2>6. NetAt(g, f) = NetAt(h, k)
    BY <2>2, <2>4, <2>5, WiresApart DEF NetsInv
  <2> QED BY <2>2, <2>4, <2>6
<1>2. ASSUME NEW n \in DOMAIN net_source PROVE Cardinality(net_source[n]) = 1
  <2>1. net_source[n] \in Single
    BY DEF NetsInv
  <2>2. PICK w : net_source[n] = {w}
    BY <2>1 DEF Single
  <2> QED BY <2>2, FS_Singleton
<1> QED BY <1>1, <1>2 DEF NetsApart

LEMMA InitNets == Init => NetsInv
<1> SUFFICES ASSUME Init PROVE NetsInv
  OBVIOUS
<1>1. Fixed
  BY DEF Init, Fixed
<1>2. net_source \in Seq(Single)
  BY DEF Init
<1> QED BY <1>1, <1>2 DEF Init, NetsInv

LEMMA StillNets ==
  ASSUME NetsInv, UNCHANGED <<design, place>>
  PROVE  /\ Fixed' /\ Single' = Single
         /\ \A s : PortOfWire(s)' <=> PortOfWire(s)
<1>1. Fixed'
  BY DEF NetsInv, Fixed, IsPlacement, Legal
<1>2. ASSUME NEW g, NEW f PROVE port_cnet(g, f)' = port_cnet(g, f)
  BY DEF port_cnet
<1>3. Single' = Single
  BY <1>2 DEF Single
<1>4. ASSUME NEW g, NEW f PROVE (IsWired(g, f)' <=> IsWired(g, f)) /\ NetAt(g, f)' = NetAt(g, f)
  BY <1>2 DEF IsWired, IsUse, NetAt
<1>5. ASSUME NEW s PROVE PortOfWire(s)' <=> PortOfWire(s)
  BY <1>2, <1>4 DEF PortOfWire
<1> QED BY <1>1, <1>3, <1>5

LEMMA NetConnections ==
  ASSUME NetsInv, NEW q \in Connections(net)
  PROVE  /\ q[1] \in Gate /\ q[2] \in DOMAIN design.inst[q[1]].ports /\ IsUse(q[1], q[2])
         /\ NetAt(q[1], q[2]) = net /\ design.inst[q[1]].ports[q[2]] = net
         /\ q \in Gate \X UNION {DOMAIN design.inst[g].ports : g \in Gate}
<1>1. q[1] \in Gate /\ Port(design.inst[q[1]], q[2]) = net /\ net # 0
  BY DEF Connections, NetsInv
<1>2. q[2] \in DOMAIN design.inst[q[1]].ports /\ design.inst[q[1]].ports[q[2]] = net
  BY <1>1 DEF Port
<1> QED BY <1>1, <1>2 DEF IsUse, Connected, NetAt, Connections

LEMMA NetStep == NetsInv /\ CollectNet => NetsInv'
<1> SUFFICES ASSUME NetsInv, CollectNet PROVE NetsInv'
  OBVIOUS
<1> DEFINE routed == {q \in Connections(net) : port_cnet(q[1], q[2]) # None}
           source == {port_cnet(q[1], q[2]) : q \in {q \in routed : q[2] \in Outputs}}
           targets == {port_cnet(q[1], q[2]) : q \in {q \in routed : q[2] \notin Outputs}}
<1>1. /\ UNCHANGED <<design, place>> /\ net' = net + 1
      /\ cnet_net' = cnet_net \cup ((source \cup targets) \X {net})
      /\ net_source' = net_source \/ (source # {} /\ net_source' = Append(net_source, source))
  BY DEF CollectNet
<1>2. Fixed' /\ Single' = Single /\ \A s : PortOfWire(s)' <=> PortOfWire(s)
  BY <1>1, StillNets
<1>3. ASSUME NEW s \in cnet_net' PROVE PortOfWire(s)
  <2>1. CASE s \in cnet_net
    BY <2>1 DEF NetsInv
  <2>2. CASE s \in (source \cup targets) \X {net}
    <3>1. PICK q \in routed : s = <<port_cnet(q[1], q[2]), net>>
      BY <2>2
    <3>2. IsWired(q[1], q[2]) /\ s = <<port_cnet(q[1], q[2]), NetAt(q[1], q[2])>>
      BY <3>1, NetConnections DEF IsWired
    <3> QED BY <3>1, <3>2, NetConnections DEF PortOfWire
  <2> QED BY <1>1, <2>1, <2>2
<1>4. ASSUME source # {} PROVE source \in Single
  <2>1. PICK q \in routed : q[2] \in Outputs
    BY <1>4
  <2>2. \A r \in routed : r[2] \in Outputs => port_cnet(r[1], r[2]) = port_cnet(q[1], q[2])
    <3> SUFFICES ASSUME NEW r \in routed, r[2] \in Outputs PROVE r[1] = q[1] /\ r[2] = q[2]
      OBVIOUS
    <3>1. /\ q[1] \in Gate /\ q[2] \in DOMAIN design.inst[q[1]].ports /\ design.inst[q[1]].ports[q[2]] = net
          /\ r[1] \in Gate /\ r[2] \in DOMAIN design.inst[r[1]].ports /\ design.inst[r[1]].ports[r[2]] = net
          /\ net # 0 /\ design \in Designs
      BY NetConnections DEF NetsInv, Fixed
    <3> QED BY <2>1, <3>1, PortAssumption
  <2>3. source = {port_cnet(q[1], q[2])}
    BY <2>1, <2>2
  <2>4. q \in Gate \X UNION {DOMAIN design.inst[g].ports : g \in Gate}
    BY NetConnections
  <2> QED BY <2>3, <2>4 DEF Single
<1> HIDE DEF source, targets, routed
<1>5. net_source' \in Seq(Single)
  BY <1>1, <1>4 DEF NetsInv
<1>6. net' \in Nat \ {0}
  BY <1>1 DEF NetsInv
<1> QED BY <1>2, <1>3, <1>5, <1>6 DEF NetsInv

LEMMA NextNets == NetsInv /\ [Next]_vars => NetsInv'
<1> SUFFICES ASSUME NetsInv, [Next]_vars PROVE NetsInv'
  OBVIOUS
<1>1. CASE UNCHANGED <<design, place, cnet_net, net, net_source>>
  BY <1>1, StillNets DEF NetsInv
<1>2. CASE \E type, bits, glbs : ConfigureGate(type, bits, glbs)
  <2>1. UNCHANGED <<design, place, cnet_net, net, net_source>>
    BY <1>2 DEF ConfigureGate
  <2> QED BY <1>1, <2>1
<1>3. CASE CollectNet
  BY <1>3, NetStep
<1>4. CASE ConfigureLogic \/ ConfigurePad \/ ConfigureBuffer \/ ConfigureRam \/ ConfigureMac
  BY <1>2, <1>4 DEF ConfigureLogic, ConfigurePad, ConfigureBuffer, ConfigureRam, ConfigureMac
<1>5. CASE ConfigureOscillator \/ ConfigureBlock \/ ConfigurePLL
  BY <1>2, <1>5 DEF ConfigureOscillator, ConfigureBlock, ConfigurePLL
<1>6. CASE BadParameter \/ ConfigurePins \/ ConfigureTiles \/ BeginRouting \/ Stopped \/ UNCHANGED vars
  BY <1>1, <1>6 DEF BadParameter, ConfigurePins, ConfigureTiles, BeginRouting, Stopped, vars
<1> QED BY <1>3, <1>4, <1>5, <1>6 DEF Next

(* route() finds no wire with two nets and no net with two sources, its    *)
(* assertions, for every placement that valid() accepts: what must not     *)
(* share a wire is apart.  The latch nets of a tile and the buffers whose  *)
(* input another block shares are the two things valid() does not compare. *)
THEOREM NetsNeverMeet == Spec => [](LatchesAgree /\ BuffersAlone => NetsApart)
BY InitNets, NextNets, NetsInvImplies, PTL DEF Spec
-----------------------------------------------------------------------------
(* What configure() opens is what route() takes as a source.               *)

(* The networks that a gate opens: those it drives, unless it is a buffer. *)
Opens(g) ==
  {NetworkOf(g, f) :
     f \in {f \in DOMAIN design.inst[g].ports : IsWired(g, f) /\ Kind(g, f) = "network" /\ Type(g) # "GB"}}
Opened(n) == UNION {{g} \X Opens(g) : g \in 1 .. n}

LEMMA NotNone == \A glb : Network(glb) # None
<1>1. \A glb : Network(glb)[2] = "glb_netwk" /\ DOMAIN Network(glb) = 1 .. 3
  BY DEF Network
<1>2. DOMAIN None = {}
  BY DEF None
<1> QED BY <1>1, <1>2

LEMMA LocalOpens ==
  ASSUME NEW g \in Gate, Type(g) \notin {"IO", "PLL", "OSC"}
  PROVE  Opens(g) = {}
<1>1. \A f : Type(g) # "GB" => Kind(g, f) # "network"
  BY DEF Kind
<1> QED BY <1>1 DEF Opens

LEMMA PadOpens ==
  ASSUME Fixed, NEW g \in Gate, Type(g) = "IO"
  PROVE  Opens(g) = LET i == design.inst[g]
                    IN IF i.p.gb_io /\ Connected(i, "GLOBAL_BUFFER_OUTPUT")
                       THEN {chipdb.loc_pin_glb_num[place[g]]} ELSE {}
<1> DEFINE i == design.inst[g]
           out == "GLOBAL_BUFFER_OUTPUT"
<1>1. \A f : Kind(g, f) = "network" <=> f = out
  BY DEF Kind, I3CPorts
<1>2. \A f : NetworkOf(g, f) = chipdb.loc_pin_glb_num[place[g]]
  BY DEF NetworkOf
<1>3. IsWired(g, out) <=> Connected(i, out)
  <2>1. port_cnet(g, out) = Network(chipdb.loc_pin_glb_num[place[g]])
    BY DEF port_cnet, Type, PadCnet
  <2>2. Connected(i, out) => out \in DOMAIN i.ports
    BY DEF Connected, Port
  <2> QED BY <2>1, <2>2, NotNone DEF IsWired, IsUse
<1>4. IsWired(g, out) => i.p.gb_io /\ out \in DOMAIN i.ports
  BY UsePorts DEF IsWired, IsUse, Type
<1>5. CASE Connected(i, out)
  <2>1. {f \in DOMAIN i.ports : IsWired(g, f) /\ Kind(g, f) = "network" /\ Type(g) # "GB"} = {out}
    BY <1>1, <1>3, <1>4, <1>5
  <2>2. Opens(g) = {chipdb.loc_pin_glb_num[place[g]]}
    BY <1>2, <2>1 DEF Opens
  <2> QED BY <1>3, <1>4, <1>5, <2>2
<1>6. CASE ~Connected(i, out)
  BY <1>1, <1>3, <1>6 DEF Opens
<1> QED BY <1>5, <1>6

LEMMA OscillatorOpens ==
  ASSUME Fixed, NEW g \in Gate, Type(g) = "OSC"
  PROVE  Opens(g) = IF DrivesNetwork(design.inst[g]) THEN {chipdb.oscillator[place[g]]} ELSE {}
<1> DEFINE i == design.inst[g]
           out == "CLK_OUT"
<1>1. \A f : Kind(g, f) = "network" <=> f = out /\ ~i.p.through_fabric
  BY DEF Kind
<1>2. \A f : NetworkOf(g, f) = chipdb.oscillator[place[g]]
  BY DEF NetworkOf
<1>3. ~i.p.through_fabric => (IsWired(g, out) <=> Connected(i, out))
  <2>1. ~i.p.through_fabric => port_cnet(g, out) = Network(chipdb.oscillator[place[g]])
    BY DEF port_cnet, Type, CellCnet
  <2>2. Connected(i, out) => out \in DOMAIN i.ports
    BY DEF Connected, Port
  <2> QED BY <2>1, <2>2, NotNone DEF IsWired, IsUse
<1>4. CASE DrivesNetwork(i)
  <2>1. IsWired(g, out) /\ out \in DOMAIN i.ports /\ ~i.p.through_fabric
    BY <1>3, <1>4 DEF DrivesNetwork, IsWired, IsUse
  <2>2. {f \in DOMAIN i.ports : IsWired(g, f) /\ Kind(g, f) = "network" /\ Type(g) # "GB"} = {out}
    BY <1>1, <2>1
  <2>3. Opens(g) = {chipdb.oscillator[place[g]]}
    BY <1>2, <2>2 DEF Opens
  <2> QED BY <1>4, <2>3
<1>5. CASE ~DrivesNetwork(i)
  BY <1>1, <1>3, <1>5 DEF Opens, DrivesNetwork
<1> QED BY <1>4, <1>5

LEMMA PLLOpens ==
  ASSUME Fixed, NEW g \in Gate, Type(g) = "PLL"
  PROVE  LET i == design.inst[g]
             out == chipdb.pllout[place[g]]
         IN Opens(g) = {chipdb.loc_pin_glb_num[IF f = "PLLOUTGLOBALB" THEN out.b ELSE out.a] :
                          f \in {f \in {GlobalA(i), "PLLOUTGLOBALB"} : Connected(i, f)}}
<1> DEFINE i == design.inst[g]
           out == chipdb.pllout[place[g]]
           used == {f \in {GlobalA(i), "PLLOUTGLOBALB"} : Connected(i, f)}
           wired == {f \in DOMAIN i.ports : IsWired(g, f) /\ Kind(g, f) = "network" /\ Type(g) # "GB"}
<1>1. \A f : Kind(g, f) = "network" <=> f \in GlobalPorts
  BY DEF Kind
<1>2. \A f : NetworkOf(g, f) = chipdb.loc_pin_glb_num[IF f = "PLLOUTGLOBALB" THEN out.b ELSE out.a]
  BY DEF NetworkOf
<1>3. ASSUME NEW f, f \in wired PROVE f \in used
  <2>1. IsUse(g, f) /\ f \in GlobalPorts /\ Connected(i, f)
    BY <1>1, <1>3 DEF IsWired, IsUse
  <2>2. f \in PLLPorts(i.p.variant)
    <3>1. f \in AllPLLPorts
      BY <2>1 DEF GlobalPorts, AllPLLPorts, PLLPorts, TwoPorts
    <3> QED BY <2>1, <3>1, UsePorts DEF Type
  <2>3. f \in {GlobalA(i), "PLLOUTGLOBALB"}
    BY <2>1, <2>2 DEF GlobalPorts, PLLPorts, GlobalA
  <2> QED BY <2>1, <2>3
<1>4. ASSUME NEW f, f \in used PROVE f \in wired
  <2>1. f \in GlobalPorts /\ Connected(i, f)
    BY <1>4 DEF GlobalPorts, GlobalA
  <2>2. f \in DOMAIN i.ports
    BY <2>1 DEF Connected, Port
  <2>3. port_cnet(g, f) = Network(chipdb.loc_pin_glb_num[IF f = "PLLOUTGLOBALB" THEN out.b ELSE out.a])
    BY <2>1 DEF port_cnet, Type, PLLCnet, GlobalPorts
  <2>4. IsWired(g, f)
    BY <2>1, <2>2, <2>3, NotNone DEF IsWired, IsUse
  <2> QED BY <1>1, <2>1, <2>2, <2>4
<1>5. wired = used
  BY <1>3, <1>4
<1>6. Opens(g) = {NetworkOf(g, f) : f \in wired}
  BY DEF Opens
<1> HIDE DEF wired, used
<1> QED BY <1>2, <1>5, <1>6 DEF used
(* The wires of the nets that were collected have them, and what was       *)
(* configured is there.                                                    *)
WireOf(g, f) == <<port_cnet(g, f), NetAt(g, f)>>
SourcesInv ==
  /\ NetsInv
  /\ pc = "gates" => gate \in Gate /\ extra = Opened(gate - 1)
  /\ pc \in {"pins", "tiles", "nets", "route"} => extra = Opened(NGate)
  /\ pc \in {"tiles", "nets", "route"} => PinBits \subseteq conf
  /\ pc = "route" => net > NNet
  /\ \A g \in Gate : \A f \in DOMAIN design.inst[g].ports :
       IsWired(g, f) /\ NetAt(g, f) < net => WireOf(g, f) \in cnet_net

(* No LVDS input beside a pad whose input a PLL uses: configure() switches *)
(* both input buffers of the tile off.                                     *)
NoLvdsBesidePLL ==
  \A c \in Partners : \A g \in Gate : \A f \in DOMAIN design.inst[g].ports :
    Type(g) = "PLL" /\ IsWired(g, f) => port_cnet(g, f) # At(c, "D_IN_0")

(* The net of a port is in the range that route() collects.                *)
LEMMA NetRange ==
  ASSUME Fixed, NEW g \in Gate, NEW f, IsWired(g, f)
  PROVE  NetAt(g, f) \in Nat \ {0} /\ NetAt(g, f) <= NNet /\ design.inst[g].ports[f] = NetAt(g, f)
<1>1. design \in Designs /\ f \in DOMAIN design.inst[g].ports
  BY DEF Fixed, IsWired, IsUse
<1>2. design.inst[g].ports[f] \in 0 .. NNet
  BY <1>1, PortAssumption
<1>3. design.inst[g].ports[f] = NetAt(g, f) /\ NetAt(g, f) # 0
  BY UsePorts DEF IsWired
<1> QED BY <1>2, <1>3, ChipAssumption

(* A network with an extra bit has a net that no buffer drives.            *)
LEMMA OpenedDriven ==
  ASSUME SourcesInv, pc = "route", NEW glb
  PROVE  (\E w \in NetOn(glb) : PadDriven(w)) <=> \E g \in Gate : glb \in Opens(g)
<1>0. Fixed /\ NetsInv /\ net > NNet /\ net \in Nat
  BY DEF SourcesInv, NetsInv
<1>1. ASSUME NEW g \in Gate, glb \in Opens(g) PROVE \E w \in NetOn(glb) : PadDriven(w)
  <2>1. PICK f \in DOMAIN design.inst[g].ports :
          IsWired(g, f) /\ Kind(g, f) = "network" /\ Type(g) # "GB" /\ glb = NetworkOf(g, f)
    BY <1>1 DEF Opens
  <2>2. port_cnet(g, f) = Network(glb)
    BY <1>0, <2>1, NetworkPorts
  <2>3. NetAt(g, f) < net /\ design.inst[g].ports[f] = NetAt(g, f) /\ NetAt(g, f) # 0
    BY <1>0, <2>1, NetRange, ChipAssumption
  <2>4. WireOf(g, f) \in cnet_net
    BY <2>1, <2>3 DEF SourcesInv
  <2>5. NetAt(g, f) \in NetOn(glb)
    BY <2>2, <2>4 DEF WireOf, NetOn
  <2>6. f \in Outputs
    BY <1>0, <2>1, NetworkPorts DEF GlobalPorts, Outputs
  <2>7. ASSUME NEW q \in Connections(NetAt(g, f)), design.inst[q[1]].type = "GB", q[2] \in Outputs PROVE FALSE
    <3>1. q[1] \in Gate /\ Port(design.inst[q[1]], q[2]) = NetAt(g, f)
      BY <2>7 DEF Connections
    <3>2. q[2] \in DOMAIN design.inst[q[1]].ports /\ design.inst[q[1]].ports[q[2]] = NetAt(g, f)
      BY <2>3, <3>1 DEF Port
    <3>3. q[1] = g
      BY <1>0, <2>3, <2>6, <2>7, <3>1, <3>2, PortAssumption DEF Fixed
    <3> QED BY <2>1, <2>7, <3>3 DEF Type
  <2>8. PadDriven(NetAt(g, f))
    BY <2>7 DEF PadDriven
  <2> QED BY <2>5, <2>8
<1>2. ASSUME NEW w \in NetOn(glb), PadDriven(w) PROVE \E g \in Gate : glb \in Opens(g)
  <2>1. <<Network(glb), w>> \in cnet_net
    <3>1. PICK s \in cnet_net : s[1] = Network(glb) /\ w = s[2]
      BY <1>2 DEF NetOn
    <3>2. PortOfWire(s)
      BY <1>0 DEF NetsInv
    <3> QED BY <3>1, <3>2 DEF PortOfWire
  <2>2. PICK g \in Gate : \E f \in DOMAIN design.inst[g].ports :
          IsWired(g, f) /\ <<Network(glb), w>> = <<port_cnet(g, f), NetAt(g, f)>>
    BY <1>0, <2>1 DEF NetsInv, PortOfWire
  <2>3. PICK f \in DOMAIN design.inst[g].ports :
          IsWired(g, f) /\ <<Network(glb), w>> = <<port_cnet(g, f), NetAt(g, f)>>
    BY <2>2
  <2>4. port_cnet(g, f) = Network(glb) /\ NetAt(g, f) = w
    BY <2>3
  <2>5. Kind(g, f) = "network"
    <3>1. WireKind(port_cnet(g, f)) = "network"
      BY <2>4, KindsOfWires DEF Network
    <3>2. Kind(g, f) # "other"
      BY DEF Kind
    <3> QED BY <1>0, <2>3, <3>1, KindOfPort
  <2>6. NetworkOf(g, f) = glb
    BY <1>0, <2>3, <2>4, <2>5, NetworkPorts DEF Network
  <2>7. Type(g) # "GB"
    <3> SUFFICES ASSUME Type(g) = "GB" PROVE FALSE
      OBVIOUS
    <3>1. f \in Outputs
      BY <1>0, <2>3, <2>5, NetworkPorts DEF Outputs
    <3>2. <<g, f>> \in Connections(w)
      BY <2>4 DEF Connections, NetAt
    <3> QED BY <1>2, <3>1, <3>2 DEF PadDriven, Type
  <2> QED BY <2>3, <2>5, <2>6, <2>7 DEF Opens
<1> QED BY <1>1, <1>2

LEMMA NetworksOpen ==
  ASSUME SourcesInv, pc = "route", NEW glb
  PROVE  Cardinality({e \in extra : e[2] = glb}) = IF \E w \in NetOn(glb) : PadDriven(w) THEN 1 ELSE 0
<1> DEFINE E == {e \in extra : e[2] = glb}
<1>0. Fixed
  BY DEF SourcesInv, NetsInv
<1>1. E = {<<g, glb>> : g \in {g \in Gate : glb \in Opens(g)}}
  <2>1. extra = UNION {{g} \X Opens(g) : g \in Gate}
    BY DEF SourcesInv, Opened, Gate
  <2>2. ASSUME NEW e \in E PROVE \E g \in Gate : glb \in Opens(g) /\ e = <<g, glb>>
    <3>1. PICK g \in Gate : e \in {g} \X Opens(g)
      BY <2>1, <2>2
    <3> QED BY <2>2, <3>1
  <2>3. ASSUME NEW g \in Gate, glb \in Opens(g) PROVE <<g, glb>> \in E
    BY <2>1, <2>3
  <2> HIDE DEF E
  <2> QED BY <2>2, <2>3
<1> HIDE DEF E
<1>2. ASSUME NEW g \in Gate, glb \in Opens(g), NEW h \in Gate, glb \in Opens(h) PROVE g = h
  <2>1. PICK f : IsWired(g, f) /\ Kind(g, f) = "network" /\ glb = NetworkOf(g, f)
    BY <1>2 DEF Opens
  <2>2. PICK k : IsWired(h, k) /\ Kind(h, k) = "network" /\ glb = NetworkOf(h, k)
    BY <1>2 DEF Opens
  <2> QED BY <1>0, <2>1, <2>2, OneDriver
<1>3. CASE \E g \in Gate : glb \in Opens(g)
  <2>1. PICK g \in Gate : glb \in Opens(g)
    BY <1>3
  <2>2. E = {<<g, glb>>}
    BY <1>1, <1>2, <2>1
  <2>3. Cardinality(E) = 1
    BY <2>2, FS_Singleton
  <2> QED BY <1>3, <2>3, OpenedDriven DEF E
<1>4. CASE ~\E g \in Gate : glb \in Opens(g)
  <2>1. E = {}
    BY <1>1, <1>4
  <2>2. Cardinality(E) = 0
    BY <2>1, FS_EmptySet
  <2> QED BY <1>4, <2>2, OpenedDriven DEF E
<1> QED BY <1>3, <1>4
(* The input enable bit of a pin that is an input, or a pad of a PLL.      *)
LEMMA InputOpen ==
  ASSUME PinBits \subseteq conf, NEW c \in chipdb.loc_pin \ Partners, PinUse(c).input = TRUE
  PROVE  <<<<TileOf(chipdb.ieren[c]), "IE", chipdb.ieren[c][3]>>, Bit(chipdb.device # "1k")>> \in conf
<1> DEFINE e == chipdb.ieren[c]
           u == PinUse(c)
           bit == <<<<TileOf(e), "IE", e[3]>>, Bit(IF chipdb.device = "1k" THEN ~u.input ELSE u.input)>>
<1>1. bit \in IoBits(e, u)
  BY DEF IoBits
<1>2. bit \in conf
  BY <1>1 DEF PinBits
<1>3. Bit(IF chipdb.device = "1k" THEN ~u.input ELSE u.input) = Bit(chipdb.device # "1k")
  BY DEF Bit
<1> QED BY <1>2, <1>3

LEMMA PadsOpen ==
  ASSUME SourcesInv, pc = "route", NoLvdsBesidePLL, NEW c \in chipdb.loc_pin \ LvdsPins,
         NEW s \in cnet_net, s[1] \in {At(c, "D_IN_0"), At(c, "D_IN_1")}
  PROVE  <<<<TileOf(chipdb.ieren[c]), "IE", chipdb.ieren[c][3]>>, Bit(chipdb.device # "1k")>> \in conf
<1>0. Fixed /\ NetsInv /\ PinBits \subseteq conf
  BY DEF SourcesInv, NetsInv
<1>1. PICK g \in Gate : \E f \in DOMAIN design.inst[g].ports : IsWired(g, f) /\ s = <<port_cnet(g, f), NetAt(g, f)>>
  BY <1>0 DEF NetsInv, PortOfWire
<1>2. PICK f \in DOMAIN design.inst[g].ports : IsWired(g, f) /\ s = <<port_cnet(g, f), NetAt(g, f)>>
  BY <1>1
<1>3. PICK x \in {"D_IN_0", "D_IN_1"} : port_cnet(g, f) = <<TileOf(c), x, c[3]>>
  BY <1>2 DEF At
<1>4. /\ c \in Cell /\ chipdb.cell_type[c] = "IO" /\ c[3] \in {0, 1}
      /\ TileOf(c) \in Tile /\ chipdb.tile_type[TileOf(c)] = "IO"
  BY ChipAssumption
<1>5. Kind(g, f) = "pad"
  <2>1. WireKind(port_cnet(g, f)) = "pad"
    BY <1>3, <1>4, KindsOfWires DEF PadPorts
  <2>2. Kind(g, f) # "other"
    BY DEF Kind
  <2> QED BY <1>0, <1>2, <2>1, <2>2, KindOfPort
<1>6. Type(g) \in {"IO", "PLL"}
  BY <1>5 DEF Kind
<1>7. CASE Type(g) = "IO"
  <2> DEFINE d == place[g]
  <2>1. \/ /\ f \in {"LATCH_INPUT_VALUE", "CLOCK_ENABLE", "INPUT_CLK", "OUTPUT_CLK"}
           /\ port_cnet(g, f) = <<TileOf(d), f, -1>>
        \/ port_cnet(g, f) = <<TileOf(d), f, d[3]>>
    BY <1>0, <1>2, <1>5, <1>7, PadWire DEF Kind
  <2>2. TileOf(d) = TileOf(c) /\ d[3] = c[3] /\ f = x
    BY <1>3, <1>4, <2>1
  <2>3. d = c
    BY <1>0, <1>4, <2>2, GateCell, SameCell
  <2>4. GateOn(c) = g /\ g # 0
    BY <1>0, <2>3, GateCell, ChipAssumption DEF Gate
  <2>5. c \notin Partners
    <3> SUFFICES ASSUME c \in Partners PROVE FALSE
      OBVIOUS
    <3>1. PICK e \in LvdsPins : c = Partner(e)
      BY DEF Partners
    <3>2. GateOn(e) \in Gate /\ place[GateOn(e)] = e /\ design.inst[GateOn(e)].p.lvds /\ e \in chipdb.loc_pin
      BY <1>0, NobodyThere DEF LvdsPins
    <3>3. e \in Cell /\ chipdb.cell_type[e] = "IO"
      BY <3>2, ChipAssumption
    <3>4. Type(GateOn(e)) = "IO"
      BY <1>0, <3>2, <3>3, GateCell
    <3>5. TileOf(place[g]) = TileOf(e)
      BY <2>3, <3>1 DEF Partner, TileOf
    <3>6. g = GateOn(e)
      BY <1>0, <1>7, <3>2, <3>4, <3>5, PadTiles, PadView
    <3> QED BY <2>3, <3>2, <3>6
  <2>6. PinUse(c).input = TRUE
    <3>1. CASE c \in PLLPins
      BY <3>1 DEF PinUse, Use
    <3>2. CASE c \notin PLLPins
      <4>1. ~design.inst[g].p.lvds
        BY <2>4, <3>2 DEF LvdsPins
      <4>2. Connected(design.inst[g], "D_IN_0") \/ Connected(design.inst[g], "D_IN_1")
        BY <1>2, <2>2 DEF IsWired, IsUse
      <4>3. PadUse(design.inst[g]).input = TRUE
        BY <4>1, <4>2 DEF PadUse, Use
      <4> QED BY <2>4, <3>2, <4>3 DEF PinUse
    <3> QED BY <3>1, <3>2
  <2> QED BY <1>0, <2>5, <2>6, InputOpen
<1>8. CASE Type(g) = "PLL"
  <2>1. PICK p \in {chipdb.pllout[place[g]].a, chipdb.pllout[place[g]].b} :
          p \in Cell /\ port_cnet(g, f) = <<TileOf(p), "D_IN_0", p[3]>>
    BY <1>0, <1>2, <1>5, <1>8, CoreWire
  <2>2. TileOf(p) = TileOf(c) /\ p[3] = c[3] /\ x = "D_IN_0"
    BY <1>3, <2>1
  <2>3. p = c
    BY <1>4, <2>1, <2>2, SameCell
  <2>4. c \in PLLPins
    <3>1. place[g] \in DOMAIN chipdb.pllout
      BY <1>0, <1>8, GateCell, PLLOutputs
    <3> QED BY <2>1, <2>3, <3>1 DEF PLLPins
  <2>5. c \notin Partners
    BY <1>2, <1>3, <1>8, <2>2 DEF NoLvdsBesidePLL, At
  <2>6. PinUse(c).input = TRUE
    BY <2>4 DEF PinUse, Use
  <2> QED BY <1>0, <2>5, <2>6, InputOpen
<1> QED BY <1>6, <1>7, <1>8

LEMMA SourcesInvImplies == SourcesInv => (NoLvdsBesidePLL => SourcesOpen)
<1> SUFFICES ASSUME SourcesInv, NoLvdsBesidePLL, pc = "route" PROVE SourcesOpen
  BY DEF SourcesOpen
<1>1. \A glb : Cardinality({e \in extra : e[2] = glb}) = IF \E w \in NetOn(glb) : PadDriven(w) THEN 1 ELSE 0
  BY NetworksOpen
<1>2. \A c \in chipdb.loc_pin :
        (\E s \in cnet_net : s[1] \in {At(c, "D_IN_0"), At(c, "D_IN_1")}) /\ c \notin LvdsPins =>
          <<<<TileOf(chipdb.ieren[c]), "IE", chipdb.ieren[c][3]>>, Bit(chipdb.device # "1k")>> \in conf
  BY PadsOpen
<1> QED BY <1>1, <1>2 DEF SourcesOpen
LEMMA StillSources ==
  ASSUME UNCHANGED <<design, place>>
  PROVE  /\ \A n : Opened(n)' = Opened(n)
         /\ PinBits' = PinBits
         /\ \A g, f : (IsWired(g, f)' <=> IsWired(g, f)) /\ NetAt(g, f)' = NetAt(g, f) /\ WireOf(g, f)' = WireOf(g, f)
<1>1. ASSUME NEW g, NEW f PROVE port_cnet(g, f)' = port_cnet(g, f) /\ NetAt(g, f)' = NetAt(g, f)
  BY DEF port_cnet, NetAt
<1>2. ASSUME NEW g, NEW f PROVE (IsWired(g, f)' <=> IsWired(g, f)) /\ WireOf(g, f)' = WireOf(g, f)
  BY <1>1 DEF IsWired, IsUse, WireOf
<1>3. ASSUME NEW g PROVE Opens(g)' = Opens(g)
  <2>1. \A f : (Kind(g, f)' = Kind(g, f)) /\ NetworkOf(g, f)' = NetworkOf(g, f) /\ Type(g)' = Type(g)
    BY DEF Kind, NetworkOf, Type
  <2> QED BY <1>2, <2>1 DEF Opens
<1>4. ASSUME NEW n PROVE Opened(n)' = Opened(n)
  BY <1>3 DEF Opened
<1>5. ASSUME NEW c PROVE PinUse(c)' = PinUse(c)
  <2>1. GateOn(c)' = GateOn(c)
    BY StillGates
  <2>2. design.inst[GateOn(c)]' = design.inst[GateOn(c)]
    BY <2>1
  <2>3. PadUse(design.inst[GateOn(c)])' = PadUse(design.inst[GateOn(c)])
    BY <2>2 DEF PadUse, Connected, Port, Use
  <2> QED BY <2>1, <2>3 DEF PinUse, PLLPins, Unused, Use
<1>6. PartnerBits' = PartnerBits
  <2>1. \A c : PartnerUse(c)' = PartnerUse(c)
    BY <1>5 DEF PartnerUse
  <2> QED BY <2>1, StillGates DEF PartnerBits
<1>7. PinBits' = PinBits
  BY <1>5, <1>6, StillGates DEF PinBits
<1> QED BY <1>1, <1>2, <1>4, <1>7

LEMMA OpenedNext ==
  ASSUME NEW n \in Nat \ {0}
  PROVE  Opened(n) = Opened(n - 1) \cup ({n} \X Opens(n)) /\ Opened(0) = {}
<1>1. 1 .. n = (1 .. n - 1) \cup {n} /\ 1 .. 0 = {}
  OBVIOUS
<1> QED BY <1>1 DEF Opened

LEMMA InitSources == Init => SourcesInv
<1> SUFFICES ASSUME Init PROVE SourcesInv
  OBVIOUS
<1>1. NetsInv
  BY InitNets
<1>2. pc = "gates" => gate \in Gate /\ extra = Opened(gate - 1)
  <2>1. Opened(0) = {}
    BY OpenedNext
  <2> QED BY <2>1, ChipAssumption DEF Init, Gate
<1>3. pc \in {"pins", "tiles", "nets", "route"} => extra = Opened(NGate)
  <2>1. Opened(0) = {}
    BY OpenedNext
  <2> QED BY <2>1 DEF Init
<1>4. ASSUME NEW g \in Gate, NEW f \in DOMAIN design.inst[g].ports, IsWired(g, f), NetAt(g, f) < net
      PROVE  WireOf(g, f) \in cnet_net
  BY <1>1, <1>4, NetRange DEF Init, NetsInv
<1> QED BY <1>1, <1>2, <1>3, <1>4 DEF Init, SourcesInv

(* A gate opens what its ports drive.                                      *)
LEMMA OpenStep ==
  ASSUME SourcesInv, NEW type, NEW bits, NEW glbs, ConfigureGate(type, bits, glbs),
         Type(gate) = type => glbs = Opens(gate)
  PROVE  SourcesInv'
<1>1. /\ pc = "gates" /\ gate \in Gate /\ extra = Opened(gate - 1) /\ Type(gate) = type
      /\ UNCHANGED <<design, place, cnet_net, net, net_source>>
      /\ extra' = extra \cup ({gate} \X glbs) /\ gate' = gate + 1
      /\ pc' = IF gate = NGate THEN "pins" ELSE "gates"
  BY DEF ConfigureGate, SourcesInv, inst, Type
<1>2. NetsInv'
  BY <1>1, StillNets DEF NetsInv, SourcesInv
<1>3. gate \in Nat \ {0} /\ NGate \in Nat /\ gate <= NGate
  BY <1>1, ChipAssumption DEF Gate
<1>4. extra' = Opened(gate)
  BY <1>1, <1>3, OpenedNext
<1>5. \A n : Opened(n)' = Opened(n)
  BY <1>1, StillSources
<1>6. pc' = "gates" => gate' \in Gate /\ gate' - 1 = gate
  BY <1>1, <1>3 DEF Gate
<1>7. \A g, f : (IsWired(g, f)' <=> IsWired(g, f)) /\ NetAt(g, f)' = NetAt(g, f) /\ WireOf(g, f)' = WireOf(g, f)
  BY <1>1, StillSources
<1>8. (\A g \in Gate : \A f \in DOMAIN design.inst[g].ports :
         IsWired(g, f) /\ NetAt(g, f) < net => WireOf(g, f) \in cnet_net)'
  BY <1>1, <1>7 DEF SourcesInv
<1>9. pc' = "gates" => extra' = Opened(gate - 1)'
  BY <1>4, <1>5, <1>6
<1>10. pc' \in {"pins", "tiles", "nets", "route"} => extra' = Opened(NGate)'
  BY <1>1, <1>4, <1>5
<1> QED BY <1>1, <1>2, <1>6, <1>8, <1>9, <1>10 DEF SourcesInv

(* The steps after the gates.                                              *)
LEMMA LaterStep ==
  ASSUME SourcesInv, UNCHANGED <<design, place, gate, extra, cnet_net, net, net_source>>, conf \subseteq conf',
         pc' = "gates" => pc = "gates",
         pc' \in {"pins", "tiles", "nets", "route"} => pc \in {"pins", "tiles", "nets", "route"},
         pc' \in {"tiles", "nets", "route"} => pc \in {"tiles", "nets", "route"} \/ PinBits \subseteq conf',
         pc' = "route" => net > NNet
  PROVE  SourcesInv'
<1>1. NetsInv'
  BY StillNets DEF NetsInv, SourcesInv
<1>2. /\ \A n : Opened(n)' = Opened(n)
      /\ PinBits' = PinBits
      /\ \A g, f : (IsWired(g, f)' <=> IsWired(g, f)) /\ NetAt(g, f)' = NetAt(g, f) /\ WireOf(g, f)' = WireOf(g, f)
  BY StillSources
<1>3. (\A g \in Gate : \A f \in DOMAIN design.inst[g].ports :
         IsWired(g, f) /\ NetAt(g, f) < net => WireOf(g, f) \in cnet_net)'
  BY <1>2 DEF SourcesInv
<1>4. (pc = "gates" => gate \in Gate /\ extra = Opened(gate - 1))'
  BY <1>2 DEF SourcesInv
<1>5. (pc \in {"pins", "tiles", "nets", "route"} => extra = Opened(NGate))'
  BY <1>2 DEF SourcesInv
<1>6. (pc \in {"tiles", "nets", "route"} => PinBits \subseteq conf)'
  BY <1>2 DEF SourcesInv
<1> QED BY <1>1, <1>3, <1>4, <1>5, <1>6 DEF SourcesInv

LEMMA CollectStep == SourcesInv /\ CollectNet => SourcesInv'
<1> SUFFICES ASSUME SourcesInv, CollectNet PROVE SourcesInv'
  OBVIOUS
<1> DEFINE routed == {q \in Connections(net) : port_cnet(q[1], q[2]) # None}
           source == {port_cnet(q[1], q[2]) : q \in {q \in routed : q[2] \in Outputs}}
           targets == {port_cnet(q[1], q[2]) : q \in {q \in routed : q[2] \notin Outputs}}
<1>1. /\ UNCHANGED <<design, place, pc, gate, conf, extra>> /\ net' = net + 1 /\ pc = "nets"
      /\ cnet_net' = cnet_net \cup ((source \cup targets) \X {net})
  BY DEF CollectNet
<1>2. NetsInv' /\ NetsInv /\ net \in Nat
  BY NetStep DEF SourcesInv, NetsInv
<1>3. /\ \A n : Opened(n)' = Opened(n)
      /\ PinBits' = PinBits
      /\ \A g, f : (IsWired(g, f)' <=> IsWired(g, f)) /\ NetAt(g, f)' = NetAt(g, f) /\ WireOf(g, f)' = WireOf(g, f)
  BY <1>1, StillSources
<1>4. ASSUME NEW g \in Gate, NEW f \in DOMAIN design.inst[g].ports, IsWired(g, f), NetAt(g, f) < net + 1
      PROVE  WireOf(g, f) \in cnet_net'
  <2>1. CASE NetAt(g, f) < net
    BY <1>1, <1>4, <2>1 DEF SourcesInv
  <2>2. CASE NetAt(g, f) = net
    <3>1. <<g, f>> \in routed
      BY <1>4, <2>2 DEF Connections, NetAt, IsWired
    <3>2. port_cnet(g, f) \in source \cup targets
      BY <3>1
    <3> HIDE DEF source, targets, routed
    <3> QED BY <1>1, <2>2, <3>2 DEF WireOf
  <2> QED BY <1>2, <1>4, <2>1, <2>2, NetRange DEF NetsInv
<1> HIDE DEF source, targets, routed
<1>5. (\A g \in Gate : \A f \in DOMAIN design.inst[g].ports :
         IsWired(g, f) /\ NetAt(g, f) < net => WireOf(g, f) \in cnet_net)'
  BY <1>1, <1>3, <1>4
<1>6. (pc \in {"pins", "tiles", "nets", "route"} => extra = Opened(NGate))'
  BY <1>1, <1>3 DEF SourcesInv
<1>7. (pc \in {"tiles", "nets", "route"} => PinBits \subseteq conf)'
  BY <1>1, <1>3 DEF SourcesInv
<1> QED BY <1>1, <1>2, <1>5, <1>6, <1>7 DEF SourcesInv
LEMMA NextSources == SourcesInv /\ [Next]_vars => SourcesInv'
<1> SUFFICES ASSUME SourcesInv, [Next]_vars PROVE SourcesInv'
  OBVIOUS
<1>0. Fixed /\ (pc = "gates" => gate \in Gate) /\ inst = design.inst[gate] /\ Type(gate) = inst.type /\ loc = place[gate]
  BY DEF SourcesInv, NetsInv, inst, Type, loc
<1>1. CASE ConfigureLogic \/ ConfigureBuffer \/ ConfigureRam \/ ConfigureMac
  <2>1. PICK type \in {"LOGIC", "GB", "RAM", "MAC16"} : \E bits : ConfigureGate(type, bits, {})
    BY <1>1 DEF ConfigureLogic, ConfigureBuffer, ConfigureRam, ConfigureMac
  <2>2. PICK bits : ConfigureGate(type, bits, {})
    BY <2>1
  <2>3. Type(gate) = type => {} = Opens(gate)
    BY <1>0, <2>2, LocalOpens DEF ConfigureGate
  <2> QED BY <2>2, <2>3, OpenStep
<1>2. CASE ConfigureBlock
  <2>1. PICK type \in {"BLOCK", "I2C", "SPI", "RGBA"} : ConfigureGate(type, ParamBits(inst.p.params), {})
    BY <1>2 DEF ConfigureBlock
  <2>2. Type(gate) = type => {} = Opens(gate)
    BY <1>0, <2>1, LocalOpens DEF ConfigureGate
  <2> QED BY <2>1, <2>2, OpenStep
<1>3. CASE ConfigurePad
  <2> DEFINE glbs == IF inst.p.gb_io /\ Connected(inst, "GLOBAL_BUFFER_OUTPUT")
                     THEN {chipdb.loc_pin_glb_num[loc]} ELSE {}
  <2>1. ConfigureGate("IO", PadBits, glbs)
    BY <1>3 DEF ConfigurePad
  <2>2. Type(gate) = "IO" => glbs = Opens(gate)
    BY <1>0, <2>1, PadOpens DEF ConfigureGate
  <2> HIDE DEF glbs
  <2> QED BY <2>1, <2>2, OpenStep
<1>4. CASE ConfigureOscillator
  <2> DEFINE glbs == IF DrivesNetwork(inst) THEN {chipdb.oscillator[loc]} ELSE {}
  <2>1. ConfigureGate("OSC", ParamBits(inst.p.params), glbs)
    BY <1>4 DEF ConfigureOscillator
  <2>2. Type(gate) = "OSC" => glbs = Opens(gate)
    BY <1>0, <2>1, OscillatorOpens DEF ConfigureGate
  <2> HIDE DEF glbs
  <2> QED BY <2>1, <2>2, OpenStep
<1>5. CASE ConfigurePLL
  <2>1. ConfigureGate("PLL", PLLBits, PLLNetworks)
    BY <1>5 DEF ConfigurePLL
  <2>2. Type(gate) = "PLL" => PLLNetworks = Opens(gate)
    <3> SUFFICES ASSUME Type(gate) = "PLL" PROVE PLLNetworks = Opens(gate)
      OBVIOUS
    <3>1. gate \in Gate
      BY <1>0, <2>1 DEF ConfigureGate
    <3>2. \A f : PLLOut(f) = IF f = "PLLOUTGLOBALB" THEN chipdb.pllout[loc].b ELSE chipdb.pllout[loc].a
      BY DEF PLLOut
    <3>3. PLLNetworks =
            {chipdb.loc_pin_glb_num[IF f = "PLLOUTGLOBALB" THEN chipdb.pllout[loc].b ELSE chipdb.pllout[loc].a] :
               f \in {f \in {GlobalA(inst), "PLLOUTGLOBALB"} : Connected(inst, f)}}
      BY <3>2 DEF PLLNetworks
    <3> QED BY <1>0, <3>1, <3>3, PLLOpens
  <2> QED BY <2>1, <2>2, OpenStep
<1>6. CASE BadParameter
  <2>1. UNCHANGED <<design, place, gate, extra, cnet_net, net, net_source>> /\ conf \subseteq conf' /\ pc' = "failed"
    BY <1>6 DEF BadParameter
  <2> QED BY <2>1, LaterStep
<1>7. CASE ConfigurePins
  <2>1. /\ UNCHANGED <<design, place, gate, extra, cnet_net, net, net_source>> /\ conf \subseteq conf'
        /\ pc = "pins" /\ pc' = "tiles" /\ PinBits \subseteq conf'
    BY <1>7 DEF ConfigurePins
  <2> QED BY <2>1, LaterStep
<1>8. CASE ConfigureTiles
  <2>1. /\ UNCHANGED <<design, place, gate, extra, cnet_net, net, net_source>> /\ conf \subseteq conf'
        /\ pc = "tiles" /\ pc' = "nets"
    BY <1>8 DEF ConfigureTiles
  <2> QED BY <2>1, LaterStep
<1>9. CASE CollectNet
  BY <1>9, CollectStep
<1>10. CASE BeginRouting
  <2>1. /\ UNCHANGED <<design, place, gate, extra, cnet_net, net, net_source>> /\ conf \subseteq conf'
        /\ pc = "nets" /\ pc' = "route" /\ net > NNet
    BY <1>10 DEF BeginRouting
  <2> QED BY <2>1, LaterStep
<1>11. CASE Stopped \/ UNCHANGED vars
  <2>1. UNCHANGED <<design, place, pc, gate, conf, extra, cnet_net, net, net_source>>
    BY <1>11 DEF Stopped, vars
  <2>2. pc' = "route" => net > NNet
    BY <2>1 DEF SourcesInv
  <2> QED BY <2>1, <2>2, LaterStep
<1> QED BY <1>1, <1>2, <1>3, <1>4, <1>5, <1>6, <1>7, <1>8, <1>9, <1>10, <1>11 DEF Next

(* When the nets are handed to the router, configure() has opened what     *)
(* they start from: each driven network once, with the extra bit of the    *)
(* gate that drives it unless that is a buffer, and the input buffer of    *)
(* every pad that a net starts from, unless an LVDS input beside it has    *)
(* switched it off.                                                        *)
THEOREM SourcesAreOpen == Spec => [](NoLvdsBesidePLL => SourcesOpen)
BY InitSources, NextSources, SourcesInvImplies, PTL DEF Spec
=============================================================================
