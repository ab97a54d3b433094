------------------------------ MODULE MCPacker ------------------------------
(* Model of Packer: columns of two tiles with two cells each, five carries *)
(* and a logic cell for each.                                              *)
EXTENDS Packer, TLC

(* Nets 3 and 4 come from elsewhere, 5 and 6 are clocks, 7 and 8 enables,  *)
(* 10 + i is the carry i makes, 20 + i and 30 + i are its operands and     *)
(* those of the cell 10 + i that may compute with it.                      *)
Kind == [none |-> <<None, None, None>>, a |-> <<5, 7, Const0>>, b |-> <<6, Const1, Const0>>,
         en |-> <<5, 8, Const0>>]

CarryPorts(i, ci, co) ==
  <<i, "CI">> :> ci @@ <<i, "CO">> :> co @@ <<i, "I0">> :> 20 + i @@ <<i, "I1">> :> 30 + i

LogicCell(l, i, i3, kind) ==
  WithLC(<<>>, l, [NoPorts EXCEPT !.I1 = 20 + i, !.I2 = 30 + i, !.I3 = i3, !.O = 40 + l,
                                  !.CLK = Kind[kind][1], !.CEN = Kind[kind][2], !.SR = Kind[kind][3]])

(* The netlist with the carries 1 .. Len(ci), where lut[i] tells which     *)
(* kind of cell computes with the carry in of i, and users is the ports    *)
(* that use other carries.                                                 *)
Netlist(ci, co, lut, users, neg) ==
  LET C == DOMAIN ci
      L == {i \in C : lut[i] # "no"}
      used == {users[p] : p \in DOMAIN users} \cup {ci[i] : i \in C} \cup {ci[i] : i \in L}
  IN [conn |-> FoldSet(LAMBDA i, w : CarryPorts(i, ci[i], IF co \/ 10 + i \in used THEN 10 + i ELSE None) @@ w,
                       <<>>, C)
               @@ FoldSet(LAMBDA i, w : LogicCell(10 + i, i, ci[i], lut[i]) @@ w, <<>>, L)
               @@ users,
      carries |-> C,
      lcs |-> {10 + i : i \in L} \cup {p[1] : p \in {q \in DOMAIN users : q[2] = "O"}},
      neg_clk |-> neg]

(* An adder: carry i + 1 continues carry i.  What uses the last carry is a *)
(* logic cell, something else, or nothing.                                 *)
Adder(n, first, lut, tail) ==
  Netlist([i \in 1 .. n |-> IF i = 1 THEN first ELSE 9 + i], FALSE, lut,
          IF tail = "port" THEN <<50, "D">> :> 10 + n
          ELSE IF tail = "unused" THEN <<>>
          ELSE LogicCell(60, 9, 10 + n, tail), {})

Adders ==
  {Adder(5, end[1], <<"no">> \o l, end[2]) :
     l \in [1 .. 4 -> {"no", "none", "a", "b"}],
     end \in {<<3, "port">>, <<Const0, "unused">>, <<3, "none">>, <<3, "a">>, <<Const0, "b">>}}
  \cup {Adder(4, 3, <<"none">> \o l, "en") : l \in [1 .. 3 -> {"no", "a", "en"}]}

(* Carries that feed each other in any way, loops included, and are used   *)
(* elsewhere or not.                                                       *)
Webs ==
  {Netlist(ci, u = <<>>, lut, u, {}) :
     ci \in [1 .. 4 -> {3} \cup (11 .. 14)],
     lut \in {[i \in 1 .. 4 |-> "no"], <<"no", "none", "none", "no">>},
     u \in {<<>>, <<50, "D">> :> 11 @@ <<50, "E">> :> 12}}

MCDesigns == Adders \cup Webs

(* Two bits of an adder, registered on opposite edges of the same clock.   *)
MCEdges == {[Adder(3, Const0, <<"no", "a", "a">>, "unused") EXCEPT !.neg_clk = {13}]}
=============================================================================
