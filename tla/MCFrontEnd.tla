----------------------------- MODULE MCFrontEnd ------------------------------
(* Model of FrontEnd: small files, of which any lines may be missing and    *)
(* the lines may come in any order.                                        *)
EXTENDS FrontEnd

(* The nets. *)
A == 1
B == 2
C == 3
E == 4
N == 5
P == 6
Q == 7
R == 8
Y == 9
Z == 10

Port(dir, net) == [cmd |-> dir, net |-> net]
Constant(net, value) == [cmd |-> "constant", net |-> net, value |-> value]
Names(net, to) == [cmd |-> "names", net |-> net, to |-> to]
Gate(id, model, p, ports) == [cmd |-> "gate", id |-> id, model |-> model, p |-> p, ports |-> ports]

And == {{"I0", "I1"}, {"I0", "I1", "I2"}, {"I0", "I1", "I3"}, LutIn}
Not == SUBSET (LutIn \ {"I0"})
ShortNot == SUBSET {"I1", "I2"}
ShortAnd == {{"I0", "I1"}, {"I0", "I1", "I2"}}
Lut(id, init, ports) == Gate(id, "SB_LUT4", [init |-> init, full |-> TRUE], ports)
ShortLut(id, init, ports) == Gate(id, "SB_LUT4", [init |-> init, full |-> FALSE], ports)
Dff(id, neg, cen, sr, ports) == Gate(id, "SB_DFF", [neg |-> neg, cen |-> cen, sr |-> sr], ports)
Tbuf(id, ports) == Gate(id, "$_TBUF_", [pin |-> "tristate"], ports)
Io(id, model, pin, ports) == Gate(id, model, [pin |-> pin], ports)

MCFiles ==
  {\* chains, conflicts and cycles of .names
   {Port("IN", A), Port("OUT", Y), Names(A, B), Names(B, Y), Names(C, B), Names(Y, C)},
   {Names(A, B), Names(B, C), Names(C, E), Names(E, B), Names(Y, C), Port("OUT", E)},
   {Port("IN", A), Port("OUT", Y), Port("IN", Y), Names(A, B), Constant(B, 1), Names(B, Y)},
   \* LUTs with constants, and a flip-flop behind one
   {Port("IN", A), Port("OUT", Y), Constant(B, 1), Lut(1, And, [I0 |-> A, I1 |-> B, O |-> C]),
    Dff(2, TRUE, TRUE, "SS", [D |-> C, C |-> A, E |-> B, S |-> B, Q |-> Y])},
   {Port("IN", A), Port("OUT", Y), Constant(B, 0), ShortLut(1, ShortNot, [I0 |-> B, O |-> C]),
    Dff(2, FALSE, TRUE, "R", [D |-> A, E |-> B, R |-> C, Q |-> Y])},
   {Port("OUT", C), Lut(1, Not, [I0 |-> Q, O |-> C]), Dff(2, FALSE, FALSE, "", [D |-> C, Q |-> Q]),
    Constant(B, 1), ShortLut(3, ShortAnd, [I0 |-> B, I1 |-> B, O |-> Y]), Port("OUT", Y)},
   {Port("IN", A), Constant(B, 1), Constant(Z, 0), Port("OUT", Y), Port("OUT", Q),
    Lut(1, And, [I0 |-> A, I2 |-> B, I1 |-> Z, I3 |-> B, O |-> C]), Names(C, Y),
    Dff(2, TRUE, TRUE, "S", [D |-> C, C |-> Z, E |-> Z, S |-> B, Q |-> Q])},
   {Port("IN", A), Lut(1, Not, [I0 |-> A, O |-> C]), Names(C, E),
    Dff(2, FALSE, TRUE, "SR", [D |-> E, C |-> A, E |-> A, R |-> R, Q |-> Q]),
    Names(Q, Y), Port("OUT", Y), Constant(R, 1)},
   \* tristate buffers and bidirectional ports
   {Port("OUT", P), Port("IN", P), Tbuf(1, [A |-> A, E |-> E, Y |-> P]), Port("IN", A), Constant(E, 1),
    Port("OUT", A)},
   {Port("OUT", P), Port("IN", P), Tbuf(1, [A |-> A, E |-> E, Y |-> N]), Names(N, P), Port("IN", E),
    Lut(2, Not, [I0 |-> P, O |-> Y])},
   \* pads of the file's own
   {Port("OUT", P), Port("IN", P), Constant(A, 1),
    Io(1, "SB_IO", "tristate", [PACKAGE_PIN |-> P, D_OUT_0 |-> A, D_IN_0 |-> Y]),
    Port("OUT", Y)},
   {Port("OUT", P), Io(1, "SB_IO_OD", "out", [PACKAGEPIN |-> P, DOUT0 |-> A, DIN0 |-> Y, CLOCKENABLE |-> C]),
    Port("OUT", Y), Port("IN", A), Constant(C, 0)}}
=============================================================================
