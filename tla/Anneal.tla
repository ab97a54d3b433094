------------------------------- MODULE Anneal --------------------------------
(***************************************************************************)
(* The annealing loop of place(): iterations of moves, after each of which *)
(* the temperature or the diameter of the moves changes with the share of  *)
(* accepted moves, until it is cold and nothing improves.  A move is what  *)
(* module Placer does in detail; here it is the change of the wire length. *)
(*                                                                         *)
(* The temperature is its logarithm in steps of 0.05, so that the factors  *)
(* 0.95, 0.9, 0.8, 0.7 take 1, 2, 4, 7 off it; Zero is far below where     *)
(* anything depends on it.  Lengths are in units of which the wire length  *)
(* is a multiple, so that the average has room between.  exp(-delta/temp)  *)
(* is 1 for delta = 0 and anything up to 1 for delta > 0.                  *)
(***************************************************************************)
EXTENDS Integers

CONSTANTS
  MaxLength, Unit,      \* the wire length is one of 0, Unit, ..., MaxLength * Unit
  M,                    \* the larger of the chip's width and height
  Moves,                \* tried in one iteration
  Hot, Low, Cold, Zero  \* temperatures: at the start, 1e-3, 1e-6, and the lowest considered

VARIABLES
  pc,                             \* "moves", "schedule", or "placed"
  length, avg_wire_length,        \* in units
  temp, diameter,
  tried, n_move, n_accept, improved,   \* of this iteration
  n_no_progress                   \* up to 5

vars == <<pc, length, avg_wire_length, temp, diameter, tried, n_move, n_accept, improved, n_no_progress>>
schedule == <<avg_wire_length, temp, diameter, n_no_progress>>

Lengths == {Unit * l : l \in 0 .. MaxLength}

Init ==
  /\ pc = "moves"
  /\ length \in Lengths /\ avg_wire_length = length
  /\ temp = Hot /\ diameter = M
  /\ tried = 0 /\ n_move = 0 /\ n_accept = 0 /\ improved = FALSE
  /\ n_no_progress = 0

-----------------------------------------------------------------------------
(* The moves of an iteration; accept_or_restore() *)

Try == pc = "moves" /\ tried < Moves /\ tried' = tried + 1 /\ UNCHANGED <<pc, schedule>>

(* The move is not possible, or leads to an illegal placement. *)
Illegal == Try /\ UNCHANGED <<length, n_move, n_accept, improved>>

Accept(new) ==
  /\ Try
  /\ new < length \/ temp > Cold
  /\ length' = new
  /\ improved' = (improved \/ new < length)
  /\ n_move' = n_move + 1 /\ n_accept' = n_accept + 1

Refuse(new) ==
  /\ Try
  /\ IF temp > Cold THEN new > length ELSE new >= length
  /\ n_move' = n_move + 1
  /\ UNCHANGED <<length, n_accept, improved>>

EndMoves ==
  /\ pc = "moves" /\ tried = Moves /\ pc' = "schedule"
  /\ UNCHANGED <<length, tried, n_move, n_accept, improved, schedule>>

-----------------------------------------------------------------------------
(* The schedule *)

CoolBy(t) == temp' = (IF temp - t < Zero THEN Zero ELSE temp - t) /\ UNCHANGED diameter
MoveWithin(r) == diameter' = r /\ UNCHANGED temp

(* Raccept > p / 10, where 0 / 0 is not greater than anything. *)
Above(p) == 10 * n_accept > p * n_move
AtLeast80 == n_move > 0 /\ 10 * n_accept >= 8 * n_move

(* Mutant: the temperature stays while the rate is right. *)
AdaptKeepingTemp ==
  \/ AtLeast80 /\ CoolBy(7)
  \/ ~AtLeast80 /\ Above(6) /\ diameter < M /\ MoveWithin(diameter + 1)
  \/ ~AtLeast80 /\ Above(6) /\ diameter = M /\ CoolBy(2)
  \/ ~Above(6) /\ Above(4) /\ UNCHANGED <<temp, diameter>>
  \/ ~Above(4) /\ diameter > 1 /\ MoveWithin(diameter - 1)
  \/ ~Above(4) /\ diameter = 1 /\ CoolBy(4)

Adapt ==
  \/ AtLeast80 /\ CoolBy(7)
  \/ ~AtLeast80 /\ Above(6) /\ diameter < M /\ MoveWithin(diameter + 1)
  \/ ~AtLeast80 /\ Above(6) /\ diameter = M /\ CoolBy(2)
  \/ ~Above(6) /\ Above(4) /\ CoolBy(1)
  \/ ~Above(4) /\ diameter > 1 /\ MoveWithin(diameter - 1)
  \/ ~Above(4) /\ diameter = 1 /\ CoolBy(4)

(* The average in double precision does not fall below its smallest        *)
(* positive value, which 0.8 and 0.95 times it are rounded to.             *)
LowerAverage ==
  LET new == (4 * avg_wire_length + length) \div 5
  IN avg_wire_length' = IF new = 0 THEN 1 ELSE new

Progress == IF improved THEN 0 ELSE IF n_no_progress < 5 THEN n_no_progress + 1 ELSE 5

Schedule ==
  /\ pc = "schedule"
  /\ n_no_progress' = Progress
  /\ tried' = 0 /\ n_move' = 0 /\ n_accept' = 0 /\ improved' = FALSE
  /\ UNCHANGED length
  /\ \/ /\ temp <= Low /\ Progress = 5
        /\ pc' = "placed"
        /\ UNCHANGED <<avg_wire_length, temp, diameter>>
     \/ /\ ~(temp <= Low /\ Progress = 5)
        /\ pc' = "moves"
        /\ \/ /\ 100 * length < 95 * avg_wire_length
              /\ LowerAverage
              /\ UNCHANGED <<temp, diameter>>
           \/ /\ 100 * length >= 95 * avg_wire_length
              /\ Adapt
              /\ UNCHANGED avg_wire_length

Placed == pc = "placed" /\ UNCHANGED vars

Next ==
  \/ Illegal \/ (\E new \in Lengths : Accept(new) \/ Refuse(new)) \/ EndMoves
  \/ Schedule \/ Placed

(* One thread that never waits. *)
Spec == Init /\ [][Next]_vars /\ WF_vars(Next)
-----------------------------------------------------------------------------
(* Properties *)

(* Whatever the moves are and whichever are accepted, place() ends: once   *)
(* it is cold in any case, and before that unless the diameter goes up and *)
(* down for ever, or all iterations end with wires of no length.  All      *)
(* other ways to spend an iteration use up temperature, average or length. *)
AnnealingEnds ==
  /\ (temp <= Cold) ~> (pc = "placed")
  /\ \/ <>(pc = "placed")
     \/ []<><<diameter' > diameter>>_vars /\ []<><<diameter' < diameter>>_vars
     \/ <>[](pc = "schedule" => length = 0)
=============================================================================
