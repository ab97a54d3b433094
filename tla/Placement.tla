----------------------------- MODULE Placement ------------------------------
(***************************************************************************)
(* What the placer promises, whatever moves it tries: once every gate has  *)
(* a cell, the placement changes from one complete placement to another,   *)
(* preplaced gates stay, chains stay in one piece, and below the critical  *)
(* temperature every change shortens the wires.                            *)
(***************************************************************************)
EXTENDS Legality, Sequences, FiniteSetsExt

VARIABLES
  design,
  place,   \* the cell of every gate, once all have one
  ready,   \* whether all have one
  hot

OneToOne == \A g, h \in Gate : place[g] = place[h] => g = h

OnItsCells == \A g \in Gate : place[g] \in Cell /\ chipdb.cell_type[place[g]] = design.inst[g].type

(* The gates of a chain fill consecutive positions upwards from the bottom *)
(* of a tile.                                                              *)
ChainsIntact ==
  \A i \in DOMAIN design.chains :
    LET v == design.chains[i]
        base == place[v[1]]
    IN \A j \in DOMAIN v :
         place[v[j]] = <<base[1], base[2] + (j - 1) \div TileSize, (j - 1) % TileSize>>

LockedStay == \A g \in Locked(design) : place[g] = design.placement[g]

IsPlacement == OneToOne /\ OnItsCells /\ ChainsIntact /\ LockedStay

WireLength == SumFunction([w \in Net |-> NetLength(design, place, w)])

Init == ready = FALSE /\ hot = TRUE

Complete ==
  /\ ~ready /\ ready'
  /\ IsPlacement'
  /\ UNCHANGED <<design, hot>>

Move ==
  /\ ready /\ place' # place
  /\ IsPlacement'
  /\ hot \/ WireLength' < WireLength
  /\ UNCHANGED <<design, ready, hot>>

Cool == hot /\ hot' = FALSE /\ UNCHANGED <<design, place, ready>>

Next == Complete \/ Move \/ Cool

Spec == Init /\ [][Next]_<<design, place, ready, hot>>
=============================================================================
