------------------------------ MODULE MCAnneal -------------------------------
(* Instance of Anneal: four moves give rates in every range.               *)
EXTENDS Anneal
=============================================================================
