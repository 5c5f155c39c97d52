------------------------- MODULE MCRecommendations --------------------------
(* Short sessions of Recommendations for TLC. *)
EXTENDS Recommendations

(* A session of three bars and an early close after two. *)
MCBars == <<3, 2>>

(* A session of four bars, twice what a fetch reads. *)
MCLongDay == <<4>>

(* A bar below the entry, with or without the stop; one that fills and     *)
(* stops; one that fills; one at the 1R target; one at the 2R target, with *)
(* or without the stop. *)
MCShapes ==
  {[stop |-> FALSE, high |-> h] : h \in 0..3}
    \cup {[stop |-> TRUE, high |-> h] : h \in {0, 1, 3}}
=============================================================================
