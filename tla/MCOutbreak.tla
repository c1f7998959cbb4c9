----------------------------- MODULE MCOutbreak -----------------------------
(* Players are treated alike by the Outbreak plugins. *)
EXTENDS OutbreakAnswers, TLC

Symmetry == Permutations(Sessions)

(* Three sessions in two Areas with one room, or two sessions in one Area with
   two rooms. *)
TwoAreasOrTwoRooms ==
  \/ places.next <= 2
  \/ Cardinality(places.live) <= 2 /\ \A s \in Sessions : places.lobby[s] \in {0, 1}

=============================================================================
