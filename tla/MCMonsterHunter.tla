---------------------- MODULE MCMonsterHunter ----------------------
(* Hunters are treated alike by the Monster Hunter plugin. *)
EXTENDS TownAnswers, TLC

Symmetry == Permutations(Sessions)

(* The third session, which finds the Area full, is there until a second room
   is created; from then on a session that ends makes way for another. *)
ThirdFindsAreaFull == places.next > 2 => Cardinality(places.live) <= 2

====================================================================
