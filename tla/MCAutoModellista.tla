---------------------- MODULE MCAutoModellista ----------------------
(* Sessions are treated alike by Auto Modellista's rooms. *)
EXTENDS LobbyAnswers, TLC

Symmetry == Permutations(Sessions)

(* In a room of three a race runs while no member's count is out of date; in
   a room of two whatever the counts. *)
CountsOrRaces ==
  \A r \in Open(places) :
    places.rooms[r].max > 2 /\ gameState[r] # "init" =>
      \A s \in Listed(places, r) : count[s] \in {0, Cardinality(Listed(places, r))}

=====================================================================
