---------------------------- MODULE MCCommandApi ----------------------------
(* CommandApi on small instances.                                          *)
EXTENDS CommandApi, TLC

(* Requests, workers, keys and packages are interchangeable, and only      *)
(* safety is checked.                                                      *)
MCSymmetry == Permutations(Requests) \cup Permutations(Workers)
                \cup Permutations(Keys) \cup Permutations(Packages)

(* Bound: workers take up one episode.  The others stay as they were       *)
(* created; the keys they hold are what they are there for.                *)
TakenUp == {e \in Requests :
              \/ Exists(e) /\ episodes[e].version > 1
              \/ \E w \in Workers : pending[w] # Nothing /\ pending[w].episode = e}
OneEpisodeAtWork == \A d, e \in TakenUp : d = e
=============================================================================
