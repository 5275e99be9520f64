-------------------------- MODULE MCEpisodeWorkflow --------------------------
(* EpisodeWorkflow on small instances.                                     *)
EXTENDS EpisodeWorkflow

MCTakes == {0, 1}
MCThreeTakes == {0, 1, 2}

(* The candidate ids sort the other way round than the takes.              *)
Reversed == [t \in Takes |-> 9 - t]

(* A good take, a mediocre one, and one with the best score that misses a  *)
(* critical token.                                                         *)
MCVerdicts == {[score |-> 0, gates |-> {}], [score |-> 1, gates |-> {}],
               [score |-> 2, gates |-> {"fidelity"}]}

(* One error that stops a segment, one that is retried and then repaired, *)
(* and a result that is none; a timeout is an uncoded error.              *)
MCRaised == {"MalformedAudioError", "TranscriptionTransientError",
             "MALFORMED_ACTIVITY_OUTPUT"}
=============================================================================
