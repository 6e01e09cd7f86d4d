--------------------------- MODULE MCVoiceRequests ---------------------------
(***************************************************************************)
(* Two ids that differ by case only, four sources (complete and licensed,  *)
(* complete with a sidecar that lacks the licence, complete without a      *)
(* sidecar, with codes that are not whole int32 values) and two answers of *)
(* the backend, one of which declares two rates.                           *)
(***************************************************************************)
EXTENDS VoiceRequests, TLC

\* Whatever the voices of the configuration are called, they fold to one id.
MCFold(v) == "folded"

Profile == [magic |-> TRUE, version |-> 1, codebooks |-> 1, rate |-> 1,
            codebookSize |-> 1, transcript |-> 2, codes |-> 4, length |-> 10,
            terminated |-> TRUE, utf8 |-> TRUE]
Licensed == Profile
Obscure  == [Profile EXCEPT !.rate = 2]
Bare     == [Profile EXCEPT !.transcript = 1, !.length = 9]
Ragged   == [Profile EXCEPT !.codes = 3, !.length = 9]

MCSources     == {Licensed, Obscure, Bare, Ragged}
MCAccompanied == {Licensed, Obscure, Ragged}
MCDocumented  == {Licensed, Ragged}

Answer == [encoding |-> "pcm_s16le", typeRate |-> 0, headerRate |-> 2,
           typeChannels |-> 1, headerChannels |-> 1]
\* The importers run the same command, and neither id is special.
MCSymmetry == Permutations(Importers) \cup Permutations(Voices)

MCAnswers == {Answer, [Answer EXCEPT !.typeRate = 1]}
=============================================================================
