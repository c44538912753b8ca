----------------------------- MODULE MCProcess -----------------------------
(* Small instances of Process for TLC. *)
EXTENDS Process

\* A refutation, with a remark before it, and a model with one after it.
SolverAnswers == {<<"un", "sat", "newline">>,
                  <<"other", "newline", "un", "sat", "newline">>,
                  <<"sat", "newline", "other">>}

\* None of them can be taken for another when it is cut short.
ASSUME AnswersCutHarmlessly == CutsHarmless
=============================================================================
