---------------------------- MODULE MCQuizSession ----------------------------
(* QuizSession with three questions of two choices.  The questions share the *)
(* texts of their choices, so that a button drawn for one question may hold  *)
(* the right or a wrong answer of another.                                   *)
EXTENDS QuizSession

CONSTANTS yes, no

MCChoices == [q \in Questions |-> {yes, no}]
MCAnswer == [q \in Questions |-> IF q = 1 THEN no ELSE yes]
=============================================================================
