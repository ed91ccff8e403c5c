----------------------------- MODULE GameLedger -----------------------------
(***************************************************************************)
(* What a quiz category promises about its books, whatever the screens,    *)
(* the timers and the ways of answering do: points are won five at a time  *)
(* and only up to the maximum, an attempt is lost one at a time, and the   *)
(* game is saved by the very step that changes what is saved.              *)
(***************************************************************************)
EXTENDS Integers

CONSTANTS Points, MaxScore, InitAttempts, NoSave

VARIABLES counter, correct, incorrect, attempts, saved

books == <<counter, correct, incorrect, attempts, saved>>

Init ==
    /\ counter = 0 /\ correct = 0 /\ incorrect = 0
    /\ attempts = InitAttempts /\ saved = NoSave

Save == saved' = [counter |-> counter', correct |-> correct', incorrect |-> incorrect']

\* A right answer, by any means.
Win ==
    /\ counter < MaxScore
    /\ counter' = counter + Points /\ correct' = correct + 1
    /\ UNCHANGED <<incorrect, attempts>>
    /\ Save

\* A wrong answer: counted when it was touched, not when spoken or photographed.
Lose ==
    /\ attempts' = attempts - 1
    /\ incorrect' \in {incorrect, incorrect + 1}
    /\ UNCHANGED <<counter, correct>>
    /\ Save

\* The time ran out: nothing is saved.
Expire == attempts' = attempts - 1 /\ UNCHANGED <<counter, correct, incorrect, saved>>

\* A right answer that wins nothing any more is still saved.
SaveAgain == UNCHANGED <<counter, correct, incorrect, attempts>> /\ Save

Next == Win \/ Lose \/ Expire \/ SaveAgain

Spec == Init /\ [][Next]_books
=============================================================================
