------------------------------- MODULE Settings -------------------------------
(***************************************************************************)
(* The switches of the settings screen.  UserDefaults keeps each of them   *)
(* twice: off<key> is what the switch shows, onstatus<key> is what the     *)
(* rest of the application reads.  The biometric switch is left out: only  *)
(* the login screen reads it.                                              *)
(***************************************************************************)
CONSTANT Keys       \* the switches that are looked at

AllKeys == {"base", "audio", "hints", "speach", "music", "timer", "attempts"}

ASSUME KeysAssumption == {"audio", "music", "attempts"} \subseteq Keys /\ Keys \subseteq AllKeys

VARIABLES
    shown,      \* off<key>
    on,         \* onstatus<key>
    wiped       \* history: an account was deleted and none registered since

settings == <<shown, on, wiped>>

SettingsInit ==
    /\ shown = [k \in Keys |-> FALSE] /\ on = [k \in Keys |-> FALSE]
    /\ wiped = FALSE

\* Mutant of switchAction: the status is not stored.
switchActionShown(k) ==
    /\ shown' = [shown EXCEPT ![k] = ~@] /\ UNCHANGED <<on, wiped>>

\* The player turns what the switch shows.
switchAction(k) ==
    /\ shown' = [shown EXCEPT ![k] = ~@]
    /\ on' = [on EXCEPT ![k] = ~shown[k]]
    /\ UNCHANGED wiped

\* Deleting an account leaves the status of the timer and of the attempts.
Reset == {"base", "audio", "hints", "speach", "music"}

\* Mutant of ResetSettings: the keys are removed and not cleared.
ResetSettingsRemoved ==
    /\ shown' = [k \in Keys \ Reset |-> FALSE]
    /\ on' = [k \in Keys |-> on[k] /\ k \notin Reset]
    /\ wiped' = TRUE

ResetSettings ==
    /\ shown' = [k \in Keys |-> FALSE]
    /\ on' = [k \in Keys |-> on[k] /\ k \notin Reset]
    /\ wiped' = TRUE

Register ==
    /\ shown' = [k \in Keys |-> FALSE] /\ on' = [k \in Keys |-> FALSE]
    /\ wiped' = FALSE

SettingsTypeOK ==
    shown \in [Keys -> BOOLEAN] /\ on \in [Keys -> BOOLEAN] /\ wiped \in BOOLEAN

\* A switch shows what the application reads; the exception is the timer and
\* the attempts after an account was deleted, which ResetSettings shows as
\* switched off and leaves on.
SwitchesTruthful ==
    \A k \in Keys : shown[k] # on[k] => k \in {"timer", "attempts"} /\ wiped /\ on[k]
=============================================================================
