--------------------------- MODULE MCCloudProfile ---------------------------
(* CloudProfile with categories that all start from one command.             *)
EXTENDS CloudProfile, TLC

CONSTANTS planet, star

MCDefault == [c \in Categories |-> planet]

\* Accounts are interchangeable.
Players == Permutations(Accounts)
=============================================================================
