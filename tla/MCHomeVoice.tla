----------------------------- MODULE MCHomeVoice -----------------------------
(* Constants of HomeVoice for TLC. *)
EXTENDS HomeVoice

Text(says, names, found) == [says |-> says, names |-> names, found |-> found]

\* A tab, the same words meaning a search on the news tab, a score, the last
\* category, and two categories named at once.
MCTexts ==
    {Text({"search", "news"}, {}, 0), Text({"search"}, {}, 2),
     Text({"category", "last"}, {}, 0),
     Text({"category", "score"}, {1}, 0), Text({}, {1, 2}, 0)}
MCDraws == {3}
MCTouched == {4}
MCNamed == {1, 2}
=============================================================================
