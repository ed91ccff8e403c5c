------------------------------- MODULE NewsFeed -------------------------------
(***************************************************************************)
(* The news: whoever asks for articles has them published on the bus, to   *)
(* the news screen of every home that was made, and only the screen's own  *)
(* view model sets its title.  A voice search asks through the view model  *)
(* of the home; a screen that was replaced may still be waiting.           *)
(***************************************************************************)
EXTENDS Integers, Sequences

CONSTANTS
    Topics,         \* NewsCategories.categories
    Headlines, Undrawn, \* the topic a screen starts with; the one never drawn
    NoTopic,        \* nothing shown yet
    MaxFetches      \* bound: requests and events on their way

ASSUME NewsAssumption ==
    Headlines \in Topics /\ Undrawn \in Topics /\ NoTopic \notin Topics /\ MaxFetches \in Nat

VARIABLES
    asking,         \* requests of the screen that are not answered, by topic
    elsewhere,      \* those of the home and of earlier screens
    events,         \* published and queued for the screen
    news,           \* the topic of the articles shown
    title,          \* the topic of the title
    \* history
    foreign         \* the last answer was to a request from elsewhere

newsVars == <<asking, elsewhere, events, news, title, foreign>>

NewsInit ==
    /\ asking = [t \in Topics |-> IF t = Headlines THEN 1 ELSE 0]
    /\ elsewhere = [t \in Topics |-> 0]
    /\ events = <<>> /\ news = NoTopic /\ title = NoTopic /\ foreign = FALSE

\* APIService: the answer comes later, if it can be read at all.
\* Bound: MaxFetches.
GetNews(t) ==
    /\ asking[t] < MaxFetches /\ asking' = [asking EXCEPT ![t] = @ + 1]
    /\ UNCHANGED <<elsewhere, events, news, title, foreign>>

SelectNewsCategory == \E t \in Topics : GetNews(t)

GenerateRandomNews == \E t \in Topics \ {Undrawn} : GetNews(t)

refreshNews == GetNews(Headlines)

\* Bound: MaxFetches.
SearchNews ==
    /\ \E t \in Topics :
           elsewhere[t] < MaxFetches /\ elsewhere' = [elsewhere EXCEPT ![t] = @ + 1]
    /\ UNCHANGED <<asking, events, news, title, foreign>>

\* An answer is published to the queue of the screen and then sets its title.
\* Bound: MaxFetches.
publish(t) ==
    /\ asking[t] > 0 /\ asking' = [asking EXCEPT ![t] = @ - 1]
    /\ Len(events) < MaxFetches /\ events' = Append(events, t)
    /\ title' = t /\ foreign' = FALSE
    /\ UNCHANGED <<elsewhere, news>>

\* The title has no handler elsewhere.  Bound: MaxFetches.
publishElsewhere(t) ==
    /\ elsewhere[t] > 0 /\ elsewhere' = [elsewhere EXCEPT ![t] = @ - 1]
    /\ Len(events) < MaxFetches /\ events' = Append(events, t)
    /\ foreign' = TRUE
    /\ UNCHANGED <<asking, news, title>>

\* Mutant of NoNews: the answer of a request is dropped twice.
NoNewsTwice(t) ==
    /\ asking' = [asking EXCEPT ![t] = @ - 1]
    /\ UNCHANGED <<elsewhere, events, news, title, foreign>>

\* An answer without data, or that is no list of articles, calls nobody.
NoNews(t) ==
    /\ \/ asking[t] > 0 /\ asking' = [asking EXCEPT ![t] = @ - 1] /\ UNCHANGED elsewhere
       \/ elsewhere[t] > 0 /\ elsewhere' = [elsewhere EXCEPT ![t] = @ - 1] /\ UNCHANGED asking
    /\ UNCHANGED <<events, news, title, foreign>>

\* Mutant of ShowNews: the bus calls the subscriber on a global queue.
ShowNewsGlobal ==
    /\ \E i \in 1..Len(events) :
           news' = events[i] /\ events' = SubSeq(events, 1, i - 1) \o SubSeq(events, i + 1, Len(events))
    /\ UNCHANGED <<asking, elsewhere, title, foreign>>

ShowNews ==
    /\ events # <<>> /\ news' = Head(events) /\ events' = Tail(events)
    /\ UNCHANGED <<asking, elsewhere, title, foreign>>

\* A new home makes a new screen; the requests of the old one are still
\* published, and to both.  Bound: MaxFetches.
ReplaceScreen ==
    /\ \A t \in Topics : elsewhere[t] + asking[t] <= MaxFetches
    /\ elsewhere' = [t \in Topics |-> elsewhere[t] + asking[t]]
    /\ asking' = [t \in Topics |-> IF t = Headlines THEN 1 ELSE 0]
    /\ events' = <<>> /\ news' = NoTopic /\ title' = NoTopic /\ foreign' = FALSE

NewsNext ==
    \/ SelectNewsCategory \/ GenerateRandomNews \/ refreshNews \/ SearchNews \/ ShowNews
    \/ ReplaceScreen
    \/ \E t \in Topics : publish(t) \/ publishElsewhere(t) \/ NoNews(t)

NewsTypeOK ==
    /\ asking \in [Topics -> Nat] /\ elsewhere \in [Topics -> Nat]
    /\ events \in Seq(Topics) /\ news \in Topics \cup {NoTopic}
    /\ title \in Topics \cup {NoTopic} /\ foreign \in BOOLEAN

\* The title names the topic of the articles below it, in whatever order the
\* answers come, unless the last of them was asked for elsewhere.
TitleOfNews ==
    events = <<>> /\ ~foreign => title = news
=============================================================================
