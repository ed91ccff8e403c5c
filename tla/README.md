# iQuiz X: a TLA+ model of the quiz

iQuiz X is an iOS quiz application (Swift, Firebase): a player answers the
twenty questions of a category by touching a button, by speaking, or by
photographing a written number, against a timer, with a few wrong answers
allowed and a few hints. This directory holds TLA+ specifications of its core
logic, TLC configurations that check them on small instances, and proofs, by
TLAPS, that what matters most holds for every value of the constants.

The application's own code is `src/QUIZ/QUIZ` (156 Swift files); `src/QUIZ/Pods`
is vendored. There are no tests, so what the code promises is taken from its
comments, its labels and the feature list of `src/readme.md`.

## Inventory

| component | state | operations | interacts with | what is hard | what makes it correct |
|---|---|---|---|---|---|
| **Quiz session** `QuizBaseViewModel`, `QuizBaseViewController` | question number, two scores, answer counters, attempts, hints, last recognised answer, timer, texts on the buttons | tap, voice and photo answers, hint, skip, tick, redraw, results request | cloud write after each answer, speech, camera, music, results, pause | one **static** view model per category lives through all games; redraws 0.1 s or 0.2 s late, photo check 2 s late, results asynchronous, timer never stopped | the books agree with each other and with the cloud, games end, the player is judged on what is drawn |
| **Intro, pause and results screens** | the window's root, what is presented, delayed navigation | start, pause, resume, restart, exit | change the view model from outside | delayed blocks compete for one window | no navigation acts for a screen that is gone; a restart starts afresh |
| **Cloud profile** `FirebaseManager` | one Firestore document per user: a record per category, `lastquiz`, achievements | write game, load category, load last game, save voice command, delete account | quiz, lists, settings, leaderboard | asynchronous read-modify-write of whole records, several writers | a best score is never lowered, fields are not lost |
| **Home screen with voice commands** `QuizTabBarController` | selected tab, microphone on or off, countdowns | dispatch of a recognised text, delayed restarts of recognition | speech, categories list, news | partial transcriptions arrive in bursts; restarts outlive the switch | the microphone follows its button; one command starts one quiz |
| **Speech and audio services** | tap on the audio input, recognition task, player | start, cancel, play, stop | quiz and home screen share the device | delayed starts after cancels | one tap at a time; music stays off once switched off |
| **Lists** (categories, sections, tasks, achievements) | arrays filled by asynchronous loads | load, refresh | cloud | a refresh empties an array that loads in flight index | no load writes out of range; the list comes back |
| **Custom voice commands** | command per category, in the cloud record | edit, save, reset | cloud, home screen | read-modify-write | saving a command loses nothing else |
| **Settings** | `UserDefaults` switches, flags copied into view models | toggle, reset | quiz | flags are copied once and only ever cleared | the quiz obeys the switches |
| **Start, daily quiz, splash** | `index`, `saveddate` | draw the quiz of the day, open the application | tab bar | one key used for two purposes | the same quiz all day, another one the next |
| **Leaderboard** | list of players | observe, reload | cloud | overlapping loads | the last list shown is the newest |
| **News and event bus** | subscriptions, articles | subscribe, publish, fetch | network | answers out of order | the articles belong to the category chosen |
| **Login, registration** | forms | sign in, register, biometric and voice password | Firebase Auth | external outcome | a user has a document |
| **Onboarding, wallpapers, statistics, details, cells** | none that outlives a screen | presentation | | | not modelled |

## Modules

| module | models | status |
|---|---|---|
| `QuizSession` | the quiz session and the intro, pause and results screens around it | done |
| `GameLedger` | what a category promises about its books; abstract specification that `QuizSession` implements | done |
| `MCQuizSession` | constants of `QuizSession` for TLC | done |
| `QuizSessionProofs` | theorems about `QuizSession` | done |
| `CloudProfile` | the users' documents, their writers and readers, with accounts, custom voice commands and the achievement | done |
| `MCCloudProfile` | constants of `CloudProfile` for TLC | done |
| `CloudProfileProofs` | theorems about `CloudProfile` | done |
| `HomeVoice` | the start screen with the quiz of the day; the home screen: tabs, microphone, command dispatch, countdowns, scores | done |
| `Settings` | the two keys of every switch, and what writes them | done |
| `MediaSession` | recognition, camera and theme inside a quiz, as the settings say; extends `Settings` | done |
| `CategoriesList`, `PlayersLeague`, `NewsFeed` | the lists of the home screen | done |
| `HomeLists` | the three lists together | done |
| `MCHomeVoice`, `MCMediaSession`, `MCHomeLists` | their constants for TLC | done |
| `HomeVoiceProofs`, `MediaSessionProofs`, `HomeListsProofs` | theorems about them | done |
| `PlayersLeagueProofs` | what the league's sorting yields; `HomeListsProofs` extends it | done |

`MediaSession` takes any answer where `QuizSession` says which one is right, so
that what it shows holds for every game. Not written: `Settings` as the source of `QuizSession`'s
constants `TimerOn` and `AttemptsOn` (they are fixed while a quiz is open), and
the sections, tasks and achievements lists.

## How QuizSession corresponds to the code

Everything runs on the main thread, one callback at a time, so a handler is one
action and the interleaving is that of callbacks. `Player` is what a player
does; `Callback` is what the run loop does.

| state | code |
|---|---|
| `questionNumber`, `score`, `counter`, `CorrectAnswersCounter`, `UnCorrectAnswersCounter`, `AttemptsCounter`, `AnswersCounter` (hints), `check2`, `seconds` | fields of the same names |
| `timer` | `timer` is valid |
| `shown`, `titles` | the question last drawn and the set of texts left on the three buttons |
| `updateSoon`, `updateLoose` | scheduled `updateUI` calls: after a tap or a timeout (due before the restarted timer can fire), and after a voice, photo or full-score answer (no order with the next tick) |
| `photoCheck` | `CheckPhotoAnswer` scheduled by `recognizeText` |
| `totalRequested` | the block queued by `PresentTotalScreen` |
| `nav` | delayed navigation: `restart` and `exit` of the pause sheet, `quizExit` of the voice command |
| `screen` | the window's root, or the pause sheet or camera over the quiz |
| `saved` | the counters as last written by `write`, in the category's record and in `lastquiz` |
| `games` | how many quiz screens were opened (history, bounds the state) |

`checkAnswer` adds to `score` and returns; `answerSelected` is split into
`TapRight`, `TapWrong` and `TapFull` (a right answer with 100 points: neither
branch of the handler runs, yet it saves and moves on); voice and photo answers
share `Judge` because their two handlers differ only in sounds and labels.
Judged wrong by voice or photo, the question stays; touched wrong, it moves on.
A button may be touched while its title is stale or blank, so `answerSelected`
picks from `titles`, not from the choices of the question asked.

Abstracted: questions and answers are the constants `Choices` and `Answer`;
difficulty (60, 30 or 15 seconds) is one `Limit`; labels, colours, sounds,
music and comments are left out, and so are failures of the cloud write, which
the code only logs. Delays are kept as order: `updateSoon = 0` in the guard of
`timerClass` is the 0.2 s (0.1 s) redraw against the one-second timer; all other
delayed callbacks may come at any later time, so what is proved does not rest on
their delays. The code closes the microphone when the quiz disappears and
reopens it 1.5 s after each answer and most commands, so a start that fires after the quiz was
covered or left has it open on the camera, results, intro or home screen, where
words are still judged: once a quiz was opened `Listening` holds on every
screen. `MediaSession` keeps account of whether the microphone is open; here it may be, so that what is
checked holds for every time at which it could.
Gestures are not modelled as a way to answer: `beginSession` removes every
input of the camera session right after adding it, so no frame is ever
classified.

## How CloudProfile corresponds to the code

The device is one sequence of callbacks again; the cloud answers at any later
time, in any order. `Player` is what the player does, `Cloud` are the replies.

| state | code |
|---|---|
| `user`, `registered` | `Auth.auth().currentUser`, the accounts Auth knows |
| `screen` | the login, splash, home and quiz screens (results, intro and settings go with their neighbours) |
| `playing`, `held` | the quiz screen's `category` and the `voiceCommand` of the copy of it that the view model writes back |
| `list` | the `voiceCommand`s in the `quizcategories` array of the screen the player chooses from (home and the categories list fill one each, in the same way) |
| `counters` | `counter` and `CorrectAnswersCounter` of the static view model of each category |
| `saves` | `SaveCustomVoiceCommand` calls, before (`seen = None`) and after the read of the record |
| `deleting` | `DeleteAccount`: the user's deletion asked for, done, then the document's |
| `docs`, `record`, `lastquiz`, `achievement` | Firestore: which documents exist, and their fields |
| `chosen`, `won` | history: the commands a player saved, the right answers a player gave |

`setData` (registration) replaces a document, `updateData` replaces one field of
a document that exists and fails otherwise, which the code only logs. A record
has two layouts: the quiz writes `bestscore`, and saving a voice command writes
what it read back under `score`; a field that is absent is `None`.
`LoadQuizCategoriesData` and its siblings call their completion only when the
field they look for is there, hence the guards of `LeaveSplash`, `RestartQuiz`,
`LoadCategory` and `ReadForSave`. A view model keeps the account of its
creation (`email` of its `FirebaseManager`), while writes go to the account
signed in: a save carries its account along, and the achievement is looked up in
`owner`'s document, any account's. The view models are static and survive a
change of account, so `counters` does; closing the application clears them.

Abstracted: a right answer adds five points, any other answer only saves the
game (`QuizSession` has the answers in detail); fields that nothing else depends
on (icon, date, music, wrong answers, `complete`) are left out. The read before
the achievement is taken at once: the only effect of its delay would be an
achievement written with later points. Single requests do not fail, except the
deletion of a user, which Auth may refuse; being closed in the middle of a
deletion may have either outcome.

## How HomeVoice corresponds to the code

| state | code |
|---|---|
| `index`, `today` | the key `index`; `saveddate` is the current date |
| `shown`, `going` | `StartViewController.randomindex`, read before the draw; the buttons pressed |
| `window`, `home` | the window's root, and which home screen it is: each return makes a new one, the old ones stay alive with what they scheduled |
| `on`, `tap` | `isStart`; the tap on the input bus, which runs as long as recognition |
| `restarts`, `heard` | `startRecognize` one second after a command; results queued on the main queue |
| `tab` | `selectedIndex` |
| `countdowns` | the six-second timers and the `GoToStart` blocks they end in, by category |
| `loads`, `timers`, `seconds` | scores asked for, the timers that show them, the counter they share |
| `hasty`, `covered`, `twice`, `fresh`, `tabbed`, `drawn`, `opened` | history and observations for the properties |

A text is the set of words the switch looks for, so that `Case` is the order of
the switch; partial transcriptions make the recogniser report anything at any
time while a tap is installed. Delayed blocks run in any order: no property
rests on one second being shorter than two. `startRecognize` where a tap is
installed raises an exception, and the process ends (`Crash`). A home screen that another
root replaced, or a full-screen one covers, is in no window. An index outside the five tabs is
resolved by UIKit to some tab (`OpenHome`). The cases after the one for any
text (music, settings and others, lines 323 to 390) can never run and are left out; so
are the score timers of homes that were replaced. Signing out is in
`CloudProfile`.

## How Settings and MediaSession correspond to the code

`shown` and `on` are `off<key>` and `onstatus<key>` of `UserDefaults`. Eight
switch cells run the same code on different keys, of which `switchAction` is
the translation. Seven are modelled; the eighth, for Face ID and Touch ID, is left
out: registration and `ResetSettings` do not touch its keys, and only the login
screen reads `onstatusbiometric`, for its own button. `screen` says whether the quiz is in a window: the camera covers
the whole screen and makes the quiz disappear, the pause screen is a sheet and
does not. `audio` is `isRecordOnAudio`, read once as the static view model is
made; `status` are the flags that `checkMusicSetting` and its siblings read again with
every quiz, and only ever clear. `starts`, `closes`, `themes`, `totals`,
`exits` and `leaving` count blocks that are scheduled, by what they will do, and
run in any order; `sound` is what the one player plays.

One category's view model is looked at: the others share nothing with it but the settings and the
microphone of another quiz, which is another audio engine. Whether an answer
is right, the last one or the last attempt is any choice (`Judge`); which branch is
taken does not matter to sound and recognition beyond that. A
recognition request that was ended may be given to a new task: the recogniser decides, so a tap
may hear or not. A photo always has an edited image, since the
picker allows editing. The flag of the attempts is read at launch and only
removes a label, so it is not among `Checked`. The gesture session is left out
(see above). `checkMusicSetting` lists the categories 1 to 17 of 19: `Listed` says
whether the category is among them, and in a category that is not, the theme
plays although the music is off. The run is for a listed one, the theorems for both; `MusicOff`
is stated for the listed ones.

## How the lists correspond to the code

The three lists share the main queue and nothing else, so a behaviour of
`HomeLists` visits one of them; a new visit is a new instance.

`CategoriesList`: `listed` says whether `quizcategories` still has its elements;
`emptying` and `loading` are the blocks of `refresh` and `ShowLoading`, and since
the first is queued at once and the second two seconds later, a load
waits for the emptying of its refresh (`loading > emptying`). The four
assignments of `configure` count as one reload, they run in one block. The
detail screen covers the list and is the only one presented: the list cannot be
tapped under it and a second presentation is refused. Emptied, the list
is never filled again: `LoadCategoriesResults` runs over the emptied array.

`PlayersLeague`: `cloud` is what Firestore on the device knows. While a
listener is active, queries are answered from its view, so an answer is never older than the
one before, and snapshots that are due may come as one. This is an assumption about Firestore:
were loads to complete in another order, an older list could be shown last, and
`LeagueCurrent` could not tell. The
listener's block runs for an error too, after which it never runs again. Every
document makes `LoadPlayers` complete once, with the players so far: the league is shown
growing, and a tap in between may open somebody else.

`NewsFeed`: of the articles only their topic is kept. Alamofire completes on
the main queue, where the event is queued for its subscribers and the title is
set in one step. The bus keeps every subscription, so the requests of the home
screen's own view model and of earlier screens reach the screen that is shown,
without its title. `APIService` never calls its completion with an error, so
the failure branch of `GetNews` cannot run; the dice never draw the last topic (`Undrawn`).

## What the runs check

| run | instance | result |
|---|---|---|
| `quiz_safety` | three questions, two games, touch, voice and camera, one attempt, two redraws of each kind in flight | all safety properties and the implementation of `GameLedger` hold (2.9 million states) |
| `quiz_liveness` | two questions, one game, touch and voice, one hint, fair callbacks | a game not restarted ends; hints are harmless (0.7 million states) |
| `quiz_pause_score` | two questions, two games, touch | **violated**: the pause screen shows more than the maximum "out of 100" |
| `quiz_restart` | two questions, two games, touch | **violated**: "restart the quiz" keeps the points of the game before |
| `cloud_safety` | two accounts, one category, two commands, one save in flight | all properties below hold (2.5 million states) |
| `home_safety` | two home screens, five texts, two categories, three blocks pending | all properties hold (0.9 million states) |
| `media_safety` | audio, music and attempts switches, three blocks pending | all properties hold (3.5 million states) |
| `lists_safety` | two categories and two refreshes; two documents and two loads; three topics | all properties hold (4.9 million states) |
| `cloud_login` | one account, fair replies | **violated**: a player registered with a name who comes back before a first answer stays on the splash screen, no account being deleted |
| `cloud_command` | one account | **violated**: the next answer undoes the player's own voice command |
| `cloud_achievement` | one account | **violated**: 100 points in Astronomy do not earn the achievement |
| `cloud_best` | one account | **violated**: the "best score" goes down after a relaunch |

The safety properties of the quiz:

- `ScoreConsistent`, `WrongAnswersPaid`, `SavedMatchesGame`, `KeepsLedger`: the
  books. Five handlers change them, three of them may run in the 0.2 s in which
  the buttons still show the previous question.
- `AttemptsRespected`, `LastQuestionEnds`: every way of losing an attempt or
  passing the last question asks for the results.
- `CreditMovesOn`: no question is credited twice, even when a photo is judged
  two seconds after a voice answer to the same question.
- `DisplayFresh`, `TimeoutOnlyOnShown`, `HintKeepsAnswer`: what the player sees.
  They name the exceptions the code has (a restart from the pause screen does
  not redraw; voice, photo and full-score answers do not restart the timer).

The properties of the cloud profile:

- `CommandsOwn`: a save outlives its session, a list may be filled while another
  quiz is open, and the next account's player may be in; still no document gets a command
  of somebody else. It rests on lists being rebuilt with every home screen and
  on a save keeping the account it began with.
- `RecordConsistent`: points and right answers agree in every record, and the key
  `score`, which every reader of a category looks for, never holds points (so
  the sections list never counts a category as complete).
- `PointsEarned`: through relaunches, deletions and stale saves no record gains
  right answers. It leaves out categories in which another account has scored
  on the device, because there the code does save foreign points.
- `OnlyRegistrationCreates`: a game or a save that arrives after the account was deleted
  does not bring its document back.

The properties of the home screen:

- `SilentWhenOff`, `ListensWhileOn`: a command cancels recognition and starts it a
  second later; between the two the player may press the button, leave, or be heard
  again. The exceptions are the code's: restarts that overlapped (`hasty`), and
  a home that was covered while its button was on, which comes back deaf.
- `CrashNeedsOverlap`: nothing but those overlaps installs a second tap.
- `OneQuizAtATime`: several countdowns end in several `GoToStart` blocks; the
  window guard lets one through.
- `TabStored`, `DailyQuizKept`: the key `index` is the selected tab and the quiz of
  the day. It keeps both meanings only until the first tab is selected; what
  holds without exception is that it points into the array of categories (`TypeOK`), which the start
  screen indexes without a check.
- `ScoreTimerStops`: a timer that runs alone reaches zero. Two that run at once miss it.

The properties of a quiz's sound and hearing:

- `SilentOutside`, `VoiceStaysOn`, `MicNeedsSetting`, `CrashNeedsOverlap`: the
  microphone through answers, commands, camera, pause and results. The
  exceptions: starts pending as the screen changes, a restart pressed on the
  pause sheet (it cancels two seconds before it acts), and a picker that was
  closed, which starts recognition whatever the setting.
- `SwitchesTruthful`, `OffHonoured`, `MusicOff`, `ThemeEnds`: from the switch to
  the key, the flag, and the theme that every answer restarts a second later.
  Exceptions: the timer and the attempts after an account was deleted (`ResetSettings` does
  not clear their status), the music asked for by voice, settings reset while a quiz is open, and
  blocks that start the theme after the quiz was left.

The properties of the lists:

- `OverrunNeedsRefresh`: elements are written by index, rows are read by index,
  and a refresh empties the array; only results that were on the way when it did
  write out of range.
- `DetailOfTapped`, `OpensTapped`: what a delayed tap opens.
- `LeagueCurrent`, `TitleOfNews`: whatever overlapped, what is shown settles to
  the truth. An empty collection is the exception, `LoadPlayers` says nothing of it.

Bounds of the home screen. Two home screens are one that was replaced and its
successor; three pending blocks are two restarts and a text, or a countdown, a
load and a timer. Five categories are the least for which the tabs index the array; two are named, by
one text, so that two countdowns start at once. Bounds of
`MediaSession`. Two starts and a text, or a cancelled picker, a photo and a
theme; the music and audio switches are the ones the quiz acts on, the attempts the one
`ResetSettings` forgets. Bounds of the lists. Two refreshes and the first
load; two documents have a first and a second place, and players that come and
go between them; two loads, three lists queued; of three topics one is the
headlines and one is never drawn; two requests of each topic. In `home_safety`
and `media_safety` deadlock is checked and there is none: the player can always
leave. A crashed list stops, so `lists_safety` does not check it.

Bounds of the quiz. `LastQuestion = 2` gives a first, a middle and a last question.
`InitAttempts = 1` lets the attempts run out before the questions do, and the
other way round. `MaxGames = 2` is needed for what one game leaves to the next
(full score, spent attempts, ticks of the old timer). `MaxScheduled = 2` allows
a second tap before the first redraw. Hints only touch the titles of the buttons, so
they are left to the smaller run. `MaxOverdraft = 1` lets the attempts fall
below zero once, which is where they stop being tested. `MaxShownScore`
bounds the points that a full-score answer goes on adding. `Limit = 3` leaves a
tick between the restart of the timer and its end. The bounds on games, redraws, overdraft
and score stop the system, so deadlock is not checked.

Bounds of the cloud profile. Two accounts are what foreign commands and points need; one
category, since every operation but the deletion of a document is about one
category and the theorems cover any number; `Commands` has the category's own and a chosen one.
`MaxScore = 5` makes one right answer the full score. `Requests = {r1}` lets a
save be overtaken by games, sign-outs, deletions and registrations; `MaxWon = 1`
follows one right answer for each account. One account is deleted at a time.
The application never stops by itself, but deadlock is not what these runs are
about and is not checked.

Fairness (`FairSpec` of `CloudProfile`): every reply of the cloud arrives, the
splash screen's delayed blocks run; the player may do nothing. `cloud_login`
fails although all of it is granted. `LoginGetsIn` sets aside behaviours in which an
account is deleted and accounts registered without a name: a counterexample is a player
with a document who has answered nothing.

Fairness (`FairSpec` of `QuizSession`): weak fairness of each callback, because the run loop runs
every timer and every block that is due; none of the player's actions, because the player may put the
phone down. `FirstGameEnds` leaves out games in which restart is pressed on
the pause screen (pressed for ever, it keeps the quiz at its first question) and the
camera: opened at the right moment it takes the quiz out of the window, and
`PresentTotalScreen` then gives up silently.

Several properties name an exception that is exactly a failure of the code: a right
answer with a full score (`LastQuestionEnds`), starts pending as the microphone is
switched off or the screen changes (`SilentWhenOff`, `SilentOutside`), a theme started after
leaving (`ThemeEnds`), a refresh with results on the way (`OverrunNeedsRefresh`),
a tab selected over the quiz of the day (`DailyQuizKept`), points of another
account (`PointsEarned`), two score timers at once (`ScoreTimerStops`), a
league shown again under a tap (`OpensTapped`). For these they show that nothing else
goes wrong, not that the exception does not.

Each property has a mutant: a definition marked "Mutant of" in its module,
which changes one definition the way a plausible bug would. With the mutant in
place TLC finds the property violated. Mutants are used by nothing else.

## What is proved

`QuizSessionProofs` proves, for all constants that satisfy `QuizAssumption`
(any number of questions and choices, any limits and bounds, any of the three
ways of answering): type correctness, all the safety invariants and all the
action properties of the runs, and that the quiz implements `GameLedger`
(`QuizKeepsLedger`).

`TypeOK` is inductive with one strengthening that it carries: `restart` and
`exit` of the pause sheet are pending only while the sheet is there, because
the sheet's view is gone afterwards and its blocks find no window. From it, each
invariant is inductive or becomes so:

- `ScoreConsistent`: `counter` is a multiple of `Points` below `MaxScore` when
  it grows, so it does not jump over it; this needs `MaxScore` to be a multiple
  of `Points`, which `QuizAssumption` states (100 and 5 in the code).
- `DisplayFresh` and `HintKeepsAnswer` are inductive only together (`DisplayInv`):
  a restart makes the first question the one asked without drawing anything,
  and it is `DisplayFresh` that excludes that another question's hint was still on the
  buttons with no redraw pending.
- `SavedMatchesGame` and `WrongAnswersPaid` follow from the steps of the ledger; the
  action properties are proved action by action.
- `QuizKeepsLedger`: `TapRight` and `JudgeRight` are `Win`, `TapWrong` and
  `JudgeWrong` are `Lose`, `Timeout` is `Expire`, `TapFull` is `SaveAgain`, and
  everything else stutters.

`CloudProfileProofs` proves, for all constants that satisfy `CloudAssumption` (any accounts,
categories, commands and number of saves in flight), all the properties of
`cloud_safety`:

- `TypeOK` is inductive; that there is a user outside the login screen is part
  of it.
- `RecordConsistent` needs the same of what saves have read (`ReadsSound`) and
  that the view models count points and right answers together (`CountersSound`).
- `CommandsOwn` needs that the list is the static one whenever nobody is on the home
  screen (`ListOwn`), which is what keeps it from passing on to the next
  account, and that the quiz (`HeldOwn`) and the saves (`SavesOwn`) hold commands of
  their account. `ChosenGrows` keeps all of them true.
- `PointsEarned` needs the same bound for the view models and the saves
  (`PointsInv`): the answer that would break it for somebody else also ends that
  account's being alone in the category.
- `OnlyRegistrationCreates` follows action by action.

`HomeVoiceProofs` proves, for all constants that satisfy `HomeAssumption` (any number
of categories, of home screens and of pending blocks, any texts), all the properties
of `home_safety`. `TypeOK` is inductive. `MicInv` strengthens the two properties of the microphone: as
long as nothing overlapped on it, a home has no restart pending or just one and no tap, and
a home that is off or out of sight has neither. `TabInv` is `TabStored` carried over to a
home that is covered; `DailyInv` that the index is the one drawn until a
tab is stored; `ScoreInv` that the counter belongs to the timer that runs alone.

`MediaSessionProofs` proves, for any keys, any bound and `Listed` either way,
all the properties of `media_safety`. `MicInv` joins three facts that only hold together: nothing
is pending outside the quiz unless it was hasty (`Quiet`), nothing without the setting until a picker is closed, and a tap or a start in a quiz that listens. `SoundInv` does the
same for the theme: a status that is on is on in the settings, a theme that
plays with the music off was asked for, one that plays outside is stray. That
`SwitchesTruthful` holds follows from `Settings` alone.

`PlayersLeagueProofs` proves what `players.sort` is there for. `Sorted` puts every element at
the position that counts the elements up to it, so that no induction over the
list is needed: in an order, positions grow from an element to a later one (`Positions`), so they
are an injection from a finite set to as many numbers, which is onto
(`Placed`). Hence `RankingSorted` (each player once, nobody above somebody
better) and `LoadEndsComplete` (one list for each document, the last one of all the players), for
any documents and scores.

`HomeListsProofs` proves all the properties of `lists_safety`, for any categories, documents,
topics and bounds. For `OverrunNeedsRefresh` and `DetailOfTapped` a selected row is listed
and is the one tapped last, and an emptied list has results on the way only if
it was overtaken; for `OpensTapped` the row of a tap that
nothing moved still holds its player; for `TitleOfNews` the last event queued is the title's topic.
`LeagueCurrent` is inductive as `LeagueInv`, which speaks of the list queued last where
there is one: the last load to be answered queued it, and a change since then
would have a snapshot due. `LeagueRanked` adds what holds before the league has settled.

Where a claim of the application fails, the violation shows one way; the theorems show
that there is no other, or that there is no way around it:

- `PauseScoreWithoutRestart`: the pause screen's score is out of 100 as long as nobody
  restarts from that screen and the score is not full. `ScoreBehind`, the score is at most five for
  each question passed, is inductive under exactly these two conditions.
- `NothingEverGivenBack`: points, attempts and hints of a category never come back, by
  no restart of either screen, because all its games share one view model.
- `AchievementNeverEarned`: the achievement is written only over an achievement, so
  no account ever has one. `SplashForEver`: whoever is on the splash screen without a last
  quiz stays there, through relaunches and whatever the cloud answers.
- `BestScoreWithoutRelaunch`: only a relaunch lowers the best score of the last quiz, since the last
  quiz is never ahead of the view model that outlives accounts. `LossOnlyByStaleSave`:
  likewise, and a category's record then loses right answers only to the
  save of a voice command that a game has overtaken.
- `CommandAlwaysFollows`: a stored command changes only by a save of its account for
  its category, or by an answer in it, which writes the command the quiz was opened with.
- `OffForTheLaunch`, `ThemeOnlyByVoice`: a setting that one quiz found off is off in all
  later quizzes of the launch, although its switch is on again; a theme silenced
  in this way comes back only when it is asked for by voice.

The hypotheses `[][~Relaunch]_vars` and `[][~restart /\ counter < MaxScore]_vars` only leave out
the steps they name; what happens without them, `quiz_pause_score` and `cloud_best` show.

Only model-checked: `FirstGameEnds`, since liveness under fairness is not
treated by the prover here, and the violations, which are counterexamples.
The proofs are for the specification without the instance's small sizes; the bounds
(`MaxGames` and the like) are arbitrary constants in them.

## What is not modelled

See the components of `PROJECT.json` for the reasons; in short:

- the frameworks (Firestore, Auth, AVFoundation, Vision, Speech, Alamofire)
  beyond how the code uses them, and all of `src/QUIZ/Pods`, which is vendored. It holds more than nine tenths of the
  lines of the repository and none of the application's logic, so that
  the share of all lines modelled is small, whatever part of the
  application is: the map covers the Swift code of the quiz, cloud, home
  screen, settings and lists;
- the sections, tasks and achievements lists: each loads once per visit into
  counters of its own, from the records that `CloudProfile` has;
- gestures, which the code cannot recognise (see above), and the cases of the
  home screen's switch that cannot be reached;
- forms, biometric and voice passwords, which end in the same sign-in, and the
  settings' biometric switch;
- wallpapers, onboarding, statistics, cells, animations, labels and spoken
  comments: no state that outlives a screen.
