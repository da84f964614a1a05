# tg-linguine: formal model

tg-linguine is a Telegram bot for learning a language: it turns a link into a
simplified article with a word list (an LLM behind the Groq API does the
text), and drills the words in quiz rounds that earn experience points. It is
one Go process over SQLite. Two facts shape everything below.

* The bot library starts **one goroutine per update**, under the context given
  to `Start`. Two presses of one user, even a double click, are handled at the
  same time, and SIGTERM cancels the context of every handler that runs.
* Handlers hold **nothing** across their calls. A repository call is one SQL
  statement or one transaction, a session call is one critical section, and
  Telegram, the extractor and the LLM are called in between. What a handler
  read a moment ago may be stale when it writes.

So the unit of atomicity in every module is: one statement or transaction, one
method under a mutex, one external call. A handler is a program counter per
goroutine, with the locals it carries from one step to the next.

Line numbers are those of the repository; paths are relative to
`src/internal/` unless they say otherwise.

## 1. Inventory

| Component | State | Operations | What makes it correct |
|---|---|---|---|
| Progress (`progress/progress.go`) | a row per user: XP, today's counter and goal flag, streaks, dates | RecordCorrect, RecordWrong, RolloverIfNewDay, Get | the counter is of its date, the flag follows the counter, streaks are runs of days, XP is what was reported |
| Word statuses (`dictionary/`) | a row per user and word: status, streak, counts, updated_at | Upsert, RecordCorrect, RecordWrong, Delete, the counts and pages of the lists | promotion at the threshold, reset on an error |
| Quiz FSM (`session/quiz.go`) | a round per user under one mutex, a TTL of 30 min | Start, Snapshot, RecordAnswer, RecordSkip, End | a card is judged once; cursor and counters agree |
| Study handler (`telegram/handlers/study.go`) | the round's XP, buttons left in the chat | start, answer, next, skip, delete, end, close | the summary tells what happened in the round |
| Decks (`study.go` buildDeck, `dictionary/repo.go`) | a deck under construction | LearningQueue, SampleArticleWords, SampleDistractors | words take turns; a card has one right answer and three that differ |
| Word lists, history (`handlers/mywords.go`, `words.go`, `history.go`) | none; pages and filters in the buttons | open, filter, page, edit, set a status | a page is a page of the list as it is; a word's row opens that word |
| Article pipeline (`articles/usecase.go`) | none; over `articles`, statuses and the pending store | AnalyzeArticle, AnalyzeExtracted, Adapt | one article per user, page and language; blocked pages go nowhere; its words are learned with it or not at all |
| Text splitting (`articles/truncate.go`, `chunk.go`, usecase's mergeWords) | none | cut to a budget, chunks, merge of their words | no request over its budget, no text skipped, no word lost or twice |
| Pending store (`articles/pending_store.go`) | parked long texts, in memory, with a TTL | Put, Take | a parked text is used once, by its owner |
| Article rows (`articles/repo.go`, `article.go`) | articles and a JSON column of adapted versions | Insert, ByUserAndHash, UpdateAdaptedVersions | a generated level stays |
| Rate limiter (`telegram/ratelimit.go`) | a token bucket per user | Allow | a burst, then a rate; the wait it names is enough |
| Screen manager (`screen/`, `storage/active_screen.go`) | a row per chat: the message with the live keyboard | Show, RetireActive | one active screen, and it is on record |
| Start, menu, fallback, close | none; over the screen manager | commands, stray text | a stray text brings the screen back below it |
| Users, languages, keys (`users/`) | users, user_languages, user_api_keys | RegisterUser, Set, Activate, Delete | one active language; nothing passes from one account to the next |
| Onboarding, API-key waiter (`session/`) | two in-memory sessions keyed by Telegram id | start, choose, arm, take, expire | sessions do not outlive their user; the next text is the key |
| Settings, `/delete_me` | none | language, level, erase | rows and sessions go together |
| Groq client (`llm/groq/`) | locals of a call | Analyze, Adapt, ExtractVocab, Summarize, ValidateAPIKey | the nested retries end, and answer with what happened last |
| Bot, main, watchdog (`telegram/bot.go`, `cmd/bot/main.go`, `scripts/`) | in-flight counter, context, processes | signal, drain, panic, admin exit, cron | a process told to stop stops; one instance runs in the end |
| Localisation, logging, configuration, encryption, cards' text, admin statistics | none | pure or I/O | not modelled, see section 8 |

How they meet: the study handler calls the quiz FSM, the status repository and
the progress repository in turn, without a common transaction. The URL handler
asks the rate limiter, then the pipeline; the pipeline calls extractor, LLM,
statuses and articles; the card renderer calls the pipeline's Adapt. All
menu screens go through the screen manager. The word lists and the deck read
the tables the pipeline and the rounds write. `/delete_me` erases the rows of
every component by foreign-key cascade and then the in-memory sessions one by
one. Everything runs under the context main cancels on SIGTERM.

What is hard, and was the reason for each module: read, compute in Go, write
back (Progress, Adapt); a snapshot used after an unlock (the quiz); buttons of
old messages and old rounds, naming pages of lists that have changed since;
two handlers past the same check (pipeline,
screens); midnight, expiry and restarts between two steps; deletion of the
account under a running handler, and a new account of the same person; nested
retries; drain against goroutines counted late or not at all. PROJECT.json lists these
hazards at their lines.

## 2. Modules

| Module | Models | How |
|---|---|---|
| `GoalLedger` | abstract: XP owed for the answers of each day | answers are logged per day; XP is paid per answer, with the bonus once per day |
| `Progress` | the progress repository and an erased account | `Begin` is the call's first statement; `EnsureRow`, `RolloverIfNewDay`, `Get`, `RecordCorrect` are its statements; `StatementFails` returns early; days are numbers and `NextDay` is midnight |
| `ProgressProofs` | theorems about Progress | section 6 |
| `WordStatus` | the status machine of a word | operators from a row to its next row |
| `QuizSession` | a round's value and the FSM's transitions on it | operators `Fresh`, `Answered`, `Skipped`, `Current`, `Done` |
| `Scoreboard` | abstract: what a round promises | a fixed number of cards, each judged once |
| `QuizRound` | study handler over FSM, statuses, progress | a press is a button of any message; one action per call the handler makes; expiry, restart, `/delete_me` and status changes from the word lists interfere |
| `QuizRoundProofs` | theorems about QuizRound | section 6 |
| `Library` | abstract: the shelf of analysed articles | shelve once per reader, page and language, if asked for |
| `ArticlePipeline` | links, parked articles, analysis, storing | the gates in the code's order, one action each; a build's blocklist changes at `Restart` |
| `ArticlePipelineProofs` | theorems about ArticlePipeline | section 6 |
| `TextCut` | TruncateAtParagraph, chunkText, the token estimate | operators on texts of letters, blanks and newlines; a piece of a text is an interval |
| `LongText` | what AnalyzeExtracted does with a long text | one action per call of the LLM; what it was asked is kept in `calls` |
| `ArticleLevels` | cards and Adapt on one article | levels are indexes; the walk over the Go map visits keys in any order |
| `ArticleLevelsProofs` | theorems about ArticleLevels | section 6 |
| `ScreenManager` | Show, RetireActive and their callers, in one chat | every Telegram call and statement is a step, and may fail |
| `ScreenManagerProofs` | theorems about ScreenManager | section 6 |
| `RateLimiter` | Allow | one step per call; time and tokens in ticks, exact |
| `Paging` | how a list is cut into pages | operators |
| `WordTable` | the tables the screens about words share | what other handlers do to them: `Analyse`, `SwitchLanguage`, `Tick` |
| `WordLists` | /mywords, the words of an article, the history | a press is handled in steps, one per statement; a list has a kind and a filter, article or category |
| `Decks` | buildDeck and its queries, and how answering moves a word back | one action per statement; the user then answers card after card |
| `Vocabulary` | the two over the shared tables | composition |
| `WordsProofs` | theorems about LongText, TextCut, Vocabulary and what it composes | section 6 |
| `Accounts` | registration, onboarding, settings, API key, deletion, of one Telegram user | ids grow (AUTOINCREMENT); sessions are keyed by the Telegram id and rows by the user id |
| `AccountsProofs` | theorems about Accounts | section 6 |
| `GroqClient` | one call through its three retry loops | the reply of each request is chosen by `Service`; times are in units of 250 ms |
| `Lifecycle` | processes, handlers in flight, drain, watchdog | handlers run, panic, give up on a cancelled context, or hang; Wait's return and main's are two steps, and a goroutine may be counted between them |
| `ServiceProofs` | theorems about RateLimiter, GroqClient and Lifecycle | section 6 |

`QuizRound` composes `QuizSession` and `WordStatus` (EXTENDS) and abstracts
the progress repository to the XP it reports, one of `Payouts` or nothing;
`Progress` is the same repository in detail. `Progress`, `QuizRound` and
`ArticlePipeline` each instantiate their abstract module under a refinement
mapping and have its specification as a property: `ImplementsGoalLedger`,
`ImplementsScoreboard`, `ImplementsLibrary`.

`WordLists` and `Decks` both extend `WordTable` and `Vocabulary` interleaves
them: a status set in a list changes the next deck, an answer changes the list.
A status row is in two places, by what the properties tell apart: its counters
and their transitions in `WordStatus`, its status and `updated_at` in
`WordTable`. A round is in two places too: `QuizRound` has every interleaving of
presses on its cards and does not care which words they are; `Decks` has which
words and which answers, and plays one card after the other. `writes` counts the
changes of the tables; the properties compare it with what it was at a press
(`asOf`) or when the message was written (`from`). `LongText` is the analysis
of `ArticlePipeline` alone, with its texts.

A module of proofs that covers several components extends them all, so their
own `Init`, `Spec` and the like carry a prefix: `Limiter` (RateLimiter), `Chat`
(GroqClient), `Life` (Lifecycle) and `Words` (Vocabulary).

The definitions keep the names of the source's functions where they can;
"map" in PROJECT.json gives the lines of each. Variables commented "history"
are read by properties and never by a guard.

## 3. Two regimes in one run

Much of this code is right when a user's updates are handled one after the
other, and less is right when they overlap. Both facts are worth knowing, so
the MC modules of the components with handlers add one variable, `lanes`: the
handlers that take part in the behaviour, chosen at the start and never
changed. It is all of them (updates overlap) or one: `Alone` says that `lanes`
is the set of a single handler. A property named `AloneX` is `Alone => X`; every
other property is checked in both regimes. The overlapping regime has smaller bounds (the constants
`Overlap...`), since its state space is larger. `lanes` restricts and records;
it changes no action. The MC modules' `Keeps` states these bounds.

Two MC modules choose otherwise. `MCVocabulary` has five sets of lanes: one
handler on one kind of list at a time; one on all kinds; two on all kinds;
rounds of /study over several seconds; and rounds while the words of an
article are marked. `MCLongText` chooses what a behaviour is `about`: every
text, every summary of one text, or every list of words found in one text.

Handlers, words, users, languages and lemmas are symmetric wherever the cfg says so; no
liveness is checked under symmetry.

## 4. The runs

| Run | Checks | Bounds |
|---|---|---|
| `progress` | overlap: `GoalFlagTracksCount`, `LongestCoversStreak`, `XPIsSumOfAwards`. Alone: `AloneStreakIsRun`, `AloneImplementsGoalLedger` | two callers with 4 calls over 2 days; one caller with 6 calls over 4 days, goal 2. Enough for a goal reached, a streak broken and resumed, a call dated yesterday that ends today, an account erased and back |
| `progress_doubleclick` | violation of `BonusOncePerDay` | two callers, 3 calls, one day |
| `quiz` | overlap: `RoundConsistent`, `XPReportedOnce`, `ImplementsScoreboard`. Alone: `AloneMasteredListTrue`, `AloneRoundXPIsEarned` | two words, deck 2, threshold 2; two handlers with 4 presses, or one with 5. A word can be mastered, a round end and another begin, and stale buttons of the first be pressed |
| `articles` | `BlockedStopsAtGate`, `OnlyAskedFor`, `ParkedOnce`, `LearnedWithArticle`, `ImplementsLibrary` | two users, two pages of which one may be blocked, two languages, a lemma, two handlers, 4 events (links, buttons, settings, statuses, deletions); restarts and expiry are free. A text can be parked in one language and analysed in another, a reply may name a word marked known meanwhile, and two analyses of a page be under way |
| `levels` | `OriginalKept`, `ClosestSource`; alone: `AloneShownUnlessEmpty`, `AloneLevelsOnlyGrow` | all six levels; two handlers with 3 openings, or one with 5 |
| `screen` | alone: `AloneSingleActiveScreen`, `AloneShowDelivers` | three screens and the article card; two handlers with 3 updates and 1 failure, or one with 6 and 2 |
| `rate` | `BurstThenRate`, `WaitIsEnough` | capacity 2, a window that is no multiple of the refill, 7 calls in 14 ticks. Users are independent, so one |
| `accounts` | overlap: `NewAccountIsEmpty`. Alone: `AloneNoSessionOutlivesUser`, `AloneNextTextIsKey` | two languages, two levels, two account ids; two handlers with 4 updates, or one with 5 |
| `groq` | `QuietAfterCancel`, `NoResend`; liveness `CallReturns` | the code's own constants: two backoffs, four attempts, 60 s, 0.75 s. The hints: none, the tests' value, one above the clamp |
| `lifecycle` | `CleanDrainCutsNone` (with `InflightExact`); liveness `SignalEnds`, `OneInstanceInTheEnd` | two processes of two handlers, two disturbances (signal, crash, admin exit, start by hand). A handler can be running, another counted after Wait has returned, and both cut |
| `texts` | `NothingOverBudget`, `CutAtLatestBreak`, `ChunksCover`, `SearchAddsUp` | every text of up to eight runes, budgets of two and three tokens of two runes, two chunks: paragraphs that fit, one that does not, blank and newline runs of any place, text left over. Lists of up to two words of four, which repeat and differ in case, a target of two |
| `vocabulary` | `ListTrue`, `RowOpens`, `OptionsSound`, `TakesTurns` | four articles, of which one is another user's, six words in two languages, pages of two, decks of two with three wrong answers; four presses and two changes of the tables, or two and one when more than two lanes take part; four seconds. A list shrinks below the page of a button, a translation is missing, differs in case or has two words, and the queue is longer than a deck |

Every passing run explores its whole bounded state space: from seventy
thousand (`texts`) to a million distinct states, in at most about two minutes.
Each module's type invariant is not among the properties: it is proved (section
6). So are `CallBounded`, `ResultIsLast`, `OneActiveLanguage`,
`RecordedWasShown`, `AloneTodayCountExact`, `AloneErasedLeavesNothing` and
`AloneEmittedAfresh`, which are proved for every instance and therefore not
checked on one.

Bounds such as `MaxPresses`, `MaxEvents` or `MaxCalls` only stop the input.
When it is used up nothing need happen any more, so these runs do not check
for deadlock; `groq`, which never runs out, does.

Every property has a mutant: an operator next to the definition it replaces
(commented "Mutant"), which changes the code's behaviour the way a slip would
and makes the run fail: a guard dropped, a statement out of order, a reset
forgotten.

## 5. Fairness

Only two runs check liveness.

* `GroqClient!ChatFairSpec`: `Client` (the goroutine is scheduled and its timers
  fire) and `Service` (an HTTP request ends, since the client has a
  timeout) are weakly fair. Calls and the cancellation are not fair.
* `Lifecycle!LifeFairSpec`: each process's `Main` (scheduled, its drain has a
  timer, and `MainReturns` after it) and the `Watchdog` (cron, every minute) are weakly fair. Handlers are
  **not**: a hanging handler is the case `SignalEnds` is about.

The quiz, the pipeline and the screens owe no progress of their own: they
wait for the user, and an update may always fail.

## 6. What is proved

The proof modules are checked by TLAPS with no bound on handlers, users, words,
articles, days, texts or calls, under the named assumptions on the constants
only. Every safety and action property that a passing run checks is a theorem; of
the liveness properties, the safety half of two is.

Two shapes of argument recur. **Whatever overlaps**: a handler writes what it
computed from something read earlier, so what is known of the stored state must
also be known of everything a handler still holds. **Alone**: the theorem
`MCSpec => []AloneX` is about the specification with `lanes` of section 3, whose
bounds are constants and therefore arbitrary. Its invariant has the form
`\A x : lanes = {x} => AloneInv(x)`: every handler but `x` is idle, and at each
program counter of `x` what it holds is what is stored. Section 7 says how some
of these properties fail when updates overlap.

**`ProgressProofs`.** `TypeCorrect`, `GoalFlagCorrect`, `LongestCorrect`,
`XPConserved`: whatever calls overlap. The invariant says that *every row any
caller still holds* is sound (`HeldRows`) and that the history starts with the
row (`FreshHistory`); the XP column is added to by the statement itself, so its
sum needs no held row. `CountIsExact`, `StreaksAreRuns` and `LedgerImplemented`
hold alone. `DayInv(x)`: the row `x` holds at the UPDATE is the stored one and is
dated its day, and the counter is the number of the correct answers logged for
that date. `RunInv`: the streak is the run of days with a correct answer that
ends on `lastActive`, the longest is the length of the longest such run, and no answer
is logged later (`Runs`); an answer leaves the days before its own as they were,
so each run is an old one or ends on it. `LedgerImplemented` is the refinement
of `GoalLedger`, and `progress_doubleclick` refutes it without `Alone`.
`SequentialCountExact` and `SequentialImplementsGoalLedger` state the same of
`Spec` when at most one caller exists (`OneCaller`).

**`QuizRoundProofs`.** Whatever overlaps: `TypeCorrect`, `RoundsConsistent` (a
live round is a possible round), `QuizImplementsScoreboard` (every step of every
interleaving maps to a step of the abstract round or to none) and
`XPNeverReportedTwice`. The strengthening is small, because each FSM method
re-reads the round under its mutex: a deck between `buildDeck` and `Start` is a
sequence of distinct words (`BuiltDecks`), and a handler that has read its card
holds a button (`AnswerHeld`). The lemmas `AnsweredSound` and `SkippedSound` carry
the argument, one per FSM method. For the XP, what handlers hold between the
repository's report and the round's counter must be added up over all of them;
`XPInv` counts it as the size of a set (`Owed`), so that `reported + roundXP +`
what is owed is at most what was paid. Alone: `MasteredListIsTrue`, because the
cursor stays on the answered card until RecordAnswer. `promoted` starts afresh with
a round, and the list is exactly that set but for the one word an answer holds
between its status statement and RecordAnswer (`ListInv`). And
`RoundXPIsWhatWasEarned`, because the counter equals the ledger except between
Start and the reset and between the two gains (`ListInv`, `CountInv`).

**`ArticlePipelineProofs`.** All the properties of the run `articles`:
`BlockedStopped`, `StoredIfAsked`, `TakenOnce`, `LearnedTogether`, and the
refinement `PipelineImplementsLibrary`. A parked article skips the blocklist
when it is resumed, so what was checked when it was parked must last: the
invariant says of every parked article that its page is not blocked and was
asked for by its user (a restart forgets the parked ones, and only a restart
changes the list), that no two share an id and none has an id already taken
(`ParkingSound`); and of every handler that, once past the button, it works on
a taken id no other handler has (`Sound`, `Distinct`). Nothing
is assumed of the words the LLM answers with: the known lemmas go into its
prompt and the code stores what comes back. `LearnedTogether` says what the
storing guarantees: in one step the article and the statuses of exactly its
words, or neither (`After`, `PersistLearns`; `WhoMoves` names the handler whose
counter the step moves). Of the constants it is assumed that the placeholders are
none of the users, pages and languages, and that there is a level.

**`ArticleLevelsProofs`.** `OriginalsKept`: a call of Adapt writes back what it
read, so the invariant says that what any call still holds has the original
versions. `SourceClosest`: `Closest` is the invariant of the loop over the map,
and `VisitOne` its step. Alone, a call holds all there is when it writes
(`Abreast`): `LevelsGrow` and `CardShown`, and the same of `Spec` for one handler
(`SequentialLevelsGrow`, `SequentialShown`).

**`ScreenManagerProofs`.** Whatever overlaps: `ScreensTyped` and `RecordIsTrue`
(the recorded message did display the recorded screen). Alone:
`OneScreenIsActive`, `ShowIsDelivered` and `BroughtBackBelow`. `Screen(x)` says at
every step of Show and RetireActive which messages have a keyboard: none that
could be taken away, the one just sent, or the one on record; a message whose
keyboard a failed call left is `stuck` and excused. `Afresh(x)` says that after a
stray text the record is gone before Show reads it, so Show sends.

**`AccountsProofs`.** Whatever overlaps: `AccountsTyped`, `NewAccountsAreEmpty` and
`OneLanguageIsActive`. `StoredInv`: an id not yet handed out has nothing stored and
no handler holds it (`Fresh`; ids are AUTOINCREMENT, so a deleted one never comes
back), and a user with languages has exactly one active (`OneOf`), because each
write is one transaction. Every step writes under one id at most
(`OneUsersRows`). Alone: `DeletedHasNoSession` (`Gone`: the handler that deleted
the user clears both sessions before it returns), `DeletedLeavesNothing` (`Mine`:
only the user that is there has rows, and the handler works for it) and
`NextTextIsTheKey` (`Asked`: a prompt that is out is waited for).

**`ServiceProofs`.** *The limiter*: `LimiterTypeCorrect`, `RateBounded` and
`WaitsSuffice`, for every capacity and window. `BurstThenRate` is not inductive: it
speaks of granted calls only, and needs to know what they cost. `Paid(u)` says
that since any submission of `u`, what was granted plus what is left in the
bucket is at most what the bucket held then plus the time passed. `Kept(u)` says
that by the promised time the bucket holds a token. *The client*:
`CallTypeCorrect`, `AnswersLast`, `QuietOnceCancelled`, `NothingResent` and
`CallsBounded`, whatever the constants, the hints and the moment of the
cancellation. The invariant relates the place in the nested loops to the last
reply: a backoff follows a transient one, a wait follows a 429 and a repair
follows a misfit, and a context cancelled leaves only the reply that was under
way. For the bound, `Counted` says how many requests the rounds and attempts
already begun can have made. `CallsRunDown` is the safety half of `CallReturns`:
`WorkLeft`, the tries the three loops still allow and the stage of the current
one, is a natural number that every step of a call lowers, unless it ends the
call or is the cancellation, which happens once. *The processes*: `ProcTypeCorrect`,
`InflightCounts` and `DrainWaits`, for every set of processes and finite set of
handlers. `Sane` says of each process that its counter is the number of its
handlers in flight and that, from the step in which Wait finds the counter at
zero to the one in which main returns, whatever runs is among the `latecomers`:
the library had launched it and it counted itself in between. So these are all
that a clean drain can cut. `OneInstanceStays` is the safety half of `OneInstanceInTheEnd`: once one
instance is up, nobody disturbs it and the watchdog has counted no other number
(`Settled`), no step of anything changes that.

**`WordsProofs`**, the long texts: `BudgetsKept`, `TextCovered` and
`CutsAtParagraphs`, for every text, budget and number of chunks, assuming only
that the texts and summaries are trimmed (the extractor and `summarize.go:47`
trim them). One invariant carries the first two: the chunks made so far are
within the budget and lie one after the other with nothing but white space
between, and what is left of the text begins with a letter where they end.
`TrimIs`, `CutIs`, `ChunkIs` and `AfterIs` say what the operators of `TextCut`
return; that the latest paragraph break in the budget exists when any does is
the least-number principle on the naturals. The cut itself is `AtBreak`, of every
piece that was sent.

`WordsAddUp` is about the words found in the chunks: whatever the calls answer
or fail at, the article's words are those of the analysis and then, up to the
target, each new one once, and a search never loses an article. `mergeWords` and
the history it is compared with (`Answers`) are recursive functions over lists.
TLAPS has no induction over an operator, so `Climb` says it of a set of numbers,
and `TurnsExist` and `JoinedExists` show prefix by prefix that such a function
is there before its equation is used. `MergeAdds` is the loop invariant of
`mergeWords`: after `n` words of the second list the result is the first list
followed by as many of the new words as were met (`Found`) and as there was room
for, and until it is full its keys are those of all words met. `MergeDistinct`
follows the number of repetitions, which no turn changes, so the primary key of
`article_words` refuses the result only if it would have refused the analysis.
`SearchInv` says that `extra` is what the chunks' calls answered, and is empty
when all of them failed; the latter is why discarding it then loses nothing.

**`WordsProofs`**, the lists and decks: `ListsAreTrue`, `RowsOpen`,
`OptionsAreSound` and `WordsTakeTurns`. A list must be true of tables that other
handlers write at any step. Every message and every press carries the number of
writes it has seen (`from`, `asOf`), and `ListInv` claims something of it only
while that number is still `writes`: a screen of that date is a page of the list
as it is (`Truthful`), a press of that date has read the language, the total or
the rows as they are (`Reading`), and a press of a row of a message of that date
finds its word on the page the button names (`Editing`). A write makes all of
this vacuous, but for the press that made it, which goes on as one that has just
come in. The lemmas before it say what paging does: a clamped page is one there
is (`ClampIs`), it has the rows that follow those of the pages before it, and
all that are left when it is the last (`RowsAre`, `PagesAre`). For a card,
`DeckInv` follows `SampleDistractors`: what is picked from the second pool is
apart, up to case, from the answer and from what came of the first, and the
sizes of the pools make the cardinality. `TakesTurns` compares a time of an
answer with a time of a row; `Served` says that no word with a row was answered
later than its row says, so the oldest rows are the ones that waited longest.

Stating these found a defect in a property: `<=>` under the `\E` of an earlier
`ListTrue` made its claim about the next-page button nearly empty. The definition
now says which of the two page buttons a list has.

Left to TLC: liveness under fairness (`CallReturns`, `SignalEnds`,
`OneInstanceInTheEnd`), which the prover does not handle: that a call takes its
steps, that a process told to stop does stop, and that one instance is left.


## 7. Where the code and its documentation part

One is listed as a finding with a run that shows the counterexample: **the
daily bonus can be paid twice** (`progress_doubleclick`). `progress.go:135`
reads the row in one statement and writes it in another.

The modules state further such claims, each as a definition beside the ones
that hold. Name the definition as the INVARIANT or PROPERTY of the component's
cfg, in place of the others and without its symmetry if it is a PROPERTY, to
see its counterexample:

| Definition | What happens |
|---|---|
| `QuizRound!MasteredListTrue`, without `Alone` | an answer races a skip, and RecordAnswer appends the lemma of the card now under the cursor |
| `QuizRound!RoundXPIsEarned`, without `Alone` | XP of an answer is added after the next round's reset |
| `QuizRound!FlippedThisCall` | a word mastered from the word list is reported as newly mastered |
| `ArticlePipeline!ReplayAtLevel` | a cached article is replayed at the level it was stored at, though the comment at `usecase.go:241` says it is the user's current one (give `Levels` two members) |
| `GroqClient!CumulativeWait` | a chat may sleep for three times MaxRetryAfter: the clamp is per wait, the comment at `budget.go:62` says cumulatively |
| `ArticlePipeline!ModesStoreArticle` | the UNIQUE constraint refuses a parked article whose page was analysed meanwhile |
| `ArticlePipeline!KnownStaysKnown` | a word the user knows goes back to learning when a reply names it: the known lemmas are read before the call, are only named in the prompt, and nothing checks the reply |
| `ArticlePipeline!ErasedLeavesNothing`, `Accounts!ErasedLeavesNothing`, without `Alone` | what a handler stores between `/delete_me`'s steps |
| `ArticleLevels!LevelsOnlyGrow`, without `Alone` | two Adapts overwrite each other's level |
| `ArticleLevels!ShownAtLevel` | an empty text from the LLM is stored as a level and dropped when read |
| `ScreenManager!SingleActiveScreen`, without `Alone` | two Shows in a chat without a row leave two keyboards |
| `ScreenManager!ReEmitsWhatWasShown` | the history's article is not recorded as a screen of its own |
| `RateLimiter!HourlyLimit` | a full bucket and an hour's refill are nearly twice the capacity |
| `Accounts!LevelIsOfMenu` | a level chosen in an old menu is set for the language chosen last |
| `Lifecycle!DrainSeesAll` | an update's goroutine counts itself only once it runs: Wait may return before, and the goroutine is lost, or counts itself, begins its work and is cut when main returns |
| `Lifecycle!DrainFinishesWork` | the drained handlers' context is cancelled, so their next statement fails |

None of these is a violation of a property in section 4: the properties there
are what the code does guarantee. That is also why some of them read narrower
than one would like. Met while modelling the lists and the decks:

* A word is served in turn only while it can be asked. The oldest rows of the
  queue are read up to a limit, and a word without a translation, of two words,
  or with too few wrong answers is dropped after that, so enough of them starve
  the rest. Skipping does not touch `updated_at` either, and analysing an
  article again sends its words to the end. `TakesTurns` says what is left.
* Wrong answers differ from the right one as texts (`quiz.go:57`); a synonym
  may be among them. The translation shown is that of the latest row of the
  lemma (MAX(rowid)), which can be from another user's article.
* `words:close` (`words.go:401`) is handled and no button sends it. The filters
  "known" and "mastered" show the same rows, though `mywords.go:30` tells them
  apart, and no button offers the second.
* In a group chat, a press on another member's list sets the status for the one
  who presses.
* `mergeWords` adds one word even when the first chunk has reached the target
  (`usecase.go:653`).
* A reply of the LLM that names a lemma and surface form twice loses the
  article: the primary key of `article_words` refuses it.
* The history records the page it was asked for in the screen's context, not
  the one it clamped to and shows.

## 8. Not modelled

* Text: prompts, JSON schemas, layout and wording of the screens, translations
  of the interface. `LongText` has of a rune whether it is a letter, a blank or
  a newline; `Vocabulary` has of a list its rows, their order and their pages;
  words of the queue with the same `updated_at` come in any order.
* The history's second way in, by way of the navigation's stored context, and
  the limit of twelve on the pool wrong answers are drawn from.
* The poll variant of a quiz card: its updates are not among the types the bot
  asks Telegram for (`telegram/bot.go:81`).
* `screen.Manager.Replace` and `EditInPlace`, which nothing calls.
* Encryption of the key (two inverse functions), logging, configuration,
  migrations (they run before the first update), the admin's statistics, the
  read-only screens, the start-up message, the deletion of command messages.
* SQLite itself: a statement or a transaction is atomic. The pragma that
  enables foreign keys is executed on one pooled connection
  (`storage/sqlite.go:10-30`), so the models let a write under an erased user
  fail or succeed, and `Progress` lets its row go with the user or stay; the
  articles and statuses of an erased user are taken to cascade.
* float64: the limiter's tokens are exact in the model.
* Which key is stored when two are validated at once (`apikey.go:89`), the
  second summary, of zeros, that two presses on the last card show
  (`study.go:384`), and growth of the in-memory maps that nothing cleans. The
  first two are hazards without a property: either order of the keys is a legal
  outcome of two requests, and the second summary changes no state.

## 9. Plan

Order, most important behaviour first; the first ten are done.

1. Progress against GoalLedger, with proofs.
2. WordStatus, QuizSession, QuizRound against Scoreboard, with proofs.
3. ArticlePipeline against Library, with proofs.
4. ArticleLevels, with proofs.
5. ScreenManager, with proofs.
6. RateLimiter, with proofs.
7. Accounts, with proofs.
8. GroqClient and Lifecycle, with liveness and proofs.
9. `chunkText`, `TruncateAtParagraph` and `mergeWords` as operators, in the
   analysis that uses them, with proofs.
10. The word lists, the history and the decks over the tables they share, with
    proofs.
11. A module that runs an answer of `QuizRound` over `Progress` itself, with the
    drain of `Lifecycle` cutting it.

Every safety and action property that a run checks is now a theorem. What is left for proofs comes with step 11: that the payouts
`QuizRound` assumes are those of `Progress`, and that the two together lose or
repeat nothing when a handler is cut between them.
