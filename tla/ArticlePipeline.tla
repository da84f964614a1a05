-------------------------- MODULE ArticlePipeline ---------------------------
(***************************************************************************)
(* From a link to a stored article (internal/articles): the goroutines     *)
(* that handle links and the "truncate / summarize" buttons of parked      *)
(* articles, over the articles table, the word statuses and the in-memory  *)
(* pending store.  Every SQL statement or transaction, every call of the   *)
(* pending store and every call of the extractor or the LLM is one atomic  *)
(* step; nothing is held between two steps.                                *)
(*                                                                         *)
(* A page stands for a normalised URL (its hash).  A button stays in the   *)
(* chat, and in a group chat anybody may press it.                         *)
(***************************************************************************)
EXTENDS Integers

CONSTANTS Users, Pages, Langs, Levels, Lemmas,
          Handlers,    \* goroutines that may be handling updates
          Blockable,   \* pages whose host a build of the bot may block
          NoUser, NoPage, NoLang,
          MaxEvents    \* bound: updates and status changes in a behaviour

NoTicket == 0
Tickets  == Nat \ {NoTicket}               \* ids of the pending store
Statuses == {"none", "learning", "known", "skipped", "mastered"}
Modes    == {"url", "truncate", "summarize"}

Article == [user : Users, page : Pages, lang : Langs, cefr : Levels, words : SUBSET Lemmas]
Parked  == [ticket : Tickets, user : Users, page : Pages, expired : BOOLEAN]

PCs == { "idle", "active", "user", "source", "cache", "replay", "extract",
         "take", "summarize", "known", "analyze", "vocab", "persist" }

ASSUME PipelineAssumption ==
  /\ NoUser \notin Users /\ NoPage \notin Pages /\ NoLang \notin Langs
  /\ Blockable \subseteq Pages
  /\ Levels # {}
  /\ MaxEvents \in Nat

VARIABLES
  account,   \* the users who still have their users row
  active,    \* the language each user is learning
  level,     \* the CEFR level of that language
  blocked,   \* pages the running build blocks
  articles,  \* the articles table, with the words of article_words
  status,    \* user_word_status, per user, language and lemma
  pending,   \* the pending store
  issued,    \* ids the pending store has given out
  events,    \* updates so far (only for the bound MaxEvents)
  pc,        \* per handler: the next call
  who, page, \* per handler: the user and the page it works for
  ticket,    \* per handler: the parked article it was asked to resume
  mode,      \* per handler: url, or the button pressed
  lang,      \* per handler: the active language it read
  cefr,      \* per handler: the level the LLM detected
  words,     \* per handler: the words the LLM returned
  asked,     \* history: which user sent which page
  taken,     \* history: parked articles taken for analysis
  refused    \* history: parked articles whose analysis the table refused

profile == <<account, active, level>>
store   == <<articles, status>>
locals  == <<who, page, ticket, mode, lang, cefr, words>>
parking == <<pending, issued>>
history == <<asked, taken, refused>>
vars    == <<profile, blocked, store, parking, events, pc, locals, history>>

ALevel == CHOOSE l \in Levels : TRUE

Init ==
  /\ account = Users
  /\ active \in [Users -> Langs] /\ level \in [Users -> Levels]
  /\ blocked \in SUBSET Blockable
  /\ articles = {}
  /\ status = [u \in Users |-> [l \in Langs |-> [w \in Lemmas |-> "none"]]]
  /\ pending = {} /\ issued = 0 /\ events = 0
  /\ pc     = [h \in Handlers |-> "idle"]
  /\ who    = [h \in Handlers |-> NoUser] /\ page   = [h \in Handlers |-> NoPage]
  /\ ticket = [h \in Handlers |-> NoTicket] /\ mode = [h \in Handlers |-> "url"]
  /\ lang   = [h \in Handlers |-> NoLang] /\ cefr = [h \in Handlers |-> ALevel]
  /\ words  = [h \in Handlers |-> {}]
  /\ asked = {} /\ taken = {} /\ refused = {}

Goto(h, l) == pc' = [pc EXCEPT ![h] = l]

\* The goroutine answers its user, with an article or an error, and returns.
Return(h) ==
  /\ Goto(h, "idle")
  /\ who'    = [who EXCEPT ![h] = NoUser]      /\ page'  = [page EXCEPT ![h] = NoPage]
  /\ ticket' = [ticket EXCEPT ![h] = NoTicket] /\ mode'  = [mode EXCEPT ![h] = "url"]
  /\ lang'   = [lang EXCEPT ![h] = NoLang]     /\ cefr'  = [cefr EXCEPT ![h] = ALevel]
  /\ words'  = [words EXCEPT ![h] = {}]

-----------------------------------------------------------------------------
(* Updates arrive.                                                         *)

NewEvent == events < MaxEvents /\ events' = events + 1

\* A message with a link.
Link(h, u, p) ==
  /\ pc[h] = "idle" /\ u \in account /\ NewEvent
  /\ Goto(h, "active")
  /\ who' = [who EXCEPT ![h] = u] /\ page' = [page EXCEPT ![h] = p]
  /\ asked' = asked \cup {<<u, p>>}
  /\ UNCHANGED <<profile, blocked, store, parking, ticket, mode, lang, cefr,
                 words, taken, refused>>

\* A button of a parked article's prompt, also one already used or expired.
Choose(h, u, t, m) ==
  /\ pc[h] = "idle" /\ u \in account /\ NewEvent
  /\ Goto(h, "take")
  /\ who'    = [who EXCEPT ![h] = u]
  /\ ticket' = [ticket EXCEPT ![h] = t] /\ mode' = [mode EXCEPT ![h] = m]
  /\ UNCHANGED <<profile, blocked, store, parking, page, lang, cefr, words,
                 history>>

-----------------------------------------------------------------------------
(* AnalyzeArticle up to the LLM.                                           *)

\* languages.Active; without a language, or on an error, the user is told.
ReadActive(h) ==
  /\ pc[h] = "active"
  /\ \/ /\ who[h] \in account
        /\ lang' = [lang EXCEPT ![h] = active[who[h]]]
        /\ Goto(h, "user")
        /\ UNCHANGED <<who, page, ticket, mode, cefr, words>>
     \/ Return(h)
  /\ UNCHANGED <<profile, blocked, store, parking, events, history>>

AfterUser(m) ==
  CASE m = "url"       -> "source"
    [] m = "truncate"  -> "known"
    [] m = "summarize" -> "summarize"

\* users.ByID and keys.Get.
LoadUser(h) ==
  /\ pc[h] = "user"
  /\ \/ /\ who[h] \in account
        /\ Goto(h, AfterUser(mode[h]))
        /\ UNCHANGED locals
     \/ Return(h)
  /\ UNCHANGED <<profile, blocked, store, parking, events, history>>

\* Mutant: the cache is looked up without asking the blocklist.
CheckSourceLate(h) ==
  /\ pc[h] = "source"
  /\ Goto(h, "cache")
  /\ UNCHANGED <<profile, blocked, store, parking, events, locals, history>>

\* The blocklist, before the cache.
CheckSource(h) ==
  /\ pc[h] = "source"
  /\ \/ page[h] \notin blocked /\ Goto(h, "cache") /\ UNCHANGED locals
     \/ page[h] \in blocked /\ Return(h)
  /\ UNCHANGED <<profile, blocked, store, parking, events, history>>

Stored(u, p, l) == {a \in articles : a.user = u /\ a.page = p /\ a.lang = l}

\* ByUserAndHash; a failed query is an error.
CacheLookup(h) ==
  /\ pc[h] = "cache"
  /\ \/ /\ Goto(h, IF Stored(who[h], page[h], lang[h]) = {} THEN "extract" ELSE "replay")
        /\ UNCHANGED locals
     \/ Return(h)
  /\ UNCHANGED <<profile, blocked, store, parking, events, history>>

\* loadStoredWords, and the card of the stored article is sent again.
Replay(h) ==
  /\ pc[h] = "replay"
  /\ Return(h)
  /\ UNCHANGED <<profile, blocked, store, parking, events, history>>

\* PendingStore.Put: a fresh id, and expired entries are collected.
Fresh(ps) == {x \in ps : ~x.expired}

\* The id is random; here the ids are numbered.
Park(h) ==
  /\ issued' = issued + 1
  /\ pending' = Fresh(pending) \cup
       {[ticket |-> issued', user |-> who[h], page |-> page[h], expired |-> FALSE]}

\* The extractor fails (network, paywall, no article, a link that does not
\* normalise), or returns a text that fits the token budget or does not.
Extract(h) ==
  /\ pc[h] = "extract"
  /\ \/ Return(h) /\ UNCHANGED parking
     \/ Goto(h, "known") /\ UNCHANGED <<parking, locals>>
     \/ Park(h) /\ Return(h)
  /\ UNCHANGED <<profile, blocked, store, events, history>>

-----------------------------------------------------------------------------
(* AnalyzeExtracted up to the LLM.                                         *)

Asked(h) == {x \in Fresh(pending) : x.ticket = ticket[h]}
Mine(h)  == {x \in Asked(h) : x.user = who[h]}

\* Mutant: the store does not compare the user.
TakeAnybodys(h) ==
  /\ pc[h] = "take"
  /\ IF Asked(h) = {}
       THEN Return(h) /\ pending' = Fresh(pending) /\ taken' = taken
       ELSE \E x \in Asked(h) :
              /\ pending' = Fresh(pending) \ {x}
              /\ taken' = taken \cup {x.ticket}
              /\ page' = [page EXCEPT ![h] = x.page]
              /\ Goto(h, "active")
              /\ UNCHANGED <<who, ticket, mode, lang, cefr, words>>
  /\ UNCHANGED <<profile, blocked, store, issued, events, asked, refused>>

\* Mutant: the parked article stays until it expires.
TakeLeaves(h) ==
  /\ pc[h] = "take"
  /\ IF Mine(h) = {}
       THEN Return(h) /\ pending' = Fresh(pending) /\ taken' = taken
       ELSE \E x \in Mine(h) :
              /\ pending' = Fresh(pending)
              /\ taken' = taken \cup {x.ticket}
              /\ page' = [page EXCEPT ![h] = x.page]
              /\ Goto(h, "active")
              /\ UNCHANGED <<who, ticket, mode, lang, cefr, words>>
  /\ UNCHANGED <<profile, blocked, store, issued, events, asked, refused>>

\* PendingStore.Take: one-shot, and only for the user it was parked for.
Take(h) ==
  /\ pc[h] = "take"
  /\ IF Mine(h) = {}
       THEN Return(h) /\ pending' = Fresh(pending) /\ taken' = taken
       ELSE \E x \in Mine(h) :
              /\ pending' = Fresh(pending) \ {x}
              /\ taken' = taken \cup {x.ticket}
              /\ page' = [page EXCEPT ![h] = x.page]
              /\ Goto(h, "active")
              /\ UNCHANGED <<who, ticket, mode, lang, cefr, words>>
  /\ UNCHANGED <<profile, blocked, store, issued, events, asked, refused>>

\* llm.Summarize; a failure loses the parked text.
Summarize(h) ==
  /\ pc[h] = "summarize"
  /\ \/ Goto(h, "known") /\ UNCHANGED locals
     \/ Return(h)
  /\ UNCHANGED <<profile, blocked, store, parking, events, history>>

-----------------------------------------------------------------------------
(* runAnalysis.                                                            *)

\* KnownLemmas, or its query fails.  What it returns goes into the prompts and
\* nowhere else, and a prompt does not bind the LLM: see Analyze.
KnownLemmas(h) ==
  /\ pc[h] = "known"
  /\ \/ Goto(h, "analyze") /\ UNCHANGED locals
     \/ Return(h)
  /\ UNCHANGED <<profile, blocked, store, parking, events, history>>

\* llm.Analyze fails, flags the text (nothing is stored), or analyses it.  The
\* words of the reply may be any, also some the user knows by now: the code
\* compares them with nothing.
Analyze(h) ==
  /\ pc[h] = "analyze"
  /\ \/ \E ws \in SUBSET Lemmas, l \in Levels :
          /\ words' = [words EXCEPT ![h] = ws] /\ cefr' = [cefr EXCEPT ![h] = l]
          /\ Goto(h, IF mode[h] = "url" THEN "persist" ELSE "vocab")
          /\ UNCHANGED <<who, page, ticket, mode, lang>>
     \/ Return(h)
  /\ UNCHANGED <<profile, blocked, store, parking, events, history>>

\* extractVocabChunks and mergeWords, for a text that was shortened; a
\* failure adds nothing and does not stop the analysis.
VocabPass(h) ==
  /\ pc[h] = "vocab"
  /\ \E ws \in SUBSET Lemmas : words' = [words EXCEPT ![h] = @ \cup ws]
  /\ Goto(h, "persist")
  /\ UNCHANGED <<profile, blocked, store, parking, events, who, page, ticket,
                 mode, lang, cefr, history>>

Analysed(h) ==
  [user |-> who[h], page |-> page[h], lang |-> lang[h], cefr |-> cefr[h], words |-> words[h]]

Existing(h) == Stored(who[h], page[h], lang[h])

\* The words of a stored article go to "learning", whatever they were.
Learn(u, l, ws) ==
  [status EXCEPT ![u][l] = [w \in Lemmas |-> IF w \in ws THEN "learning" ELSE @[w]]]

\* Mutant: the statuses are written before the transaction, on their own.
PersistWordsFirst(h) ==
  /\ pc[h] = "persist"
  /\ status' = Learn(who[h], lang[h], words[h])
  /\ \/ /\ Existing(h) = {}
        /\ articles' = articles \cup {Analysed(h)}
        /\ refused' = refused
     \/ /\ Existing(h) # {}
        /\ refused' = IF mode[h] = "url" THEN refused ELSE refused \cup {ticket[h]}
        /\ articles' = articles
     \/ UNCHANGED <<articles, refused>>
  /\ Return(h)
  /\ UNCHANGED <<profile, blocked, parking, events, asked, taken>>

\* Mutant: a second analysis replaces the first.
PersistReplacing(h) ==
  /\ pc[h] = "persist"
  /\ \/ /\ articles' = (articles \ Existing(h)) \cup {Analysed(h)}
        /\ status' = Learn(who[h], lang[h], words[h])
        /\ refused' = refused
     \/ UNCHANGED <<store, refused>>
  /\ Return(h)
  /\ UNCHANGED <<profile, blocked, parking, events, asked, taken>>

\* The transaction: the category, the article (UNIQUE per user, hash and
\* language), its words and their statuses; any failure rolls all of it
\* back.  The users row may be gone: a pooled connection without
\* PRAGMA foreign_keys stores the article all the same.
Persist(h) ==
  /\ pc[h] = "persist"
  /\ \/ /\ Existing(h) = {}
        /\ articles' = articles \cup {Analysed(h)}
        /\ status' = Learn(who[h], lang[h], words[h])
        /\ refused' = refused
     \/ /\ Existing(h) # {}
        /\ refused' = IF mode[h] = "url" THEN refused ELSE refused \cup {ticket[h]}
        /\ UNCHANGED store
     \/ UNCHANGED <<store, refused>>
  /\ Return(h)
  /\ UNCHANGED <<profile, blocked, parking, events, asked, taken>>

-----------------------------------------------------------------------------
(* The environment.                                                        *)

\* The words list, /mywords and the quiz change the status of a word.
SetStatus(u, l, w, s) ==
  /\ u \in account /\ NewEvent
  /\ \/ status[u][l][w] # "none"
     \/ \E a \in articles : a.user = u /\ a.lang = l /\ w \in a.words
  /\ status' = [status EXCEPT ![u][l][w] = s]
  /\ UNCHANGED <<profile, blocked, articles, parking, pc, locals, history>>

\* Settings: another language, or another level.
Settings(u, l, v) ==
  /\ u \in account /\ NewEvent
  /\ <<l, v>> # <<active[u], level[u]>>
  /\ active' = [active EXCEPT ![u] = l] /\ level' = [level EXCEPT ![u] = v]
  /\ UNCHANGED <<account, blocked, store, parking, pc, locals, history>>

\* /delete_me, one transaction; what is parked stays parked.
EraseAccount(u) ==
  /\ u \in account /\ NewEvent
  /\ account'  = account \ {u}
  /\ articles' = {a \in articles : a.user # u}
  /\ status'   = [status EXCEPT ![u] = [l \in Langs |-> [w \in Lemmas |-> "none"]]]
  /\ UNCHANGED <<active, level, blocked, parking, pc, locals, history>>

\* Ten minutes pass since an article was parked.
Expire ==
  \E x \in Fresh(pending) :
    /\ pending' = (pending \ {x}) \cup {[x EXCEPT !.expired = TRUE]}
    /\ UNCHANGED <<profile, blocked, store, issued, events, pc, locals, history>>

\* The process stops, and the next build may come with another blocklist.
Restart(b) ==
  /\ blocked' = b
  /\ pending' = {}
  /\ pc'     = [h \in Handlers |-> "idle"]
  /\ who'    = [h \in Handlers |-> NoUser]   /\ page'  = [h \in Handlers |-> NoPage]
  /\ ticket' = [h \in Handlers |-> NoTicket] /\ mode'  = [h \in Handlers |-> "url"]
  /\ lang'   = [h \in Handlers |-> NoLang]   /\ cefr'  = [h \in Handlers |-> ALevel]
  /\ words'  = [h \in Handlers |-> {}]
  /\ UNCHANGED <<profile, store, issued, events, history>>

Handle(h) ==
  \/ ReadActive(h) \/ LoadUser(h) \/ CheckSource(h) \/ CacheLookup(h)
  \/ Replay(h) \/ Extract(h) \/ Take(h) \/ Summarize(h) \/ KnownLemmas(h)
  \/ Analyze(h) \/ VocabPass(h) \/ Persist(h)

Next ==
  \/ \E h \in Handlers :
       \/ \E u \in Users, p \in Pages : Link(h, u, p)
       \/ \E u \in Users, t \in 1 .. issued, m \in Modes \ {"url"} : Choose(h, u, t, m)
       \/ Handle(h)
  \/ \E u \in Users :
       \/ \E l \in Langs, w \in Lemmas, s \in Statuses : SetStatus(u, l, w, s)
       \/ \E l \in Langs, v \in Levels : Settings(u, l, v)
       \/ EraseAccount(u)
  \/ Expire
  \/ \E b \in SUBSET Blockable : Restart(b)

Spec == Init /\ [][Next]_vars

-----------------------------------------------------------------------------
(* Properties.                                                             *)

TypeOK ==
  /\ account \subseteq Users
  /\ active \in [Users -> Langs] /\ level \in [Users -> Levels]
  /\ blocked \subseteq Pages
  /\ articles \subseteq Article
  /\ status \in [Users -> [Langs -> [Lemmas -> Statuses]]]
  /\ pending \subseteq Parked /\ issued \in Nat /\ events \in Nat
  /\ pc \in [Handlers -> PCs]
  /\ who \in [Handlers -> Users \cup {NoUser}] /\ page \in [Handlers -> Pages \cup {NoPage}]
  /\ ticket \in [Handlers -> Nat] /\ mode \in [Handlers -> Modes]
  /\ lang \in [Handlers -> Langs \cup {NoLang}]
  /\ cefr \in [Handlers -> Levels] /\ words \in [Handlers -> SUBSET Lemmas]
  /\ asked \subseteq Users \X Pages /\ taken \subseteq Tickets /\ refused \subseteq Tickets

\* A blocked source goes nowhere: once past the blocklist no handler works on
\* a page the running build blocks (neither to replay it from the cache nor
\* to fetch, resume, analyse or store it), and none is parked, although the
\* build, and the list with it, changes while pages stored under an older
\* list are still there, and the buttons of parked ones still in the chat.
PastGate == {"cache", "replay", "extract", "summarize", "known", "analyze", "vocab", "persist"}
BlockedStopsAtGate ==
  /\ \A h \in Handlers : pc[h] \in PastGate => page[h] \notin blocked
  /\ \A x \in pending : x.page \notin blocked

\* An article is stored only for a user who sent that page, whoever presses
\* the buttons of a parked one.
OnlyAskedFor == \A a \in articles : <<a.user, a.page>> \in asked

\* A parked article is taken once: presses of both its buttons, or of one
\* of them twice, get it analysed (and paid for) once, and what was taken
\* does not come back.
ParkedOnce ==
  /\ \A x \in pending : x.ticket \notin taken
  /\ \A g, h \in Handlers :
       /\ g # h /\ ticket[g] = ticket[h]
       /\ pc[g] \notin {"idle", "take"} /\ pc[h] \notin {"idle", "take"}
       => ticket[g] = NoTicket

\* The words of an article and their statuses are stored with it or not at
\* all (runAnalysis): a step of a handler sends exactly the words of the
\* article it stores, of its reader and language, to "learning", and a step
\* that stores none (a replay, a failed transaction, an analysis that another
\* has overtaken or whose page is stored already) leaves every status alone.
\* With ImplementsLibrary: whatever the user marked since an article was
\* stored, sending its link again does not undo.
LearnedWithArticle ==
  [][pc' # pc =>
       \A u \in Users, l \in Langs, w \in Lemmas :
         status'[u][l][w] =
           IF \E a \in articles' \ articles : a.user = u /\ a.lang = l /\ w \in a.words
             THEN "learning" ELSE status[u][l][w]]_vars

\* The shelf the readers see is the abstract one.
Shelf == INSTANCE Library WITH shelf <- articles
ImplementsLibrary == Shelf!Spec

-----------------------------------------------------------------------------
(* What the comments and the notes say, and the code does not do.          *)

\* "Both modes always produce a stored article" (LongAnalysisMode).
ModesStoreArticle == refused = {}

\* "replays the stored article ... same detected CEFR as the user's current
\* level" (AnalyzeArticle).
ReplayAtLevel ==
  \A h \in Handlers : pc[h] = "replay" =>
    \A a \in Stored(who[h], page[h], lang[h]) : a.cefr = level[who[h]]

\* "These lemmas are passed to the LLM so it skips re-introducing them"
\* (KnownLemmas): a known or mastered word is not sent back to learning.
KnownStaysKnown ==
  [][\A h \in Handlers : pc[h] = "persist" /\ pc'[h] = "idle" /\ articles' # articles =>
       \A w \in Lemmas : status[who[h]][lang[h]][w] \in {"known", "mastered"} =>
         status'[who[h]][lang[h]][w] = status[who[h]][lang[h]][w]]_vars

\* "DeleteUser wipes the user and all data scoped to them".
ErasedLeavesNothing == \A a \in articles : a.user \in account
=============================================================================
