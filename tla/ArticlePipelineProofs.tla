----------------------- MODULE ArticlePipelineProofs ------------------------
(***************************************************************************)
(* Theorems about ArticlePipeline, for any users, pages, languages, lemmas *)
(* and handlers, however links, buttons, settings, deletions and restarts  *)
(* interleave.                                                             *)
(***************************************************************************)
EXTENDS ArticlePipeline, TLAPS

\* A handler that works on a page: past the button, if it was one.
Underway(h) == pc[h] \notin {"idle", "take"}

\* A resumed article, or one past the blocklist.
Cleared(h) == pc[h] \in PastGate \/ (mode[h] # "url" /\ Underway(h))

\* What holds of each handler on its own.
Sound(h) ==
  /\ pc[h] # "idle" => who[h] \in Users
  /\ Underway(h) => page[h] \in Pages /\ <<who[h], page[h]>> \in asked
  /\ pc[h] \notin {"idle", "take", "active"} => lang[h] \in Langs
  /\ pc[h] = "idle" => mode[h] = "url"
  /\ mode[h] = "url" => ticket[h] = NoTicket
  /\ mode[h] # "url" => ticket[h] \in Tickets /\ (Underway(h) => ticket[h] \in taken)
  /\ Cleared(h) => page[h] \notin blocked

\* What holds of the parked articles: each waits under an id of its own that
\* was given out and not yet taken.
ParkingSound ==
  /\ \A x \in pending :
       /\ x.page \notin blocked /\ <<x.user, x.page>> \in asked
       /\ x.ticket <= issued /\ x.ticket \notin taken
  /\ \A x, y \in pending : x.ticket = y.ticket => x = y
  /\ \A t \in taken : t <= issued

\* No two handlers work on the same parked article.
Distinct ==
  \A g, h \in Handlers :
    g # h /\ Underway(g) /\ Underway(h) /\ ticket[g] = ticket[h] => ticket[g] = NoTicket

IInv ==
  /\ TypeOK /\ OnlyAskedFor
  /\ \A h \in Handlers : Sound(h)
  /\ ParkingSound /\ Distinct

-----------------------------------------------------------------------------
LEMMA ALevelIs == ALevel \in Levels
BY PipelineAssumption DEF ALevel

LEMMA IInvInit == Init => IInv
<1> SUFFICES ASSUME Init PROVE IInv
  OBVIOUS
<1>1. TypeOK
  <2>1. status \in [Users -> [Langs -> [Lemmas -> Statuses]]]
    BY DEF Init, Statuses
  <2>2. cefr \in [Handlers -> Levels]
    BY ALevelIs DEF Init
  <2> QED BY <2>1, <2>2, PipelineAssumption DEF Init, TypeOK, PCs, Modes, NoTicket
<1>2. \A h \in Handlers : Sound(h)
  BY DEF Init, Sound, Underway, Cleared, PastGate
<1> QED BY <1>1, <1>2 DEF Init, IInv, OnlyAskedFor, ParkingSound, Distinct, Underway

-----------------------------------------------------------------------------
(* Types.                                                                  *)

LEMMA ReturnTypes ==
  ASSUME TypeOK, NEW h \in Handlers, Return(h)
  PROVE  /\ pc' \in [Handlers -> PCs]
         /\ who' \in [Handlers -> Users \cup {NoUser}]
         /\ page' \in [Handlers -> Pages \cup {NoPage}]
         /\ ticket' \in [Handlers -> Nat] /\ mode' \in [Handlers -> Modes]
         /\ lang' \in [Handlers -> Langs \cup {NoLang}]
         /\ cefr' \in [Handlers -> Levels] /\ words' \in [Handlers -> SUBSET Lemmas]
BY ALevelIs DEF Return, Goto, TypeOK, PCs, Modes, NoTicket

LEMMA HandleTypes ==
  ASSUME IInv, NEW h \in Handlers, Handle(h)
  PROVE  TypeOK'
<1>0. TypeOK /\ Sound(h)
  BY DEF IInv
<1>1. CASE ReadActive(h)
  <2>1. CASE Return(h)
    BY <1>0, <1>1, <2>1, ReturnTypes DEF ReadActive, TypeOK, profile, store, parking, history
  <2>2. CASE ~ Return(h)
    <3>1. active[who[h]] \in Langs /\ lang' = [lang EXCEPT ![h] = active[who[h]]]
      BY <1>0, <1>1, <2>2 DEF ReadActive, TypeOK
    <3>2. lang' \in [Handlers -> Langs \cup {NoLang}]
      BY <1>0, <3>1 DEF TypeOK
    <3>3. pc' = [pc EXCEPT ![h] = "user"]
          /\ UNCHANGED <<who, page, ticket, mode, cefr, words>>
      BY <1>1, <2>2 DEF ReadActive, Goto
    <3>4. pc' \in [Handlers -> PCs]
      BY <1>0, <3>3 DEF TypeOK, PCs
    <3> QED BY <1>0, <1>1, <3>2, <3>3, <3>4 DEF ReadActive, TypeOK, profile, store, parking, history
  <2> QED BY <2>1, <2>2
<1>2. CASE LoadUser(h)
  <2>1. CASE Return(h)
    BY <1>0, <1>2, <2>1, ReturnTypes DEF LoadUser, TypeOK, profile, store, parking, history
  <2>2. CASE ~ Return(h)
    <3>1. AfterUser(mode[h]) \in PCs
      BY <1>0 DEF TypeOK, AfterUser, Modes, PCs
    <3> QED BY <1>0, <1>2, <2>2, <3>1 DEF LoadUser, Goto, TypeOK, profile, store, parking, history, locals
  <2> QED BY <2>1, <2>2
<1>3. CASE CheckSource(h)
  <2>1. CASE Return(h)
    BY <1>0, <1>3, <2>1, ReturnTypes DEF CheckSource, TypeOK, profile, store, parking, history
  <2>2. CASE ~ Return(h)
    BY <1>0, <1>3, <2>2 DEF CheckSource, Goto, PCs, TypeOK, profile, store, parking, history, locals
  <2> QED BY <2>1, <2>2
<1>4. CASE CacheLookup(h)
  <2>1. CASE Return(h)
    BY <1>0, <1>4, <2>1, ReturnTypes DEF CacheLookup, TypeOK, profile, store, parking, history
  <2>2. CASE ~ Return(h)
    BY <1>0, <1>4, <2>2 DEF CacheLookup, Goto, PCs, TypeOK, profile, store, parking, history, locals
  <2> QED BY <2>1, <2>2
<1>5. CASE Replay(h)
  BY <1>0, <1>5, ReturnTypes DEF Replay, TypeOK, profile, store, parking, history
<1>6. CASE Extract(h)
  <2>1. CASE Return(h) /\ UNCHANGED parking
    BY <1>0, <1>6, <2>1, ReturnTypes DEF Extract, TypeOK, profile, store, parking, history
  <2>2. CASE Goto(h, "known") /\ UNCHANGED <<parking, locals>>
    BY <1>0, <1>6, <2>2 DEF Extract, Goto, PCs, TypeOK, profile, store, parking, history, locals
  <2>3. CASE Park(h) /\ Return(h)
    <3>1. who[h] \in Users /\ page[h] \in Pages
      BY <1>0, <1>6 DEF Extract, Sound, Underway
    <3>2. issued' \in Tickets
      BY <1>0, <2>3 DEF Park, TypeOK, Tickets, NoTicket
    <3>3. pending' \subseteq Parked
      <4>1. [ticket |-> issued', user |-> who[h], page |-> page[h], expired |-> FALSE] \in Parked
        BY <3>1, <3>2 DEF Parked
      <4>2. Fresh(pending) \subseteq Parked
        BY <1>0 DEF Fresh, TypeOK
      <4> QED BY <2>3, <4>1, <4>2 DEF Park
    <3> QED BY <1>0, <1>6, <2>3, <3>2, <3>3, ReturnTypes DEF Extract, Tickets, TypeOK, profile, store, history
  <2> QED BY <1>6, <2>1, <2>2, <2>3 DEF Extract
<1>7. CASE Take(h)
  <2>1. CASE Return(h) /\ pending' = Fresh(pending) /\ taken' = taken
    BY <1>0, <1>7, <2>1, ReturnTypes DEF Take, Fresh, TypeOK, profile, store
  <2>2. ASSUME NEW x \in Mine(h),
               /\ pending' = Fresh(pending) \ {x} /\ taken' = taken \cup {x.ticket}
               /\ page' = [page EXCEPT ![h] = x.page] /\ Goto(h, "active")
               /\ UNCHANGED <<who, ticket, mode, lang, cefr, words>>
        PROVE  TypeOK'
    <3>1. x \in Parked
      BY <1>0 DEF Mine, Asked, Fresh, TypeOK
    <3>2. x.ticket \in Tickets /\ x.page \in Pages
      BY <3>1 DEF Parked
    <3> QED BY <1>0, <1>7, <2>2, <3>2 DEF Take, Fresh, Goto, PCs, TypeOK, profile, store
  <2> QED BY <1>7, <2>1, <2>2 DEF Take
<1>8. CASE Summarize(h)
  <2>1. CASE Return(h)
    BY <1>0, <1>8, <2>1, ReturnTypes DEF Summarize, TypeOK, profile, store, parking, history
  <2>2. CASE ~ Return(h)
    BY <1>0, <1>8, <2>2 DEF Summarize, Goto, PCs, TypeOK, profile, store, parking, history, locals
  <2> QED BY <2>1, <2>2
<1>9. CASE KnownLemmas(h)
  <2>1. CASE Return(h)
    BY <1>0, <1>9, <2>1, ReturnTypes DEF KnownLemmas, TypeOK, profile, store, parking, history
  <2>2. CASE ~ Return(h)
    BY <1>0, <1>9, <2>2 DEF KnownLemmas, Goto, PCs, TypeOK, profile, store, parking, history, locals
  <2> QED BY <2>1, <2>2
<1>10. CASE Analyze(h)
  <2>1. CASE Return(h)
    BY <1>0, <1>10, <2>1, ReturnTypes DEF Analyze, TypeOK, profile, store, parking, history
  <2>2. CASE ~ Return(h)
    <3>1. PICK ws \in SUBSET Lemmas, l \in Levels :
            /\ words' = [words EXCEPT ![h] = ws] /\ cefr' = [cefr EXCEPT ![h] = l]
            /\ Goto(h, IF mode[h] = "url" THEN "persist" ELSE "vocab")
            /\ UNCHANGED <<who, page, ticket, mode, lang>>
      BY <1>10, <2>2 DEF Analyze
    <3>2. words' \in [Handlers -> SUBSET Lemmas] /\ cefr' \in [Handlers -> Levels]
      BY <1>0, <3>1 DEF TypeOK
    <3>3. pc' \in [Handlers -> PCs]
      BY <1>0, <3>1 DEF Goto, TypeOK, PCs
    <3> QED BY <1>0, <1>10, <3>1, <3>2, <3>3 DEF Analyze, TypeOK, profile, store, parking, history
  <2> QED BY <2>1, <2>2
<1>11. CASE VocabPass(h)
  BY <1>0, <1>11 DEF VocabPass, Goto, PCs, TypeOK, profile, store, parking, history
<1>12. CASE Persist(h)
  <2>1. /\ who[h] \in Users /\ page[h] \in Pages /\ lang[h] \in Langs
        /\ mode[h] # "url" => ticket[h] \in Tickets
    BY <1>0, <1>12 DEF Persist, Sound, Underway
  <2>2. Analysed(h) \in Article
    BY <1>0, <2>1 DEF Analysed, Article, TypeOK
  <2>3. Learn(who[h], lang[h], words[h]) \in [Users -> [Langs -> [Lemmas -> Statuses]]]
    BY <1>0, <2>1 DEF Learn, TypeOK, Statuses
  <2>4. articles' \subseteq Article /\ status' \in [Users -> [Langs -> [Lemmas -> Statuses]]]
    BY <1>0, <1>12, <2>2, <2>3 DEF Persist, TypeOK, store
  <2>5. refused' \subseteq Tickets
    BY <1>0, <1>12, <2>1 DEF Persist, TypeOK
  <2> QED BY <1>0, <1>12, <2>4, <2>5, ReturnTypes DEF Persist, TypeOK, profile, parking
<1> QED BY <1>1, <1>2, <1>3, <1>4, <1>5, <1>6, <1>7, <1>8, <1>9, <1>10, <1>11, <1>12 DEF Handle

LEMMA TypeNext == IInv /\ [Next]_vars => TypeOK'
<1> SUFFICES ASSUME IInv, [Next]_vars PROVE TypeOK'
  OBVIOUS
<1>0. TypeOK
  BY DEF IInv
<1>1. ASSUME NEW h \in Handlers, NEW u \in Users, NEW p \in Pages, Link(h, u, p)
      PROVE  TypeOK'
  BY <1>0, <1>1 DEF Link, NewEvent, Goto, TypeOK, PCs, profile, store, parking
<1>2. ASSUME NEW h \in Handlers, NEW u \in Users, NEW t \in 1 .. issued,
             NEW m \in Modes \ {"url"}, Choose(h, u, t, m)
      PROVE  TypeOK'
  BY <1>0, <1>2 DEF Choose, NewEvent, Goto, TypeOK, PCs, profile, store, parking, history
<1>3. ASSUME NEW h \in Handlers, Handle(h) PROVE TypeOK'
  BY <1>3, HandleTypes
<1>4. ASSUME NEW u \in Users, NEW l \in Langs, NEW w \in Lemmas, NEW s \in Statuses,
             SetStatus(u, l, w, s)
      PROVE  TypeOK'
  BY <1>0, <1>4 DEF SetStatus, NewEvent, TypeOK, profile, parking, locals, history
<1>5. ASSUME NEW u \in Users, NEW l \in Langs, NEW v \in Levels, Settings(u, l, v)
      PROVE  TypeOK'
  BY <1>0, <1>5 DEF Settings, NewEvent, TypeOK, store, parking, locals, history
<1>6. ASSUME NEW u \in Users, EraseAccount(u) PROVE TypeOK'
  <2>1. status' \in [Users -> [Langs -> [Lemmas -> Statuses]]]
    BY <1>0, <1>6 DEF EraseAccount, TypeOK, Statuses
  <2> QED BY <1>0, <1>6, <2>1 DEF EraseAccount, NewEvent, TypeOK, parking, locals, history
<1>7. CASE Expire
  <2>1. pending' \subseteq Parked
    BY <1>0, <1>7 DEF Expire, Fresh, Parked, TypeOK
  <2> QED BY <1>0, <1>7, <2>1 DEF Expire, TypeOK, profile, store, locals, history
<1>8. ASSUME NEW b \in SUBSET Blockable, Restart(b) PROVE TypeOK'
  BY <1>0, <1>8, PipelineAssumption, ALevelIs
     DEF Restart, TypeOK, PCs, Modes, NoTicket, profile, store, history
<1>9. CASE UNCHANGED vars
  BY <1>0, <1>9 DEF vars, TypeOK, profile, store, parking, locals, history
<1> QED BY <1>1, <1>2, <1>3, <1>4, <1>5, <1>6, <1>7, <1>8, <1>9 DEF Next

-----------------------------------------------------------------------------
(* Handlers.                                                               *)

\* A handler whose locals do not change stays sound, unless the build or the
\* history shrinks.
LEMMA Untouched ==
  ASSUME NEW h \in Handlers, Sound(h),
         asked \subseteq asked', taken \subseteq taken', blocked' = blocked,
         pc'[h] = pc[h], who'[h] = who[h], page'[h] = page[h], ticket'[h] = ticket[h],
         mode'[h] = mode[h], lang'[h] = lang[h], words'[h] = words[h]
  PROVE  Sound(h)'
BY DEF Sound, Underway, Cleared

\* A step of one handler disturbs no other.
LEMMA OneMoves ==
  ASSUME TypeOK, NEW h \in Handlers,
         \/ Handle(h)
         \/ \E u \in Users, p \in Pages : Link(h, u, p)
         \/ \E u \in Users, t \in 1 .. issued, m \in Modes \ {"url"} : Choose(h, u, t, m),
         NEW g \in Handlers, g # h
  PROVE  /\ asked \subseteq asked' /\ taken \subseteq taken' /\ blocked' = blocked
         /\ pc'[g] = pc[g] /\ who'[g] = who[g] /\ page'[g] = page[g]
         /\ ticket'[g] = ticket[g] /\ mode'[g] = mode[g] /\ lang'[g] = lang[g]
         /\ words'[g] = words[g]
<1> USE DEF Return, Goto, locals, history
<1>1. CASE \E u \in Users, p \in Pages : Link(h, u, p)
  BY <1>1 DEF TypeOK, Link
<1>2. CASE \E u \in Users, t \in 1 .. issued, m \in Modes \ {"url"} : Choose(h, u, t, m)
  BY <1>2 DEF TypeOK, Choose
<1>3. CASE ReadActive(h) \/ LoadUser(h) \/ CheckSource(h) \/ CacheLookup(h) \/ Replay(h)
  BY <1>3 DEF TypeOK, ReadActive, LoadUser, CheckSource, CacheLookup, Replay
<1>4. CASE Extract(h)
  BY <1>4 DEF TypeOK, Extract
<1>5. CASE Take(h)
  BY <1>5 DEF TypeOK, Take
<1>6. CASE Summarize(h) \/ KnownLemmas(h) \/ Analyze(h)
  BY <1>6 DEF TypeOK, Summarize, KnownLemmas, Analyze
<1>7. CASE VocabPass(h)
  BY <1>7 DEF TypeOK, VocabPass
<1>8. CASE Persist(h)
  BY <1>8 DEF TypeOK, Persist
<1> QED BY <1>1, <1>2, <1>3, <1>4, <1>5, <1>6, <1>7, <1>8 DEF Handle

\* A goroutine that has returned owes nothing.
LEMMA ReturnSound ==
  ASSUME TypeOK, NEW h \in Handlers, Return(h)
  PROVE  Sound(h)' /\ ~ Underway(h)'
BY DEF TypeOK, Return, Goto, Sound, Underway, Cleared, PastGate

\* The steps that leave the parked articles alone.
LEMMA PlainKeeps ==
  ASSUME IInv, NEW h \in Handlers,
         \/ ReadActive(h) \/ LoadUser(h) \/ CheckSource(h) \/ CacheLookup(h) \/ Replay(h)
         \/ Summarize(h) \/ KnownLemmas(h) \/ Analyze(h) \/ VocabPass(h) \/ Persist(h)
  PROVE  /\ Sound(h)'
         /\ UNCHANGED <<blocked, parking, asked, taken>>
         /\ Underway(h)' => Underway(h) /\ ticket'[h] = ticket[h]
<1>0. TypeOK /\ Sound(h)
  BY DEF IInv
<1>1. UNCHANGED <<blocked, parking, asked, taken>>
  BY DEF ReadActive, LoadUser, CheckSource, CacheLookup, Replay, Summarize, KnownLemmas,
         Analyze, VocabPass, Persist, history
<1>2. CASE Return(h)
  BY <1>0, <1>1, <1>2, ReturnSound
<1>3. CASE ~ Return(h)
  <2>1. CASE ReadActive(h)
    <3>1. active[who[h]] \in Langs /\ lang' = [lang EXCEPT ![h] = active[who[h]]]
      BY <1>0, <1>3, <2>1 DEF ReadActive, TypeOK
    <3> QED BY <1>0, <1>1, <1>3, <2>1, <3>1
            DEF ReadActive, Goto, TypeOK, Sound, Underway, Cleared, PastGate
  <2>2. CASE LoadUser(h)
    <3>1. mode[h] = "url" => AfterUser(mode[h]) = "source"
      BY DEF AfterUser
    <3>2. mode[h] # "url" => AfterUser(mode[h]) \in {"known", "summarize"}
      BY <1>0 DEF AfterUser, TypeOK, Modes
    <3> QED BY <1>0, <1>1, <1>3, <2>2, <3>1, <3>2
            DEF LoadUser, Goto, TypeOK, Sound, Underway, Cleared, PastGate, locals
  <2>3. CASE CheckSource(h)
    BY <1>0, <1>1, <1>3, <2>3 DEF CheckSource, Goto, TypeOK, Sound, Underway, Cleared, PastGate, locals
  <2>4. CASE CacheLookup(h)
    BY <1>0, <1>1, <1>3, <2>4 DEF CacheLookup, Goto, TypeOK, Sound, Underway, Cleared, PastGate, locals
  <2>5. CASE Replay(h)
    BY <1>3, <2>5 DEF Replay
  <2>6. CASE Summarize(h)
    BY <1>0, <1>1, <1>3, <2>6 DEF Summarize, Goto, TypeOK, Sound, Underway, Cleared, PastGate, locals
  <2>7. CASE KnownLemmas(h)
    BY <1>0, <1>1, <1>3, <2>7 DEF KnownLemmas, Goto, TypeOK, Sound, Underway, Cleared, PastGate, locals
  <2>8. CASE Analyze(h)
    <3>1. PICK ws \in SUBSET Lemmas, l \in Levels :
            /\ words' = [words EXCEPT ![h] = ws]
            /\ Goto(h, IF mode[h] = "url" THEN "persist" ELSE "vocab")
            /\ UNCHANGED <<who, page, ticket, mode, lang>>
      BY <1>3, <2>8 DEF Analyze
    <3> QED BY <1>0, <1>1, <2>8, <3>1
            DEF Analyze, Goto, TypeOK, Sound, Underway, Cleared, PastGate
  <2>9. CASE VocabPass(h)
    BY <1>0, <1>1, <2>9 DEF VocabPass, Goto, TypeOK, Sound, Underway, Cleared, PastGate
  <2>10. CASE Persist(h)
    BY <1>3, <2>10 DEF Persist
  <2> QED BY <2>1, <2>2, <2>3, <2>4, <2>5, <2>6, <2>7, <2>8, <2>9, <2>10
<1> QED BY <1>2, <1>3

\* After a step of one handler, the invariant holds if it holds of that
\* handler, of the shelf and of the parked articles.
LEMMA HandlerKeeps ==
  ASSUME IInv, TypeOK', NEW h \in Handlers,
         \/ Handle(h)
         \/ \E u \in Users, p \in Pages : Link(h, u, p)
         \/ \E u \in Users, t \in 1 .. issued, m \in Modes \ {"url"} : Choose(h, u, t, m),
         Sound(h)', OnlyAskedFor', ParkingSound',
         Underway(h)' =>
           \/ ticket'[h] = NoTicket
           \/ Underway(h) /\ ticket'[h] = ticket[h]
           \/ ticket'[h] \notin taken
  PROVE  IInv'
<1>0. TypeOK /\ (\A g \in Handlers : Sound(g)) /\ Distinct
  BY DEF IInv
<1>1. \A g \in Handlers : g # h =>
        /\ asked \subseteq asked' /\ taken \subseteq taken' /\ blocked' = blocked
        /\ pc'[g] = pc[g] /\ who'[g] = who[g] /\ page'[g] = page[g]
        /\ ticket'[g] = ticket[g] /\ mode'[g] = mode[g] /\ lang'[g] = lang[g]
        /\ words'[g] = words[g]
  BY <1>0, OneMoves
<1>2. \A g \in Handlers : Sound(g)'
  BY <1>0, <1>1, Untouched
<1>3. ASSUME NEW g \in Handlers, g # h, Underway(g)', Underway(h)', ticket'[g] = ticket'[h]
      PROVE  ticket'[g] = NoTicket
  <2>1. Underway(g) /\ ticket'[g] = ticket[g]
    BY <1>1, <1>3 DEF Underway
  <2>2. CASE ticket'[h] = NoTicket
    BY <1>3, <2>2
  <2>3. CASE Underway(h) /\ ticket'[h] = ticket[h]
    BY <1>0, <1>3, <2>1, <2>3 DEF Distinct
  <2>4. CASE ticket'[h] \notin taken
    <3>1. mode[g] = "url"
      BY <1>0, <1>3, <2>1, <2>4 DEF Sound
    <3> QED BY <1>0, <2>1, <3>1 DEF Sound
  <2> QED BY <1>3, <2>2, <2>3, <2>4
<1>4. ASSUME NEW f \in Handlers, NEW g \in Handlers, f # g,
             Underway(f)', Underway(g)', ticket'[f] = ticket'[g]
      PROVE  ticket'[f] = NoTicket
  <2>1. CASE f = h
    BY <1>3, <1>4, <2>1
  <2>2. CASE g = h
    BY <1>3, <1>4, <2>2
  <2>3. CASE f # h /\ g # h
    BY <1>0, <1>1, <1>4, <2>3 DEF Distinct, Underway
  <2> QED BY <2>1, <2>2, <2>3
<1>5. Distinct'
  BY <1>4 DEF Distinct
<1> QED BY <1>2, <1>5 DEF IInv

LEMMA LinkKeeps ==
  ASSUME IInv, TypeOK', NEW h \in Handlers, NEW u \in Users, NEW p \in Pages, Link(h, u, p)
  PROVE  IInv'
<1>0. TypeOK /\ Sound(h) /\ OnlyAskedFor /\ ParkingSound
  BY DEF IInv
<1>1. /\ pc[h] = "idle" /\ pc'[h] = "active" /\ who'[h] = u /\ page'[h] = p
      /\ asked' = asked \cup {<<u, p>>} /\ mode'[h] = mode[h] /\ ticket'[h] = ticket[h]
      /\ UNCHANGED <<blocked, articles, pending, issued, taken>>
  BY <1>0 DEF Link, Goto, TypeOK, store, parking
<1>2. mode[h] = "url" /\ ticket[h] = NoTicket
  BY <1>0, <1>1 DEF Sound
<1>3. Sound(h)'
  BY <1>1, <1>2 DEF Sound, Underway, Cleared, PastGate
<1>4. OnlyAskedFor' /\ ParkingSound'
  BY <1>0, <1>1 DEF OnlyAskedFor, ParkingSound
<1> QED BY <1>1, <1>2, <1>3, <1>4, HandlerKeeps

LEMMA ChooseKeeps ==
  ASSUME IInv, TypeOK', NEW h \in Handlers, NEW u \in Users, NEW t \in 1 .. issued,
         NEW m \in Modes \ {"url"}, Choose(h, u, t, m)
  PROVE  IInv'
<1>0. TypeOK /\ Sound(h) /\ OnlyAskedFor /\ ParkingSound
  BY DEF IInv
<1>1. /\ pc'[h] = "take" /\ who'[h] = u /\ mode'[h] = m /\ ticket'[h] = t
      /\ UNCHANGED <<blocked, articles, pending, issued, asked, taken>>
  BY <1>0 DEF Choose, Goto, TypeOK, store, parking, history
<1>2. t \in Tickets
  BY <1>0 DEF TypeOK, Tickets, NoTicket
<1>3. Sound(h)' /\ ~ Underway(h)'
  BY <1>1, <1>2 DEF Sound, Underway, Cleared, PastGate
<1>4. OnlyAskedFor' /\ ParkingSound'
  BY <1>0, <1>1 DEF OnlyAskedFor, ParkingSound
<1> QED BY <1>3, <1>4, HandlerKeeps

LEMMA TakeKeeps ==
  ASSUME IInv, TypeOK', NEW h \in Handlers, Take(h)
  PROVE  IInv'
<1>0. TypeOK /\ Sound(h) /\ OnlyAskedFor /\ ParkingSound /\ Handle(h)
  BY DEF IInv, Handle
<1>1. UNCHANGED <<blocked, articles, issued, asked>> /\ pc[h] = "take"
  BY DEF Take, store
<1>2. OnlyAskedFor'
  BY <1>0, <1>1 DEF OnlyAskedFor
<1>3. CASE Return(h) /\ pending' = Fresh(pending) /\ taken' = taken
  <2>1. ParkingSound'
    BY <1>0, <1>1, <1>3 DEF ParkingSound, Fresh
  <2> QED BY <1>0, <1>2, <1>3, <2>1, ReturnSound, HandlerKeeps
<1>4. ASSUME NEW x \in Mine(h),
             /\ pending' = Fresh(pending) \ {x} /\ taken' = taken \cup {x.ticket}
             /\ page' = [page EXCEPT ![h] = x.page] /\ Goto(h, "active")
             /\ UNCHANGED <<who, ticket, mode, lang, cefr, words>>
      PROVE  IInv'
  <2>1. /\ x \in pending /\ x \in Parked /\ x.user = who[h] /\ x.ticket = ticket[h]
        /\ x.page \in Pages
    BY <1>0 DEF Mine, Asked, Fresh, Parked, TypeOK
  <2>2. /\ x.page \notin blocked /\ <<x.user, x.page>> \in asked
        /\ x.ticket <= issued /\ x.ticket \notin taken
    BY <1>0, <2>1 DEF ParkingSound
  <2>3. ParkingSound'
    <3>1. \A y \in pending' : y \in pending /\ y # x
      BY <1>4 DEF Fresh
    <3>2. \A y \in pending' : y.ticket # x.ticket
      BY <1>0, <2>1, <3>1 DEF ParkingSound
    <3> QED BY <1>0, <1>1, <1>4, <2>2, <3>1, <3>2 DEF ParkingSound
  <2>4. pc'[h] = "active" /\ page'[h] = x.page
    BY <1>0, <1>4 DEF Goto, TypeOK
  <2>5. Sound(h)'
    BY <1>0, <1>1, <1>4, <2>1, <2>2, <2>4 DEF Sound, Underway, Cleared, PastGate
  <2> QED BY <1>0, <1>2, <1>4, <2>1, <2>2, <2>3, <2>5, HandlerKeeps
<1> QED BY <1>3, <1>4 DEF Take

LEMMA ExtractKeeps ==
  ASSUME IInv, TypeOK', NEW h \in Handlers, Extract(h)
  PROVE  IInv'
<1>0. TypeOK /\ Sound(h) /\ OnlyAskedFor /\ ParkingSound /\ Handle(h)
  BY DEF IInv, Handle
<1>1. UNCHANGED <<blocked, articles, asked, taken>> /\ pc[h] = "extract"
  BY DEF Extract, store, history
<1>2. OnlyAskedFor'
  BY <1>0, <1>1 DEF OnlyAskedFor
<1>3. CASE Return(h) /\ UNCHANGED parking
  <2>1. ParkingSound'
    BY <1>0, <1>1, <1>3 DEF ParkingSound, parking
  <2> QED BY <1>0, <1>2, <1>3, <2>1, ReturnSound, HandlerKeeps
<1>4. CASE Goto(h, "known") /\ UNCHANGED <<parking, locals>>
  <2>1. ParkingSound'
    BY <1>0, <1>1, <1>4 DEF ParkingSound, parking
  <2>2. pc'[h] = "known" /\ UNCHANGED locals
    BY <1>0, <1>4 DEF Goto, TypeOK
  <2>3. Sound(h)'
    BY <1>0, <1>1, <2>2 DEF Sound, Underway, Cleared, PastGate, locals
  <2>4. Underway(h) /\ ticket'[h] = ticket[h]
    BY <1>1, <2>2 DEF Underway, locals
  <2> QED BY <1>0, <1>2, <2>1, <2>3, <2>4, HandlerKeeps
<1>5. CASE Park(h) /\ Return(h)
  <2> DEFINE n == [ticket |-> issued', user |-> who[h], page |-> page[h], expired |-> FALSE]
  <2>1. pending' = Fresh(pending) \cup {n} /\ issued' = issued + 1
    BY <1>5 DEF Park
  <2>2. n.page \notin blocked /\ <<n.user, n.page>> \in asked
    BY <1>0, <1>1 DEF Sound, Underway, Cleared, PastGate
  <2>3. n.ticket = issued + 1
    BY <2>1
  <2>4. issued \in Nat /\ (\A y \in pending : y.ticket \in Nat) /\ taken \subseteq Nat
    BY <1>0 DEF TypeOK, Parked, Tickets
  <2> HIDE DEF n
  <2>5. \A y \in pending' : y = n \/ y \in pending
    BY <2>1 DEF Fresh
  <2>6. \A y \in pending : y.ticket <= issued /\ y.ticket # n.ticket
    <3>1. \A y \in pending : y.ticket <= issued /\ y.ticket \in Nat
      BY <1>0, <2>4 DEF ParkingSound
    <3>2. \A k \in Nat : k <= issued => k # issued + 1
      BY <2>4
    <3> QED BY <2>3, <3>1, <3>2, Zenon
  <2>7. n.ticket \notin taken /\ \A t \in taken : t <= issued'
    BY <1>0, <2>1, <2>3, <2>4 DEF ParkingSound
  <2>8. \A y \in pending' :
          /\ y.page \notin blocked /\ <<y.user, y.page>> \in asked
          /\ y.ticket <= issued' /\ y.ticket \notin taken
    <3>1. ASSUME NEW y \in pending
          PROVE  /\ y.page \notin blocked /\ <<y.user, y.page>> \in asked
                 /\ y.ticket <= issued' /\ y.ticket \notin taken
      <4>1. y.ticket <= issued /\ y.ticket \in Nat
        BY <2>4, <2>6
      <4>2. y.ticket <= issued'
        BY <2>1, <2>4, <4>1
      <4> QED BY <1>0, <4>2 DEF ParkingSound
    <3>2. n.ticket <= issued'
      BY <2>1, <2>3, <2>4
    <3> QED BY <2>2, <2>5, <2>7, <3>1, <3>2
  <2>9. \A x, y \in pending' : x.ticket = y.ticket => x = y
    BY <1>0, <2>5, <2>6 DEF ParkingSound
  <2>10. ParkingSound'
    BY <1>1, <2>7, <2>8, <2>9 DEF ParkingSound
  <2> QED BY <1>0, <1>2, <1>5, <2>10, ReturnSound, HandlerKeeps
<1> QED BY <1>3, <1>4, <1>5 DEF Extract

LEMMA PersistShelves ==
  ASSUME IInv, NEW h \in Handlers, Persist(h)
  PROVE  \/ UNCHANGED articles
         \/ /\ Analysed(h) \in Article /\ <<who[h], page[h]>> \in asked
            /\ Existing(h) = {} /\ articles' = articles \cup {Analysed(h)}
<1>1. TypeOK /\ Sound(h) /\ pc[h] = "persist"
  BY DEF IInv, Persist
<1>2. /\ who[h] \in Users /\ page[h] \in Pages /\ lang[h] \in Langs
      /\ <<who[h], page[h]>> \in asked
  BY <1>1 DEF Sound, Underway
<1>3. Analysed(h) \in Article
  BY <1>1, <1>2 DEF Analysed, Article, TypeOK
<1> QED BY <1>2, <1>3 DEF Persist, store

LEMMA HandleKeeps ==
  ASSUME IInv, TypeOK', NEW h \in Handlers, Handle(h)
  PROVE  IInv'
<1>0. TypeOK /\ OnlyAskedFor /\ ParkingSound
  BY DEF IInv
<1>1. CASE Take(h)
  BY <1>1, TakeKeeps
<1>2. CASE Extract(h)
  BY <1>2, ExtractKeeps
<1>3. CASE \/ ReadActive(h) \/ LoadUser(h) \/ CheckSource(h) \/ CacheLookup(h) \/ Replay(h)
           \/ Summarize(h) \/ KnownLemmas(h) \/ Analyze(h) \/ VocabPass(h) \/ Persist(h)
  <2>1. /\ Sound(h)' /\ UNCHANGED <<blocked, parking, asked, taken>>
        /\ Underway(h)' => Underway(h) /\ ticket'[h] = ticket[h]
    BY <1>3, PlainKeeps
  <2>2. ParkingSound'
    BY <1>0, <2>1 DEF ParkingSound, parking
  <2>3. OnlyAskedFor'
    <3>1. CASE Persist(h)
      <4>1. asked' = asked /\ Analysed(h).user = who[h] /\ Analysed(h).page = page[h]
        BY <2>1 DEF Analysed
      <4>2. \/ articles' = articles
            \/ <<who[h], page[h]>> \in asked /\ articles' = articles \cup {Analysed(h)}
        BY <3>1, PersistShelves
      <4> QED BY <1>0, <4>1, <4>2 DEF OnlyAskedFor
    <3>2. CASE ~ Persist(h)
      <4>1. articles' = articles
        BY <1>3, <3>2 DEF ReadActive, LoadUser, CheckSource, CacheLookup, Replay, Summarize,
                          KnownLemmas, Analyze, VocabPass, store
      <4> QED BY <1>0, <2>1, <4>1 DEF OnlyAskedFor
    <3> QED BY <3>1, <3>2
  <2> QED BY <2>1, <2>2, <2>3, HandlerKeeps
<1> QED BY <1>1, <1>2, <1>3 DEF Handle

-----------------------------------------------------------------------------
(* The environment.                                                        *)

LEMMA AsideKeeps ==
  ASSUME IInv, TypeOK',
         UNCHANGED <<blocked, parking, pc, locals, history>>,
         articles' \subseteq articles
  PROVE  IInv'
<1>1. \A h \in Handlers : Sound(h)'
  BY DEF IInv, Sound, Underway, Cleared, locals, history
<1> QED BY <1>1 DEF IInv, OnlyAskedFor, ParkingSound, Distinct, Underway, parking, locals, history

LEMMA ExpireKeeps == IInv /\ TypeOK' /\ Expire => IInv'
<1> SUFFICES ASSUME IInv, TypeOK', Expire PROVE IInv'
  OBVIOUS
<1>0. TypeOK /\ ParkingSound
  BY DEF IInv
<1>1. PICK x \in Fresh(pending) :
        /\ pending' = (pending \ {x}) \cup {[x EXCEPT !.expired = TRUE]}
        /\ UNCHANGED <<profile, blocked, store, issued, events, pc, locals, history>>
  BY DEF Expire
<1> DEFINE y == [x EXCEPT !.expired = TRUE]
<1>2. x \in pending /\ y.ticket = x.ticket /\ y.user = x.user /\ y.page = x.page
  BY <1>0 DEF Fresh, TypeOK, Parked
<1> HIDE DEF y
<1>3. \A z \in pending' : z = y \/ (z \in pending /\ z # x)
  BY <1>1 DEF y
<1>4. ParkingSound'
  BY <1>0, <1>1, <1>2, <1>3 DEF ParkingSound, history
<1>5. \A h \in Handlers : Sound(h)'
  BY <1>1 DEF IInv, Sound, Underway, Cleared, locals, history
<1> QED BY <1>1, <1>4, <1>5 DEF IInv, OnlyAskedFor, Distinct, Underway, store, locals, history

LEMMA RestartKeeps ==
  ASSUME IInv, TypeOK', NEW b \in SUBSET Blockable, Restart(b)
  PROVE  IInv'
<1>1. \A h \in Handlers : Sound(h)'
  BY DEF Restart, Sound, Underway, Cleared, PastGate
<1> QED BY <1>1 DEF Restart, IInv, OnlyAskedFor, ParkingSound, Distinct, Underway, store, history

LEMMA IInvNext == IInv /\ [Next]_vars => IInv'
<1> SUFFICES ASSUME IInv, [Next]_vars PROVE IInv'
  OBVIOUS
<1>0. TypeOK'
  BY TypeNext
<1>1. ASSUME NEW h \in Handlers, NEW u \in Users, NEW p \in Pages, Link(h, u, p)
      PROVE  IInv'
  BY <1>0, <1>1, LinkKeeps
<1>2. ASSUME NEW h \in Handlers, NEW u \in Users, NEW t \in 1 .. issued,
             NEW m \in Modes \ {"url"}, Choose(h, u, t, m)
      PROVE  IInv'
  BY <1>0, <1>2, ChooseKeeps
<1>3. ASSUME NEW h \in Handlers, Handle(h) PROVE IInv'
  BY <1>0, <1>3, HandleKeeps
<1>4. ASSUME NEW u \in Users, NEW l \in Langs, NEW w \in Lemmas, NEW s \in Statuses,
             SetStatus(u, l, w, s)
      PROVE  IInv'
  BY <1>0, <1>4, AsideKeeps DEF SetStatus
<1>5. ASSUME NEW u \in Users, NEW l \in Langs, NEW v \in Levels, Settings(u, l, v)
      PROVE  IInv'
  BY <1>0, <1>5, AsideKeeps DEF Settings, store
<1>6. ASSUME NEW u \in Users, EraseAccount(u) PROVE IInv'
  BY <1>0, <1>6, AsideKeeps DEF EraseAccount
<1>7. CASE Expire
  BY <1>0, <1>7, ExpireKeeps
<1>8. ASSUME NEW b \in SUBSET Blockable, Restart(b) PROVE IInv'
  BY <1>0, <1>8, RestartKeeps
<1>9. CASE UNCHANGED vars
  BY <1>0, <1>9, AsideKeeps DEF vars, store
<1> QED BY <1>1, <1>2, <1>3, <1>4, <1>5, <1>6, <1>7, <1>8, <1>9 DEF Next

\* The states stay well typed; in particular a stored article is whole.
THEOREM TypeCorrect == Spec => []TypeOK
<1>1. IInv => TypeOK
  BY DEF IInv
<1> QED BY <1>1, IInvInit, IInvNext, PTL DEF Spec

\* A blocked source goes nowhere, through the buttons of parked articles and
\* changes of the blocklist at a restart too.
THEOREM BlockedStopped == Spec => []BlockedStopsAtGate
<1>1. IInv => BlockedStopsAtGate
  <2> SUFFICES ASSUME IInv PROVE BlockedStopsAtGate
    OBVIOUS
  <2>1. \A h \in Handlers : pc[h] \in PastGate => page[h] \notin blocked
    BY DEF IInv, Sound, Cleared
  <2>2. \A x \in pending : x.page \notin blocked
    BY DEF IInv, ParkingSound
  <2> QED BY <2>1, <2>2 DEF BlockedStopsAtGate
<1> QED BY <1>1, IInvInit, IInvNext, PTL DEF Spec

\* An article is stored only for a user who sent that page, whoever presses
\* the buttons of a parked one.
THEOREM StoredIfAsked == Spec => []OnlyAskedFor
<1>1. IInv => OnlyAskedFor
  BY DEF IInv
<1> QED BY <1>1, IInvInit, IInvNext, PTL DEF Spec

\* A parked article is taken once, whatever buttons are pressed how often,
\* and what was taken does not come back.
THEOREM TakenOnce == Spec => []ParkedOnce
<1>1. IInv => ParkedOnce
  BY DEF IInv, ParkingSound, Distinct, Underway, ParkedOnce
<1> QED BY <1>1, IInvInit, IInvNext, PTL DEF Spec

-----------------------------------------------------------------------------
(* Steps.                                                                  *)

\* What moves a handler and changes the store is a Persist: the statuses that
\* a user sets, deletions and the passing of time move none.
LEMMA WhoMoves ==
  ASSUME Next, pc' # pc
  PROVE  \/ \E h \in Handlers : Persist(h)
         \/ UNCHANGED store
<1> USE DEF store, locals
<1>1. ASSUME NEW h \in Handlers, Handle(h), ~ Persist(h) PROVE UNCHANGED store
  BY <1>1 DEF Handle, ReadActive, LoadUser, CheckSource, CacheLookup, Replay, Extract, Take,
              Summarize, KnownLemmas, Analyze, VocabPass
<1>2. ASSUME NEW h \in Handlers, NEW u \in Users, NEW p \in Pages, Link(h, u, p)
      PROVE  UNCHANGED store
  BY <1>2 DEF Link
<1>3. ASSUME NEW h \in Handlers, NEW u \in Users, NEW t \in 1 .. issued,
             NEW m \in Modes \ {"url"}, Choose(h, u, t, m)
      PROVE  UNCHANGED store
  BY <1>3 DEF Choose
<1>4. \A u \in Users :
        /\ \A l \in Langs, w \in Lemmas, s \in Statuses : ~ SetStatus(u, l, w, s)
        /\ \A l \in Langs, v \in Levels : ~ Settings(u, l, v)
        /\ ~ EraseAccount(u)
  BY DEF SetStatus, Settings, EraseAccount
<1>5. ~ Expire
  BY DEF Expire
<1>6. ASSUME NEW b \in SUBSET Blockable, Restart(b) PROVE UNCHANGED store
  BY <1>6 DEF Restart
<1> QED BY <1>1, <1>2, <1>3, <1>4, <1>5, <1>6 DEF Next

\* The statuses after a step that stored the articles new.
After(new) ==
  \A u \in Users, l \in Langs, w \in Lemmas :
    status'[u][l][w] =
      IF \E a \in new : a.user = u /\ a.lang = l /\ w \in a.words
        THEN "learning" ELSE status[u][l][w]

LEMMA PersistLearns ==
  ASSUME IInv, NEW h \in Handlers, Persist(h)
  PROVE  After(articles' \ articles)
<1>0. TypeOK /\ Sound(h) /\ pc[h] = "persist"
  BY DEF IInv, Persist
<1>1. CASE UNCHANGED store
  BY <1>1 DEF After, store
<1>2. CASE /\ Existing(h) = {} /\ articles' = articles \cup {Analysed(h)}
           /\ status' = Learn(who[h], lang[h], words[h])
  <2>1. Analysed(h) \notin articles
    BY <1>2 DEF Existing, Stored, Analysed
  <2>2. articles' \ articles = {Analysed(h)}
    BY <1>2, <2>1
  <2>3. who[h] \in Users /\ lang[h] \in Langs
    BY <1>0 DEF Sound
  <2>4. /\ Analysed(h).user = who[h] /\ Analysed(h).lang = lang[h]
        /\ Analysed(h).words = words[h]
    BY DEF Analysed
  <2>5. ASSUME NEW u \in Users, NEW l \in Langs, NEW w \in Lemmas
        PROVE  status'[u][l][w] =
                 IF u = who[h] /\ l = lang[h] /\ w \in words[h] THEN "learning" ELSE status[u][l][w]
    BY <1>0, <1>2, <2>3 DEF Learn, TypeOK
  <2> QED BY <2>2, <2>4, <2>5 DEF After
<1> QED BY <1>1, <1>2 DEF Persist

\* The words of an article go to "learning" with the article or not at all,
\* whatever other handlers, restarts and failures come in between.
THEOREM LearnedTogether == Spec => LearnedWithArticle
<1> DEFINE P == pc' # pc => After(articles' \ articles)
<1>1. ASSUME IInv, Next, pc' # pc PROVE After(articles' \ articles)
  <2>1. CASE UNCHANGED store
    BY <2>1 DEF After, store
  <2> QED BY <1>1, <2>1, PersistLearns, WhoMoves
<1>2. IInv /\ [Next]_vars => [P]_vars
  BY <1>1
<1>3. LearnedWithArticle <=> [][P]_vars
  BY DEF LearnedWithArticle, After
<1> HIDE DEF P
<1> QED BY <1>2, <1>3, IInvInit, IInvNext, PTL DEF Spec

-----------------------------------------------------------------------------
(* Refinement.                                                             *)

LEMMA StepRefines == IInv /\ [Next]_vars => [Shelf!Next]_(Shelf!vars)
<1> SUFFICES ASSUME IInv, [Next]_vars PROVE [Shelf!Next]_(Shelf!vars)
  OBVIOUS
<1> USE DEF Shelf!vars
<1>1. ASSUME NEW h \in Handlers, NEW u \in Users, NEW p \in Pages, Link(h, u, p)
      PROVE  Shelf!Next
  BY <1>1 DEF Link, store, Shelf!Next, Shelf!Ask
<1>2. ASSUME NEW h \in Handlers, NEW u \in Users, NEW t \in 1 .. issued,
             NEW m \in Modes \ {"url"}, Choose(h, u, t, m)
      PROVE  UNCHANGED Shelf!vars
  BY <1>2 DEF Choose, store, history
<1>3. ASSUME NEW h \in Handlers, Handle(h) PROVE [Shelf!Next]_(Shelf!vars)
  <2>1. CASE Persist(h)
    <3>1. asked' = asked
      BY <2>1 DEF Persist
    <3>2. CASE UNCHANGED articles
      BY <3>1, <3>2
    <3>3. CASE /\ Analysed(h) \in Article /\ <<who[h], page[h]>> \in asked
               /\ Existing(h) = {} /\ articles' = articles \cup {Analysed(h)}
      <4>1. \A a \in articles : ~ Shelf!SamePlace(Analysed(h), a)
        BY <3>3 DEF Existing, Stored, Analysed, Shelf!SamePlace
      <4>2. Shelf!Shelve(Analysed(h))
        BY <3>1, <3>3, <4>1 DEF Shelf!Shelve, Analysed
      <4>3. Analysed(h) \in Shelf!Article
        BY <3>3 DEF Article, Shelf!Article
      <4> QED BY <4>2, <4>3 DEF Shelf!Next
    <3> QED BY <2>1, <3>2, <3>3, PersistShelves
  <2>2. CASE ~ Persist(h)
    BY <1>3, <2>2
       DEF Handle, ReadActive, LoadUser, CheckSource, CacheLookup, Replay, Extract, Take,
           Summarize, KnownLemmas, Analyze, VocabPass, store, history
  <2> QED BY <2>1, <2>2
<1>4. ASSUME NEW u \in Users, NEW l \in Langs, NEW w \in Lemmas, NEW s \in Statuses,
             SetStatus(u, l, w, s)
      PROVE  UNCHANGED Shelf!vars
  BY <1>4 DEF SetStatus, history
<1>5. ASSUME NEW u \in Users, NEW l \in Langs, NEW v \in Levels, Settings(u, l, v)
      PROVE  UNCHANGED Shelf!vars
  BY <1>5 DEF Settings, store, history
<1>6. ASSUME NEW u \in Users, EraseAccount(u) PROVE Shelf!Next
  BY <1>6 DEF EraseAccount, history, Shelf!Next, Shelf!Leave
<1>7. CASE Expire
  BY <1>7 DEF Expire, store, history
<1>8. ASSUME NEW b \in SUBSET Blockable, Restart(b) PROVE UNCHANGED Shelf!vars
  BY <1>8 DEF Restart, store, history
<1>9. CASE UNCHANGED vars
  BY <1>9 DEF vars, store, history
<1> QED BY <1>1, <1>2, <1>3, <1>4, <1>5, <1>6, <1>7, <1>8, <1>9 DEF Next

\* Through races, parking, failures and restarts, the articles table is the
\* abstract shelf: once per reader, page and language, only for who asked.
THEOREM PipelineImplementsLibrary == Spec => ImplementsLibrary
<1>1. Init => Shelf!Init
  BY DEF Init, Shelf!Init
<1> QED BY <1>1, IInvInit, IInvNext, StepRefines, PTL DEF Spec, ImplementsLibrary, Shelf!Spec
=============================================================================
