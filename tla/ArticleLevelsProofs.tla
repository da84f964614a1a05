------------------------ MODULE ArticleLevelsProofs -------------------------
(***************************************************************************)
(* Theorems about ArticleLevels, for every scale of levels and any number  *)
(* of cards that are opened at once.                                       *)
(***************************************************************************)
EXTENDS MCArticleLevels, TLAPS

\* A call of Adapt between its first read and its write.
Adapting(h) == pc[h] \in {"user", "pick", "llm", "store"}

\* What it read had the original versions: its write keeps them.
HeldOriginal == \A h \in Handlers : Adapting(h) => original \subseteq read[h]

\* b is the source that a loop which has visited the keys in V must hold.
Closest(b, V, target) ==
  IF V = {} THEN b = NoLevel
  ELSE /\ b \in V
       /\ \A k \in V \ {b} :
            \/ Distance(b, target) < Distance(k, target)
            \/ Distance(b, target) = Distance(k, target) /\ b < k

\* The loop of pickAdaptSource so far.
LoopSound ==
  \A h \in Handlers : pc[h] \in {"pick", "llm"} =>
    /\ todo[h] \subseteq read[h]
    /\ Closest(best[h], read[h] \ todo[h], want[h])
    /\ pc[h] = "llm" => todo[h] = {}

Wanted == \A h \in Handlers : pc[h] # "idle" => want[h] \in Levels

IInv == TypeOK /\ Wanted /\ OriginalKept /\ HeldOriginal /\ LoopSound

-----------------------------------------------------------------------------
LEMMA LevelsAre == Levels \subseteq Int /\ NoLevel \notin Levels
BY LevelsAssumption DEF Levels, NoLevel

LEMMA DistanceIs ==
  ASSUME NEW a \in Levels, NEW b \in Levels
  PROVE  Distance(a, b) \in Nat
BY LevelsAssumption DEF Levels, Distance

\* The slots of a reply are levels.
LEMMA RepliesAre ==
  ASSUME NEW l \in Levels, NEW r \in Replies(l)
  PROVE  r \subseteq Levels
BY DEF Replies, CEFRShift

\* One round of the loop.
LEMMA VisitOne ==
  ASSUME NEW V \in SUBSET Levels, NEW k \in Levels, k \notin V, NEW t \in Levels,
         NEW b \in Levels \cup {NoLevel}, Closest(b, V, t)
  PROVE  Closest(IF Closer(k, b, t) THEN k ELSE b, V \cup {k}, t)
<1>1. CASE V = {}
  BY <1>1 DEF Closest, Closer
<1>2. CASE V # {}
  <2>1. /\ b \in V /\ b # NoLevel
        /\ \A j \in V \ {b} :
             \/ Distance(b, t) < Distance(j, t)
             \/ Distance(b, t) = Distance(j, t) /\ b < j
    BY <1>2, LevelsAre DEF Closest
  <2>2. \A j \in V \cup {k} : j \in Int /\ Distance(j, t) \in Nat
    BY DistanceIs, LevelsAre
  <2>3. CASE Closer(k, b, t)
    <3>1. \/ Distance(k, t) < Distance(b, t)
          \/ Distance(k, t) = Distance(b, t) /\ k < b
      BY <2>1, <2>3 DEF Closer
    <3>2. \A j \in (V \cup {k}) \ {k} :
            \/ Distance(k, t) < Distance(j, t)
            \/ Distance(k, t) = Distance(j, t) /\ k < j
      BY <2>1, <2>2, <3>1
    <3> QED BY <2>3, <3>2 DEF Closest
  <2>4. CASE ~ Closer(k, b, t)
    <3>1. \/ Distance(b, t) < Distance(k, t)
          \/ Distance(b, t) = Distance(k, t) /\ b < k
      BY <2>1, <2>2, <2>4 DEF Closer
    <3> QED BY <2>1, <2>4, <3>1 DEF Closest
  <2> QED BY <2>3, <2>4
<1> QED BY <1>1, <1>2

-----------------------------------------------------------------------------
LEMMA TypeInit == Init => TypeOK
BY RepliesAre, LevelsAssumption DEF Init, TypeOK, PCs

LEMMA TypeNext == TypeOK /\ Wanted /\ [Next]_vars => TypeOK'
<1> SUFFICES ASSUME TypeOK, Wanted, [Next]_vars PROVE TypeOK'
  OBVIOUS
<1>1. ASSUME NEW h \in Handlers, NEW v \in Views, Open(h, v) PROVE TypeOK'
  BY <1>1 DEF Open, Goto, TypeOK, PCs, CEFRShift, db
<1>2. ASSUME NEW h \in Handlers, Handle(h) PROVE TypeOK'
  <2>1. CASE ReadCard(h)
    BY <2>1 DEF ReadCard, Return, Goto, TypeOK, PCs, db, locals
  <2>2. CASE Show(h)
    BY <2>2 DEF Show, Return, Goto, TypeOK, PCs, db, locals
  <2>3. CASE ReadArticle(h)
    BY <2>3 DEF ReadArticle, Return, Goto, TypeOK, PCs, db, locals
  <2>4. CASE LoadUser(h)
    BY <2>4 DEF LoadUser, Return, Goto, TypeOK, PCs, db, locals
  <2>5. CASE PickStep(h)
    <3>1. PICK k \in todo[h] :
            /\ todo' = [todo EXCEPT ![h] = @ \ {k}]
            /\ best' = [best EXCEPT ![h] = IF Closer(k, @, want[h]) THEN k ELSE @]
            /\ UNCHANGED <<db, opens, pc, want, read, reply, original>>
      BY <2>5 DEF PickStep
    <3>2. k \in Levels
      BY DEF TypeOK
    <3> QED BY <3>1, <3>2 DEF TypeOK, db
  <2>6. CASE Picked(h)
    BY <2>6 DEF Picked, Return, Goto, TypeOK, PCs, db, locals
  <2>7. CASE Generate(h)
    BY <2>7 DEF Generate, Return, Goto, TypeOK, PCs, db, locals
  <2>8. CASE Store(h)
    <3>1. Merged(h) \subseteq Levels
      BY <2>8 DEF Store, Merged, Wanted, TypeOK
    <3> QED BY <2>8, <3>1 DEF Store, Return, Goto, TypeOK, PCs, locals
  <2>9. CASE Reload(h)
    BY <2>9 DEF Reload, Return, Goto, TypeOK, PCs, db, locals
  <2> QED BY <1>2, <2>1, <2>2, <2>3, <2>4, <2>5, <2>6, <2>7, <2>8, <2>9 DEF Handle
<1>3. ASSUME NEW l \in Levels, SetLevel(l) PROVE TypeOK'
  BY <1>3 DEF SetLevel, TypeOK, locals
<1>4. CASE EraseAccount
  BY <1>4 DEF EraseAccount, TypeOK, locals
<1>5. CASE Restart
  BY <1>5 DEF Restart, TypeOK, PCs, db
<1>6. CASE UNCHANGED vars
  BY <1>6 DEF vars, db, locals, TypeOK
<1> QED BY <1>1, <1>2, <1>3, <1>4, <1>5, <1>6 DEF Next

-----------------------------------------------------------------------------
LEMMA IInvInit == Init => IInv
<1> SUFFICES ASSUME Init PROVE IInv
  OBVIOUS
<1>1. TypeOK
  BY TypeInit
<1> QED BY <1>1 DEF Init, IInv, Wanted, OriginalKept, HeldOriginal, Adapting, LoopSound

\* The part of the invariant about one handler.
Held(h) ==
  /\ pc[h] # "idle" => want[h] \in Levels
  /\ Adapting(h) => original \subseteq read[h]
  /\ pc[h] \in {"pick", "llm"} =>
       /\ todo[h] \subseteq read[h]
       /\ Closest(best[h], read[h] \ todo[h], want[h])
       /\ pc[h] = "llm" => todo[h] = {}

LEMMA HeldIs == IInv <=> TypeOK /\ OriginalKept /\ \A h \in Handlers : Held(h)
BY DEF IInv, Wanted, HeldOriginal, LoopSound, Held

\* A handler whose own variables do not change holds what it held.
LEMMA Untouched ==
  ASSUME NEW h \in Handlers, Held(h), UNCHANGED original,
         pc'[h] = pc[h], want'[h] = want[h], read'[h] = read[h],
         todo'[h] = todo[h], best'[h] = best[h]
  PROVE  Held(h)'
BY DEF Held, Adapting, Closest, Distance, NoLevel

\* A step of one handler disturbs no other.
LEMMA OneMoves ==
  ASSUME TypeOK, NEW h \in Handlers, Handle(h) \/ \E v \in Views : Open(h, v),
         NEW g \in Handlers, g # h
  PROVE  /\ UNCHANGED original
         /\ pc'[g] = pc[g] /\ want'[g] = want[g] /\ read'[g] = read[g]
         /\ todo'[g] = todo[g] /\ best'[g] = best[g]
BY DEF TypeOK, Handle, Open, ReadCard, Show, ReadArticle, LoadUser, PickStep, Picked,
       Generate, Store, Reload, Return, Goto, locals

LEMMA HandleKeeps ==
  ASSUME IInv, TypeOK', NEW h \in Handlers, Handle(h)
  PROVE  OriginalKept' /\ Held(h)'
<1>0. TypeOK /\ OriginalKept /\ Held(h)
  BY HeldIs
<1>1. CASE ReadCard(h)
  BY <1>0, <1>1 DEF ReadCard, Return, Goto, TypeOK, OriginalKept, Held, Adapting, db
<1>2. CASE Show(h)
  BY <1>0, <1>2 DEF Show, Return, Goto, TypeOK, OriginalKept, Held, Adapting, db
<1>3. CASE ReadArticle(h)
  BY <1>0, <1>3 DEF ReadArticle, Return, Goto, TypeOK, OriginalKept, Held, Adapting, db
<1>4. CASE LoadUser(h)
  <2>1. OriginalKept'
    BY <1>0, <1>4 DEF LoadUser, OriginalKept, db
  <2>2. CASE pc' = [pc EXCEPT ![h] = "idle"]
    BY <1>0, <2>1, <2>2 DEF TypeOK, Held, Adapting
  <2>3. CASE /\ todo' = [todo EXCEPT ![h] = read[h]] /\ best' = [best EXCEPT ![h] = NoLevel]
             /\ pc' = [pc EXCEPT ![h] = "pick"] /\ UNCHANGED <<want, read, reply, original>>
    <3>1. /\ pc'[h] = "pick" /\ todo'[h] = read[h] /\ best'[h] = NoLevel
          /\ read'[h] = read[h] /\ want'[h] = want[h] /\ pc[h] = "user"
      BY <1>0, <1>4, <2>3 DEF LoadUser, TypeOK
    <3>2. Closest(NoLevel, {}, want[h])
      BY DEF Closest
    <3>3. read'[h] \ todo'[h] = {}
      BY <3>1
    <3>4. Closest(best[h], read[h] \ todo[h], want[h])'
      BY <3>1, <3>3 DEF Closest, NoLevel
    <3> QED BY <1>0, <2>1, <2>3, <3>1, <3>4 DEF Held, Adapting
  <2> QED BY <1>4, <2>1, <2>2, <2>3 DEF LoadUser, Return, Goto
<1>5. CASE PickStep(h)
  <2>1. PICK k \in todo[h] :
          /\ todo' = [todo EXCEPT ![h] = @ \ {k}]
          /\ best' = [best EXCEPT ![h] = IF Closer(k, @, want[h]) THEN k ELSE @]
          /\ UNCHANGED <<db, opens, pc, want, read, reply, original>>
    BY <1>5 DEF PickStep
  <2>2. OriginalKept'
    BY <1>0, <2>1 DEF OriginalKept, db
  <2>3. /\ pc[h] = "pick" /\ want[h] \in Levels /\ todo[h] \subseteq read[h]
        /\ Closest(best[h], read[h] \ todo[h], want[h])
    BY <1>0, <1>5 DEF PickStep, Held
  <2>4. /\ todo'[h] = todo[h] \ {k}
        /\ best'[h] = IF Closer(k, best[h], want[h]) THEN k ELSE best[h]
        /\ pc'[h] = pc[h] /\ want'[h] = want[h] /\ read'[h] = read[h]
    BY <1>0, <2>1 DEF TypeOK
  <2>5. /\ read[h] \ todo[h] \in SUBSET Levels /\ k \in Levels
        /\ k \notin read[h] \ todo[h] /\ best[h] \in Levels \cup {NoLevel}
        /\ k \in read[h]
    BY <1>0, <2>3 DEF TypeOK
  <2>6. Closest(IF Closer(k, best[h], want[h]) THEN k ELSE best[h],
                (read[h] \ todo[h]) \cup {k}, want[h])
    BY <2>3, <2>5, VisitOne
  <2>7. (read[h] \ todo[h]) \cup {k} = read[h] \ (todo[h] \ {k})
    BY <2>5
  <2>8. Closest(best'[h], read'[h] \ todo'[h], want'[h])
    BY <2>4, <2>6, <2>7
  <2>9. Closest(best[h], read[h] \ todo[h], want[h])'
    BY <2>8 DEF Closest, Distance, NoLevel
  <2> QED BY <1>0, <2>1, <2>2, <2>3, <2>4, <2>9 DEF Held, Adapting
<1>6. CASE Picked(h)
  <2>1. OriginalKept'
    BY <1>0, <1>6 DEF Picked, OriginalKept, db
  <2>2. CASE pc' = [pc EXCEPT ![h] = "idle"]
    BY <1>0, <2>1, <2>2 DEF TypeOK, Held, Adapting
  <2>3. CASE pc' = [pc EXCEPT ![h] = "llm"] /\ UNCHANGED locals
    <3>1. Closest(best[h], read[h] \ todo[h], want[h])'
      BY <1>0, <1>6, <2>3 DEF Picked, Held, locals, Closest, Distance, NoLevel
    <3> QED BY <1>0, <1>6, <2>1, <2>3, <3>1 DEF Picked, TypeOK, Held, Adapting, locals
  <2> QED BY <1>6, <2>1, <2>2, <2>3 DEF Picked, Return, Goto
<1>7. CASE Generate(h)
  BY <1>0, <1>7 DEF Generate, Return, Goto, TypeOK, OriginalKept, Held, Adapting, db
<1>8. CASE Store(h)
  <2>1. original \subseteq Merged(h) /\ original' = original
    BY <1>0, <1>8 DEF Store, Held, Adapting, Merged
  <2> QED BY <1>0, <1>8, <2>1 DEF Store, Return, Goto, TypeOK, OriginalKept, Held, Adapting, locals
<1>9. CASE Reload(h)
  BY <1>0, <1>9 DEF Reload, Return, Goto, TypeOK, OriginalKept, Held, Adapting, db
<1> QED BY <1>1, <1>2, <1>3, <1>4, <1>5, <1>6, <1>7, <1>8, <1>9 DEF Handle

LEMMA IInvNext == IInv /\ [Next]_vars => IInv'
<1> SUFFICES ASSUME IInv, [Next]_vars PROVE IInv'
  OBVIOUS
<1>1. TypeOK /\ OriginalKept /\ (\A h \in Handlers : Held(h)) /\ TypeOK'
  BY HeldIs, TypeNext DEF IInv
<1>2. ASSUME OriginalKept', \A h \in Handlers : Held(h)' PROVE IInv'
  BY <1>1, <1>2 DEF IInv, Wanted, HeldOriginal, LoopSound, Held
<1>3. ASSUME NEW h \in Handlers, NEW v \in Views, Open(h, v) PROVE IInv'
  <2>1. OriginalKept'
    BY <1>1, <1>3 DEF Open, OriginalKept, db
  <2>2. Held(h)'
    <3>1. pc'[h] = "card" /\ want'[h] \in Levels
      BY <1>1, <1>3 DEF Open, Goto, TypeOK, CEFRShift
    <3> QED BY <3>1 DEF Held, Adapting
  <2>3. \A g \in Handlers : g # h => Held(g)'
    BY <1>1, <1>3, OneMoves, Untouched
  <2> QED BY <1>2, <2>1, <2>2, <2>3
<1>4. ASSUME NEW h \in Handlers, Handle(h) PROVE IInv'
  <2>1. OriginalKept' /\ Held(h)'
    BY <1>1, <1>4, HandleKeeps
  <2>2. \A g \in Handlers : g # h => Held(g)'
    BY <1>1, <1>4, OneMoves, Untouched
  <2> QED BY <1>2, <2>1, <2>2
<1>5. ASSUME NEW l \in Levels, SetLevel(l) PROVE IInv'
  <2>1. UNCHANGED <<versions, pc, locals, original>>
    BY <1>5 DEF SetLevel
  <2>2. \A g \in Handlers : Held(g)'
    BY <1>1, <2>1, Untouched DEF locals
  <2> QED BY <1>1, <1>2, <2>1, <2>2 DEF OriginalKept
<1>6. CASE EraseAccount
  <2>1. UNCHANGED <<versions, pc, locals, original>>
    BY <1>6 DEF EraseAccount
  <2>2. \A g \in Handlers : Held(g)'
    BY <1>1, <2>1, Untouched DEF locals
  <2> QED BY <1>1, <1>2, <2>1, <2>2 DEF OriginalKept
<1>7. CASE Restart
  BY <1>1, <1>2, <1>7 DEF Restart, OriginalKept, Held, Adapting, db
<1>8. CASE UNCHANGED vars
  <2>1. UNCHANGED <<versions, pc, locals, original>>
    BY <1>8 DEF vars, db
  <2>2. \A g \in Handlers : Held(g)'
    BY <1>1, <2>1, Untouched DEF locals
  <2> QED BY <1>1, <1>2, <2>1, <2>2 DEF OriginalKept
<1> QED BY <1>3, <1>4, <1>5, <1>6, <1>7, <1>8 DEF Next

\* The states stay well typed: a version is never of a level off the scale.
THEOREM TypeCorrect == Spec => []TypeOK
<1>1. IInv => TypeOK
  BY DEF IInv
<1> QED BY <1>1, IInvInit, IInvNext, PTL DEF Spec

\* However Adapt calls overlap and overwrite each other's JSON, the versions
\* the analysis stored with the article are never lost.
THEOREM OriginalsKept == Spec => []OriginalKept
<1>1. IInv => OriginalKept
  BY DEF IInv
<1> QED BY <1>1, IInvInit, IInvNext, PTL DEF Spec

\* In whatever order Go visits the map, the text handed to the LLM is the
\* one closest to the level wanted, the lower of two as close.
THEOREM SourceClosest == Spec => []ClosestSource
<1>1. IInv => ClosestSource
  BY DEF IInv, LoopSound, Closest, ClosestSource
<1> QED BY <1>1, IInvInit, IInvNext, PTL DEF Spec

-----------------------------------------------------------------------------
(* Cards that are not opened at once: of handler x alone.                  *)

\* No other handler shows a card.
Only(x) == \A g \in Handlers : g # x => pc[g] = "idle"

\* Alone, what a call of Adapt has read is all there is, and the text it
\* asked for is there when the card is read again.
Abreast(h) ==
  /\ Adapting(h) => versions \subseteq read[h]
  /\ pc[h] = "store" => reply[h] \in {"text", "empty"}
  /\ pc[h] = "reload" => row = "gone" \/ want[h] \in versions \/ reply[h] = "empty"
  /\ pc[h] = "show" => want[h] \in read[h] \/ reply[h] = "empty"

AloneInv == IInv /\ \A h \in Handlers : Abreast(h)

LEMMA AloneInit == Init => AloneInv
BY IInvInit DEF AloneInv, Init, Abreast, Adapting

LEMMA AloneHandle ==
  ASSUME AloneInv, NEW h \in Handlers, Handle(h)
  PROVE  Abreast(h)' /\ versions \subseteq versions'
<1>0. TypeOK /\ Abreast(h)
  BY DEF AloneInv, IInv
<1>1. CASE ReadCard(h)
  BY <1>0, <1>1 DEF ReadCard, Return, Goto, TypeOK, Abreast, Adapting, db
<1>2. CASE Show(h)
  BY <1>0, <1>2 DEF Show, Return, Goto, TypeOK, Abreast, Adapting, db
<1>3. CASE ReadArticle(h)
  BY <1>0, <1>3 DEF ReadArticle, Return, Goto, TypeOK, Abreast, Adapting, db
<1>4. CASE LoadUser(h)
  BY <1>0, <1>4 DEF LoadUser, Return, Goto, TypeOK, Abreast, Adapting, db
<1>5. CASE PickStep(h)
  BY <1>0, <1>5 DEF PickStep, TypeOK, Abreast, Adapting, db
<1>6. CASE Picked(h)
  BY <1>0, <1>6 DEF Picked, Return, Goto, TypeOK, Abreast, Adapting, db, locals
<1>7. CASE Generate(h)
  BY <1>0, <1>7 DEF Generate, Return, Goto, TypeOK, Abreast, Adapting, db
<1>8. CASE Store(h)
  <2>1. versions \subseteq Merged(h) /\ reply[h] \in {"text", "empty"}
    BY <1>0, <1>8 DEF Store, Abreast, Adapting, Merged
  <2>2. reply[h] = "text" => want[h] \in Merged(h)
    BY DEF Merged
  <2>3. row \in {"there", "gone"}
    BY <1>0 DEF TypeOK
  <2> HIDE DEF Merged
  <2> QED BY <1>0, <1>8, <2>1, <2>2, <2>3 DEF Store, Return, Goto, TypeOK, Abreast, Adapting, locals
<1>9. CASE Reload(h)
  BY <1>0, <1>9 DEF Reload, Return, Goto, TypeOK, Abreast, Adapting, db
<1> QED BY <1>1, <1>2, <1>3, <1>4, <1>5, <1>6, <1>7, <1>8, <1>9 DEF Handle

\* An idle handler holds nothing that could grow stale.
LEMMA IdleAbreast ==
  ASSUME NEW g, pc[g] = "idle" PROVE Abreast(g)
BY DEF Abreast, Adapting

\* A step of a behaviour in which only x shows cards.
LEMMA AloneNext ==
  ASSUME NEW x, AloneInv, Only(x), Only(x)', [Next]_vars
  PROVE  AloneInv' /\ versions \subseteq versions'
<1>1. TypeOK /\ (\A h \in Handlers : Abreast(h)) /\ IInv'
  BY IInvNext DEF AloneInv, IInv
<1>2. ASSUME NEW h \in Handlers, Abreast(h)', h = x PROVE AloneInv'
  <2>1. \A g \in Handlers : g # h => pc'[g] = "idle"
    BY <1>2 DEF Only
  <2>2. \A g \in Handlers : g # h => Abreast(g)'
    BY <2>1 DEF Abreast, Adapting
  <2> QED BY <1>1, <1>2, <2>2 DEF AloneInv
<1>3. ASSUME NEW h \in Handlers, NEW v \in Views, Open(h, v)
      PROVE  AloneInv' /\ versions \subseteq versions'
  <2>1. pc'[h] = "card" /\ versions' = versions
    BY <1>1, <1>3 DEF Open, Goto, TypeOK, db
  <2>2. h = x
    BY <2>1 DEF Only
  <2>3. Abreast(h)'
    BY <2>1 DEF Abreast, Adapting
  <2> QED BY <1>2, <2>1, <2>2, <2>3
<1>4. ASSUME NEW h \in Handlers, Handle(h)
      PROVE  AloneInv' /\ versions \subseteq versions'
  <2>1. pc[h] # "idle"
    BY <1>4 DEF Handle, ReadCard, Show, ReadArticle, LoadUser, PickStep, Picked,
                Generate, Store, Reload
  <2>2. h = x
    BY <2>1 DEF Only
  <2> QED BY <1>2, <1>4, <2>2, AloneHandle
<1>5. ASSUME NEW l \in Levels, SetLevel(l)
      PROVE  AloneInv' /\ versions \subseteq versions'
  BY <1>1, <1>5 DEF SetLevel, AloneInv, Abreast, Adapting, locals
<1>6. CASE EraseAccount
  BY <1>1, <1>6 DEF EraseAccount, AloneInv, Abreast, Adapting, locals
<1>7. CASE Restart
  BY <1>1, <1>7 DEF Restart, AloneInv, Abreast, Adapting, db
<1>8. CASE UNCHANGED vars
  BY <1>1, <1>8 DEF vars, db, locals, AloneInv, Abreast, Adapting
<1> QED BY <1>3, <1>4, <1>5, <1>6, <1>7, <1>8 DEF Next

\* What a behaviour of MCSpec keeps: the handlers out of its lanes are idle.
LaneInv ==
  /\ \A g \in Handlers \ lanes : pc[g] = "idle"
  /\ Alone => AloneInv

LEMMA LaneInit == MCInit => LaneInv
BY AloneInit DEF MCInit, Init, LaneInv

LEMMA LaneNext ==
  ASSUME LaneInv, [MCNext]_<<vars, lanes>>
  PROVE  LaneInv' /\ (Alone => versions \subseteq versions')
<1>1. [Next]_vars /\ lanes' = lanes
  BY DEF MCNext, Keeps
<1>2. \A g \in Handlers \ lanes' : pc'[g] = "idle"
  BY DEF MCNext, Keeps, LaneInv, vars
<1>3. ASSUME Alone PROVE AloneInv' /\ versions \subseteq versions'
  <2>1. PICK x \in Handlers : lanes = {x}
    BY <1>3 DEF Alone
  <2>2. Only(x) /\ Only(x)'
    BY <1>1, <1>2, <2>1 DEF Only, LaneInv
  <2> QED BY <1>1, <1>3, <2>2, AloneNext DEF LaneInv
<1>4. Alone' => Alone
  BY <1>1 DEF Alone
<1> QED BY <1>2, <1>3, <1>4 DEF LaneInv

\* Adapt "merges the result into the article's adapted_versions JSON": when
\* cards are opened one after the other, a level once generated stays.
THEOREM LevelsGrow == MCSpec => AloneLevelsOnlyGrow
<1>1. LaneInv /\ [MCNext]_<<vars, lanes>> =>
        LaneInv' /\ [Alone => versions \subseteq versions']_<<vars, lanes>>
  BY LaneNext
<1> QED BY <1>1, LaneInit, PTL DEF MCSpec, AloneLevelsOnlyGrow

\* A card opened alone is shown with its level, unless the LLM was asked for
\* the level and answered with an empty text.
THEOREM CardShown == MCSpec => []AloneShownUnlessEmpty
<1>1. LaneInv => AloneShownUnlessEmpty
  BY DEF LaneInv, AloneInv, Abreast, ShownUnlessEmpty, AloneShownUnlessEmpty
<1>2. LaneInv /\ [MCNext]_<<vars, lanes>> => LaneInv'
  BY LaneNext
<1> QED BY <1>1, <1>2, LaneInit, PTL DEF MCSpec

\* The same of the specification itself, where there is one handler.
LEMMA OneNext ==
  ASSUME NEW x, Handlers \subseteq {x}
  PROVE  AloneInv /\ [Next]_vars => AloneInv' /\ versions \subseteq versions'
<1>1. Only(x) /\ Only(x)'
  BY DEF Only
<1> QED BY <1>1, AloneNext

\* Where one handler shows every card, a level once generated stays.
THEOREM SequentialLevelsGrow ==
  ASSUME NEW x, Handlers \subseteq {x} PROVE Spec => LevelsOnlyGrow
<1>1. AloneInv /\ [Next]_vars => AloneInv' /\ [versions \subseteq versions']_vars
  BY OneNext
<1> QED BY <1>1, AloneInit, PTL DEF Spec, LevelsOnlyGrow

\* Where one handler shows every card, it is shown with its level, unless
\* the LLM was asked for the level and answered with an empty text.
THEOREM SequentialShown ==
  ASSUME NEW x, Handlers \subseteq {x} PROVE Spec => []ShownUnlessEmpty
<1>1. AloneInv => ShownUnlessEmpty
  BY DEF AloneInv, Abreast, ShownUnlessEmpty
<1>2. AloneInv /\ [Next]_vars => AloneInv'
  BY OneNext
<1> QED BY <1>1, <1>2, AloneInit, PTL DEF Spec
=============================================================================
