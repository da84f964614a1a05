--------------------------- MODULE ArticleLevels ----------------------------
(***************************************************************************)
(* The adapted versions of one stored article: handlers that show the card *)
(* at a level (cardRenderer.ensureAdapted) and generate the level when it  *)
(* is missing (Service.Adapt).  The column holds one JSON object, so it is *)
(* read as a whole, and written as a whole after the call of the LLM.      *)
(*                                                                         *)
(* A level is its index in CEFRLevels; a version is present or absent (an  *)
(* empty text is dropped when the JSON is parsed, and the schema of Adapt, *)
(* unlike that of the analysis, allows one).                               *)
(***************************************************************************)
EXTENDS Integers

CONSTANTS Handlers,    \* goroutines that may be showing the card
          TopLevel,    \* C2
          MaxOpens     \* bound: cards opened and settings changed

Levels  == 1 .. TopLevel
NoLevel == 0
Views   == {-1, 0, 1}          \* lower, current, higher

ASSUME LevelsAssumption == TopLevel \in Nat \ {0} /\ MaxOpens \in Nat

PCs == {"idle", "card", "adapt", "user", "pick", "llm", "store", "reload", "show"}

VARIABLES
  row,      \* "there", or "gone" with its user
  versions, \* levels with a text in adapted_versions
  userCEFR, \* the user's level in the active language
  opens,    \* cards opened so far (only for the bound MaxOpens)
  pc,       \* per handler: the next call
  want,     \* per handler: the absolute level to show
  read,     \* per handler: the versions last read
  todo,     \* per handler: keys the loop of pickAdaptSource has not visited
  best,     \* per handler: the best key it has visited
  reply,    \* per handler: what the LLM answered
  original  \* history: the versions the analysis stored

db     == <<row, versions, userCEFR>>
locals == <<want, read, todo, best, reply>>
vars   == <<db, opens, pc, locals, original>>

\* users.CEFRShift and resolveAbsoluteLevel: NoLevel off either end.
CEFRShift(base, delta) == IF base + delta \in Levels THEN base + delta ELSE NoLevel

\* adaptedFromLLM keeps the slots of the reply that are not empty; a column
\* of before the absolute keys parses as an empty map.
Replies(level) == SUBSET ({CEFRShift(level, v) : v \in Views} \ {NoLevel})

Init ==
  /\ row = "there"
  /\ userCEFR \in Levels /\ versions \in Replies(userCEFR)
  /\ original = versions
  /\ opens = 0
  /\ pc   = [h \in Handlers |-> "idle"] /\ want = [h \in Handlers |-> NoLevel]
  /\ read = [h \in Handlers |-> {}]     /\ todo = [h \in Handlers |-> {}]
  /\ best = [h \in Handlers |-> NoLevel] /\ reply = [h \in Handlers |-> "none"]

Goto(h, l) == pc' = [pc EXCEPT ![h] = l]

Return(h) ==
  /\ Goto(h, "idle")
  /\ want' = [want EXCEPT ![h] = NoLevel] /\ read' = [read EXCEPT ![h] = {}]
  /\ todo' = [todo EXCEPT ![h] = {}]      /\ best' = [best EXCEPT ![h] = NoLevel]
  /\ reply' = [reply EXCEPT ![h] = "none"]

-----------------------------------------------------------------------------
(* The card.                                                               *)

\* A view off the scale is shown without a text and asks for nothing.
Open(h, v) ==
  /\ pc[h] = "idle" /\ opens < MaxOpens
  /\ CEFRShift(userCEFR, v) # NoLevel
  /\ opens' = opens + 1
  /\ want' = [want EXCEPT ![h] = CEFRShift(userCEFR, v)]
  /\ Goto(h, "card")
  /\ UNCHANGED <<db, read, todo, best, reply, original>>

\* openByID, and the check of ensureAdapted.
ReadCard(h) ==
  /\ pc[h] = "card"
  /\ \/ row = "gone" /\ Return(h)
     \/ /\ row = "there"
        /\ read' = [read EXCEPT ![h] = versions]
        /\ Goto(h, IF want[h] \in versions THEN "show" ELSE "adapt")
        /\ UNCHANGED <<want, todo, best, reply>>
  /\ UNCHANGED <<db, opens, original>>

\* The card is edited into the message.
Show(h) ==
  /\ pc[h] = "show"
  /\ Return(h)
  /\ UNCHANGED <<db, opens, original>>

-----------------------------------------------------------------------------
(* Service.Adapt.                                                          *)

\* Mutant: an article with any version needs no other.
ReadArticleAny(h) ==
  /\ pc[h] = "adapt"
  /\ \/ row = "gone" /\ Return(h)
     \/ /\ row = "there"
        /\ read' = [read EXCEPT ![h] = versions]
        /\ Goto(h, IF versions # {} THEN "reload" ELSE "user")
        /\ UNCHANGED <<want, todo, best, reply>>
  /\ UNCHANGED <<db, opens, original>>

ReadArticle(h) ==
  /\ pc[h] = "adapt"
  /\ \/ row = "gone" /\ Return(h)
     \/ /\ row = "there"
        /\ read' = [read EXCEPT ![h] = versions]
        /\ Goto(h, IF want[h] \in versions THEN "reload" ELSE "user")
        /\ UNCHANGED <<want, todo, best, reply>>
  /\ UNCHANGED <<db, opens, original>>

\* users.ByID and keys.Get, either of which may fail.
LoadUser(h) ==
  /\ pc[h] = "user"
  /\ \/ Return(h)
     \/ /\ todo' = [todo EXCEPT ![h] = read[h]]
        /\ best' = [best EXCEPT ![h] = NoLevel]
        /\ Goto(h, "pick")
        /\ UNCHANGED <<want, read, reply>>
  /\ UNCHANGED <<db, opens, original>>

Distance(a, b) == IF a < b THEN b - a ELSE a - b

\* Mutant: the first of two equally close levels visited wins.
CloserFirst(k, b, target) ==
  b = NoLevel \/ Distance(k, target) < Distance(b, target)

Closer(k, b, target) ==
  \/ b = NoLevel
  \/ Distance(k, target) < Distance(b, target)
  \/ Distance(k, target) = Distance(b, target) /\ k < b

\* One round of the loop of pickAdaptSource; the order of a map is random.
PickStep(h) ==
  /\ pc[h] = "pick"
  /\ \E k \in todo[h] :
       /\ todo' = [todo EXCEPT ![h] = @ \ {k}]
       /\ best' = [best EXCEPT ![h] = IF Closer(k, @, want[h]) THEN k ELSE @]
  /\ UNCHANGED <<db, opens, pc, want, read, reply, original>>

\* Without a version the source is the summary; a legacy article may not
\* have one either.
Picked(h) ==
  /\ pc[h] = "pick" /\ todo[h] = {}
  /\ \/ Goto(h, "llm") /\ UNCHANGED locals
     \/ best[h] = NoLevel /\ Return(h)
  /\ UNCHANGED <<db, opens, original>>

Generate(h) ==
  /\ pc[h] = "llm"
  /\ \/ /\ \E a \in {"text", "empty"} : reply' = [reply EXCEPT ![h] = a]
        /\ Goto(h, "store")
        /\ UNCHANGED <<want, read, todo, best>>
     \/ Return(h)
  /\ UNCHANGED <<db, opens, original>>

\* Mutant: the new level is stored without the ones read.
MergedAlone(h) == {want[h]}

Merged(h) == read[h] \cup IF reply[h] = "text" THEN {want[h]} ELSE {}

\* UpdateAdaptedVersions: no row is not an error; a failed statement is.
Store(h) ==
  /\ pc[h] = "store"
  /\ \/ Return(h) /\ versions' = versions
     \/ /\ versions' = IF row = "there" THEN Merged(h) ELSE versions
        /\ Goto(h, "reload") /\ UNCHANGED locals
  /\ UNCHANGED <<row, userCEFR, opens, original>>

\* ensureAdapted reads the article again.
Reload(h) ==
  /\ pc[h] = "reload"
  /\ \/ Return(h)
     \/ /\ row = "there"
        /\ read' = [read EXCEPT ![h] = versions]
        /\ Goto(h, "show")
        /\ UNCHANGED <<want, todo, best, reply>>
  /\ UNCHANGED <<db, opens, original>>

-----------------------------------------------------------------------------
(* The environment.                                                        *)

SetLevel(l) ==
  /\ opens < MaxOpens /\ l # userCEFR
  /\ opens' = opens + 1 /\ userCEFR' = l
  /\ UNCHANGED <<row, versions, pc, locals, original>>

EraseAccount ==
  /\ row = "there" /\ row' = "gone"
  /\ UNCHANGED <<versions, userCEFR, opens, pc, locals, original>>

Restart ==
  /\ pc'   = [h \in Handlers |-> "idle"] /\ want' = [h \in Handlers |-> NoLevel]
  /\ read' = [h \in Handlers |-> {}]     /\ todo' = [h \in Handlers |-> {}]
  /\ best' = [h \in Handlers |-> NoLevel] /\ reply' = [h \in Handlers |-> "none"]
  /\ UNCHANGED <<db, opens, original>>

Handle(h) ==
  \/ ReadCard(h) \/ Show(h) \/ ReadArticle(h) \/ LoadUser(h) \/ PickStep(h)
  \/ Picked(h) \/ Generate(h) \/ Store(h) \/ Reload(h)

Next ==
  \/ \E h \in Handlers : (\E v \in Views : Open(h, v)) \/ Handle(h)
  \/ \E l \in Levels : SetLevel(l)
  \/ EraseAccount \/ Restart

Spec == Init /\ [][Next]_vars

-----------------------------------------------------------------------------
(* Properties of every interleaving.                                       *)

TypeOK ==
  /\ row \in {"there", "gone"} /\ versions \subseteq Levels /\ userCEFR \in Levels
  /\ opens \in Nat /\ original \subseteq Levels
  /\ pc \in [Handlers -> PCs]
  /\ want \in [Handlers -> Levels \cup {NoLevel}]
  /\ read \in [Handlers -> SUBSET Levels] /\ todo \in [Handlers -> SUBSET Levels]
  /\ best \in [Handlers -> Levels \cup {NoLevel}]
  /\ reply \in [Handlers -> {"none", "text", "empty"}]

\* However Adapt calls overlap and overwrite each other, the versions the
\* analysis stored with the article are never lost.
OriginalKept == original \subseteq versions

\* In whatever order Go visits the map, the text handed to the LLM is the
\* one closest to the level wanted, the lower one of two as close.
ClosestSource ==
  \A h \in Handlers : pc[h] = "llm" =>
    IF read[h] = {} THEN best[h] = NoLevel
    ELSE /\ best[h] \in read[h]
         /\ \A k \in read[h] \ {best[h]} :
              \/ Distance(best[h], want[h]) < Distance(k, want[h])
              \/ Distance(best[h], want[h]) = Distance(k, want[h]) /\ best[h] < k

-----------------------------------------------------------------------------
(* Properties of cards that are not opened at once (one handler).          *)

\* Adapt "merges the result into the article's adapted_versions JSON": a
\* level once generated stays.
LevelsOnlyGrow == [][versions \subseteq versions']_vars

\* A card is shown with the level it was opened at, unless the LLM was asked
\* for it and answered with an empty text.
ShownUnlessEmpty ==
  \A h \in Handlers : pc[h] = "show" => want[h] \in read[h] \/ reply[h] = "empty"

\* "the renderer treats absent levels as "this level is unavailable" and the
\* regen path fills them in on demand" (ParseAdaptedVersions).
ShownAtLevel == \A h \in Handlers : pc[h] = "show" => want[h] \in read[h]
=============================================================================
