------------------------------ MODULE WordLists ------------------------------
(***************************************************************************)
(* The screens that list things page by page and come back to their page:  *)
(* /mywords with its filters and its status editor (handlers/mywords.go),  *)
(* the words of an article with their status buttons (handlers/words.go),  *)
(* and /history with its categories (handlers/history.go).  A press is     *)
(* handled in steps, one per statement, while other presses and other      *)
(* screens change the tables; its message may be as old as one likes.      *)
(***************************************************************************)
EXTENDS WordTable, Paging

CONSTANTS Handlers,   \* goroutines, each with one press at a time
          PageSize,   \* kind of list -> its page size
          MaxPresses  \* bound on the presses

\* The kinds of list, and the lists of each: the filter row of /mywords,
\* the articles, and the categories of the history.
Filters == {"all", "learning", "known"}
Categories == {"all"} \cup {CategoryOf[a] : a \in Articles}
Lists == [kind : {"mine"}, of : Filters] \cup [kind : {"article"}, of : Articles]
           \cup [kind : {"history"}, of : Categories]
Kinds == {"mine", "article", "history"}

ASSUME WordListsAssumption ==
  PageSize \in [Kinds -> Nat \ {0}] /\ MaxPresses \in Nat

VARIABLES
  shown,   \* kind -> what its message shows
  job,     \* handler -> the press it handles
  presses  \* presses so far

listVars == <<shown, job, presses>>

\* A message: its list and page with the rows of the page, or the editor of
\* one word, or a text without rows.
Screen == [view |-> "closed", list |-> [kind |-> "mine", of |-> "all"],
           page |-> 0, pages |-> 0, rows |-> <<>>, word |-> 0, mark |-> NoStatus,
           filters |-> FALSE, asOf |-> -1]

Idle == [pc |-> "idle", op |-> "open", list |-> Screen.list, page |-> 0, word |-> 0,
         to |-> NoStatus, lang |-> NoLanguage, mark |-> NoStatus, total |-> 0,
         screen |-> Screen, asOf |-> -1, from |-> -1]

ListInit ==
  /\ shown = [k \in Kinds |-> Screen]
  /\ job = [h \in Handlers |-> Idle]
  /\ presses = 0

-----------------------------------------------------------------------------
(* The lists.                                                              *)

\* myWordsFilter.statuses: known takes mastered in, skipped is in no filter.
StatusesOf(filter) ==
  CASE filter = "all" -> {"learning", "known", "mastered"}
    [] filter = "learning" -> {"learning"}
    [] filter = "known" -> {"known", "mastered"}

\* ORDER BY a number.
Ascending(S) ==
  [i \in 1 .. Cardinality(S) |-> CHOOSE x \in S : Cardinality({y \in S : y < x}) = i - 1]

\* The places in the table of the user's articles of a category.
PlacesOf(category) ==
  {i \in DOMAIN analysed : analysed[i] \in Mine /\ category \in {"all", CategoryOf[analysed[i]]}}

\* The items of a list as they are now, in its order: by lemma; by rowid;
\* newest first.
Items(l, lang) ==
  CASE l.kind = "mine" -> Ascending(WithStatus(StatusesOf(l.of), lang))
    [] l.kind = "article" -> [i \in DOMAIN WordsOf[l.of] |-> WordsOf[l.of][i].word]
    [] l.kind = "history" ->
         LET at == Reverse(Ascending(PlacesOf(l.of))) IN [i \in DOMAIN at |-> analysed[at[i]]]

\* What a row says of its item: a word's status.
Mark(l, x) == IF l.kind = "history" THEN NoStatus ELSE status[x]

\* The page that is asked for, and the buttons that lead on from it.
PageOf(j) == Clamp(j.page, PageCount(j.total, PageSize[j.list.kind]))

\* Mutant: the buttons carry the page that was asked for.
ListScreenAsked(j) ==
  [Screen EXCEPT !.view = "list", !.list = j.list, !.page = j.page,
     !.pages = PageCount(j.total, PageSize[j.list.kind]), !.filters = TRUE]

ListScreen(j) ==
  [Screen EXCEPT !.view = "list", !.list = j.list, !.page = PageOf(j),
     !.pages = PageCount(j.total, PageSize[j.list.kind]), !.filters = TRUE]

Text(j, view, filters) ==
  [Screen EXCEPT !.view = view, !.list = j.list, !.filters = filters]

-----------------------------------------------------------------------------
(* Presses.                                                                *)

Press(op, l, p, w, s) == [op |-> op, list |-> l, page |-> p, word |-> w, to |-> s]
Open(l, p) == Press("open", l, p, 0, NoStatus)

FilterRow(kind) ==
  CASE kind = "mine" -> {Open([kind |-> "mine", of |-> f], 0) : f \in Filters}
    [] kind = "article" -> {}
    [] kind = "history" -> {Open([kind |-> "history", of |-> c], 0) : c \in Categories}

\* The row buttons: the editor of a word, or its three status buttons.  (A
\* row of the history opens the card of the article: ArticleLevels.)
RowButtons(s, x) ==
  CASE s.list.kind = "mine" -> {Press("edit", s.list, s.page, x, NoStatus)}
    [] s.list.kind = "article" ->
         {Press("set", s.list, s.page, x, t) : t \in {"known", "learning", "skipped"}}
    [] s.list.kind = "history" -> {}

Buttons(s) ==
  (IF s.filters THEN FilterRow(s.list.kind) ELSE {}) \cup
  CASE s.view = "list" ->
         (UNION {RowButtons(s, s.rows[i].item) : i \in DOMAIN s.rows})
           \cup {Open(s.list, p) : p \in {s.page - 1, s.page + 1} \cap 0 .. (s.pages - 1)}
    [] s.view = "edit" ->
         {Press("set", s.list, s.page, s.word, t) : t \in Statuses}
           \cup {Open(s.list, s.page)}
    [] OTHER -> {}

\* /mywords, /history, and the words button of a card.
Commands(k) ==
  CASE k = "mine" -> {Open([kind |-> "mine", of |-> "all"], 0)}
    [] k = "article" -> {Open([kind |-> "article", of |-> a], 0) : a \in ToSet(analysed)}
    [] k = "history" -> {Open([kind |-> "history", of |-> "all"], 0)}

FirstStep(b) ==
  CASE b.list.kind = "mine" /\ b.op = "open" -> "language"
    [] b.list.kind = "mine" /\ b.op = "edit" -> "get"
    [] b.list.kind = "mine" /\ b.op = "set" -> "upsert"
    [] b.list.kind = "article" -> "own"
    [] b.list.kind = "history" -> "count"

Take(h) ==
  /\ job[h].pc = "idle" /\ presses < MaxPresses
  /\ presses' = presses + 1
  /\ \E k \in Kinds : \E b \in Buttons(shown[k]) \cup Commands(k) :
       job' = [job EXCEPT ![h] =
                 [Idle EXCEPT !.pc = FirstStep(b), !.op = b.op, !.list = b.list,
                              !.page = b.page, !.word = b.word, !.to = b.to,
                              !.asOf = writes, !.from = shown[k].asOf]]
  /\ UNCHANGED <<shown, tables>>

Close(k) ==
  /\ shown[k].view # "closed"
  /\ shown' = [shown EXCEPT ![k] = Screen]
  /\ UNCHANGED <<job, presses, tables>>

-----------------------------------------------------------------------------
(* The steps of a handler.                                                 *)

\* It goes on with its fields changed, it is about to write a screen, or it
\* returns and the message stays.
Becomes(h, j) == job' = [job EXCEPT ![h] = j] /\ UNCHANGED <<shown, presses>>
Goes(h, pc) == Becomes(h, [job[h] EXCEPT !.pc = pc])
Shows(h, s) == Becomes(h, [job[h] EXCEPT !.pc = "write", !.screen = s])
Returns(h) == Becomes(h, Idle)

\* Get of the editor: the status its text and its tick will name.
ReadCurrent(h) ==
  /\ job[h].pc = "get"
  /\ Becomes(h, [job[h] EXCEPT !.pc = "language", !.mark = status[job[h].word]])
  /\ UNCHANGED tables

ReadLanguage(h) ==
  /\ job[h].pc = "language"
  /\ IF active = NoLanguage THEN Shows(h, Text(job[h], "no language", FALSE))
     ELSE Becomes(h, [job[h] EXCEPT !.pc = IF job[h].op = "edit" THEN "find" ELSE "count",
                                    !.lang = active])
  /\ UNCHANGED tables

\* Mutant: the offset takes pages to count from 1.
NamedPageFromOne(j) ==
  Rows(Items(j.list, j.lang), PageSize["mine"], IF j.page = 0 THEN 0 ELSE j.page - 1)

\* The page the press of a row names.
NamedPage(j) == Rows(Items(j.list, j.lang), PageSize["mine"], j.page)

\* The editor opens when the word is on it still; otherwise the list is shown
\* again.
Find(h) ==
  LET j == job[h] IN
  /\ j.pc = "find"
  /\ IF j.word \in ToSet(NamedPage(j))
       THEN Shows(h, [Screen EXCEPT !.view = "edit", !.list = j.list, !.page = j.page,
                                    !.word = j.word, !.mark = j.mark])
       ELSE Goes(h, "count")
  /\ UNCHANGED tables

\* The article is the presser's, checked before the status is set and again
\* before the page is shown.
CheckOwner(h) ==
  /\ job[h].pc = "own"
  /\ IF job[h].list.of \in Mine
       THEN Goes(h, IF job[h].op = "set" THEN "upsert" ELSE "count")
       ELSE Returns(h)
  /\ UNCHANGED tables

SetStatus(h) ==
  LET j == job[h] IN
  /\ j.pc = "upsert" /\ Write
  /\ Upserted({j.word}, j.to)
  /\ Becomes(h, [j EXCEPT !.pc = FirstStep(Open(j.list, j.page)), !.op = "open",
                          !.asOf = IF @ = writes THEN writes' ELSE @])
  /\ UNCHANGED <<clock, active, analysed>>

Count(h) ==
  LET j == job[h]
      total == Len(Items(j.list, j.lang)) IN
  /\ j.pc = "count"
  /\ IF total > 0 THEN Becomes(h, [j EXCEPT !.pc = "page", !.total = total])
     ELSE IF j.list.kind = "mine" /\ j.list.of # "all" THEN Goes(h, "grand")
     ELSE Shows(h, Text(j, "empty", j.list.kind = "history" /\ j.list.of # "all"))
  /\ UNCHANGED tables

\* The filters are offered when one of them has a word.
CountAll(h) ==
  LET j == job[h] IN
  /\ j.pc = "grand"
  /\ Shows(h, Text(j, "empty", WithStatus(StatusesOf("all"), j.lang) # {}))
  /\ UNCHANGED tables

\* One SELECT for /mywords, whose rows carry the status, and for the history.
ReadPage(h) ==
  LET j == job[h]
      page == Rows(Items(j.list, j.lang), PageSize[j.list.kind], PageOf(j))
      rows == [i \in DOMAIN page |-> [item |-> page[i], mark |-> Mark(j.list, page[i])]]
      screen == [ListScreen(j) EXCEPT !.rows = rows] IN
  /\ j.pc = "page"
  /\ IF j.list.kind = "article"
       THEN Becomes(h, [j EXCEPT !.pc = "marks", !.screen = screen])
       ELSE Shows(h, screen)
  /\ UNCHANGED tables

\* GetMany for the words of the page.
ReadMarks(h) ==
  LET s == job[h].screen IN
  /\ job[h].pc = "marks"
  /\ Shows(h, [s EXCEPT !.rows = [i \in DOMAIN @ |->
                                   [item |-> @[i].item, mark |-> status[@[i].item]]]])
  /\ UNCHANGED tables

\* The message is edited.
WriteScreen(h) ==
  /\ job[h].pc = "write"
  /\ shown' = [shown EXCEPT ![job[h].list.kind] = [job[h].screen EXCEPT !.asOf = job[h].asOf]]
  /\ job' = [job EXCEPT ![h] = Idle]
  /\ UNCHANGED <<presses, tables>>

\* A statement, or the edit, fails: /mywords and /history say so in place of
\* the list, and everything else returns.
Fails(h) ==
  /\ job[h].pc # "idle"
  /\ \/ /\ job[h].list.kind # "article" /\ job[h].pc \in {"count", "grand", "page"}
        /\ Shows(h, Text(job[h], "error", FALSE))
     \/ /\ job[h].pc = "language"
        /\ Shows(h, Text(job[h], "no language", FALSE))
     \/ /\ \/ job[h].pc \in {"get", "find", "upsert", "own", "marks", "write"}
           \/ job[h].list.kind = "article"
        /\ Returns(h)
  /\ UNCHANGED tables

ListStep(h) ==
  \/ Take(h) \/ ReadCurrent(h) \/ ReadLanguage(h) \/ Find(h) \/ CheckOwner(h) \/ SetStatus(h)
  \/ Count(h) \/ CountAll(h) \/ ReadPage(h) \/ ReadMarks(h) \/ WriteScreen(h) \/ Fails(h)

-----------------------------------------------------------------------------
\* A handler is about to write a screen, and the tables have not changed
\* since its press, except by itself.
Undisturbed(h) == job[h].pc = "write" /\ job[h].asOf = writes

\* Whether a message has a button to another page of its list.
LeadsTo(s, page) == \E b \in Buttons(s) : b.op = "open" /\ b.list = s.list /\ b.page = page

\* Whatever stale button was pressed, the list a press brings up is a page
\* of the list as it is: never an empty one, its rows the ones that follow
\* those of the pages before it, each with its present status, and a button
\* to the pages before and after exactly when there are such rows.  It is
\* said to be empty only when it is, and the filters are withheld only when
\* all are.  mywords.go:321, words.go:166, history.go:183.
ListTrue == \A h \in Handlers : Undisturbed(h) =>
  LET s == job[h].screen
      now == Items(s.list, active)
      Before == s.page * PageSize[s.list.kind] IN
  /\ s.view = "list" =>
       /\ s.rows # <<>>
       /\ \A i \in DOMAIN s.rows :
            /\ Before + i <= Len(now) /\ s.rows[i].item = now[Before + i]
            /\ s.list.kind # "history" => s.rows[i].mark = status[s.rows[i].item]
       /\ LeadsTo(s, s.page + 1) <=> Before + Len(s.rows) < Len(now)
       /\ LeadsTo(s, s.page - 1) <=> Before > 0
  /\ s.view = "empty" =>
       /\ now = <<>>
       /\ s.list.kind = "mine" =>
            (s.filters <=> \E f \in Filters : Items([s.list EXCEPT !.of = f], active) # <<>>)

\* The row one sees is the row one opens: while the tables stay as they were
\* when the list was read, the button of a word leads to its editor, with its
\* present status, and never back to the list.  mywords.go:210.
RowOpens == \A h \in Handlers :
  job[h].pc = "write" /\ job[h].op = "edit" /\ job[h].from = writes
    /\ job[h].screen.view \in {"edit", "list", "empty"} =>
      /\ job[h].screen.view = "edit"
      /\ job[h].screen.word = job[h].word /\ job[h].screen.mark = status[job[h].word]
=============================================================================
