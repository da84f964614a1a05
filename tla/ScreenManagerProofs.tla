------------------------- MODULE ScreenManagerProofs ------------------------
(***************************************************************************)
(* Theorems about ScreenManager, for every number of handlers, screens,    *)
(* updates and failures: however the handlers of a chat overlap, the row   *)
(* names a message that displayed the recorded screen; and while updates   *)
(* are handled one after the other one message has a keyboard, Show        *)
(* delivers the screen it was asked for, and a stray text or /start brings *)
(* it back as a new message.                                               *)
(***************************************************************************)
EXTENDS MCScreenManager, SequenceTheorems, TLAPS

Msg == [screen : Shown, keys : {"live", "stripped"}]

\* Where Manager.Show is at work, and RetireActive.
Showing  == {"get", "strip", "send", "edit", "set", "shown"}
Retiring == {"retireGet", "retireStrip", "retireClear"}

\* What the program counter of a handler says of what it has read and sent.
PcFits(h) ==
    /\ pc[h] \in {"retireStrip", "strip", "edit"} => row[h] # Empty
    /\ pc[h] \in Showing => want[h] \in Screens
    /\ pc[h] \in Retiring => job[h] = "close" \/ want[h] \in Screens
    /\ pc[h] \in {"set", "shown"} => sent[h] \in DOMAIN chat /\ want[h] \in wasShown[sent[h]]
    /\ pc[h] = "edit" => row[h].screen = want[h]

Typed == TypeOK /\ RecordedWasShown /\ \A h \in Handlers : PcFits(h)

ChatOK ==
    /\ chat \in Seq(Msg)
    /\ wasShown \in Seq(SUBSET Shown) /\ Len(wasShown) = Len(chat)

\* Messages are never taken back, nor what they have displayed.
Grown ==
    /\ DOMAIN chat \subseteq DOMAIN chat' /\ Len(chat) <= Len(chat')
    /\ \A m \in DOMAIN chat : wasShown[m] \subseteq wasShown'[m]

LocalsOK ==
    /\ pc \in [Handlers -> PCs] /\ job \in [Handlers -> Jobs]
    /\ want \in [Handlers -> Screens \cup {NoRow}]
    /\ row \in [Handlers -> Rows]
    /\ sent \in [Handlers -> {0} \cup DOMAIN chat]
    /\ troubled \in [Handlers -> BOOLEAN] /\ before \in [Handlers -> 0 .. Len(chat)]
    /\ \A h \in Handlers : PcFits(h)

RestOK ==
    /\ active \in Rows /\ RecordedWasShown
    /\ updates \in 0 .. MaxUpdates /\ failures \in 0 .. MaxFailures
    /\ stuck \subseteq DOMAIN chat

LEMMA TypedIs ==
    /\ Typed <=> ChatOK /\ LocalsOK /\ RestOK
    /\ Typed' <=> ChatOK' /\ LocalsOK' /\ RestOK'
<1>1. Typed <=> ChatOK /\ LocalsOK /\ RestOK
    BY DEF Typed, TypeOK, ChatOK, LocalsOK, RestOK, Msg
<1>2. Typed' <=> ChatOK' /\ LocalsOK' /\ RestOK'
    BY DEF Typed, TypeOK, ChatOK, LocalsOK, RestOK, Msg
<1> QED BY <1>1, <1>2

-----------------------------------------------------------------------------
(* The messages of the chat.                                               *)

LEMMA ChatIs ==
    ASSUME ChatOK
    PROVE  /\ Len(chat) \in Nat /\ DOMAIN chat = 1 .. Len(chat) /\ DOMAIN wasShown = DOMAIN chat
           /\ 0 \notin DOMAIN chat
           /\ \A m \in DOMAIN chat : chat[m] \in Msg /\ wasShown[m] \subseteq Shown
BY DEF ChatOK

LEMMA Untouched ==
    ASSUME ChatOK, UNCHANGED <<chat, wasShown>>
    PROVE  ChatOK' /\ Grown
BY ChatIs DEF ChatOK, Grown

LEMMA Sent ==
    ASSUME ChatOK, NEW r \in Msg, NEW s \in SUBSET Shown,
           chat' = Append(chat, r), wasShown' = Append(wasShown, s)
    PROVE  /\ ChatOK' /\ Grown
           /\ Len(chat') = Len(chat) + 1 /\ DOMAIN chat' = DOMAIN chat \cup {Len(chat) + 1}
           /\ chat'[Len(chat) + 1] = r /\ wasShown'[Len(chat) + 1] = s
           /\ \A m \in DOMAIN chat : chat'[m] = chat[m]
<1>1. ChatOK' /\ Len(chat') = Len(chat) + 1
    BY DEF ChatOK
<1>2. DOMAIN chat = 1 .. Len(chat) /\ DOMAIN chat' = 1 .. Len(chat) + 1 /\ Len(chat) \in Nat
    BY <1>1 DEF ChatOK
<1>3. /\ \A m \in DOMAIN chat : chat'[m] = chat[m] /\ wasShown'[m] = wasShown[m]
      /\ chat'[Len(chat) + 1] = r /\ wasShown'[Len(chat) + 1] = s
    BY <1>2 DEF ChatOK
<1>4. DOMAIN chat' = DOMAIN chat \cup {Len(chat) + 1}
    BY <1>2
<1>5. Grown
    <2>1. Len(chat) <= Len(chat')
        BY <1>1, <1>2
    <2> QED BY <1>3, <1>4, <2>1 DEF Grown
<1> QED BY <1>1, <1>3, <1>4, <1>5

LEMMA Edited ==
    ASSUME ChatOK, NEW r \in Msg, NEW s \in SUBSET Shown, NEW m \in DOMAIN chat,
           chat' = [chat EXCEPT ![m] = r], wasShown' = [wasShown EXCEPT ![m] = @ \cup s]
    PROVE  /\ ChatOK' /\ Grown
           /\ Len(chat') = Len(chat) /\ DOMAIN chat' = DOMAIN chat
           /\ chat'[m] = r /\ s \subseteq wasShown'[m]
           /\ \A k \in DOMAIN chat \ {m} : chat'[k] = chat[k]
<1>1. chat' \in Seq(Msg) /\ Len(chat') = Len(chat) /\ DOMAIN chat' = DOMAIN chat
    BY DEF ChatOK
<1>2. wasShown[m] \cup s \in SUBSET Shown /\ m \in DOMAIN wasShown
    BY ChatIs
<1>3. wasShown' \in Seq(SUBSET Shown) /\ Len(wasShown') = Len(wasShown)
    BY <1>2 DEF ChatOK
<1>4. /\ chat'[m] = r /\ s \subseteq wasShown'[m]
      /\ \A k \in DOMAIN chat \ {m} : chat'[k] = chat[k]
      /\ \A k \in DOMAIN chat : wasShown[k] \subseteq wasShown'[k]
    BY <1>2, ChatIs DEF ChatOK
<1>5. Len(chat) \in Nat
    BY ChatIs
<1> QED BY <1>1, <1>3, <1>4, <1>5 DEF ChatOK, Grown

LEMMA RowsGrow ==
    ASSUME Grown
    PROVE  Rows \subseteq Rows'
BY DEF Grown, Rows

LEMMA RowIs ==
    ASSUME NEW r \in Rows, ChatOK
    PROVE  /\ r # Empty => r.msg \in DOMAIN chat /\ r.screen \in Screens
           /\ r.msg = 0 <=> r = Empty
           /\ r = Row(r.msg, r.screen)
BY ChatIs, ScreensAssumption DEF Rows, Empty, Row
-----------------------------------------------------------------------------
(* Types.                                                                  *)

LEMMA TypedInit == Init => Typed
<1> SUFFICES ASSUME Init PROVE Typed
    OBVIOUS
<1>1. ChatOK
    BY DEF Init, ChatOK
<1>2. Empty \in Rows /\ NoRow \in Screens \cup {NoRow} /\ 0 \in 0 .. MaxUpdates /\ 0 \in 0 .. MaxFailures
    BY ScreensAssumption DEF Rows
<1>3. LocalsOK
    BY <1>1, <1>2, ChatIs DEF Init, LocalsOK, PcFits, PCs, Jobs, Showing, Retiring
<1>4. RestOK
    BY <1>2 DEF Init, RestOK, RecordedWasShown
<1> QED BY <1>1, <1>3, <1>4, TypedIs

\* Only handler h moves, and the chat grows: the others still fit.
LEMMA OneMoves ==
    ASSUME Typed, NEW h \in Handlers, Grown,
           pc' \in [Handlers -> PCs], job' \in [Handlers -> Jobs],
           want' \in [Handlers -> Screens \cup {NoRow}],
           row' \in [Handlers -> Rows'],
           sent' \in [Handlers -> {0} \cup DOMAIN chat'],
           troubled' \in [Handlers -> BOOLEAN], before' \in [Handlers -> 0 .. Len(chat')],
           \A g \in Handlers \ {h} : /\ pc'[g] = pc[g] /\ job'[g] = job[g] /\ want'[g] = want[g]
                                     /\ row'[g] = row[g] /\ sent'[g] = sent[g],
           PcFits(h)'
    PROVE  LocalsOK'
<1>1. ASSUME NEW g \in Handlers \ {h} PROVE PcFits(g)'
    BY <1>1 DEF Typed, PcFits, Grown
<1> QED BY <1>1 DEF LocalsOK

\* The messages sent and the rows read stay what they were.
LEMMA StillThere ==
    ASSUME Typed, Grown, ChatOK'
    PROVE  /\ row \in [Handlers -> Rows'] /\ sent \in [Handlers -> {0} \cup DOMAIN chat']
           /\ before \in [Handlers -> 0 .. Len(chat')]
           /\ stuck \subseteq DOMAIN chat' /\ active \in Rows'
           /\ active # Empty => active.screen \in wasShown'[active.msg]
<1>0. TypeOK /\ RecordedWasShown /\ ChatOK
    BY TypedIs DEF Typed
<1>1. Rows \subseteq Rows' /\ DOMAIN chat \subseteq DOMAIN chat'
    BY RowsGrow DEF Grown
<1>2. 0 .. Len(chat) \subseteq 0 .. Len(chat')
    <2>1. Len(chat) \in Nat /\ Len(chat') \in Nat /\ Len(chat) <= Len(chat')
        BY <1>0 DEF Grown, ChatOK
    <2> QED BY <2>1
<1>3. active # Empty => active.screen \in wasShown'[active.msg]
    BY <1>0, RowIs DEF TypeOK, RecordedWasShown, Grown
<1> QED BY <1>0, <1>1, <1>2, <1>3 DEF TypeOK

LEMMA Returned ==
    ASSUME Typed, NEW h \in Handlers, Grown, ChatOK', Return(h),
           troubled' \in [Handlers -> BOOLEAN], UNCHANGED before
    PROVE  LocalsOK'
<1>0. TypeOK
    BY DEF Typed
<1>1. Empty \in Rows'
    BY DEF Rows, Empty, Row
<1>2. /\ pc' \in [Handlers -> PCs] /\ job' \in [Handlers -> Jobs]
      /\ want' \in [Handlers -> Screens \cup {NoRow}] /\ row' \in [Handlers -> Rows']
      /\ sent' \in [Handlers -> {0} \cup DOMAIN chat'] /\ before' \in [Handlers -> 0 .. Len(chat')]
    BY <1>0, <1>1, StillThere DEF Return, Goto, TypeOK, PCs, Jobs
<1>3. /\ pc'[h] = "idle"
      /\ \A g \in Handlers \ {h} : /\ pc'[g] = pc[g] /\ job'[g] = job[g] /\ want'[g] = want[g]
                                   /\ row'[g] = row[g] /\ sent'[g] = sent[g]
    BY <1>0 DEF Return, Goto, TypeOK
<1>4. PcFits(h)'
    BY <1>3 DEF PcFits, Showing, Retiring
<1> QED BY <1>2, <1>3, <1>4, OneMoves

\* Handler h goes to l, with the row r and the message m in hand.
LEMMA Moved ==
    ASSUME Typed, NEW h \in Handlers, Grown, ChatOK', NEW l \in PCs, NEW r \in Rows',
           NEW m \in {0} \cup DOMAIN chat', NEW s \in Screens \cup {NoRow},
           Goto(h, l), UNCHANGED <<job, before>>,
           want' \in {want, [want EXCEPT ![h] = s]}, want'[h] = s,
           row' \in {row, [row EXCEPT ![h] = r]}, row'[h] = r,
           sent' \in {sent, [sent EXCEPT ![h] = m]}, sent'[h] = m,
           troubled' \in [Handlers -> BOOLEAN],
           l \in {"retireStrip", "strip", "edit"} => r # Empty,
           l \in Showing => s \in Screens,
           l \in Retiring => job[h] = "close" \/ s \in Screens,
           l \in {"set", "shown"} => m \in DOMAIN chat' /\ s \in wasShown'[m],
           l = "edit" => r.screen = s
    PROVE  LocalsOK'
<1>0. TypeOK
    BY DEF Typed
<1>1. /\ pc' \in [Handlers -> PCs] /\ job' \in [Handlers -> Jobs]
      /\ want' \in [Handlers -> Screens \cup {NoRow}] /\ row' \in [Handlers -> Rows']
      /\ sent' \in [Handlers -> {0} \cup DOMAIN chat'] /\ before' \in [Handlers -> 0 .. Len(chat')]
    BY <1>0, StillThere DEF Goto, TypeOK
<1>2. /\ pc'[h] = l /\ want'[h] = s /\ row'[h] = r /\ sent'[h] = m /\ job'[h] = job[h]
      /\ \A g \in Handlers \ {h} : /\ pc'[g] = pc[g] /\ job'[g] = job[g] /\ want'[g] = want[g]
                                   /\ row'[g] = row[g] /\ sent'[g] = sent[g]
    BY <1>0 DEF Goto, TypeOK
<1>3. PcFits(h)'
    BY <1>2 DEF PcFits
<1> QED BY <1>1, <1>2, <1>3, OneMoves
\* A handler starts: on what it was asked for, or on what the row says.
LEMMA BeginTyped ==
    ASSUME Typed, NEW h \in Handlers, NEW j \in Jobs, NEW s \in Screens \cup {NoRow}, NEW l \in PCs,
           Begin(h, j, s, l),
           l \in {"get", "retireGet", "peek"},
           l = "get" => s \in Screens, l = "retireGet" => j = "close" \/ s \in Screens
    PROVE  Typed'
<1>0. TypeOK /\ ChatOK /\ RestOK /\ LocalsOK
    BY TypedIs DEF Typed
<1>1. /\ UNCHANGED <<chat, active, failures, row, sent, wasShown, stuck>>
      /\ pc[h] = "idle" /\ updates < MaxUpdates /\ updates' = updates + 1
      /\ pc' = [pc EXCEPT ![h] = l] /\ job' = [job EXCEPT ![h] = j] /\ want' = [want EXCEPT ![h] = s]
      /\ before' = [before EXCEPT ![h] = Len(chat)] /\ troubled' = [troubled EXCEPT ![h] = FALSE]
    BY DEF Begin, Goto
<1>2. ChatOK' /\ Grown
    BY <1>0, <1>1, Untouched
<1>3. Len(chat) \in 0 .. Len(chat')
    BY <1>0, <1>1, ChatIs
<1>4. /\ pc' \in [Handlers -> PCs] /\ job' \in [Handlers -> Jobs]
      /\ want' \in [Handlers -> Screens \cup {NoRow}] /\ row' \in [Handlers -> Rows']
      /\ sent' \in [Handlers -> {0} \cup DOMAIN chat'] /\ before' \in [Handlers -> 0 .. Len(chat')]
      /\ troubled' \in [Handlers -> BOOLEAN]
    BY <1>0, <1>1, <1>2, <1>3, StillThere DEF LocalsOK
<1>5. /\ pc'[h] = l /\ job'[h] = j /\ want'[h] = s
      /\ \A g \in Handlers \ {h} : /\ pc'[g] = pc[g] /\ job'[g] = job[g] /\ want'[g] = want[g]
                                   /\ row'[g] = row[g] /\ sent'[g] = sent[g]
    BY <1>0, <1>1 DEF LocalsOK
<1>6. PcFits(h)'
    BY <1>5 DEF PcFits, Showing, Retiring
<1>7. LocalsOK'
    BY <1>2, <1>4, <1>5, <1>6, OneMoves
<1>8. updates' \in 0 .. MaxUpdates
    BY <1>0, <1>1, ScreensAssumption DEF RestOK
<1>9. RestOK'
    BY <1>0, <1>1, <1>8 DEF RestOK, RecordedWasShown, Rows
<1> QED BY <1>2, <1>7, <1>9, TypedIs

LEMMA UpdateTyped ==
    ASSUME Typed, NEW h \in Handlers,
           ShowCommand(h) \/ StartCommand(h) \/ StrayText(h) \/ CloseButton(h)
    PROVE  Typed'
<1>1. CASE ShowCommand(h)
    BY <1>1, BeginTyped DEF ShowCommand, Jobs, PCs
<1>2. CASE StartCommand(h)
    BY <1>2, BeginTyped, ScreensAssumption DEF StartCommand, Jobs, PCs
<1>3. CASE StrayText(h)
    BY <1>3, BeginTyped DEF StrayText, Jobs, PCs
<1>4. CASE CloseButton(h)
    BY <1>4, BeginTyped DEF CloseButton, Jobs, PCs
<1> QED BY <1>1, <1>2, <1>3, <1>4

\* Nothing but the messages and the row changes what is recorded.
LEMMA RestStays ==
    ASSUME Typed, Grown, ChatOK', UNCHANGED <<active, updates>>,
           failures' \in 0 .. MaxFailures, stuck' \subseteq DOMAIN chat'
    PROVE  RestOK'
<1>1. active' \in Rows' /\ RecordedWasShown'
    BY StillThere DEF RecordedWasShown
<1> QED BY <1>1, TypedIs DEF RestOK

LEMMA OpenTyped ==
    ASSUME Typed, NEW h \in Handlers, NEW m \in DOMAIN chat, OpenArticle(h, m)
    PROVE  Typed'
<1>0. TypeOK /\ ChatOK /\ RestOK /\ LocalsOK
    BY TypedIs DEF Typed
<1> DEFINE r == [chat[m] EXCEPT !.screen = Article]
<1>1. /\ chat' = [chat EXCEPT ![m] = r] /\ wasShown' = [wasShown EXCEPT ![m] = @ \cup {Article}]
      /\ UNCHANGED <<active, failures, locals, stuck, troubled, before>>
      /\ updates < MaxUpdates /\ updates' = updates + 1
    BY DEF OpenArticle
<1>2. r \in Msg /\ {Article} \in SUBSET Shown
    BY <1>0, ChatIs DEF Msg, Shown
<1> HIDE DEF r
<1>3. ChatOK' /\ Grown /\ DOMAIN chat' = DOMAIN chat
    BY <1>0, <1>1, <1>2, Edited
<1>4. LocalsOK'
    <2>1. \A g \in Handlers : PcFits(g)'
        BY <1>1, <1>3 DEF Typed, PcFits, Grown, locals
    <2> QED BY <1>0, <1>1, <1>3, <2>1, StillThere DEF LocalsOK, locals
<1>5. updates' \in 0 .. MaxUpdates
    BY <1>0, <1>1, ScreensAssumption DEF RestOK
<1>6. active' \in Rows' /\ RecordedWasShown'
    BY <1>1, <1>3, StillThere DEF RecordedWasShown
<1>7. RestOK'
    BY <1>0, <1>1, <1>3, <1>5, <1>6 DEF RestOK
<1> QED BY <1>3, <1>4, <1>7, TypedIs

LEMMA CountsTyped ==
    ASSUME Typed, NEW h \in Handlers, Fails(h) \/ Works
    PROVE  failures' \in 0 .. MaxFailures /\ troubled' \in [Handlers -> BOOLEAN]
<1>1. failures \in 0 .. MaxFailures /\ troubled \in [Handlers -> BOOLEAN]
    BY DEF Typed, TypeOK
<1>2. CASE Fails(h)
    BY <1>1, <1>2, ScreensAssumption DEF Fails
<1>3. CASE Works
    BY <1>1, <1>3 DEF Works
<1> QED BY <1>2, <1>3

\* RetireMessage changes one message's keyboard, or nothing.
LEMMA RetireMessageIs ==
    ASSUME Typed, NEW h \in Handlers, NEW m \in DOMAIN chat, RetireMessage(h, m), UNCHANGED wasShown
    PROVE  /\ ChatOK' /\ Grown /\ DOMAIN chat' = DOMAIN chat /\ Len(chat') = Len(chat)
           /\ Fails(h) \/ Works
           /\ stuck' \subseteq DOMAIN chat'
           /\ \A k \in DOMAIN chat \ {m} : chat'[k] = chat[k] /\ (k \in stuck' <=> k \in stuck)
           /\ m \in stuck' \/ chat'[m].keys = "stripped"
<1>0. ChatOK /\ stuck \subseteq DOMAIN chat
    BY TypedIs DEF RestOK
<1>1. CASE Fails(h) /\ stuck' = stuck \cup {m} /\ UNCHANGED chat
    BY <1>0, <1>1, Untouched
<1>2. CASE Works /\ chat' = [chat EXCEPT ![m].keys = "stripped"] /\ stuck' = stuck \ {m}
    <2> DEFINE r == [chat[m] EXCEPT !.keys = "stripped"]
    <2>1. chat' = [chat EXCEPT ![m] = r] /\ r \in Msg /\ r.keys = "stripped"
        BY <1>0, <1>2, ChatIs DEF Msg
    <2> HIDE DEF r
    <2>2. wasShown' = [wasShown EXCEPT ![m] = @ \cup {}] /\ {} \in SUBSET Shown
        BY <1>0, ChatIs DEF ChatOK
    <2>3. /\ ChatOK' /\ Grown /\ Len(chat') = Len(chat) /\ DOMAIN chat' = DOMAIN chat
          /\ chat'[m] = r /\ \A k \in DOMAIN chat \ {m} : chat'[k] = chat[k]
        BY <1>0, <2>1, <2>2, Edited
    <2> QED BY <1>0, <1>2, <2>1, <2>3
<1> QED BY <1>1, <1>2 DEF RetireMessage
LEMMA RenderTyped ==
    ASSUME Typed, NEW h \in Handlers, pc[h] \in Retiring, Render(h), Fails(h) \/ Works,
           Grown, ChatOK', UNCHANGED before
    PROVE  LocalsOK'
<1>0. TypeOK /\ PcFits(h) /\ troubled' \in [Handlers -> BOOLEAN]
    BY CountsTyped DEF Typed
<1>1. CASE Return(h)
    BY <1>0, <1>1, Returned
<1>2. CASE ~ Return(h)
    <2>1. /\ job[h] # "close" /\ Goto(h, "get") /\ UNCHANGED <<job, want, sent>>
          /\ row' = [row EXCEPT ![h] = Empty]
        BY <1>2 DEF Render
    <2>2. want[h] \in Screens /\ sent[h] \in {0} \cup DOMAIN chat' /\ row'[h] = Empty /\ Empty \in Rows'
        BY <1>0, <2>1 DEF PcFits, TypeOK, Grown, Rows
    <2> QED BY <1>0, <2>1, <2>2, Moved DEF PCs, Retiring, Showing
<1> QED BY <1>1, <1>2

LEMMA StepTyped ==
    ASSUME Typed, NEW h \in Handlers, Step(h)
    PROVE  Typed'
<1>0. TypeOK /\ RecordedWasShown /\ PcFits(h) /\ ChatOK /\ RestOK /\ LocalsOK
    BY TypedIs DEF Typed
<1>m. /\ sent[h] \in {0} \cup DOMAIN chat /\ want[h] \in Screens \cup {NoRow} /\ row[h] \in Rows
      /\ active \in Rows
    BY <1>0 DEF TypeOK
<1>s. ASSUME UNCHANGED <<chat, active, updates, wasShown, stuck, before>>, Fails(h) \/ Works
      PROVE  ChatOK' /\ Grown /\ RestOK' /\ troubled' \in [Handlers -> BOOLEAN] /\ Rows' = Rows
    <2>1. ChatOK' /\ Grown
        BY <1>0, <1>s, Untouched
    <2> QED BY <1>0, <1>s, <2>1, RestStays, CountsTyped DEF RestOK, Rows
<1>1. CASE Peek(h)
    <2>1. UNCHANGED <<chat, active, updates, wasShown, stuck, before>> /\ (Fails(h) \/ Works)
        BY <1>1 DEF Peek
    <2>2. CASE Return(h)
        BY <1>s, <2>1, <2>2, Returned, TypedIs
    <2>3. CASE ~ Return(h)
        <3>1. /\ active # Empty /\ want' = [want EXCEPT ![h] = active.screen]
              /\ Goto(h, "retireGet") /\ UNCHANGED <<job, row, sent>>
            BY <1>1, <2>3 DEF Peek
        <3>2. active.screen \in Screens /\ want'[h] = active.screen
            BY <1>0, <1>m, <3>1, RowIs DEF TypeOK
        <3>3. LocalsOK'
            BY <1>m, <1>s, <2>1, <3>1, <3>2, Moved DEF PCs, Retiring, Showing
        <3> QED BY <1>s, <2>1, <3>3, TypedIs
    <2> QED BY <2>2, <2>3
<1>2. CASE RetireGet(h)
    <2>1. UNCHANGED <<chat, active, updates, wasShown, stuck, before>> /\ (Fails(h) \/ Works)
          /\ pc[h] = "retireGet"
        BY <1>2 DEF RetireGet
    <2>2. CASE Render(h)
        BY <1>s, <2>1, <2>2, RenderTyped, TypedIs DEF Retiring
    <2>3. CASE ~ Render(h)
        <3>1. /\ active # Empty /\ row' = [row EXCEPT ![h] = active]
              /\ Goto(h, "retireStrip") /\ UNCHANGED <<job, want, sent>>
            BY <1>2, <2>3 DEF RetireGet
        <3>2. row'[h] = active /\ (job[h] = "close" \/ want[h] \in Screens)
            BY <1>0, <2>1, <3>1 DEF TypeOK, PcFits, Retiring
        <3>3. LocalsOK'
            BY <1>m, <1>s, <2>1, <3>1, <3>2, Moved DEF PCs, Showing
        <3> QED BY <1>s, <2>1, <3>3, TypedIs
    <2> QED BY <2>2, <2>3
<1>3. CASE RetireStrip(h) \/ Strip(h)
    <2>1. PICK l \in {"retireClear", "send"} :
             /\ Goto(h, l) /\ RetireMessage(h, row[h].msg)
             /\ UNCHANGED <<active, updates, job, want, row, sent, wasShown, before>>
             /\ l = "retireClear" => pc[h] = "retireStrip"
             /\ l = "send" => pc[h] = "strip"
        BY <1>3 DEF RetireStrip, Strip
    <2>2. row[h].msg \in DOMAIN chat
        BY <1>0, <1>m, <2>1, RowIs DEF PcFits
    <2>3. ChatOK' /\ Grown /\ DOMAIN chat' = DOMAIN chat /\ (Fails(h) \/ Works) /\ stuck' \subseteq DOMAIN chat'
        BY <2>1, <2>2, RetireMessageIs
    <2>4. RestOK' /\ troubled' \in [Handlers -> BOOLEAN] /\ row[h] \in Rows'
        BY <1>m, <2>1, <2>3, RestStays, CountsTyped, RowsGrow
    <2>5. (l = "retireClear" => job[h] = "close" \/ want[h] \in Screens) /\ (l = "send" => want[h] \in Screens)
        BY <1>0, <2>1 DEF PcFits, Retiring, Showing
    <2>6. LocalsOK'
        BY <1>m, <2>1, <2>3, <2>4, <2>5, Moved DEF PCs, Retiring, Showing
    <2> QED BY <2>3, <2>4, <2>6, TypedIs
<1>4. CASE RetireClear(h)
    <2>1. /\ UNCHANGED <<chat, updates, wasShown, stuck, before>> /\ (Fails(h) \/ Works)
          /\ Render(h) /\ pc[h] = "retireClear" /\ active' \in {active, Empty}
        BY <1>4 DEF RetireClear
    <2>2. ChatOK' /\ Grown
        BY <1>0, <2>1, Untouched
    <2>3. LocalsOK'
        BY <2>1, <2>2, RenderTyped DEF Retiring
    <2>4. active' \in Rows' /\ RecordedWasShown'
        BY <1>0, <1>m, <2>1 DEF RecordedWasShown, Rows
    <2>5. RestOK'
        BY <1>0, <2>1, <2>4, CountsTyped DEF RestOK
    <2> QED BY <2>2, <2>3, <2>5, TypedIs
<1>5. CASE Get(h)
    <2>1. UNCHANGED <<chat, active, updates, wasShown, stuck, before>> /\ (Fails(h) \/ Works) /\ pc[h] = "get"
        BY <1>5 DEF Get
    <2>2. CASE Return(h)
        BY <1>s, <2>1, <2>2, Returned, TypedIs
    <2>3. CASE ~ Return(h)
        <3>1. /\ row' = [row EXCEPT ![h] = active] /\ UNCHANGED <<job, want, sent>>
              /\ Goto(h, IF active = Empty THEN "send"
                         ELSE IF active.screen = want[h] THEN "edit" ELSE "strip")
            BY <1>5, <2>3 DEF Get
        <3>2. row'[h] = active /\ want[h] \in Screens
            BY <1>0, <2>1, <3>1 DEF TypeOK, PcFits, Showing
        <3>3. LocalsOK'
            <4>1. CASE active = Empty
                BY <1>m, <1>s, <2>1, <3>1, <3>2, <4>1, Moved DEF PCs, Showing, Retiring
            <4>2. CASE active # Empty /\ active.screen = want[h]
                BY <1>m, <1>s, <2>1, <3>1, <3>2, <4>2, Moved DEF PCs, Showing, Retiring
            <4>3. CASE active # Empty /\ active.screen # want[h]
                BY <1>m, <1>s, <2>1, <3>1, <3>2, <4>3, Moved DEF PCs, Showing, Retiring
            <4> QED BY <4>1, <4>2, <4>3
        <3> QED BY <1>s, <2>1, <3>3, TypedIs
    <2> QED BY <2>2, <2>3
<1>6. CASE Send(h)
    <2>1. UNCHANGED <<active, updates, stuck, before>> /\ (Fails(h) \/ Works) /\ pc[h] = "send"
        BY <1>6 DEF Send
    <2>2. CASE Return(h) /\ UNCHANGED <<chat, wasShown>>
        BY <1>s, <2>1, <2>2, Returned, TypedIs
    <2>3. CASE ~ (Return(h) /\ UNCHANGED <<chat, wasShown>>)
        <3> DEFINE r == [screen |-> want[h], keys |-> "live"]
        <3>1. /\ chat' = Append(chat, r) /\ wasShown' = Append(wasShown, {want[h]})
              /\ sent' = [sent EXCEPT ![h] = Len(chat) + 1]
              /\ Goto(h, "set") /\ UNCHANGED <<job, want, row>>
            BY <1>6, <2>3 DEF Send
        <3>2. want[h] \in Screens /\ r \in Msg /\ {want[h]} \in SUBSET Shown
            BY <1>0, <2>1 DEF PcFits, Showing, Msg, Shown
        <3> HIDE DEF r
        <3>3. /\ ChatOK' /\ Grown /\ DOMAIN chat' = DOMAIN chat \cup {Len(chat) + 1}
              /\ wasShown'[Len(chat) + 1] = {want[h]}
            BY <1>0, <3>1, <3>2, Sent
        <3>4. sent'[h] = Len(chat) + 1 /\ row[h] \in Rows' /\ troubled' \in [Handlers -> BOOLEAN]
            BY <1>0, <1>m, <2>1, <3>1, <3>3, RowsGrow, CountsTyped DEF TypeOK
        <3>5. LocalsOK'
            BY <1>m, <2>1, <3>1, <3>2, <3>3, <3>4, Moved DEF PCs, Showing, Retiring
        <3>6. RestOK'
            BY <1>0, <2>1, <3>3, RestStays, CountsTyped DEF RestOK
        <3> QED BY <3>3, <3>5, <3>6, TypedIs
    <2> QED BY <2>2, <2>3
<1>7. CASE Edit(h)
    <2>1. PICK m \in DOMAIN chat : m = row[h].msg
        BY <1>0, <1>m, <1>7, RowIs DEF Edit, PcFits
    <2>2. /\ UNCHANGED <<active, updates, job, want, row, before>> /\ (Fails(h) \/ Works) /\ pc[h] = "edit"
          /\ want[h] \in Screens
        BY <1>0, <1>7 DEF Edit, PcFits, Showing
    <2>3. CASE Fails(h) /\ stuck' = stuck \cup {m} /\ Goto(h, "send") /\ UNCHANGED <<chat, wasShown, sent>>
        <3>1. ChatOK' /\ Grown /\ row[h] \in Rows' /\ troubled' \in [Handlers -> BOOLEAN]
            BY <1>0, <1>m, <2>2, <2>3, Untouched, RowsGrow, CountsTyped
        <3>2. LocalsOK'
            BY <1>m, <2>2, <2>3, <3>1, Moved DEF PCs, Showing, Retiring
        <3>3. RestOK'
            BY <1>0, <2>2, <2>3, <3>1, RestStays, CountsTyped DEF RestOK
        <3> QED BY <3>1, <3>2, <3>3, TypedIs
    <2>4. CASE ~ (Fails(h) /\ stuck' = stuck \cup {m} /\ Goto(h, "send") /\ UNCHANGED <<chat, wasShown, sent>>)
        <3> DEFINE r == [screen |-> want[h], keys |-> "live"]
        <3>1. /\ chat' = [chat EXCEPT ![m] = r] /\ wasShown' = [wasShown EXCEPT ![m] = @ \cup {want[h]}]
              /\ sent' = [sent EXCEPT ![h] = m] /\ Goto(h, "set") /\ UNCHANGED stuck
            BY <1>7, <2>1, <2>4 DEF Edit
        <3>2. r \in Msg /\ {want[h]} \in SUBSET Shown
            BY <2>2 DEF Msg, Shown
        <3> HIDE DEF r
        <3>3. /\ ChatOK' /\ Grown /\ DOMAIN chat' = DOMAIN chat /\ want[h] \in wasShown'[m]
            BY <1>0, <3>1, <3>2, Edited
        <3>4. sent'[h] = m /\ row[h] \in Rows' /\ troubled' \in [Handlers -> BOOLEAN]
            BY <1>0, <1>m, <2>2, <3>1, <3>3, RowsGrow, CountsTyped DEF TypeOK
        <3>5. LocalsOK'
            BY <1>m, <2>2, <3>1, <3>3, <3>4, Moved DEF PCs, Showing, Retiring
        <3>6. RestOK'
            BY <1>0, <2>2, <3>1, <3>3, RestStays, CountsTyped DEF RestOK
        <3> QED BY <3>3, <3>5, <3>6, TypedIs
    <2> QED BY <2>3, <2>4
<1>8. CASE Set(h)
    <2>1. /\ UNCHANGED <<chat, updates, wasShown, before>> /\ (Fails(h) \/ Works) /\ pc[h] = "set"
          /\ sent[h] \in DOMAIN chat /\ want[h] \in Screens /\ want[h] \in wasShown[sent[h]]
        BY <1>0, <1>8 DEF Set, PcFits, Showing
    <2>2. ChatOK' /\ Grown /\ troubled' \in [Handlers -> BOOLEAN] /\ failures' \in 0 .. MaxFailures
        BY <1>0, <2>1, Untouched, CountsTyped
    <2>3. CASE Return(h) /\ stuck' = stuck \cup {sent[h]} /\ UNCHANGED active
        <3>1. LocalsOK'
            BY <2>1, <2>2, <2>3, Returned
        <3>2. RestOK'
            BY <1>0, <2>1, <2>2, <2>3, RestStays DEF RestOK
        <3> QED BY <2>2, <3>1, <3>2, TypedIs
    <2>4. CASE ~ (Return(h) /\ stuck' = stuck \cup {sent[h]} /\ UNCHANGED active)
        <3>1. active' = Row(sent[h], want[h]) /\ Goto(h, "shown") /\ UNCHANGED <<job, want, row, sent, stuck>>
            BY <1>8, <2>4 DEF Set
        <3>2. LocalsOK'
            BY <1>m, <2>1, <2>2, <3>1, RowsGrow, Moved DEF PCs, Showing, Retiring
        <3>3. active' \in Rows' /\ RecordedWasShown'
            BY <2>1, <3>1 DEF Rows, Row, RecordedWasShown
        <3>4. RestOK'
            BY <1>0, <2>1, <2>2, <3>1, <3>3 DEF RestOK
        <3> QED BY <2>2, <3>2, <3>4, TypedIs
    <2> QED BY <2>3, <2>4
<1>9. CASE Done(h)
    <2>1. UNCHANGED <<chat, active, updates, wasShown, stuck, before>> /\ Works /\ Return(h)
        BY <1>9 DEF Done
    <2> QED BY <1>s, <2>1, Returned, TypedIs
<1> QED BY <1>1, <1>2, <1>3, <1>4, <1>5, <1>6, <1>7, <1>8, <1>9 DEF Step

LEMMA TypedNext == Typed /\ [Next]_vars => Typed'
<1> SUFFICES ASSUME Typed, [Next]_vars PROVE Typed'
    OBVIOUS
<1>1. CASE UNCHANGED vars
    <2>1. UNCHANGED <<chat, active, updates, failures, pc, job, want, row, sent, wasShown, stuck,
                      troubled, before>>
        BY <1>1 DEF vars, locals, hist
    <2>2. ChatOK' /\ LocalsOK' /\ RestOK'
        BY <2>1, TypedIs DEF ChatOK, LocalsOK, PcFits, RestOK, RecordedWasShown, Rows
    <2> QED BY <2>2, TypedIs
<1> QED BY <1>1, UpdateTyped, OpenTyped, StepTyped DEF Next

\* Every reachable state is well typed: a message that is edited or stripped
\* was sent, whatever handlers overlap and whatever calls fail.
THEOREM ScreensTyped == Spec => []TypeOK
<1>1. Typed => TypeOK
    BY DEF Typed
<1> QED BY <1>1, TypedInit, TypedNext, PTL DEF Spec

\* However the handlers of a chat overlap and fail, the row names a message
\* that has displayed the recorded screen.
THEOREM RecordIsTrue == Spec => []RecordedWasShown
<1>1. Typed => RecordedWasShown
    BY DEF Typed
<1> QED BY <1>1, TypedInit, TypedNext, PTL DEF Spec
-----------------------------------------------------------------------------
(* Updates handled one after the other: only handler x does anything.      *)

AllStuck  == \A m \in DOMAIN chat : Live(m) => m \in stuck
OnlyOr(k) == \A m \in DOMAIN chat : Live(m) => m = k \/ m \in stuck

\* Which messages have a keyboard at every step of x.
Screen(x) ==
    /\ pc[x] \in {"retireClear", "send"} => AllStuck
    /\ pc[x] = "set" => OnlyOr(sent[x])
    /\ pc[x] \notin {"retireClear", "send", "set"} => OnlyOr(active.msg)
    /\ pc[x] \in {"retireStrip", "strip", "edit"} => row[x] = active
    /\ pc[x] \in {"set", "shown"} => chat[sent[x]] = [screen |-> want[x], keys |-> "live"]
    /\ pc[x] = "shown" => active = Row(sent[x], want[x])

\* After a stray text or /start: unless a call failed, the screen is retired
\* before it is shown again.
Afresh(x) ==
    job[x] \in {"fallback", "start"} /\ ~ troubled[x] =>
        /\ pc[x] \notin {"strip", "edit"}
        /\ pc[x] = "get" => active = Empty
        /\ pc[x] \in {"set", "shown"} => sent[x] > before[x]

AloneInv(x) ==
    /\ \A y \in Handlers \ {x} : pc[y] = "idle"
    /\ Screen(x) /\ Afresh(x)

LEMMA NoneIsStuck ==
    ASSUME Typed, OnlyOr(0)
    PROVE  AllStuck
BY TypedIs, ChatIs DEF AllStuck, OnlyOr

\* The messages as they were: the same ones have a keyboard.
LEMMA SameKeys ==
    ASSUME UNCHANGED <<chat, stuck>>, NEW k
    PROVE  (AllStuck => AllStuck') /\ (OnlyOr(k) => OnlyOr(k)')
BY DEF AllStuck, OnlyOr, Live

LEMMA StuckIsOnly ==
    ASSUME NEW k
    PROVE  (AllStuck => OnlyOr(k)) /\ (AllStuck' => OnlyOr(k)')
BY DEF AllStuck, OnlyOr

LEMMA RetiredKeys ==
    ASSUME Typed, NEW h \in Handlers, NEW m \in DOMAIN chat, OnlyOr(m), RetireMessage(h, m),
           UNCHANGED wasShown
    PROVE  AllStuck'
<1>1. /\ DOMAIN chat' = DOMAIN chat
      /\ \A k \in DOMAIN chat \ {m} : chat'[k] = chat[k] /\ (k \in stuck' <=> k \in stuck)
      /\ m \in stuck' \/ chat'[m].keys = "stripped"
    BY RetireMessageIs
<1> QED BY <1>1 DEF AllStuck, OnlyOr, Live

\* Returning, with every keyboard accounted for.
LEMMA ReturnsAlone ==
    ASSUME Typed, NEW x \in Handlers, Return(x), OnlyOr(active.msg)'
    PROVE  Screen(x)' /\ Afresh(x)'
<1>1. pc'[x] = "idle" /\ job'[x] = "none"
    BY DEF Return, Goto, Typed, TypeOK
<1> QED BY <1>1 DEF Screen, Afresh
LEMMA AloneStep ==
    ASSUME Typed, NEW x \in Handlers, AloneInv(x), Step(x)
    PROVE  Screen(x)' /\ Afresh(x)'
<1>0. TypeOK /\ ChatOK /\ PcFits(x) /\ Screen(x) /\ Afresh(x)
    BY TypedIs DEF Typed, AloneInv
<1>m. PICK a \in Rows, r \in Rows, k \in {0} \cup DOMAIN chat, w \in Screens \cup {NoRow} :
           a = active /\ r = row[x] /\ k = sent[x] /\ w = want[x]
    BY <1>0 DEF TypeOK
<1>g. ASSUME NEW l, Goto(x, l) PROVE pc'[x] = l
    BY <1>0, <1>g DEF Goto, TypeOK
<1>f. ASSUME Fails(x) PROVE troubled'[x] = TRUE
    BY <1>0, <1>f DEF Fails, TypeOK
<1>w. ASSUME Works PROVE troubled' = troubled
    BY <1>w DEF Works
<1>1. CASE Peek(x)
    <2>1. UNCHANGED <<chat, stuck, active>> /\ OnlyOr(a.msg) /\ pc[x] = "peek"
        BY <1>0, <1>1, <1>m DEF Peek, Screen
    <2>2. OnlyOr(active.msg)'
        BY <1>m, <2>1, SameKeys
    <2>3. CASE Return(x)
        BY <2>2, <2>3, ReturnsAlone
    <2>4. CASE ~ Return(x)
        <3>1. pc'[x] = "retireGet"
            BY <1>1, <1>g, <2>4 DEF Peek
        <3> QED BY <2>2, <3>1 DEF Screen, Afresh
    <2> QED BY <2>3, <2>4
<1>2. CASE RetireGet(x)
    <2>1. UNCHANGED <<chat, stuck, active>> /\ OnlyOr(a.msg)
        BY <1>0, <1>2, <1>m DEF RetireGet, Screen
    <2>2. OnlyOr(active.msg)'
        BY <1>m, <2>1, SameKeys
    <2>3. CASE Return(x)
        BY <2>2, <2>3, ReturnsAlone
    <2>4. CASE ~ Return(x) /\ Render(x)
        <3>1. pc'[x] = "get" /\ UNCHANGED job
            BY <1>g, <2>4 DEF Render
        <3>2. troubled'[x] = TRUE \/ active' = Empty
            <4>1. CASE Fails(x)
                BY <1>f, <4>1
            <4>2. CASE ~ Fails(x) /\ active # Empty
                <5>1. row' = [row EXCEPT ![x] = active] /\ Goto(x, "retireStrip")
                    BY <1>2, <4>2 DEF RetireGet
                <5> QED BY <1>g, <3>1, <5>1
            <4> QED BY <2>1, <4>1, <4>2
        <3> QED BY <2>2, <3>1, <3>2 DEF Screen, Afresh
    <2>5. CASE ~ Render(x)
        <3>1. pc'[x] = "retireStrip" /\ row'[x] = active
            BY <1>0, <1>2, <1>g, <2>5 DEF RetireGet, TypeOK
        <3> QED BY <2>1, <2>2, <3>1 DEF Screen, Afresh
    <2> QED BY <2>3, <2>4, <2>5
<1>3. CASE RetireStrip(x) \/ Strip(x)
    <2>1. PICK l \in {"retireClear", "send"} :
             /\ Goto(x, l) /\ RetireMessage(x, row[x].msg) /\ UNCHANGED wasShown
             /\ pc[x] \in {"retireStrip", "strip"}
        BY <1>3 DEF RetireStrip, Strip
    <2>2. PICK m \in DOMAIN chat : m = row[x].msg /\ m = active.msg
        BY <1>0, <1>m, <2>1, RowIs DEF PcFits, Screen
    <2>3. OnlyOr(m)
        BY <1>0, <2>1, <2>2 DEF Screen
    <2>4. AllStuck'
        BY <2>1, <2>2, <2>3, RetiredKeys
    <2>5. pc'[x] = l
        BY <1>g, <2>1
    <2> QED BY <2>4, <2>5 DEF Screen, Afresh
<1>4. CASE RetireClear(x)
    <2>1. UNCHANGED <<chat, stuck>> /\ AllStuck /\ Render(x)
        BY <1>0, <1>4 DEF RetireClear, Screen
    <2>2. AllStuck'
        BY <2>1, SameKeys
    <2>3. OnlyOr(active.msg)'
        BY <2>2 DEF AllStuck, OnlyOr
    <2>4. CASE Return(x)
        BY <2>3, <2>4, ReturnsAlone
    <2>5. CASE ~ Return(x)
        <3>1. pc'[x] = "get" /\ UNCHANGED job
            BY <1>g, <2>1, <2>5 DEF Render
        <3>2. troubled'[x] = TRUE \/ active' = Empty
            BY <1>4, <1>f DEF RetireClear
        <3> QED BY <2>3, <3>1, <3>2 DEF Screen, Afresh
    <2> QED BY <2>4, <2>5
<1>5. CASE Get(x)
    <2>1. UNCHANGED <<chat, stuck, active>> /\ OnlyOr(a.msg) /\ pc[x] = "get"
        BY <1>0, <1>5, <1>m DEF Get, Screen
    <2>2. OnlyOr(active.msg)'
        BY <1>m, <2>1, SameKeys
    <2>3. CASE Return(x)
        BY <2>2, <2>3, ReturnsAlone
    <2>4. CASE ~ Return(x)
        <3>1. /\ Works /\ row'[x] = active /\ UNCHANGED job
              /\ Goto(x, IF active = Empty THEN "send"
                         ELSE IF active.screen = want[x] THEN "edit" ELSE "strip")
            BY <1>0, <1>5, <2>4 DEF Get, TypeOK
        <3>2. CASE active = Empty
            <4>1. pc'[x] = "send"
                BY <1>g, <3>1, <3>2
            <4>2. a.msg = 0
                BY <1>m, <3>2 DEF Empty, Row
            <4>3. AllStuck'
                BY <2>1, <4>2, NoneIsStuck, SameKeys
            <4> QED BY <4>1, <4>3 DEF Screen, Afresh
        <3>3. CASE active # Empty
            <4>1. pc'[x] \in {"edit", "strip"}
                BY <1>g, <3>1, <3>3
            <4>2. ~ (job[x] \in {"fallback", "start"} /\ ~ troubled[x])
                BY <1>0, <2>1, <3>3 DEF Afresh
            <4>3. Afresh(x)'
                BY <1>w, <3>1, <4>2 DEF Afresh
            <4> QED BY <2>1, <2>2, <3>1, <4>1, <4>3 DEF Screen
        <3> QED BY <3>2, <3>3
    <2> QED BY <2>3, <2>4
<1>6. CASE Send(x)
    <2>1. UNCHANGED <<active, stuck, before>> /\ AllStuck /\ pc[x] = "send"
        BY <1>0, <1>6 DEF Send, Screen
    <2>2. CASE Return(x) /\ UNCHANGED <<chat, wasShown>>
        <3>1. AllStuck'
            BY <2>1, <2>2, SameKeys
        <3>2. OnlyOr(active.msg)'
            BY <3>1 DEF AllStuck, OnlyOr
        <3> QED BY <2>2, <3>2, ReturnsAlone
    <2>3. CASE ~ (Return(x) /\ UNCHANGED <<chat, wasShown>>)
        <3> DEFINE c == [screen |-> want[x], keys |-> "live"]
        <3>1. /\ chat' = Append(chat, c) /\ wasShown' = Append(wasShown, {want[x]})
              /\ sent' = [sent EXCEPT ![x] = Len(chat) + 1]
              /\ Goto(x, "set") /\ UNCHANGED <<job, want, row>>
            BY <1>6, <2>3 DEF Send
        <3>2. c \in Msg /\ {want[x]} \in SUBSET Shown
            BY <1>0, <2>1 DEF PcFits, Showing, Msg, Shown
        <3>3. c = [screen |-> want'[x], keys |-> "live"]
            BY <3>1
        <3> HIDE DEF c
        <3>4. /\ DOMAIN chat' = DOMAIN chat \cup {Len(chat) + 1} /\ chat'[Len(chat) + 1] = c
              /\ \A m \in DOMAIN chat : chat'[m] = chat[m]
            BY <1>0, <3>1, <3>2, Sent
        <3>5. pc'[x] = "set" /\ sent'[x] = Len(chat) + 1
            BY <1>0, <1>g, <3>1 DEF TypeOK
        <3>6. OnlyOr(sent[x])'
            BY <2>1, <3>4, <3>5 DEF OnlyOr, AllStuck, Live
        <3>7. sent'[x] > before'[x]
            <4>1. before[x] \in 0 .. Len(chat) /\ Len(chat) \in Nat
                BY <1>0, ChatIs DEF TypeOK
            <4> QED BY <2>1, <3>5, <4>1
        <3> QED BY <3>3, <3>4, <3>5, <3>6, <3>7 DEF Screen, Afresh
    <2> QED BY <2>2, <2>3
<1>7. CASE Edit(x)
    <2>1. PICK m \in DOMAIN chat : m = row[x].msg /\ m = active.msg
        BY <1>0, <1>m, <1>7, RowIs DEF Edit, PcFits, Screen
    <2>2. /\ UNCHANGED <<active, job, want, row, before>> /\ pc[x] = "edit" /\ OnlyOr(m)
          /\ want[x] \in Screens
        BY <1>0, <1>7, <2>1 DEF Edit, PcFits, Showing, Screen
    <2>3. CASE Fails(x) /\ stuck' = stuck \cup {m} /\ Goto(x, "send") /\ UNCHANGED <<chat, wasShown, sent>>
        <3>1. pc'[x] = "send"
            BY <1>g, <2>3
        <3>2. AllStuck'
            BY <2>2, <2>3 DEF AllStuck, OnlyOr, Live
        <3> QED BY <3>1, <3>2 DEF Screen, Afresh
    <2>4. CASE ~ (Fails(x) /\ stuck' = stuck \cup {m} /\ Goto(x, "send") /\ UNCHANGED <<chat, wasShown, sent>>)
        <3> DEFINE c == [screen |-> want[x], keys |-> "live"]
        <3>1. /\ Works /\ chat' = [chat EXCEPT ![m] = c] /\ wasShown' = [wasShown EXCEPT ![m] = @ \cup {want[x]}]
              /\ sent' = [sent EXCEPT ![x] = m] /\ Goto(x, "set") /\ UNCHANGED stuck
            BY <1>7, <2>1, <2>4 DEF Edit
        <3>2. c \in Msg /\ {want[x]} \in SUBSET Shown /\ c = [screen |-> want'[x], keys |-> "live"]
            BY <2>2 DEF Msg, Shown
        <3> HIDE DEF c
        <3>3. /\ DOMAIN chat' = DOMAIN chat /\ chat'[m] = c
              /\ \A j \in DOMAIN chat \ {m} : chat'[j] = chat[j]
            BY <1>0, <3>1, <3>2, Edited
        <3>4. pc'[x] = "set" /\ sent'[x] = m
            BY <1>0, <1>g, <3>1 DEF TypeOK
        <3>5. OnlyOr(sent[x])'
            BY <2>2, <3>1, <3>3, <3>4 DEF OnlyOr, Live
        <3>6. ~ (job'[x] \in {"fallback", "start"} /\ ~ troubled'[x])
            BY <1>0, <1>w, <2>2, <3>1 DEF Afresh
        <3>7. Afresh(x)'
            BY <3>6 DEF Afresh
        <3> QED BY <3>2, <3>3, <3>4, <3>5, <3>7 DEF Screen
    <2> QED BY <2>3, <2>4
<1>8. CASE Set(x)
    <2>1. UNCHANGED <<chat, before>> /\ pc[x] = "set" /\ OnlyOr(k)
        BY <1>0, <1>8, <1>m DEF Set, Screen
    <2>2. CASE Return(x) /\ stuck' = stuck \cup {sent[x]} /\ UNCHANGED active
        <3>1. AllStuck'
            BY <1>m, <2>1, <2>2 DEF AllStuck, OnlyOr, Live
        <3>2. OnlyOr(active.msg)'
            BY <3>1 DEF AllStuck, OnlyOr
        <3> QED BY <2>2, <3>2, ReturnsAlone
    <2>3. CASE ~ (Return(x) /\ stuck' = stuck \cup {sent[x]} /\ UNCHANGED active)
        <3>1. Works /\ active' = Row(k, w) /\ Goto(x, "shown") /\ UNCHANGED <<job, want, row, sent, stuck>>
            BY <1>8, <1>m, <2>3 DEF Set
        <3>2. pc'[x] = "shown" /\ active'.msg = k /\ sent'[x] = k /\ want'[x] = w
            BY <1>g, <1>m, <3>1 DEF Row
        <3>3. OnlyOr(active.msg)'
            BY <2>1, <3>1, <3>2, SameKeys
        <3>4. chat'[k] = [screen |-> w, keys |-> "live"]
            BY <1>0, <1>m, <2>1 DEF Screen
        <3>5. Screen(x)'
            BY <3>1, <3>2, <3>3, <3>4 DEF Screen
        <3>6. Afresh(x)'
            BY <1>0, <1>w, <2>1, <3>1, <3>2 DEF Afresh
        <3> QED BY <3>5, <3>6
    <2> QED BY <2>2, <2>3
<1>9. CASE Done(x)
    <2>1. UNCHANGED <<chat, active, stuck>> /\ Return(x) /\ OnlyOr(a.msg)
        BY <1>0, <1>9, <1>m DEF Done, Screen
    <2>2. OnlyOr(active.msg)'
        BY <1>m, <2>1, SameKeys
    <2> QED BY <2>1, <2>2, ReturnsAlone
<1> QED BY <1>1, <1>2, <1>3, <1>4, <1>5, <1>6, <1>7, <1>8, <1>9 DEF Step

LEMMA AloneNext ==
    ASSUME Typed, NEW x \in Handlers, AloneInv(x), [Next]_vars,
           \A y \in Handlers \ {x} : pc'[y] = "idle",
           updates' # updates => \A y \in Handlers : pc[y] = "idle"
    PROVE  AloneInv(x)'
<1>0. TypeOK /\ ChatOK /\ Screen(x) /\ Afresh(x) /\ \A y \in Handlers \ {x} : pc[y] = "idle"
    BY TypedIs DEF Typed, AloneInv
<1>a. PICK a \in Rows : a = active
    BY <1>0 DEF TypeOK
<1>1. CASE \E h \in Handlers : Step(h)
    <2>1. PICK h \in Handlers : Step(h)
        BY <1>1
    <2>2. pc[h] # "idle"
        BY <2>1 DEF Step, Peek, RetireGet, RetireStrip, RetireClear, Get, Strip, Send, Edit, Set, Done
    <2>3. h = x
        BY <1>0, <2>2
    <2> QED BY <2>1, <2>3, AloneStep DEF AloneInv
<1>2. CASE \E h \in Handlers : ShowCommand(h) \/ StartCommand(h) \/ StrayText(h) \/ CloseButton(h)
    <2>1. PICK h \in Handlers, j \in Jobs, s \in Screens \cup {NoRow}, l \in {"get", "retireGet", "peek"} :
              Begin(h, j, s, l) /\ (j \in {"fallback", "start"} => l # "get")
        BY <1>2, ScreensAssumption DEF ShowCommand, StartCommand, StrayText, CloseButton, Jobs
    <2>2. /\ pc'[h] = l /\ job'[h] = j /\ UNCHANGED <<chat, active, stuck>> /\ pc[h] = "idle"
        BY <1>0, <2>1 DEF Begin, Goto, TypeOK
    <2>3. h = x
        BY <2>1, <2>2
    <2>4. OnlyOr(a.msg)
        BY <1>0, <1>a, <2>2, <2>3 DEF Screen
    <2>5. OnlyOr(active.msg)'
        BY <1>a, <2>2, <2>4, SameKeys
    <2>6. Screen(x)' /\ Afresh(x)'
        BY <2>1, <2>2, <2>3, <2>5 DEF Screen, Afresh
    <2> QED BY <2>6 DEF AloneInv
<1>3. CASE \E h \in Handlers, m \in DOMAIN chat : OpenArticle(h, m)
    <2>1. PICK h \in Handlers, m \in DOMAIN chat : OpenArticle(h, m)
        BY <1>3
    <2>2. updates' # updates
        BY <1>0, <2>1 DEF OpenArticle, TypeOK
    <2>3. pc[x] = "idle" /\ OnlyOr(a.msg)
        BY <1>0, <1>a, <2>2 DEF Screen
    <2>4. /\ chat' = [chat EXCEPT ![m].screen = Article]
          /\ UNCHANGED <<active, locals, stuck, troubled, before>>
        BY <2>1 DEF OpenArticle
    <2>5. DOMAIN chat' = DOMAIN chat /\ \A k \in DOMAIN chat : Live(k)' <=> Live(k)
        BY <1>0, <2>4, ChatIs DEF Live, Msg
    <2>6. OnlyOr(active.msg)'
        BY <1>a, <2>3, <2>4, <2>5 DEF OnlyOr
    <2>7. Screen(x)' /\ Afresh(x)'
        BY <2>3, <2>4, <2>6 DEF Screen, Afresh, locals
    <2> QED BY <2>7 DEF AloneInv
<1>4. CASE UNCHANGED vars
    <2>1. UNCHANGED <<chat, active, stuck, pc, job, want, row, sent, troubled, before>>
        BY <1>4 DEF vars, locals, hist
    <2> QED BY <1>0, <2>1 DEF AloneInv, Screen, Afresh, AllStuck, OnlyOr, Live
<1> QED BY <1>1, <1>2, <1>3, <1>4 DEF Next

LaneInv == Typed /\ \A x \in Handlers : lanes = {x} => AloneInv(x)

LEMMA LaneInit == MCInit => LaneInv
<1> SUFFICES ASSUME MCInit PROVE LaneInv
    OBVIOUS
<1>1. Typed /\ Init
    BY TypedInit DEF MCInit
<1>2. \A x \in Handlers : AloneInv(x)
    BY <1>1 DEF Init, AloneInv, Screen, Afresh, OnlyOr
<1> QED BY <1>1, <1>2 DEF LaneInv

LEMMA LaneNext == LaneInv /\ [MCNext]_<<vars, lanes>> => LaneInv'
<1> SUFFICES ASSUME LaneInv, [MCNext]_<<vars, lanes>> PROVE LaneInv'
    OBVIOUS
<1>1. [Next]_vars /\ Typed /\ Typed' /\ lanes' = lanes
    BY TypedNext DEF LaneInv, MCNext, Keeps
<1>2. ASSUME NEW x \in Handlers, lanes = {x} PROVE AloneInv(x)'
    <2>1. AloneInv(x)
        BY <1>2 DEF LaneInv
    <2>2. \A y \in Handlers \ {x} : pc'[y] = "idle"
        BY <1>2, <2>1 DEF MCNext, Keeps, AloneInv, vars, locals
    <2>3. updates' # updates => \A y \in Handlers : pc[y] = "idle"
        BY <1>2 DEF MCNext, Keeps, Alone, vars
    <2> QED BY <1>1, <2>1, <2>2, <2>3, AloneNext
<1> QED BY <1>1, <1>2 DEF LaneInv

\* While a chat's updates are handled one after the other, the message on
\* record is the only one with a keyboard whenever nothing is being handled,
\* the messages of failed calls aside.
THEOREM OneScreenIsActive == MCSpec => []AloneSingleActiveScreen
<1>1. LaneInv => AloneSingleActiveScreen
    <2> SUFFICES ASSUME LaneInv, NEW x \in Handlers, lanes = {x}, \A h \in Handlers : pc[h] = "idle"
                 PROVE  \A m \in DOMAIN chat : Live(m) => m = active.msg \/ m \in stuck
        BY DEF AloneSingleActiveScreen, Alone, SingleActiveScreen
    <2> QED BY DEF LaneInv, AloneInv, Screen, OnlyOr
<1> QED BY <1>1, LaneInit, LaneNext, PTL DEF MCSpec

\* Show then leaves the chat at the screen it was asked for, recorded and with
\* its keyboard, whatever calls failed before.
THEOREM ShowIsDelivered == MCSpec => []AloneShowDelivers
<1>1. LaneInv => AloneShowDelivers
    <2> SUFFICES ASSUME LaneInv, NEW x \in Handlers, lanes = {x}, NEW h \in Handlers, pc[h] = "shown"
                 PROVE  /\ active = Row(sent[h], want[h])
                        /\ chat[sent[h]] = [screen |-> want[h], keys |-> "live"]
        BY DEF AloneShowDelivers, Alone, ShowDelivers
    <2>1. AloneInv(x) /\ h = x
        BY DEF LaneInv, AloneInv
    <2> QED BY <2>1 DEF AloneInv, Screen
<1> QED BY <1>1, LaneInit, LaneNext, PTL DEF MCSpec

\* And what a stray text or /start brings back is a message sent after it.
THEOREM BroughtBackBelow == MCSpec => []AloneEmittedAfresh
<1>1. LaneInv => AloneEmittedAfresh
    <2> SUFFICES ASSUME LaneInv, NEW x \in Handlers, lanes = {x}, NEW h \in Handlers, pc[h] = "shown",
                        job[h] \in {"fallback", "start"}, ~ troubled[h]
                 PROVE  active.msg > before[h]
        BY DEF AloneEmittedAfresh, Alone, EmittedAfresh
    <2>1. AloneInv(x) /\ h = x
        BY DEF LaneInv, AloneInv
    <2>2. active.msg = sent[h] /\ sent[h] > before[h]
        BY <2>1 DEF AloneInv, Screen, Afresh, Row
    <2> QED BY <2>2
<1> QED BY <1>1, LaneInit, LaneNext, PTL DEF MCSpec
=============================================================================
