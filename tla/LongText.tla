------------------------------ MODULE LongText ------------------------------
(***************************************************************************)
(* An article too long for one analysis, once its user has chosen what to  *)
(* do with it (internal/articles: AnalyzeExtracted from the choice on,     *)
(* runAnalysis, extractVocabChunks, mergeWords): its beginning, or an LLM  *)
(* summary of it, is analysed, and the whole of it is then searched for    *)
(* more words, chunk by chunk.  Every call of the LLM is one step and may  *)
(* fail.  ArticlePipeline has the same analysis among other goroutines,    *)
(* without the texts.                                                      *)
(***************************************************************************)
EXTENDS TextCut, FiniteSets, SequencesExt

CONSTANTS MaxPieces,     \* maxVocabChunks
          MaxTokens,     \* ServiceDeps.MaxTokens, the budget of an analysis
          SummaryTokens, \* groq.SummarizeInputCap
          Target,        \* ServiceDeps.VocabTarget
          LongTexts,     \* the texts that were parked
          Summaries,     \* the summaries the LLM may write
          Entries,       \* the words it may find: a lemma and a surface form
          Replies,       \* the lists of them it may answer with
          Lower          \* lemma -> strings.ToLower of it

ASSUME LongTextAssumption ==
  /\ MaxPieces \in Nat \ {0}
  /\ MaxTokens \in Nat \ {0} /\ SummaryTokens \in Nat \ {0} /\ Target \in Nat
  /\ LongTexts \subseteq Texts /\ Summaries \subseteq Texts
  /\ \A t \in LongTexts :
       /\ Tokens(Len(t)) > MaxTokens           \* or it would not be parked
       /\ Trim(t, Whole(t)) = Whole(t)         \* the extractor trims it
  /\ \A s \in Summaries : Trim(s, Whole(s)) = Whole(s)   \* so does Summarize
  /\ Replies \subseteq Seq(Entries)
  /\ \A e \in Entries : e.lemma \in DOMAIN Lower

VARIABLES
  text,     \* Extracted.Content
  pc,       \* the next call; "stored", or "lost" when nothing is stored
  primary,  \* the words of Analyze
  rest,     \* what is left of the text after the chunks so far
  chunks,   \* the chunks ExtractVocab was asked about
  extra,    \* the words it found in them
  failures, \* the chunks it failed on
  words,    \* the words of the article
  calls     \* history: what the LLM was asked

vars == <<text, pc, primary, rest, chunks, extra, failures, words, calls>>

\* A call about a piece of a text, with the words it found.
Call(t, p, max, ws) == [text |-> t, piece |-> p, budget |-> max, found |-> ws]

Init ==
  /\ text \in LongTexts
  /\ pc \in {"truncate", "summarize"}   \* the button the user pressed
  /\ primary = <<>> /\ words = <<>> /\ calls = <<>>
  /\ rest = Trim(text, Whole(text)) /\ chunks = <<>> /\ extra = <<>> /\ failures = 0

\* Analyze of the body: it fails or flags the text, or finds words.
Analyze(body, max, before) ==
  /\ \/ \E ws \in Replies :
          /\ pc' = "vocab" /\ primary' = ws
          /\ calls' = before \o <<Call(body, Cut(body, Whole(body), max), max, ws)>>
     \/ /\ pc' = "lost" /\ UNCHANGED primary
        /\ calls' = before \o <<Call(body, Cut(body, Whole(body), max), max, <<>>)>>
  /\ UNCHANGED <<text, rest, chunks, extra, failures, words>>

\* ModeTruncate.
Truncate == pc = "truncate" /\ Analyze(text, MaxTokens, <<>>)

\* ModeSummarize: the text, cut to what the summary call takes, and then the
\* summary, cut to the budget of the analysis.
Summarize ==
  LET asked == <<Call(text, Cut(text, Whole(text), SummaryTokens), SummaryTokens, <<>>)>> IN
  /\ pc = "summarize"
  /\ \/ \E s \in Summaries : Analyze(s, MaxTokens, asked)
     \/ /\ pc' = "lost" /\ calls' = asked
        /\ UNCHANGED <<text, primary, rest, chunks, extra, failures, words>>

Here == Chunk(text, rest, MaxTokens)

AllAsked == Len(chunks) = MaxPieces \/ Here = Nothing

\* chunkText and extractVocabChunks: one call per chunk; one that fails is
\* passed over.  (The prompt lists the words found so far, which binds
\* nobody: the reply may repeat them.)
ExtractVocab ==
  /\ pc = "vocab" /\ ~ AllAsked
  /\ \/ \E ws \in Replies :
          /\ extra' = extra \o ws
          /\ calls' = Append(calls, Call(text, Here, MaxTokens, ws))
          /\ UNCHANGED failures
     \/ /\ failures' = failures + 1
        /\ calls' = Append(calls, Call(text, Here, MaxTokens, <<>>))
        /\ UNCHANGED extra
  /\ chunks' = Append(chunks, Here)
  /\ rest' = After(text, rest, MaxTokens)
  /\ UNCHANGED <<text, pc, primary, words>>

Key(e) == Lower[e.lemma]
Keys(ws) == {Key(ws[i]) : i \in DOMAIN ws}

\* Mutant: an added word is not remembered as seen.
AddedForgets(ws, acc, e, limit) ==
  IF Key(e) \in Keys(ws) \/ (limit > 0 /\ Len(acc) >= limit /\ Len(acc) > Len(ws))
    THEN acc ELSE Append(acc, e)

\* One turn of mergeWords' loop, which began with the words ws.  The limit is
\* looked at after a word is added, so one is added in any case.
Added(ws, acc, e, limit) ==
  IF Key(e) \in Keys(acc) \/ (limit > 0 /\ Len(acc) >= limit /\ Len(acc) > Len(ws))
    THEN acc ELSE Append(acc, e)

\* mergeWords: the extra words that are new, in order.
Merge(ws, more, limit) ==
  LET merged[n \in 0 .. Len(more)] ==
        IF n = 0 THEN ws ELSE Added(ws, merged[n - 1], more[n], limit)
  IN merged[Len(more)]

\* article_words has PRIMARY KEY (article, word, surface form).
Storable(ws) == Cardinality(ToSet(ws)) = Len(ws)

\* When every chunk failed, or nothing was found, the words of Analyze stay;
\* the transaction stores all of them or, on a repeated one, nothing.
Store ==
  LET all == IF failures = Len(chunks) THEN primary ELSE Merge(primary, extra, Target) IN
  /\ pc = "vocab" /\ AllAsked
  /\ \/ Storable(all) /\ pc' = "stored" /\ words' = all
     \/ ~ Storable(all) /\ pc' = "lost" /\ words' = words
  /\ UNCHANGED <<text, primary, rest, chunks, extra, failures, calls>>

Next == Truncate \/ Summarize \/ ExtractVocab \/ Store

Spec == Init /\ [][Next]_vars

-----------------------------------------------------------------------------
(* Properties.                                                             *)

TypeOK ==
  /\ text \in LongTexts
  /\ pc \in {"truncate", "summarize", "vocab", "stored", "lost"}
  /\ primary \in Seq(Entries) /\ extra \in Seq(Entries) /\ words \in Seq(Entries)
  /\ rest \in Piece /\ chunks \in Seq(Piece) /\ failures \in Nat
  /\ \A i \in DOMAIN calls : calls[i].text \in Texts /\ calls[i].piece \in Piece

\* Nothing the LLM is asked about is over the budget of that call, whatever
\* the paragraphs of the text, and only a summary of nothing is empty.
\* "so the request does not blow past Groq's TPM ceiling" (usecase.go:392),
\* "a verbose summary cannot trip the analysis cap" (usecase.go:409).
NothingOverBudget ==
  \A i \in DOMAIN calls :
    /\ Tokens(Size(calls[i].piece)) <= calls[i].budget
    /\ calls[i].text # <<>> => Size(calls[i].piece) > 0

Letter(t, i) == t[i] = "letter"
NoLetter(t, i, j) == \A k \in i .. j : ~ Letter(t, k)

\* A paragraph ends where the text does or an empty line follows.
ParagraphEnds(t, i) ==
  t[i] # "newline" /\ (i = Len(t) \/ (i + 2 <= Len(t) /\ t[i + 1] = "newline" /\ t[i + 2] = "newline"))

\* The text is cut "at the latest paragraph boundary ... such that the
\* cumulative estimated token count stays at or below maxTokens"
\* (truncate.go:9): no paragraph that fits is left out and none is cut in
\* two, unless the first alone is too long, and then the budget is used up.
\* A text may have runs of newlines and blanks of any length anywhere.
CutAtLatestBreak ==
  \A i \in DOMAIN calls :
    LET t     == calls[i].text
        p     == calls[i].piece
        limit == p.lo + calls[i].budget * PerToken - 1  \* the last rune that can fit
        fits  == {j \in p.lo .. limit : j <= Len(t) /\ ParagraphEnds(t, j)}
        last  == Latest(fits)
    IN t # <<>> =>
         IF fits = {} THEN p.hi <= limit /\ NoLetter(t, p.hi + 1, limit)
         ELSE p.hi <= last /\ NoLetter(t, p.hi + 1, last)

\* The chunks follow one another: no letter of the text is skipped between
\* them or sent twice, and what is left out comes after the last allowed one.
ChunksCover ==
  LET c == chunks IN
  /\ Len(c) <= MaxPieces
  /\ \A k \in 1 .. Len(c) :
       LET before == IF k = 1 THEN 0 ELSE c[k - 1].hi IN
       before < c[k].lo /\ NoLetter(text, before + 1, c[k].lo - 1)
  /\ pc = "stored" /\ Len(c) < MaxPieces => Len(c) > 0 /\ c[Len(c)].hi = Len(text)

\* The words the chunks' calls answered with, in order.
Answers ==
  LET n == Len(calls) - Len(chunks)
      found[k \in 0 .. Len(chunks)] ==
        IF k = 0 THEN <<>> ELSE found[k - 1] \o calls[n + k].found
  IN found[Len(chunks)]

\* The words of more that are not among ws, each where it first occurs.
Fresh(ws, more) ==
  {i \in DOMAIN more : /\ Key(more[i]) \notin Keys(ws)
                       /\ \A j \in 1 .. i - 1 : Key(more[j]) # Key(more[i])}
Nth(S, n) == CHOOSE i \in S : Cardinality({j \in S : j < i}) = n - 1
New(ws, more) ==
  [n \in 1 .. Cardinality(Fresh(ws, more)) |-> more[Nth(Fresh(ws, more), n)]]
Room == IF Target > Len(primary) + 1 THEN Target - Len(primary) ELSE 1

\* The search for more words adds to the words of the analysis, in the order
\* they were found and up to the target, each other word a chunk's call
\* found, once, whatever its case; a call that failed loses its own only.
\* And it does not cost the article, which is lost now only if the analysis
\* itself repeated a word, although article_words refuses a repeated one and
\* the calls may find the same words ("vocab extraction failed, using primary
\* words only", usecase.go:485).
SearchAddsUp ==
  pc \in {"stored", "lost"} /\ chunks # <<>> =>
    LET new == New(primary, Answers) IN
    IF Storable(primary)
      THEN /\ pc = "stored"
           /\ words = primary \o (IF Target > 0 /\ Len(new) > Room THEN SubSeq(new, 1, Room) ELSE new)
      ELSE pc = "lost"
=============================================================================
