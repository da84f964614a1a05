------------------------------ MODULE TextCut -------------------------------
(***************************************************************************)
(* How a text is cut to a token budget (internal/articles/truncate.go and  *)
(* chunk.go).  A text is a sequence of runes, of which only the kind       *)
(* matters; a piece of it is an interval of positions.                     *)
(***************************************************************************)
EXTENDS Integers, Sequences

CONSTANT PerToken    \* runes per token, 4 in EstimateTokens

ASSUME CutAssumption == PerToken \in Nat \ {0}

Runes == {"letter", "blank", "newline"}
Texts == Seq(Runes)
Piece == [lo : Nat \ {0}, hi : Nat]

Whole(t) == [lo |-> 1, hi |-> Len(t)]
Size(p)  == IF p.lo <= p.hi THEN p.hi - p.lo + 1 ELSE 0
Nothing  == [lo |-> 1, hi |-> 0]

\* EstimateTokens.
Tokens(n) == (n + PerToken - 1) \div PerToken

Earliest(S) == CHOOSE i \in S : \A j \in S : i <= j
Latest(S)  == CHOOSE i \in S : \A j \in S : j <= i

Letters(t, p) == {i \in p.lo .. p.hi : t[i] = "letter"}

\* strings.TrimSpace.
Trim(t, p) ==
  LET L == Letters(t, p) IN
  IF L = {} THEN Nothing ELSE [lo |-> Earliest(L), hi |-> Latest(L)]

\* strings.Split on an empty line: separators are found from the left and do
\* not overlap, so one starts at every other newline of a run of them.
Newlines(t, p, i) == \* the newlines just before position i of the piece
  i - 1 - Latest({p.lo - 1} \cup {j \in p.lo .. i - 1 : t[j] # "newline"})
Separators(t, p) ==
  {i \in p.lo .. p.hi - 1 :
     t[i] = "newline" /\ t[i + 1] = "newline" /\ Newlines(t, p, i) % 2 = 0}
Ends(t, p) == {i - 1 : i \in Separators(t, p)} \cup {p.hi}

Prefix(p, e) == [lo |-> p.lo, hi |-> e]

\* Mutant: only the paragraph at hand is compared with the budget.
KeptEachAlone(t, p, max) ==
  LET Start(f) == Latest({p.lo} \cup {i + 2 : i \in {j \in Separators(t, p) : j < f}}) IN
  {e \in Ends(t, p) : \A f \in Ends(t, p) : f <= e => Tokens(f - Start(f) + 1) <= max}

\* The ends the loop over the paragraphs reaches: it adds one after the
\* other and breaks at the first with which the text is over the budget.
Kept(t, p, max) ==
  {e \in Ends(t, p) : \A f \in Ends(t, p) : f <= e => Tokens(Size(Prefix(p, f))) <= max}

\* Mutant: half a token is left unused.
OpeningShort(p, max) == Prefix(p, p.lo + max * PerToken - 2)

\* When not even one paragraph fits: as many runes as the budget pays for.
Opening(p, max) == Prefix(p, p.lo + max * PerToken - 1)

\* TruncateAtParagraph of the piece p of the text.
Cut(t, p, max) ==
  IF Tokens(Size(p)) <= max THEN p
  ELSE LET kept == Kept(t, p, max)
           body == IF kept = {} THEN Nothing ELSE Trim(t, Prefix(p, Latest(kept)))
       IN IF body = Nothing THEN Trim(t, Opening(p, max)) ELSE body

\* The next chunk of a text of which p is left.
Chunk(t, p, max) == Trim(t, Cut(t, p, max))

\* Mutant: the one after it starts a whole budget further on.
AfterBudget(t, p, max) ==
  LET c == Chunk(t, p, max) IN
  IF c = Nothing THEN Nothing ELSE Trim(t, [lo |-> c.lo + max * PerToken, hi |-> p.hi])

\* What is left of the text after that chunk.
After(t, p, max) ==
  LET c == Chunk(t, p, max) IN
  IF c = Nothing THEN Nothing ELSE Trim(t, [lo |-> c.hi + 1, hi |-> p.hi])
=============================================================================
