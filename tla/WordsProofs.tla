----------------------------- MODULE WordsProofs -----------------------------
(***************************************************************************)
(* Theorems about LongText, where the words come from, and Vocabulary,     *)
(* which lists them and asks about them.                                   *)
(***************************************************************************)
EXTENDS LongText, Vocabulary, FiniteSetTheorems, SequenceTheorems, WellFoundedInduction, TLAPS

-----------------------------------------------------------------------------
(* First and last positions.                                               *)

LEMMA EarliestIs ==
  ASSUME NEW S, S \subseteq Nat, S # {}
  PROVE  Earliest(S) \in S /\ \A j \in S : Earliest(S) <= j
<1>1. PICK x \in S : \A y \in S : ~ (<<y, x>> \in OpToRel(<, Nat))
  BY NatLessThanWellFounded, WFMin, Zenon
<1>2. \A y \in S : ~ (y < x)
  BY <1>1 DEF OpToRel
<1>3. \A y \in S : x <= y
  BY <1>2
<1> QED BY <1>3 DEF Earliest

LEMMA LatestIs ==
  ASSUME NEW n \in Nat, NEW S, S \subseteq 0 .. n, S # {}
  PROVE  Latest(S) \in S /\ \A j \in S : j <= Latest(S)
<1> DEFINE T == {n - i : i \in S}
<1>1. T \subseteq Nat /\ T # {}
  <2>1. \A i \in S : i \in 0 .. n
    OBVIOUS
  <2>2. \A i \in S : n - i \in Nat
    BY <2>1
  <2> QED BY <2>2
<1>2. Earliest(T) \in T /\ \A j \in T : Earliest(T) <= j
  <2> HIDE DEF T
  <2> QED BY <1>1, EarliestIs
<1>3. PICK i \in S : Earliest(T) = n - i
  BY <1>2
<1>4. \A j \in S : n - i <= n - j
  BY <1>2, <1>3
<1>5. \A j \in S : j <= i
  BY <1>4
<1> QED BY <1>5 DEF Latest

-----------------------------------------------------------------------------
(* Tokens.                                                                 *)

\* A text is within k tokens exactly when it has at most k * PerToken runes.
LEMMA TokensAtMost ==
  ASSUME NEW n \in Nat, NEW k \in Nat
  PROVE  /\ k * PerToken \in Nat
         /\ Tokens(n) <= k <=> n <= k * PerToken
         /\ Tokens(n) \in Nat
<1> DEFINE a == n + PerToken - 1
           q == a \div PerToken
<1>1. a \in Nat /\ q \in Nat
  BY CutAssumption, SMTT(30)
<1>2. a = PerToken * q + (a % PerToken) /\ a % PerToken \in 0 .. PerToken - 1
  BY <1>1, CutAssumption, SMTT(30)
<1>3. k * PerToken \in Nat
  BY CutAssumption
<1>4. ASSUME q <= k PROVE n <= k * PerToken
  <2>1. (k - q) * PerToken >= 0
    BY <1>1, <1>4, CutAssumption
  <2> QED BY <2>1, <1>1, <1>2, CutAssumption
<1>5. ASSUME q >= k + 1 PROVE ~ (n <= k * PerToken)
  <2>1. (q - k - 1) * PerToken >= 0
    BY <1>1, <1>5, CutAssumption
  <2> QED BY <2>1, <1>1, <1>2, CutAssumption
<1>6. Tokens(n) = q
  BY DEF Tokens
<1> HIDE DEF q
<1> QED BY <1>1, <1>3, <1>4, <1>5, <1>6

-----------------------------------------------------------------------------
(* Pieces.                                                                 *)

LEMMA SizeIs ==
  ASSUME NEW p \in Piece
  PROVE  /\ p.lo \in Nat /\ p.lo >= 1 /\ p.hi \in Nat
         /\ Size(p) \in Nat
         /\ Size(p) > 0 <=> p.lo <= p.hi
         /\ p.lo <= p.hi => Size(p) = p.hi - p.lo + 1
BY DEF Piece, Size

LEMMA NothingIs == Nothing \in Piece /\ Size(Nothing) = 0
BY DEF Nothing, Piece, Size

LEMMA PrefixIs ==
  ASSUME NEW p \in Piece, NEW e \in Nat
  PROVE  /\ Prefix(p, e) \in Piece
         /\ Prefix(p, e).lo = p.lo /\ Prefix(p, e).hi = e
BY DEF Prefix, Piece

\* Trimming leaves nothing, or what is between two letters with all letters
\* of the piece in it.
LEMMA TrimIs ==
  ASSUME NEW t, NEW p \in Piece
  PROVE  /\ Trim(t, p) \in Piece
         /\ Size(Trim(t, p)) <= Size(p)
         /\ Trim(t, p) = Nothing <=> NoLetter(t, p.lo, p.hi)
         /\ Trim(t, p) # Nothing =>
              /\ p.lo <= Trim(t, p).lo /\ Trim(t, p).lo <= Trim(t, p).hi /\ Trim(t, p).hi <= p.hi
              /\ Letter(t, Trim(t, p).lo) /\ Letter(t, Trim(t, p).hi)
              /\ NoLetter(t, p.lo, Trim(t, p).lo - 1) /\ NoLetter(t, Trim(t, p).hi + 1, p.hi)
<1> DEFINE L == Letters(t, p)
<1>0. /\ p.lo \in Nat /\ p.lo >= 1 /\ p.hi \in Nat
      /\ \A i \in L : i \in p.lo .. p.hi /\ Letter(t, i)
      /\ \A i \in p.lo .. p.hi : Letter(t, i) => i \in L
  BY SizeIs DEF Letters, Letter
<1>1. CASE L = {}
  <2>1. NoLetter(t, p.lo, p.hi)
    BY <1>0, <1>1 DEF NoLetter
  <2>2. Trim(t, p) = Nothing
    BY <1>1 DEF Trim
  <2> QED BY <2>1, <2>2, NothingIs, SizeIs
<1>2. CASE L # {}
  <2> DEFINE q == [lo |-> Earliest(L), hi |-> Latest(L)]
  <2>1. L \subseteq Nat /\ L \subseteq 0 .. p.hi
    BY <1>0
  <2>2. Earliest(L) \in L /\ \A j \in L : Earliest(L) <= j
    <3> HIDE DEF L
    <3> QED BY <1>2, <2>1, EarliestIs
  <2>3. Latest(L) \in L /\ \A j \in L : j <= Latest(L)
    <3> HIDE DEF L
    <3> QED BY <1>0, <1>2, <2>1, LatestIs
  <2>4. Trim(t, p) = q
    BY <1>2 DEF Trim
  <2>5. q.lo = Earliest(L) /\ q.hi = Latest(L) /\ q.lo \in L /\ q.hi \in L
    BY <2>2, <2>3
  <2> HIDE DEF L
  <2>6. /\ q.lo \in Nat /\ q.hi \in Nat /\ p.lo <= q.lo /\ q.lo <= q.hi /\ q.hi <= p.hi
        /\ Letter(t, q.lo) /\ Letter(t, q.hi)
    BY <1>0, <2>2, <2>3
  <2>7. NoLetter(t, p.lo, q.lo - 1)
    BY <1>0, <2>2, <2>6 DEF NoLetter
  <2>8. NoLetter(t, q.hi + 1, p.hi)
    BY <1>0, <2>3, <2>6 DEF NoLetter
  <2>9. q \in Piece
    BY <1>0, <2>6 DEF Piece
  <2>10. ~ NoLetter(t, p.lo, p.hi)
    BY <1>0, <2>5 DEF NoLetter
  <2> HIDE DEF q
  <2>11. q # Nothing /\ Size(q) <= Size(p)
    BY <1>0, <2>6, <2>9 DEF Nothing, Size
  <2> QED BY <2>4, <2>6, <2>7, <2>8, <2>9, <2>10, <2>11
<1> QED BY <1>1, <1>2

-----------------------------------------------------------------------------
(* Cuts.                                                                   *)

LEMMA EndsIn ==
  ASSUME NEW t, NEW p \in Piece, NEW e \in Ends(t, p)
  PROVE  /\ e \in 0 .. p.hi
         /\ Letter(t, p.lo) /\ p.lo <= p.hi => e >= p.lo
<1>0. p.lo \in Nat /\ p.lo >= 1 /\ p.hi \in Nat
  BY SizeIs
<1>1. CASE e = p.hi
  BY <1>0, <1>1
<1>2. ASSUME NEW i \in Separators(t, p), e = i - 1
      PROVE  /\ e \in 0 .. p.hi
             /\ Letter(t, p.lo) /\ p.lo <= p.hi => e >= p.lo
  <2>1. i \in p.lo .. p.hi - 1 /\ t[i] = "newline"
    BY DEF Separators
  <2>2. Letter(t, p.lo) => i # p.lo
    BY <2>1 DEF Letter
  <2> QED BY <1>0, <1>2, <2>1, <2>2
<1> QED BY <1>1, <1>2 DEF Ends

\* A cut keeps to its budget, and takes the piece's first letter when the
\* piece starts with it.
LEMMA CutIs ==
  ASSUME NEW t, NEW p \in Piece, NEW max \in Nat \ {0}
  PROVE  /\ Cut(t, p, max) \in Piece
         /\ Tokens(Size(Cut(t, p, max))) <= max
         /\ Letter(t, p.lo) /\ p.lo <= p.hi =>
              /\ Cut(t, p, max).lo = p.lo
              /\ p.lo <= Cut(t, p, max).hi /\ Cut(t, p, max).hi <= p.hi
<1> DEFINE kept == Kept(t, p, max)
           e    == Latest(kept)
           body == IF kept = {} THEN Nothing ELSE Trim(t, Prefix(p, e))
           Goal(c) == /\ c \in Piece
                      /\ Size(c) <= max * PerToken
                      /\ Letter(t, p.lo) /\ p.lo <= p.hi =>
                           c.lo = p.lo /\ p.lo <= c.hi /\ c.hi <= p.hi
<1>0. /\ p.lo \in Nat /\ p.lo >= 1 /\ p.hi \in Nat /\ Size(p) \in Nat
      /\ max * PerToken \in Nat
  BY SizeIs, TokensAtMost, NothingIs
<1>1. ASSUME NEW q \in Piece, q.lo = p.lo, q.hi <= p.hi, p.lo <= p.hi => p.lo <= q.hi,
             Size(q) <= max * PerToken
      PROVE  Goal(Trim(t, q)) /\ (Letter(t, p.lo) /\ p.lo <= p.hi => Trim(t, q) # Nothing)
  <2> DEFINE c == Trim(t, q)
  <2>1. c \in Piece /\ Size(c) <= Size(q) /\ Size(q) \in Nat /\ Size(c) \in Nat
    BY TrimIs, SizeIs
  <2>2. ASSUME Letter(t, p.lo), p.lo <= p.hi
        PROVE  c # Nothing /\ c.lo = p.lo /\ p.lo <= c.hi /\ c.hi <= p.hi
    <3>1. q.hi \in Nat /\ c.lo \in Nat /\ c.hi \in Nat
      BY <2>1, SizeIs
    <3>2. ~ NoLetter(t, q.lo, q.hi)
      BY <1>0, <1>1, <2>2, <3>1 DEF NoLetter
    <3>3. /\ c # Nothing /\ q.lo <= c.lo /\ c.lo <= c.hi /\ c.hi <= q.hi
          /\ NoLetter(t, q.lo, c.lo - 1)
      BY <3>2, TrimIs
    <3>4. c.lo = p.lo
      BY <1>0, <1>1, <2>2, <3>1, <3>3 DEF NoLetter
    <3> QED BY <1>0, <1>1, <3>1, <3>3, <3>4
  <2>3. c = Trim(t, q)
    OBVIOUS
  <2> HIDE DEF c
  <2>4. Size(c) <= max * PerToken
    BY <1>0, <1>1, <2>1
  <2> QED BY <2>1, <2>2, <2>3, <2>4
<1>2. ASSUME Tokens(Size(p)) <= max PROVE Goal(Cut(t, p, max))
  <2>1. Size(p) <= max * PerToken
    BY <1>0, <1>2, TokensAtMost
  <2>2. Cut(t, p, max) = p
    BY <1>2 DEF Cut
  <2> QED BY <1>0, <1>2, <2>1, <2>2
<1>3. ASSUME ~ (Tokens(Size(p)) <= max) PROVE Goal(Cut(t, p, max))
  <2>1. Size(p) > max * PerToken
    BY <1>0, <1>3, TokensAtMost
  <2>2. Cut(t, p, max) = IF body = Nothing THEN Trim(t, Opening(p, max)) ELSE body
    BY <1>3 DEF Cut
  <2>3. CASE body = Nothing
    <3> DEFINE o == Opening(p, max)
               x == p.lo + max * PerToken - 1
    <3>1. x \in Nat /\ max * PerToken >= 1
      BY <1>0, CutAssumption
    <3>2. o \in Piece /\ o.lo = p.lo /\ o.hi = x
      BY <3>1, PrefixIs DEF Opening
    <3> HIDE DEF x, o
    <3>3. x = p.lo + max * PerToken - 1
      BY DEF x
    <3>4. Size(o) = max * PerToken
      BY <1>0, <3>1, <3>2, <3>3, SizeIs
    <3>5. p.lo <= x /\ x <= p.hi
      BY <1>0, <2>1, <3>1, <3>3, SizeIs
    <3>6. Goal(Trim(t, o))
      BY <1>0, <1>1, <3>2, <3>4, <3>5
    <3>7. Cut(t, p, max) = Trim(t, o)
      BY <2>2, <2>3 DEF o
    <3> QED BY <3>6, <3>7
  <2>4. CASE body # Nothing
    <3>1. kept # {} /\ body = Trim(t, Prefix(p, e))
      BY <2>4
    <3>2. \A x \in kept : x \in Ends(t, p) /\ x \in 0 .. p.hi
      BY EndsIn DEF Kept
    <3>3. e \in kept
      <4> HIDE DEF kept
      <4> QED BY <1>0, <3>1, <3>2, LatestIs
    <3>4. e \in Ends(t, p) /\ e \in 0 .. p.hi /\ Tokens(Size(Prefix(p, e))) <= max
      BY <3>2, <3>3 DEF Kept
    <3> HIDE DEF e
    <3>5. Prefix(p, e) \in Piece /\ Prefix(p, e).lo = p.lo /\ Prefix(p, e).hi = e
      BY <3>4, PrefixIs
    <3> DEFINE o == Prefix(p, e)
    <3>6. Size(o) <= max * PerToken
      <4>1. Size(o) \in Nat
        BY <3>5, SizeIs
      <4> QED BY <3>4, <4>1, TokensAtMost
    <3>7. Cut(t, p, max) = Trim(t, o)
      BY <2>2, <2>4, <3>1 DEF e
    <3>8. Letter(t, p.lo) /\ p.lo <= p.hi => p.lo <= e
      BY <3>4, EndsIn
    <3> HIDE DEF o
    <3>9. Goal(Trim(t, o))
      <4>1. CASE Letter(t, p.lo) /\ p.lo <= p.hi
        BY <1>0, <1>1, <3>4, <3>5, <3>6, <3>8, <4>1 DEF o
      <4>2. CASE ~ (Letter(t, p.lo) /\ p.lo <= p.hi)
        <5>1. o \in Piece /\ Size(o) \in Nat
          BY <3>5, SizeIs DEF o
        <5>2. Trim(t, o) \in Piece /\ Size(Trim(t, o)) <= Size(o)
          BY <5>1, TrimIs
        <5>3. Size(Trim(t, o)) \in Nat
          BY <5>2, SizeIs
        <5> QED BY <1>0, <3>6, <4>2, <5>1, <5>2, <5>3
      <4> QED BY <4>1, <4>2
    <3> QED BY <3>7, <3>9
  <2> QED BY <2>3, <2>4
<1>4. Goal(Cut(t, p, max))
  BY <1>2, <1>3
<1>5. Size(Cut(t, p, max)) \in Nat
  BY <1>4, SizeIs
<1> QED BY <1>4, <1>5, TokensAtMost

-----------------------------------------------------------------------------
(* Where a cut falls.                                                      *)

\* What may be left of a text: nothing, or all of it from a letter on.
Left(t, p) ==
  p = Nothing \/ (p.lo <= p.hi /\ p.hi = Len(t) /\ Letter(t, p.lo) /\ Letter(t, Len(t)))

\* The paragraphs that end within the budget of a piece that starts at lo.
Fits(t, lo, limit) == {j \in lo .. limit : j <= Len(t) /\ ParagraphEnds(t, j)}

\* CutAtLatestBreak of one piece.
AtBreak(t, c, max) ==
  LET limit == c.lo + max * PerToken - 1
      fits  == Fits(t, c.lo, limit)
      last  == Latest(fits)
  IN IF fits = {} THEN c.hi <= limit /\ NoLetter(t, c.hi + 1, limit)
     ELSE c.hi <= last /\ NoLetter(t, c.hi + 1, last)

\* A paragraph that ends before the text does is followed by a separator.
LEMMA FitsEnd ==
  ASSUME NEW t \in Texts, NEW p \in Piece, Left(t, p), p # Nothing,
         NEW j \in Nat, p.lo <= j, j < p.hi, ParagraphEnds(t, j)
  PROVE  j \in Ends(t, p)
<1>1. /\ p.lo \in Nat /\ p.lo >= 1 /\ p.hi \in Nat /\ p.hi = Len(t)
  BY SizeIs DEF Left
<1>2. /\ t[j] # "newline" /\ j + 2 <= p.hi
      /\ t[j + 1] = "newline" /\ t[j + 2] = "newline"
  BY <1>1 DEF ParagraphEnds
<1> DEFINE i == j + 1
           S == {p.lo - 1} \cup {k \in p.lo .. i - 1 : t[k] # "newline"}
<1>3. S \subseteq 0 .. j /\ j \in S
  BY <1>1, <1>2
<1>4. Latest(S) = j
  <2> HIDE DEF S
  <2> DEFINE x == Latest(S)
  <2>1. x \in S /\ j <= x
    BY <1>3, LatestIs
  <2>2. x \in 0 .. j
    BY <1>3, <2>1
  <2> HIDE DEF x
  <2>3. x = j
    BY <2>1, <2>2
  <2> QED BY <2>3 DEF x
<1>5. Newlines(t, p, i) = 0
  <2>1. i - 1 - Latest(S) = 0
    BY <1>4
  <2> QED BY <2>1 DEF Newlines
<1>6. i \in p.lo .. p.hi - 1 /\ t[i] = "newline" /\ t[i + 1] = "newline"
  BY <1>1, <1>2
<1>7. i \in Separators(t, p)
  BY <1>5, <1>6 DEF Separators
<1>8. j = i - 1
  OBVIOUS
<1> QED BY <1>7, <1>8 DEF Ends

\* Between the end of a paragraph and a separator after it is no letter.
LEMMA EndFits ==
  ASSUME NEW t \in Texts, NEW p \in Piece, Left(t, p), p # Nothing,
         NEW e \in Ends(t, p), e < p.hi
  PROVE  \E m \in p.lo .. e : ParagraphEnds(t, m) /\ NoLetter(t, m + 1, e)
<1>1. /\ p.lo \in Nat /\ p.lo >= 1 /\ p.hi \in Nat /\ p.hi = Len(t)
      /\ p.lo <= p.hi /\ Letter(t, p.lo)
  BY SizeIs DEF Left
<1>2. PICK i \in Separators(t, p) : e = i - 1
  BY <1>1 DEF Ends
<1>3. i \in p.lo .. p.hi - 1 /\ t[i] = "newline" /\ t[i + 1] = "newline"
  BY DEF Separators
<1>4. e \in p.lo .. p.hi - 2
  BY <1>1, <1>2, <1>3, EndsIn
<1> DEFINE S == {k \in p.lo .. e : t[k] # "newline"}
<1>5. S \subseteq 0 .. e /\ p.lo \in S
  BY <1>1, <1>4 DEF Letter
<1> DEFINE m == Latest(S)
<1>6. m \in S /\ \A k \in S : k <= m
  <2> HIDE DEF S
  <2>1. e \in Nat /\ S # {}
    BY <1>1, <1>4, <1>5
  <2> QED BY <1>5, <2>1, LatestIs
<1>7. m \in p.lo .. e /\ t[m] # "newline"
  BY <1>6
<1> HIDE DEF m
<1>8. \A k \in m + 1 .. e : t[k] = "newline"
  BY <1>1, <1>4, <1>6, <1>7
<1>9. t[m + 1] = "newline" /\ t[m + 2] = "newline" /\ m + 2 <= Len(t)
  <2>1. CASE m = e
    BY <1>1, <1>2, <1>3, <1>4, <2>1
  <2>2. CASE m = e - 1
    BY <1>1, <1>2, <1>3, <1>4, <1>7, <1>8, <2>2
  <2>3. CASE m < e - 1
    BY <1>1, <1>4, <1>7, <1>8, <2>3
  <2> QED BY <1>1, <1>4, <1>7, <2>1, <2>2, <2>3
<1>10. NoLetter(t, m + 1, e)
  BY <1>8 DEF NoLetter, Letter
<1> QED BY <1>7, <1>9, <1>10 DEF ParagraphEnds

\* The loop over the paragraphs stops at the budget and not before.
LEMMA KeptAre ==
  ASSUME NEW t, NEW p \in Piece, Letter(t, p.lo), p.lo <= p.hi, NEW max \in Nat \ {0}
  PROVE  Kept(t, p, max) = {e \in Ends(t, p) : e <= p.lo + max * PerToken - 1}
<1>1. p.lo \in Nat /\ max * PerToken \in Nat
  BY SizeIs, TokensAtMost
<1> DEFINE limit == p.lo + max * PerToken - 1
<1>2. \A f \in Ends(t, p) : f \in Nat /\ p.lo <= f
  BY EndsIn
<1>3. ASSUME NEW f \in Ends(t, p)
      PROVE  Tokens(Size(Prefix(p, f))) <= max <=> f <= limit
  <2>1. Prefix(p, f) \in Piece /\ Prefix(p, f).lo = p.lo /\ Prefix(p, f).hi = f
    BY <1>2, PrefixIs
  <2>2. Size(Prefix(p, f)) \in Nat /\ Size(Prefix(p, f)) = f - p.lo + 1
    BY <1>2, <2>1, SizeIs
  <2>3. Tokens(Size(Prefix(p, f))) <= max <=> f - p.lo + 1 <= max * PerToken
    BY <2>2, TokensAtMost
  <2>4. f \in Int /\ p.lo \in Int /\ max * PerToken \in Int
    BY <1>1, <1>2
  <2> QED BY <2>3, <2>4
<1>4. limit \in Int
  BY <1>1
<1> HIDE DEF limit
<1>5. \A e \in Ends(t, p) : e <= limit <=> \A f \in Ends(t, p) : f <= e => f <= limit
  BY <1>2, <1>4
<1> QED BY <1>3, <1>5 DEF Kept, limit

\* A piece between two letters is trimmed already.
LEMMA Trimmed ==
  ASSUME NEW t, NEW p \in Piece, p.lo <= p.hi, Letter(t, p.lo), Letter(t, p.hi)
  PROVE  Trim(t, p) = p
<1> DEFINE c == Trim(t, p)
<1>1. p.lo \in Nat /\ p.hi \in Nat
  BY SizeIs
<1>2. ~ NoLetter(t, p.lo, p.hi)
  BY <1>1 DEF NoLetter
<1>3. /\ c \in Piece /\ p.lo <= c.lo /\ c.lo <= c.hi /\ c.hi <= p.hi
      /\ NoLetter(t, p.lo, c.lo - 1) /\ NoLetter(t, c.hi + 1, p.hi)
  BY <1>2, TrimIs
<1> HIDE DEF c
<1>4. c.lo \in Nat /\ c.hi \in Nat
  BY <1>3, SizeIs
<1>5. c.lo = p.lo /\ c.hi = p.hi
  BY <1>1, <1>3, <1>4 DEF NoLetter
<1>6. c = p
  BY <1>3, <1>5 DEF Piece
<1> QED BY <1>6 DEF c

\* A cut of what is left of a text ends with the last paragraph that fits,
\* or, when none does, with the budget.
LEMMA CutBreaks ==
  ASSUME NEW t \in Texts, NEW p \in Piece, Left(t, p), p # Nothing, NEW max \in Nat \ {0}
  PROVE  AtBreak(t, Cut(t, p, max), max) /\ Letter(t, Cut(t, p, max).hi)
<1> DEFINE limit == p.lo + max * PerToken - 1
           fits  == Fits(t, p.lo, limit)
           last  == Latest(fits)
           kept  == Kept(t, p, max)
           e     == Latest(kept)
           c     == Cut(t, p, max)
<1>1. /\ p.lo \in Nat /\ p.lo >= 1 /\ p.hi \in Nat /\ p.hi = Len(t) /\ Size(p) \in Nat
      /\ p.lo <= p.hi /\ Letter(t, p.lo) /\ Letter(t, p.hi)
      /\ Size(p) = p.hi - p.lo + 1
  BY SizeIs DEF Left
<1>2. limit \in Nat /\ p.lo <= limit /\ max * PerToken \in Nat
  <2>1. max * PerToken \in Nat /\ max * PerToken >= 1
    BY CutAssumption, TokensAtMost
  <2> QED BY <1>1, <2>1
<1>3. c.lo = p.lo
  BY <1>1, CutIs
<1>4. Tokens(Size(p)) <= max <=> p.hi <= limit
  <2>1. Tokens(Size(p)) <= max <=> p.hi - p.lo + 1 <= max * PerToken
    BY <1>1, <1>2, TokensAtMost
  <2>2. p.hi \in Int /\ p.lo \in Int /\ max * PerToken \in Int
    BY <1>1, <1>2
  <2> QED BY <2>1, <2>2
<1>5. SUFFICES /\ Letter(t, c.hi)
               /\ IF fits = {} THEN c.hi <= limit /\ NoLetter(t, c.hi + 1, limit)
                  ELSE c.hi <= last /\ NoLetter(t, c.hi + 1, last)
  BY <1>3 DEF AtBreak
<1>6. kept = {f \in Ends(t, p) : f <= limit}
  BY <1>1, KeptAre
<1> HIDE DEF limit
<1>7. \A j \in fits : j \in p.lo .. limit /\ j <= p.hi /\ ParagraphEnds(t, j)
  BY <1>1 DEF Fits
<1>8. fits # {} => last \in fits /\ \A j \in fits : j <= last
  <2> HIDE DEF fits
  <2>1. fits \subseteq 0 .. limit
    BY <1>1, <1>2, <1>7
  <2> QED BY <1>2, <2>1, LatestIs
<1>9. CASE p.hi <= limit
  <2>1. c = p
    BY <1>4, <1>9 DEF Cut
  <2>2. p.hi \in fits
    BY <1>1, <1>9 DEF Fits, ParagraphEnds, Letter
  <2>3. last = p.hi
    <3> HIDE DEF fits
    <3>1. last \in Nat
      BY <1>1, <1>2, <1>7, <1>8, <2>2
    <3> QED BY <1>1, <1>7, <1>8, <2>2, <3>1
  <2> HIDE DEF last, fits
  <2> QED BY <1>1, <2>1, <2>2, <2>3 DEF NoLetter
<1>10. CASE ~ (p.hi <= limit)
  <2>1. c = IF kept # {} /\ Trim(t, Prefix(p, e)) # Nothing
              THEN Trim(t, Prefix(p, e)) ELSE Trim(t, Opening(p, max))
    BY <1>4, <1>10 DEF Cut
  <2>2. \A j \in fits : j \in kept
    <3> SUFFICES ASSUME NEW j \in fits PROVE j \in kept
      OBVIOUS
    <3>1. j \in Nat /\ p.lo <= j /\ j < p.hi /\ j <= limit /\ ParagraphEnds(t, j)
      BY <1>1, <1>2, <1>7, <1>10
    <3>2. j \in Ends(t, p)
      BY <3>1, FitsEnd
    <3> QED BY <1>6, <3>1, <3>2
  <2>3. \A f \in kept : \E m \in fits : m <= f /\ NoLetter(t, m + 1, f)
    <3> SUFFICES ASSUME NEW f \in kept PROVE \E m \in fits : m <= f /\ NoLetter(t, m + 1, f)
      OBVIOUS
    <3>1. f \in Ends(t, p) /\ f <= limit
      BY <1>6
    <3>2. f \in Nat /\ f < p.hi
      BY <1>1, <1>2, <1>10, <3>1, EndsIn
    <3>3. PICK m \in p.lo .. f : ParagraphEnds(t, m) /\ NoLetter(t, m + 1, f)
      BY <3>1, <3>2, EndFits
    <3>4. m \in p.lo .. limit /\ m <= Len(t) /\ m <= f
      BY <1>1, <1>2, <3>1, <3>2
    <3>5. m \in fits
      BY <3>3, <3>4 DEF Fits
    <3> QED BY <3>3, <3>4, <3>5
  <2>4. \A f \in kept : f \in 0 .. p.hi /\ p.lo <= f
    BY <1>1, <1>6, EndsIn
  <2> HIDE DEF kept, fits, c
  <2>5. CASE kept = {}
    <3> DEFINE o == Opening(p, max)
    <3>1. o \in Piece /\ o.lo = p.lo /\ o.hi = limit
      BY <1>1, <1>2, PrefixIs DEF Opening, limit
    <3>2. c = Trim(t, o)
      BY <2>1, <2>5
    <3> HIDE DEF o
    <3>3. ~ NoLetter(t, o.lo, o.hi)
      BY <1>1, <1>2, <3>1 DEF NoLetter
    <3>4. c.hi <= o.hi /\ Letter(t, c.hi) /\ NoLetter(t, c.hi + 1, o.hi)
      BY <3>1, <3>2, <3>3, TrimIs
    <3>5. fits = {}
      BY <2>2, <2>5
    <3> QED BY <3>1, <3>4, <3>5
  <2>6. CASE kept # {}
    <3>1. e \in kept /\ \A f \in kept : f <= e
      BY <1>1, <2>4, <2>6, LatestIs
    <3> HIDE DEF e
    <3>2. e \in Nat /\ p.lo <= e
      BY <1>1, <2>4, <3>1
    <3> DEFINE o == Prefix(p, e)
    <3>3. o \in Piece /\ o.lo = p.lo /\ o.hi = e
      BY <3>2, PrefixIs
    <3> HIDE DEF o
    <3>4. ~ NoLetter(t, o.lo, o.hi)
      BY <1>1, <3>2, <3>3 DEF NoLetter
    <3>5. Trim(t, o) # Nothing
      BY <3>3, <3>4, TrimIs
    <3>6. c = Trim(t, o)
      BY <2>1, <2>6, <3>5 DEF o
    <3>7. /\ c \in Piece /\ c.lo \in Nat /\ c.hi \in Nat
      BY <3>3, <3>6, TrimIs, SizeIs
    <3>8. c.hi <= e /\ Letter(t, c.hi) /\ NoLetter(t, c.hi + 1, e)
      BY <3>3, <3>4, <3>6, TrimIs
    <3>9. PICK m \in fits : m <= e /\ NoLetter(t, m + 1, e)
      BY <2>3, <3>1
    <3>10. last \in fits /\ m <= last
      BY <1>8
    <3> HIDE DEF last
    <3>11. /\ m \in Nat /\ last \in Nat /\ last <= e
      BY <1>1, <1>2, <1>7, <2>2, <3>1, <3>9, <3>10
    <3>12. c.hi <= last
      BY <3>2, <3>7, <3>8, <3>9, <3>10, <3>11 DEF NoLetter
    <3>13. NoLetter(t, c.hi + 1, last)
      BY <3>2, <3>7, <3>8, <3>11 DEF NoLetter
    <3> QED BY <3>8, <3>10, <3>12, <3>13
  <2> QED BY <2>5, <2>6
<1> QED BY <1>9, <1>10

\* A chunk is such a cut.
LEMMA ChunkBreaks ==
  ASSUME NEW t \in Texts, NEW p \in Piece, Left(t, p), p # Nothing, NEW max \in Nat \ {0}
  PROVE  AtBreak(t, Chunk(t, p, max), max)
<1> DEFINE c == Cut(t, p, max)
<1>1. p.lo <= p.hi /\ Letter(t, p.lo)
  BY DEF Left
<1>2. c \in Piece /\ c.lo = p.lo /\ p.lo <= c.hi
  BY <1>1, CutIs
<1>3. AtBreak(t, c, max) /\ Letter(t, c.hi)
  BY CutBreaks
<1> HIDE DEF c
<1>4. Trim(t, c) = c
  BY <1>1, <1>2, <1>3, Trimmed
<1> QED BY <1>3, <1>4 DEF Chunk, c

-----------------------------------------------------------------------------
(* Chunks.                                                                 *)

LEMMA ChunkIs ==
  ASSUME NEW t, NEW p \in Piece, NEW max \in Nat \ {0}
  PROVE  /\ Chunk(t, p, max) \in Piece
         /\ Tokens(Size(Chunk(t, p, max))) <= max
         /\ Chunk(t, p, max) # Nothing => Size(Chunk(t, p, max)) > 0
         /\ Letter(t, p.lo) /\ p.lo <= p.hi =>
              /\ Chunk(t, p, max) # Nothing /\ Chunk(t, p, max).lo = p.lo
              /\ p.lo <= Chunk(t, p, max).hi /\ Chunk(t, p, max).hi <= p.hi
<1> DEFINE q == Cut(t, p, max)
           c == Trim(t, q)
<1>1. /\ q \in Piece /\ Tokens(Size(q)) <= max
      /\ Letter(t, p.lo) /\ p.lo <= p.hi => q.lo = p.lo /\ p.lo <= q.hi /\ q.hi <= p.hi
  BY CutIs
<1>2. Chunk(t, p, max) = c
  BY DEF Chunk
<1> HIDE DEF q
<1>3. c \in Piece /\ Size(c) <= Size(q)
  BY <1>1, TrimIs
<1>4. Size(c) \in Nat /\ Size(q) \in Nat /\ max \in Nat
  BY <1>1, <1>3, SizeIs
<1>5. Size(q) <= max * PerToken /\ max * PerToken \in Nat
  BY <1>1, <1>4, TokensAtMost
<1>6. Tokens(Size(c)) <= max
  <2>1. Size(c) <= max * PerToken
    BY <1>3, <1>4, <1>5
  <2> QED BY <1>4, <2>1, TokensAtMost
<1>7. c # Nothing => Size(c) > 0
  BY <1>1, <1>3, TrimIs, SizeIs
<1>8. ASSUME Letter(t, p.lo), p.lo <= p.hi
      PROVE  c # Nothing /\ c.lo = p.lo /\ p.lo <= c.hi /\ c.hi <= p.hi
  <2>1. p.lo \in Nat /\ p.hi \in Nat /\ q.hi \in Nat /\ c.lo \in Nat /\ c.hi \in Nat
    BY <1>1, <1>3, SizeIs
  <2>2. q.lo = p.lo /\ p.lo <= q.hi /\ q.hi <= p.hi
    BY <1>1, <1>8
  <2>3. ~ NoLetter(t, q.lo, q.hi)
    BY <1>8, <2>1, <2>2 DEF NoLetter
  <2>4. /\ c # Nothing /\ q.lo <= c.lo /\ c.lo <= c.hi /\ c.hi <= q.hi
        /\ NoLetter(t, q.lo, c.lo - 1)
    BY <1>1, <2>3, TrimIs
  <2>5. c.lo = p.lo
    BY <1>8, <2>1, <2>2, <2>4 DEF NoLetter
  <2> QED BY <2>1, <2>2, <2>4, <2>5
<1> HIDE DEF c
<1> QED BY <1>2, <1>3, <1>6, <1>7, <1>8

\* The next chunk begins where what is left does, and no letter is between
\* it and what is left then.
LEMMA AfterIs ==
  ASSUME NEW t \in Texts, NEW p \in Piece, Left(t, p), NEW max \in Nat \ {0},
         Chunk(t, p, max) # Nothing
  PROVE  /\ After(t, p, max) \in Piece /\ Left(t, After(t, p, max))
         /\ p # Nothing /\ Chunk(t, p, max).lo = p.lo
         /\ After(t, p, max) # Nothing =>
              /\ Chunk(t, p, max).hi < After(t, p, max).lo
              /\ NoLetter(t, Chunk(t, p, max).hi + 1, After(t, p, max).lo - 1)
         /\ After(t, p, max) = Nothing => Chunk(t, p, max).hi = Len(t)
<1> DEFINE c == Chunk(t, p, max)
           r == [lo |-> c.hi + 1, hi |-> p.hi]
           a == Trim(t, r)
<1>1. /\ p.lo \in Nat /\ p.lo >= 1 /\ p.hi \in Nat /\ Size(p) \in Nat
      /\ Size(p) > 0 <=> p.lo <= p.hi
  BY SizeIs
<1>2. p # Nothing
  <2> SUFFICES ASSUME p = Nothing PROVE FALSE
    OBVIOUS
  <2>1. Size(p) = 0
    BY NothingIs
  <2>2. Tokens(Size(p)) <= max
    <3>1. 0 <= max * PerToken /\ max \in Nat
      BY TokensAtMost
    <3> QED BY <2>1, <3>1, TokensAtMost
  <2>3. Cut(t, p, max) = p
    BY <2>2 DEF Cut
  <2>4. NoLetter(t, p.lo, p.hi)
    BY DEF Nothing, NoLetter
  <2>5. Trim(t, p) = Nothing
    BY <2>4, TrimIs
  <2> QED BY <2>3, <2>5 DEF Chunk
<1>3. p.lo <= p.hi /\ p.hi = Len(t) /\ Letter(t, p.lo) /\ Letter(t, Len(t))
  BY <1>2 DEF Left
<1>4. c \in Piece /\ c.lo = p.lo /\ p.lo <= c.hi /\ c.hi <= p.hi
  BY <1>3, ChunkIs
<1>5. After(t, p, max) = a
  BY DEF After
<1> HIDE DEF c
<1>6. r \in Piece /\ r.lo = c.hi + 1 /\ r.hi = p.hi /\ c.hi \in Nat
  BY <1>1, <1>4 DEF Piece
<1> HIDE DEF r
<1>7. /\ a \in Piece
      /\ a = Nothing <=> NoLetter(t, r.lo, r.hi)
      /\ a # Nothing =>
           /\ r.lo <= a.lo /\ a.lo <= a.hi /\ a.hi <= r.hi /\ Letter(t, a.lo)
           /\ NoLetter(t, r.lo, a.lo - 1) /\ NoLetter(t, a.hi + 1, r.hi)
  BY <1>6, TrimIs
<1> HIDE DEF a
<1>8. a.lo \in Nat /\ a.hi \in Nat
  BY <1>7, SizeIs
<1>9. CASE a = Nothing
  <2>1. c.hi = Len(t)
    BY <1>1, <1>3, <1>4, <1>6, <1>7, <1>9 DEF NoLetter
  <2>2. Left(t, a)
    BY <1>9 DEF Left
  <2> QED BY <1>2, <1>4, <1>5, <1>7, <1>9, <2>1, <2>2 DEF c
<1>10. CASE a # Nothing
  <2>1. a.hi = Len(t)
    BY <1>1, <1>3, <1>6, <1>7, <1>8, <1>10 DEF NoLetter
  <2>2. Left(t, a)
    BY <1>3, <1>7, <1>10, <2>1 DEF Left
  <2>3. c.hi < a.lo /\ NoLetter(t, c.hi + 1, a.lo - 1)
    BY <1>6, <1>7, <1>8, <1>10
  <2> QED BY <1>2, <1>4, <1>5, <1>7, <1>10, <2>2, <2>3 DEF c
<1> QED BY <1>9, <1>10

-----------------------------------------------------------------------------
(* The invariant.                                                          *)

\* A call of the LLM as NothingOverBudget and CutAtLatestBreak want it.
SoundCall(c) ==
  /\ Tokens(Size(c.piece)) <= c.budget
  /\ c.text # <<>> => Size(c.piece) > 0 /\ AtBreak(c.text, c.piece, c.budget)
SoundCalls ==
  {c \in [text : Texts, piece : Piece, budget : Nat, found : Seq(Entries)] : SoundCall(c)}

\* Where the chunks so far end.
Reached == IF chunks = <<>> THEN 0 ELSE chunks[Len(chunks)].hi

Chained ==
  /\ Len(chunks) <= MaxPieces
  /\ \A k \in 1 .. Len(chunks) :
       LET before == IF k = 1 THEN 0 ELSE chunks[k - 1].hi IN
       before < chunks[k].lo /\ NoLetter(text, before + 1, chunks[k].lo - 1)

\* What is left begins where the chunks end.
Abuts ==
  IF rest = Nothing THEN Len(chunks) > 0 /\ Reached = Len(text)
  ELSE Reached < rest.lo /\ NoLetter(text, Reached + 1, rest.lo - 1)

IInv ==
  /\ text \in LongTexts
  /\ rest \in Piece /\ Left(text, rest)
  /\ chunks \in Seq(Piece) /\ calls \in Seq(SoundCalls)
  /\ Chained /\ Abuts
  /\ pc = "stored" => AllAsked

\* A parked text begins and ends with a letter.
LEMMA LongTextIs ==
  ASSUME NEW t \in LongTexts
  PROVE  /\ t \in Texts /\ t # <<>> /\ Whole(t) \in Piece
         /\ Trim(t, Whole(t)) = Whole(t) /\ Whole(t) # Nothing
         /\ Left(t, Whole(t))
<1>1. t \in Texts /\ Tokens(Len(t)) > MaxTokens /\ Trim(t, Whole(t)) = Whole(t)
  BY LongTextAssumption
<1>2. Len(t) \in Nat /\ (t = <<>> => Len(t) = 0)
  BY <1>1 DEF Texts
<1>3. Len(t) > 0
  <2>1. MaxTokens * PerToken \in Nat /\ MaxTokens \in Nat
    BY TokensAtMost, LongTextAssumption
  <2>2. ~ (Len(t) <= MaxTokens * PerToken)
    BY <1>1, <1>2, <2>1, TokensAtMost
  <2> QED BY <1>2, <2>1, <2>2
<1>4. Whole(t) \in Piece /\ Whole(t).lo = 1 /\ Whole(t).hi = Len(t)
  BY <1>2 DEF Whole, Piece
<1>5. Whole(t) # Nothing
  BY <1>3, <1>4 DEF Nothing
<1>6. Letter(t, 1) /\ Letter(t, Len(t))
  BY <1>1, <1>4, <1>5, TrimIs
<1> QED BY <1>1, <1>2, <1>3, <1>4, <1>5, <1>6 DEF Left

\* The first call about a whole text: its beginning.
LEMMA WholeCall ==
  ASSUME NEW t \in Texts, Trim(t, Whole(t)) = Whole(t), NEW max \in Nat \ {0},
         NEW ws \in Seq(Entries)
  PROVE  Call(t, Cut(t, Whole(t), max), max, ws) \in SoundCalls
<1> DEFINE p == Whole(t)
           q == Cut(t, p, max)
<1>1. Len(t) \in Nat /\ (t # <<>> => Len(t) > 0)
  BY EmptySeq DEF Texts
<1>2. p \in Piece /\ p.lo = 1 /\ p.hi = Len(t)
  BY <1>1 DEF Whole, Piece
<1> HIDE DEF p
<1>3. /\ q \in Piece /\ Tokens(Size(q)) <= max
      /\ Letter(t, p.lo) /\ p.lo <= p.hi => q.lo = p.lo /\ p.lo <= q.hi
  BY <1>2, CutIs
<1> HIDE DEF q
<1>4. ASSUME t # <<>> PROVE Size(q) > 0 /\ AtBreak(t, q, max)
  <2>1. p # Nothing
    BY <1>1, <1>2, <1>4 DEF Nothing
  <2>2. Letter(t, p.lo) /\ Letter(t, p.hi)
    BY <1>2, <2>1, TrimIs DEF p
  <2>3. Left(t, p)
    BY <1>1, <1>2, <1>4, <2>2 DEF Left
  <2>4. AtBreak(t, q, max)
    BY <1>2, <2>1, <2>3, CutBreaks DEF q
  <2> QED BY <1>1, <1>2, <1>3, <1>4, <2>2, <2>4, SizeIs
<1>5. SoundCall(Call(t, q, max, ws))
  BY <1>3, <1>4 DEF SoundCall, Call
<1>6. Call(t, q, max, ws) \in [text : Texts, piece : Piece, budget : Nat, found : Seq(Entries)]
  BY <1>3 DEF Call
<1> QED BY <1>5, <1>6 DEF SoundCalls, q, p

LEMMA IInvInit == Init => IInv
<1> SUFFICES ASSUME Init PROVE IInv
  OBVIOUS
<1>1. text \in LongTexts /\ rest = Trim(text, Whole(text)) /\ chunks = <<>> /\ calls = <<>>
      /\ pc # "stored"
  BY DEF Init
<1>2. rest = Whole(text) /\ rest \in Piece /\ Left(text, rest) /\ rest # Nothing
  BY <1>1, LongTextIs
<1>3. rest.lo = 1
  BY <1>2 DEF Whole
<1>4. Len(chunks) = 0 /\ chunks \in Seq(Piece) /\ calls \in Seq(SoundCalls) /\ Reached = 0
  BY <1>1 DEF Reached
<1>5. Chained
  BY <1>4, LongTextAssumption DEF Chained
<1>6. Abuts
  BY <1>2, <1>3, <1>4 DEF Abuts, NoLetter
<1> QED BY <1>1, <1>2, <1>4, <1>5, <1>6 DEF IInv

\* An analysis adds a sound call to sound calls.
LEMMA AnalyzeKeeps ==
  ASSUME IInv, NEW t \in Texts, Trim(t, Whole(t)) = Whole(t),
         NEW before \in Seq(SoundCalls), Analyze(t, MaxTokens, before)
  PROVE  IInv'
<1> DEFINE c(ws) == Call(t, Cut(t, Whole(t), MaxTokens), MaxTokens, ws)
<1>1. \A ws \in Seq(Entries) : c(ws) \in SoundCalls
  BY WholeCall, LongTextAssumption
<1>2. <<>> \in Seq(Entries) /\ \A ws \in Replies : ws \in Seq(Entries)
  BY LongTextAssumption
<1>3. /\ text' = text /\ rest' = rest /\ chunks' = chunks /\ pc' # "stored"
      /\ \E ws \in Seq(Entries) : calls' = before \o <<c(ws)>>
  BY <1>2 DEF Analyze
<1>4. calls' \in Seq(SoundCalls)
  <2>1. PICK ws \in Seq(Entries) : calls' = before \o <<c(ws)>>
    BY <1>3
  <2>2. c(ws) \in SoundCalls
    BY <1>1
  <2> HIDE DEF c
  <2>3. <<c(ws)>> \in Seq(SoundCalls)
    BY <2>2
  <2> QED BY <2>1, <2>3, ConcatProperties
<1>5. (Chained /\ Abuts)'
  BY <1>3 DEF IInv, Chained, Abuts, Reached
<1> QED BY <1>3, <1>4, <1>5 DEF IInv

LEMMA TruncateKeeps == IInv /\ Truncate => IInv'
<1> SUFFICES ASSUME IInv, Truncate PROVE IInv'
  OBVIOUS
<1>1. text \in Texts /\ Trim(text, Whole(text)) = Whole(text)
  BY LongTextIs DEF IInv
<1>2. <<>> \in Seq(SoundCalls)
  OBVIOUS
<1> QED BY <1>1, <1>2, AnalyzeKeeps DEF Truncate

LEMMA SummarizeKeeps == IInv /\ Summarize => IInv'
<1> SUFFICES ASSUME IInv, Summarize PROVE IInv'
  OBVIOUS
<1> DEFINE asked == <<Call(text, Cut(text, Whole(text), SummaryTokens), SummaryTokens, <<>>)>>
<1>1. text \in Texts /\ Trim(text, Whole(text)) = Whole(text)
  BY LongTextIs DEF IInv
<1>2. asked \in Seq(SoundCalls)
  <2>1. Call(text, Cut(text, Whole(text), SummaryTokens), SummaryTokens, <<>>) \in SoundCalls
    BY <1>1, WholeCall, LongTextAssumption, EmptySeq
  <2> QED BY <2>1
<1> HIDE DEF asked
<1>3. ASSUME NEW s \in Summaries, Analyze(s, MaxTokens, asked) PROVE IInv'
  BY <1>2, <1>3, AnalyzeKeeps, LongTextAssumption
<1>4. ASSUME pc' = "lost", calls' = asked,
             UNCHANGED <<text, primary, rest, chunks, extra, failures, words>>
      PROVE  IInv'
  BY <1>2, <1>4 DEF IInv, Chained, Abuts, Reached
<1> QED BY <1>3, <1>4 DEF Summarize, asked

LEMMA ExtractVocabKeeps == IInv /\ ExtractVocab => IInv'
<1> SUFFICES ASSUME IInv, ExtractVocab PROVE IInv'
  OBVIOUS
<1> DEFINE c == Here
           n == Len(chunks)
<1>1. /\ text \in Texts /\ MaxTokens \in Nat \ {0} /\ MaxPieces \in Nat
      /\ rest \in Piece /\ Left(text, rest) /\ chunks \in Seq(Piece) /\ n \in Nat
  BY LongTextIs, LongTextAssumption DEF IInv
<1>2. n # MaxPieces /\ c # Nothing /\ pc' # "stored" /\ text' = text
  BY DEF ExtractVocab, AllAsked
<1>3. c = Chunk(text, rest, MaxTokens) /\ rest' = After(text, rest, MaxTokens)
      /\ chunks' = Append(chunks, c)
  BY DEF ExtractVocab, Here
<1> HIDE DEF c
<1>4. c \in Piece /\ Tokens(Size(c)) <= MaxTokens /\ Size(c) > 0
  BY <1>1, <1>2, <1>3, ChunkIs
<1>5. /\ rest' \in Piece /\ Left(text, rest') /\ rest # Nothing /\ c.lo = rest.lo
      /\ rest' # Nothing => c.hi < rest'.lo /\ NoLetter(text, c.hi + 1, rest'.lo - 1)
      /\ rest' = Nothing => c.hi = Len(text)
  BY <1>1, <1>2, <1>3, AfterIs
<1>6. /\ chunks' \in Seq(Piece) /\ Len(chunks') = n + 1 /\ chunks'[n + 1] = c
      /\ \A k \in 1 .. n : chunks'[k] = chunks[k]
  BY <1>1, <1>3, <1>4
<1>7. Reached' = c.hi
  <2>1. chunks' # <<>>
    BY <1>1, <1>6
  <2> QED BY <1>6, <2>1 DEF Reached
<1>8. Abuts'
  BY <1>1, <1>2, <1>5, <1>6, <1>7 DEF Abuts
<1>9. Chained'
  <2>1. Len(chunks') <= MaxPieces
    BY <1>1, <1>2, <1>6 DEF IInv, Chained
  <2>2. ASSUME NEW k \in 1 .. n
        PROVE  LET before == IF k = 1 THEN 0 ELSE chunks'[k - 1].hi IN
               before < chunks'[k].lo /\ NoLetter(text', before + 1, chunks'[k].lo - 1)
    <3>1. k # 1 => k - 1 \in 1 .. n
      BY <1>1
    <3> QED BY <1>2, <1>6, <2>2, <3>1 DEF IInv, Chained
  <2>3. Reached = IF n + 1 = 1 THEN 0 ELSE chunks'[n + 1 - 1].hi
    BY <1>1, <1>6, EmptySeq DEF Reached
  <2>4. Reached < c.lo /\ NoLetter(text, Reached + 1, c.lo - 1)
    BY <1>5 DEF IInv, Abuts
  <2> QED BY <1>1, <1>2, <1>6, <2>1, <2>2, <2>3, <2>4 DEF Chained
<1>10. calls' \in Seq(SoundCalls)
  <2>1. PICK ws \in Seq(Entries) : calls' = Append(calls, Call(text, c, MaxTokens, ws))
    <3>1. <<>> \in Seq(Entries) /\ \A ws \in Replies : ws \in Seq(Entries)
      BY LongTextAssumption
    <3> QED BY <3>1 DEF ExtractVocab, c
  <2>2. SoundCall(Call(text, c, MaxTokens, ws))
    <3>1. AtBreak(text, c, MaxTokens)
      BY <1>1, <1>3, <1>5, ChunkBreaks
    <3> QED BY <1>4, <3>1 DEF SoundCall, Call
  <2>3. Call(text, c, MaxTokens, ws)
          \in [text : Texts, piece : Piece, budget : Nat, found : Seq(Entries)]
    BY <1>1, <1>4 DEF Call
  <2>4. Call(text, c, MaxTokens, ws) \in SoundCalls
    BY <2>2, <2>3 DEF SoundCalls
  <2> QED BY <2>1, <2>4 DEF IInv
<1> QED BY <1>2, <1>5, <1>6, <1>8, <1>9, <1>10 DEF IInv

LEMMA StoreKeeps == IInv /\ Store => IInv'
<1> SUFFICES ASSUME IInv, Store PROVE IInv'
  OBVIOUS
<1>1. UNCHANGED <<text, rest, chunks, calls>> /\ AllAsked
  BY DEF Store
<1>2. AllAsked'
  BY <1>1 DEF AllAsked, Here
<1> QED BY <1>1, <1>2 DEF IInv, Chained, Abuts, Reached

LEMMA IInvNext == IInv /\ [Next]_vars => IInv'
<1> SUFFICES ASSUME IInv, [Next]_vars PROVE IInv'
  OBVIOUS
<1>1. CASE UNCHANGED vars
  BY <1>1 DEF vars, IInv, Chained, Abuts, Reached, AllAsked, Here
<1> QED
  BY <1>1, TruncateKeeps, SummarizeKeeps, ExtractVocabKeeps, StoreKeeps DEF Next

-----------------------------------------------------------------------------
(* The theorems.                                                           *)

\* Whatever the text, its paragraphs and the token size: no call of the LLM
\* is over its budget, and none is about nothing.
THEOREM BudgetsKept == Spec => []NothingOverBudget
<1>1. IInv => NothingOverBudget
  <2> SUFFICES ASSUME IInv, NEW i \in DOMAIN calls PROVE SoundCall(calls[i])
    BY DEF NothingOverBudget, SoundCall
  <2>1. i \in 1 .. Len(calls)
    BY DEF IInv
  <2>2. calls[i] \in SoundCalls
    BY <2>1, ElementOfSeq DEF IInv
  <2> QED BY <2>2 DEF SoundCalls
<1> QED BY <1>1, IInvInit, IInvNext, PTL DEF Spec

\* Wherever its runs of newlines and blanks are, a text is cut after the last
\* paragraph that fits the budget, and in the middle of one only where the
\* first alone is too long.  truncate.go:9-45.
THEOREM CutsAtParagraphs == Spec => []CutAtLatestBreak
<1>1. IInv => CutAtLatestBreak
  <2> SUFFICES ASSUME IInv, NEW i \in DOMAIN calls, calls[i].text # <<>>
               PROVE  AtBreak(calls[i].text, calls[i].piece, calls[i].budget)
    BY DEF CutAtLatestBreak, AtBreak, Fits
  <2>1. i \in 1 .. Len(calls)
    BY DEF IInv
  <2>2. calls[i] \in SoundCalls
    BY <2>1, ElementOfSeq DEF IInv
  <2> QED BY <2>2 DEF SoundCalls, SoundCall
<1> QED BY <1>1, IInvInit, IInvNext, PTL DEF Spec

\* The chunks of a text skip none of its letters and send none twice, for
\* every text, budget and number of chunks.
THEOREM TextCovered == Spec => []ChunksCover
<1>1. IInv => ChunksCover
  <2> SUFFICES ASSUME IInv PROVE ChunksCover
    OBVIOUS
  <2>1. ASSUME pc = "stored", Len(chunks) < MaxPieces
        PROVE  Len(chunks) > 0 /\ chunks[Len(chunks)].hi = Len(text)
    <3>1. Here = Nothing
      BY <2>1, LongTextAssumption DEF IInv, AllAsked
    <3>2. rest = Nothing
      <4>1. ~ (Letter(text, rest.lo) /\ rest.lo <= rest.hi)
        BY <3>1, ChunkIs, LongTextAssumption DEF IInv, Here
      <4> QED BY <4>1 DEF IInv, Left
    <3> QED BY <3>2 DEF IInv, Abuts, Reached
  <2> QED BY <2>1 DEF IInv, Chained, ChunksCover
<1> QED BY <1>1, IInvInit, IInvNext, PTL DEF Spec

-----------------------------------------------------------------------------
(* The lists.                                                              *)

PCs == {"idle", "language", "get", "upsert", "own", "count", "find", "page", "grand", "marks",
        "write"}

\* A value has the fields of a screen, of a press.
IsScreen(s) ==
  DOMAIN s = {"view", "list", "page", "pages", "rows", "word", "mark", "filters", "asOf"}

IsJob(j) ==
  DOMAIN j = {"pc", "op", "list", "page", "word", "to", "lang", "mark", "total", "screen", "asOf",
              "from"}

ScreenFits(s) ==
  /\ IsScreen(s)
  /\ s.list \in Lists /\ s.page \in Nat /\ s.pages \in Nat /\ s.asOf \in Int

\* What the program counter of a press says of it.
JobFits(j) ==
  /\ IsJob(j) /\ ScreenFits(j.screen)
  /\ j.pc \in PCs /\ j.op \in {"open", "edit", "set"}
  /\ j.list \in Lists /\ j.page \in Nat
  /\ j.asOf \in Int /\ j.from \in Int
  /\ j.op = "edit" => j.list.kind = "mine"
  /\ j.pc \in {"get", "find"} => j.op = "edit"
  /\ j.pc \in {"language", "get", "find", "grand"} => j.list.kind = "mine"
  /\ j.pc \in {"own", "marks"} => j.list.kind = "article"
  /\ j.pc = "grand" => j.list.of # "all"
  /\ j.pc = "page" => j.total \in Nat \ {0}

Typed ==
  /\ writes \in Nat /\ analysed \in Seq(Articles)
  /\ shown = [k \in Kinds |-> shown[k]]
  /\ \A k \in Kinds : ScreenFits(shown[k]) /\ shown[k].asOf <= writes
  /\ job = [h \in Handlers |-> job[h]]
  /\ \A h \in Handlers : JobFits(job[h]) /\ job[h].asOf <= writes /\ job[h].from <= writes

\* The rows of a page of a list as it is now, and what they say of a word.
PageOfList(s) == Rows(Items(s.list, active), PageSize[s.list.kind], s.page)

ListsPage(s) ==
  LET total == Len(Items(s.list, active)) IN
  /\ total > 0
  /\ s.pages = PageCount(total, PageSize[s.list.kind])
  /\ s.page < s.pages
  /\ s.filters = TRUE
  /\ s.rows = [i \in DOMAIN PageOfList(s) |-> s.rows[i]]
  /\ \A i \in DOMAIN PageOfList(s) : s.rows[i].item = PageOfList(s)[i]

Marked(s) ==
  s.list.kind # "history" => \A i \in DOMAIN s.rows : s.rows[i].mark = status[s.rows[i].item]

NoRows(s) ==
  /\ Items(s.list, active) = <<>>
  /\ s.list.kind = "mine" => s.filters = (WithStatus(StatusesOf("all"), active) # {})

\* A screen that shows the tables as they are.
Truthful(s) ==
  /\ s.view = "list" => ListsPage(s) /\ Marked(s)
  /\ s.view = "empty" => NoRows(s)

\* What a press has read while the tables did not change since it came in.
Reading(j) == j.asOf = writes =>
  /\ j.pc \in {"find", "count", "page", "grand"} /\ j.list.kind = "mine" => j.lang = active
  /\ j.pc = "page" => j.total = Len(Items(j.list, active))
  /\ j.pc = "grand" => Items(j.list, active) = <<>>
  /\ j.pc = "marks" => j.screen.view = "list" /\ ListsPage(j.screen)
  /\ j.pc = "write" => Truthful(j.screen)

\* The press of a row while the tables did not change since its list was read.
Editing(j) == j.op = "edit" /\ j.from = writes =>
  /\ j.pc \in {"idle", "get", "language", "find", "write"}
  /\ j.pc \in {"get", "language", "find"} =>
       j.word \in ToSet(Rows(Items(j.list, active), PageSize["mine"], j.page))
  /\ j.pc \in {"language", "find"} => j.mark = status[j.word]
  /\ j.pc = "find" => j.lang = active
  /\ j.pc = "write" =>
       \/ j.screen.view = "no language"
       \/ j.screen.view = "edit" /\ j.screen.word = j.word /\ j.screen.mark = status[j.word]

ListInv ==
  /\ Typed
  /\ \A k \in Kinds : \A s \in {shown[k]} : s.asOf = writes => Truthful(s)
  /\ \A h \in Handlers : \A j \in {job[h]} : Reading(j) /\ Editing(j)

-----------------------------------------------------------------------------
(* The decks.                                                              *)

\* What OptionsSound says of a card.
SoundCard(c) ==
  /\ Cardinality({Fold[x] : x \in c.wrong \cup {c.right}}) = 1 + Wrong
  /\ c.wrong \cap SpacedOut = {}

\* A value has the fields of a deck under construction, and its cards are sound.
IsDeal(d) == DOMAIN d = {"pc", "lang", "queue", "gloss", "deck"}

DealFits(d) ==
  /\ IsDeal(d) /\ d.queue \in Seq(Words) /\ d.deck \in Seq(ToSet(d.deck))
  /\ \A c \in ToSet(d.deck) : c.word \in Words /\ SoundCard(c)

DeckInv == DealFits(deal) /\ round \in Seq(Words)

RowsTyped ==
  /\ status = [w \in Words |-> status[w]] /\ stamp \in [Words -> Nat]
  /\ answeredAt \in [Words -> Int] /\ clock \in Nat

\* A word that has a row was answered no later than the row says.
Served ==
  /\ RowsTyped
  /\ \A w \in Words : /\ stamp[w] <= clock /\ answeredAt[w] <= clock
                      /\ status[w] # NoStatus => answeredAt[w] <= stamp[w]

-----------------------------------------------------------------------------
(* Lists and their pages.                                                  *)

LEMMA ListIs ==
  ASSUME NEW n \in Nat, NEW f, f = [i \in 1 .. n |-> f[i]]
  PROVE  /\ f \in Seq({f[i] : i \in 1 .. n}) /\ Len(f) = n /\ DOMAIN f = 1 .. n
         /\ f = <<>> <=> n = 0
<1> DEFINE T == {f[i] : i \in 1 .. n}
<1>1. \A i \in 1 .. n : f[i] \in T
  OBVIOUS
<1>2. f \in [1 .. n -> T]
  <2> HIDE DEF T
  <2> QED BY <1>1
<1>3. f \in Seq(T) /\ Len(f) = n
  <2> HIDE DEF T
  <2> QED BY <1>2
<1> QED BY <1>3

LEMMA AscendingIs ==
  ASSUME NEW S, IsFiniteSet(S)
  PROVE  /\ Ascending(S) = [i \in 1 .. Cardinality(S) |-> Ascending(S)[i]]
         /\ Cardinality(S) \in Nat
         /\ Cardinality(S) = 0 <=> S = {}
<1>1. Cardinality(S) \in Nat /\ (Cardinality(S) = 0 <=> S = {})
  BY FS_CardinalityType, FS_EmptySet
<1> QED BY <1>1 DEF Ascending

LEMMA ListsAre ==
  ASSUME NEW l \in Lists
  PROVE  /\ l = [kind |-> l.kind, of |-> l.of]
         /\ \/ l.kind = "mine" /\ l.of \in Filters
            \/ l.kind = "article" /\ l.of \in Articles
            \/ l.kind = "history" /\ l.of \in Categories
         /\ l.kind \in Kinds /\ PageSize[l.kind] \in Nat \ {0}
BY WordListsAssumption DEF Lists, Kinds

\* A list of words by status is empty when there is no such word.
LEMMA MineIs ==
  ASSUME NEW l \in Lists, l.kind = "mine", NEW lang
  PROVE  /\ Items(l, lang) = Ascending(WithStatus(StatusesOf(l.of), lang))
         /\ Len(Items(l, lang)) \in Nat
         /\ Items(l, lang) = [i \in 1 .. Len(Items(l, lang)) |-> Items(l, lang)[i]]
         /\ Items(l, lang) = <<>> <=> WithStatus(StatusesOf(l.of), lang) = {}
<1> DEFINE S == WithStatus(StatusesOf(l.of), lang)
           s == Ascending(S)
<1>1. IsFiniteSet(S)
  BY WordTableAssumption, FS_Subset DEF WithStatus
<1>2. Items(l, lang) = s
  BY DEF Items
<1>3. s = [i \in 1 .. Cardinality(S) |-> s[i]] /\ Cardinality(S) \in Nat
      /\ (Cardinality(S) = 0 <=> S = {})
  <2> HIDE DEF S
  <2> QED BY <1>1, AscendingIs
<1>4. Len(s) = Cardinality(S) /\ (s = <<>> <=> Cardinality(S) = 0)
  <2> HIDE DEF S, s
  <2> QED BY <1>3, ListIs
<1> QED
  <2> HIDE DEF S, s
  <2>1. S = WithStatus(StatusesOf(l.of), lang)
    BY DEF S
  <2> QED BY <1>2, <1>3, <1>4, <2>1 DEF s

LEMMA HistoryIs ==
  ASSUME NEW l \in Lists, l.kind = "history", NEW lang, analysed \in Seq(Articles)
  PROVE  /\ Len(Items(l, lang)) \in Nat
         /\ Items(l, lang) = [i \in 1 .. Len(Items(l, lang)) |-> Items(l, lang)[i]]
<1> DEFINE S == PlacesOf(l.of)
           s == Ascending(S)
           r == Reverse(s)
<1>1. IsFiniteSet(S)
  <2>1. IsFiniteSet(1 .. Len(analysed))
    BY FS_Interval
  <2> QED BY <2>1, FS_Subset DEF PlacesOf
<1>2. s = [i \in 1 .. Cardinality(S) |-> s[i]] /\ Cardinality(S) \in Nat
  <2> HIDE DEF S
  <2> QED BY <1>1, AscendingIs
<1>3. Len(s) = Cardinality(S)
  <2> HIDE DEF S, s
  <2> QED BY <1>2, ListIs
<1>4. DOMAIN r = 1 .. Len(s)
  BY DEF Reverse
<1>5. Items(l, lang) = [i \in DOMAIN r |-> analysed[r[i]]]
  BY DEF Items
<1> DEFINE items == Items(l, lang)
<1>6. items = [i \in 1 .. Cardinality(S) |-> items[i]]
  <2> HIDE DEF S, s, r
  <2> QED BY <1>3, <1>4, <1>5
<1>7. Len(items) = Cardinality(S)
  <2> HIDE DEF S, items
  <2> QED BY <1>2, <1>6, ListIs
<1> QED
  <2> HIDE DEF S
  <2> QED BY <1>2, <1>6, <1>7

LEMMA ArticleIs ==
  ASSUME NEW l \in Lists, l.kind = "article", NEW lang
  PROVE  /\ Len(Items(l, lang)) \in Nat
         /\ Items(l, lang) = [i \in 1 .. Len(Items(l, lang)) |-> Items(l, lang)[i]]
<1> DEFINE ws == WordsOf[l.of]
           items == Items(l, lang)
<1>1. ws \in Seq(ToSet(ws))
  BY ListsAre, WordTableAssumption
<1>2. Len(ws) \in Nat /\ DOMAIN ws = 1 .. Len(ws)
  <2> HIDE DEF ws
  <2> QED BY <1>1
<1>3. items = [i \in DOMAIN ws |-> ws[i].word]
  BY DEF Items
<1>4. items = [i \in 1 .. Len(ws) |-> items[i]]
  <2> HIDE DEF ws, items
  <2> QED BY <1>2, <1>3
<1>5. Len(items) = Len(ws)
  <2> HIDE DEF ws, items
  <2> QED BY <1>2, <1>4, ListIs
<1> QED
  <2> HIDE DEF ws
  <2> QED BY <1>2, <1>4, <1>5

LEMMA ItemsAre ==
  ASSUME NEW l \in Lists, NEW lang, analysed \in Seq(Articles)
  PROVE  /\ Len(Items(l, lang)) \in Nat
         /\ Items(l, lang) = [i \in 1 .. Len(Items(l, lang)) |-> Items(l, lang)[i]]
         /\ Items(l, lang) = <<>> <=> Len(Items(l, lang)) = 0
         /\ DOMAIN Items(l, lang) = 1 .. Len(Items(l, lang))
<1> DEFINE items == Items(l, lang)
<1>1. Len(items) \in Nat /\ items = [i \in 1 .. Len(items) |-> items[i]]
  BY ListsAre, MineIs, ArticleIs, HistoryIs
<1> HIDE DEF items
<1>2. items = <<>> <=> Len(items) = 0
  BY <1>1, ListIs
<1>3. DOMAIN items = 1 .. Len(items)
  BY <1>1, ListIs
<1> QED BY <1>1, <1>2, <1>3 DEF items

\* Only the words by status depend on the language.
LEMMA OtherLanguage ==
  ASSUME NEW l \in Lists, l.kind # "mine", NEW a, NEW b
  PROVE  Items(l, a) = Items(l, b)
BY ListsAre DEF Items

\* n pages of z rows hold t rows, and no page less does.
LEMMA PagesAre ==
  ASSUME NEW t \in Nat \ {0}, NEW z \in Nat \ {0}
  PROVE  /\ PageCount(t, z) \in Nat \ {0}
         /\ \A p \in Nat : p < PageCount(t, z) <=> p * z < t
         /\ \A p \in Nat : p * z \in Nat /\ (p + 1) * z = p * z + z
<1> DEFINE a == t + z - 1
           n == a \div z
<1>1. a \in Nat /\ n \in Nat
  BY SMTT(30)
<1>2. a = z * n + (a % z) /\ a % z \in 0 .. z - 1
  BY <1>1, SMTT(30)
<1>3. \A p \in Nat : p * z \in Nat /\ (p + 1) * z = p * z + z
  BY SMTT(30)
<1>4. ASSUME NEW p \in Nat, p < n PROVE p * z < t
  <2>1. (p + 1) * z <= n * z
    BY <1>1, <1>4, SMTT(30)
  <2>2. n * z <= t + z - 1
    BY <1>1, <1>2, SMTT(30)
  <2>3. n * z \in Int /\ p * z \in Int
    BY <1>1, <1>3
  <2> HIDE DEF n, a
  <2> QED BY <1>3, <2>1, <2>2, <2>3
<1>5. ASSUME NEW p \in Nat, p >= n PROVE ~ (p * z < t)
  <2>1. p * z >= n * z
    BY <1>1, <1>5, SMTT(30)
  <2>2. n * z >= t
    BY <1>1, <1>2, SMTT(30)
  <2>3. n * z \in Int /\ p * z \in Int
    BY <1>1, <1>3
  <2> HIDE DEF n, a
  <2> QED BY <2>1, <2>2, <2>3
<1>6. n # 0
  <2>1. 0 * z = 0 /\ 0 \in Nat
    OBVIOUS
  <2> QED BY <1>5, <2>1
<1>7. \A p \in Nat : p < n <=> p * z < t
  BY <1>1, <1>4, <1>5
<1> QED BY <1>1, <1>3, <1>6, <1>7 DEF PageCount

\* Clamp finds a page there is.
LEMMA ClampIs ==
  ASSUME NEW page \in Nat, NEW pages \in Nat \ {0}
  PROVE  Clamp(page, pages) \in Nat /\ Clamp(page, pages) < pages
BY DEF Clamp

\* A part of a list that lies within it.
LEMMA PieceIs ==
  ASSUME NEW T, NEW s, NEW lo \in Int, NEW hi \in Int, lo <= hi,
         \A i \in lo .. hi : s[i] \in T
  PROVE  /\ DOMAIN SubSeq(s, lo, hi) = 1 .. hi - lo + 1
         /\ \A i \in 1 .. hi - lo + 1 : SubSeq(s, lo, hi)[i] = s[lo + i - 1]
<1>1. SubSeq(s, lo, hi) \in Seq(T)
  BY SubSeqProperties
<1>2. Len(SubSeq(s, lo, hi)) = hi - lo + 1
  BY SubSeqProperties
<1>3. \A i \in 1 .. hi - lo + 1 : SubSeq(s, lo, hi)[i] = s[lo + i - 1]
  BY SubSeqProperties
<1> QED BY <1>1, <1>2, <1>3

\* A page there is has the rows that follow those of the pages before it, at
\* least one, and all that are left when it is the last.
LEMMA RowsAre ==
  ASSUME NEW items, NEW t \in Nat \ {0}, NEW z \in Nat \ {0}, NEW p \in Nat,
         items = [i \in 1 .. t |-> items[i]], p < PageCount(t, z)
  PROVE  LET page == Rows(items, z, p)
             n    == IF (p + 1) * z < t THEN z ELSE t - p * z IN
         /\ DOMAIN page = 1 .. n /\ n \in Nat \ {0}
         /\ \A i \in 1 .. n : page[i] = items[p * z + i]
         /\ p * z + n <= t
         /\ p + 1 < PageCount(t, z) <=> p * z + n < t
<1>1. Len(items) = t
  BY ListIs
<1> DEFINE b == p * z
<1>2. b \in Nat /\ b < t /\ (p + 1) * z = b + z /\ (p + 1 < PageCount(t, z) <=> b + z < t)
  <2> DEFINE q == p + 1
  <2>1. q \in Nat
    OBVIOUS
  <2>2. q < PageCount(t, z) <=> q * z < t
    <3> HIDE DEF q
    <3> QED BY <2>1, PagesAre
  <2>3. b \in Nat /\ q * z = b + z /\ b < t
    BY PagesAre
  <2> QED BY <2>2, <2>3
<1> DEFINE n == IF b + z < t THEN z ELSE t - b
<1> HIDE DEF b
<1>3. n \in Nat \ {0} /\ b + n <= t /\ (b + z < t <=> b + n < t)
  BY <1>2
<1>4. Rows(items, z, p) = SubSeq(items, b + 1, b + n)
  <2>1. (IF b + z < t THEN b + z ELSE t) = b + n
    BY <1>2
  <2> QED BY <1>1, <1>2, <2>1 DEF Rows, b
<1> DEFINE page == SubSeq(items, b + 1, b + n)
<1>5. DOMAIN page = 1 .. n /\ \A i \in 1 .. n : page[i] = items[b + i]
  <2> DEFINE T  == {items[i] : i \in 1 .. t}
             lo == b + 1
             hi == b + n
  <2>1. lo \in Int /\ hi \in Int /\ lo <= hi /\ lo .. hi \subseteq 1 .. t
    BY <1>2, <1>3
  <2>2. \A i \in lo .. hi : items[i] \in T
    BY <2>1
  <2>3. hi - lo + 1 = n /\ \A i \in 1 .. n : lo + i - 1 = b + i
    BY <1>2, <1>3
  <2> HIDE DEF T, lo, hi
  <2>4. /\ DOMAIN SubSeq(items, lo, hi) = 1 .. hi - lo + 1
        /\ \A i \in 1 .. hi - lo + 1 : SubSeq(items, lo, hi)[i] = items[lo + i - 1]
    BY <2>1, <2>2, PieceIs
  <2> QED BY <2>3, <2>4 DEF lo, hi
<1> HIDE DEF page
<1> QED
  <2>1. n = IF (p + 1) * z < t THEN z ELSE t - p * z
    BY <1>2 DEF b
  <2>2. Rows(items, z, p) = page
    BY <1>4 DEF page
  <2> HIDE DEF n
  <2> QED BY <1>2, <1>3, <1>5, <2>1, <2>2 DEF b

-----------------------------------------------------------------------------
(* What a true screen shows.                                               *)

\* The buttons to the pages next to the one shown.
LEMMA LeadsToIs ==
  ASSUME NEW s, ScreenFits(s), s.view = "list", s.page < s.pages,
         NEW q \in {s.page - 1, s.page + 1}
  PROVE  LeadsTo(s, q) <=> q \in 0 .. s.pages - 1
<1>0. s.page \in Nat /\ s.pages \in Nat /\ s.list.kind \in Kinds
  BY ListsAre DEF ScreenFits
<1> DEFINE F == IF s.filters THEN FilterRow(s.list.kind) ELSE {}
           R == UNION {RowButtons(s, s.rows[i].item) : i \in DOMAIN s.rows}
           N == {Open(s.list, p) : p \in {s.page - 1, s.page + 1} \cap 0 .. (s.pages - 1)}
<1>1. Buttons(s) = F \cup (R \cup N)
  <2> DEFINE L == R \cup N
             E == {Press("set", s.list, s.page, s.word, t) : t \in Statuses}
                    \cup {Open(s.list, s.page)}
             C == CASE s.view = "list" -> L [] s.view = "edit" -> E [] OTHER -> {}
  <2>1. Buttons(s) = F \cup C
    BY Zenon DEF Buttons
  <2>2. C = L
    <3> HIDE DEF L, E
    <3> QED OBVIOUS
  <2> HIDE DEF C, F, R, N
  <2> QED BY <2>1, <2>2
<1>2. ASSUME NEW b \in F PROVE b.page = 0
  BY <1>2, <1>0 DEF FilterRow, Open, Press, Kinds
<1>3. ASSUME NEW b \in R PROVE b.op # "open"
  <2>1. PICK i \in DOMAIN s.rows : b \in RowButtons(s, s.rows[i].item)
    BY <1>3
  <2> QED BY <1>0, <2>1 DEF RowButtons, Press, Kinds
<1>4. ASSUME NEW b \in N PROVE b.page \in 0 .. s.pages - 1
  BY <1>4 DEF Open, Press
<1>5. ASSUME LeadsTo(s, q) PROVE q \in 0 .. s.pages - 1
  <2>1. PICK b \in Buttons(s) : b.op = "open" /\ b.page = q
    BY <1>5 DEF LeadsTo
  <2>2. b \in F \/ b \in N
    <3> HIDE DEF F, R, N
    <3> QED BY <1>1, <1>3, <2>1
  <2>3. 0 \in 0 .. s.pages - 1
    BY <1>0
  <2> HIDE DEF F, N
  <2> QED BY <1>2, <1>4, <2>1, <2>2, <2>3
<1>6. ASSUME q \in 0 .. s.pages - 1 PROVE LeadsTo(s, q)
  <2>1. Open(s.list, q) \in N
    BY <1>6
  <2>2. Open(s.list, q) \in Buttons(s)
    <3> HIDE DEF F, R, N
    <3> QED BY <1>1, <2>1
  <2>3. Open(s.list, q).op = "open" /\ Open(s.list, q).list = s.list /\ Open(s.list, q).page = q
    BY DEF Open, Press
  <2> QED BY <2>2, <2>3 DEF LeadsTo
<1> QED BY <1>5, <1>6

\* The clause of ListTrue about a page, but for what the rows say.
LEMMA PageShown ==
  ASSUME NEW s, ScreenFits(s), analysed \in Seq(Articles), s.view = "list", ListsPage(s)
  PROVE  LET now    == Items(s.list, active)
             Before == s.page * PageSize[s.list.kind] IN
         /\ s.rows # <<>>
         /\ \A i \in DOMAIN s.rows :
              Before + i <= Len(now) /\ s.rows[i].item = now[Before + i]
         /\ LeadsTo(s, s.page + 1) <=> Before + Len(s.rows) < Len(now)
         /\ LeadsTo(s, s.page - 1) <=> Before > 0
<1> DEFINE now == Items(s.list, active)
           z   == PageSize[s.list.kind]
           t   == Len(now)
           b   == s.page * z
           p   == s.page
           page == Rows(now, z, p)
           n    == IF (p + 1) * z < t THEN z ELSE t - p * z
<1>1. /\ now = [i \in 1 .. t |-> now[i]] /\ t \in Nat /\ z \in Nat \ {0} /\ p \in Nat
      /\ t > 0 /\ s.pages = PageCount(t, z) /\ p < s.pages /\ s.pages \in Nat
      /\ s.rows = [i \in DOMAIN page |-> s.rows[i]]
      /\ \A i \in DOMAIN page : s.rows[i].item = page[i]
  BY ItemsAre, ListsAre DEF ScreenFits, ListsPage, PageOfList
<1>2. /\ DOMAIN page = 1 .. n /\ n \in Nat \ {0}
      /\ \A i \in 1 .. n : page[i] = now[b + i]
      /\ b + n <= t
      /\ p + 1 < s.pages <=> b + n < t
  <2> HIDE DEF now, z, t, p
  <2>1. t \in Nat \ {0} /\ p < PageCount(t, z)
    BY <1>1
  <2>2. /\ DOMAIN page = 1 .. n /\ n \in Nat \ {0}
        /\ \A i \in 1 .. n : page[i] = now[p * z + i]
        /\ p * z + n <= t
        /\ p + 1 < PageCount(t, z) <=> p * z + n < t
    BY <1>1, <2>1, RowsAre
  <2>3. b = p * z
    BY DEF p
  <2> HIDE DEF n, page, b
  <2> QED BY <1>1, <2>2, <2>3
<1>3. b \in Nat /\ (b > 0 <=> p - 1 >= 0)
  <2>1. p = 0 => b = 0
    BY <1>1
  <2>2. p >= 1 => b >= 1
    <3> SUFFICES ASSUME p >= 1 PROVE b >= 1
      OBVIOUS
    <3> DEFINE q == p - 1
    <3>1. q \in Nat /\ p = q + 1
      BY <1>1
    <3>2. q * z \in Nat /\ (q + 1) * z = q * z + z
      <4> HIDE DEF q, z
      <4> QED BY <1>1, <3>1, PagesAre
    <3>3. b = (q + 1) * z
      BY <3>1
    <3> HIDE DEF q, b, z
    <3> QED BY <1>1, <3>2, <3>3
  <2>3. b \in Nat
    BY <1>1
  <2> HIDE DEF b, p
  <2> QED BY <1>1, <2>1, <2>2, <2>3
<1>4. /\ LeadsTo(s, p + 1) <=> p + 1 < s.pages
      /\ LeadsTo(s, p - 1) <=> p - 1 >= 0
  <2>1. /\ LeadsTo(s, p + 1) <=> p + 1 \in 0 .. s.pages - 1
        /\ LeadsTo(s, p - 1) <=> p - 1 \in 0 .. s.pages - 1
    BY <1>1, LeadsToIs
  <2> QED BY <1>1, <2>1
<1>5. DOMAIN s.rows = 1 .. n /\ s.rows # <<>> /\ Len(s.rows) = n
  <2> DEFINE rows == s.rows
  <2>1. rows = [i \in 1 .. n |-> rows[i]] /\ n \in Nat /\ n # 0
    BY <1>1, <1>2
  <2> HIDE DEF rows, n
  <2> QED BY <2>1, ListIs DEF rows
<1>6. ASSUME NEW i \in 1 .. n PROVE b + i <= t /\ s.rows[i].item = now[b + i]
  <2> HIDE DEF b, t, n, now, page
  <2>1. b + i <= t
    BY <1>1, <1>2, <1>3
  <2>2. i \in DOMAIN page /\ page[i] = now[b + i]
    BY <1>2
  <2> QED BY <1>1, <2>1, <2>2
<1> HIDE DEF n, page
<1> QED
  <2> HIDE DEF now, t, b, p
  <2>1. /\ s.rows # <<>>
        /\ \A i \in DOMAIN s.rows : b + i <= t /\ s.rows[i].item = now[b + i]
        /\ LeadsTo(s, p + 1) <=> b + Len(s.rows) < t
        /\ LeadsTo(s, p - 1) <=> b > 0
    BY <1>2, <1>3, <1>4, <1>5, <1>6
  <2> QED BY <2>1 DEF now, t, b, p

LEMMA EmptyShown ==
  ASSUME NEW s, ScreenFits(s), s.list.kind = "mine", NoRows(s)
  PROVE  s.filters <=> \E f \in Filters : Items([s.list EXCEPT !.of = f], active) # <<>>
<1>1. \A f \in Filters : /\ [s.list EXCEPT !.of = f] \in Lists
                         /\ [s.list EXCEPT !.of = f].kind = "mine"
                         /\ [s.list EXCEPT !.of = f].of = f
  BY ListsAre DEF ScreenFits, Lists
<1>2. \A f \in Filters : Items([s.list EXCEPT !.of = f], active) # <<>>
                           <=> WithStatus(StatusesOf(f), active) # {}
  <2> SUFFICES ASSUME NEW f \in Filters
               PROVE  Items([s.list EXCEPT !.of = f], active) # <<>>
                        <=> WithStatus(StatusesOf(f), active) # {}
    OBVIOUS
  <2> DEFINE l == [s.list EXCEPT !.of = f]
  <2>1. l \in Lists /\ l.kind = "mine" /\ l.of = f
    BY <1>1
  <2> HIDE DEF l
  <2> QED BY <2>1, MineIs DEF l
<1>3. \A f \in Filters :
        WithStatus(StatusesOf(f), active) \subseteq WithStatus(StatusesOf("all"), active)
  <2>1. \A f \in Filters : StatusesOf(f) \subseteq StatusesOf("all")
    BY DEF StatusesOf, Filters
  <2> QED BY <2>1 DEF WithStatus
<1>4. "all" \in Filters
  BY DEF Filters
<1> QED BY <1>2, <1>3, <1>4 DEF NoRows

-----------------------------------------------------------------------------
(* The states of the lists.                                                *)

\* What a button asks for.
LEMMA ButtonsAsk ==
  ASSUME NEW s, ScreenFits(s), analysed \in Seq(Articles), NEW k \in Kinds,
         NEW b \in Buttons(s) \cup Commands(k)
  PROVE  /\ b.op \in {"open", "edit", "set"} /\ b.list \in Lists /\ b.page \in Nat
         /\ b.op = "edit" => /\ s.view = "list" /\ s.list.kind = "mine" /\ b.list = s.list
                             /\ b.page = s.page
                             /\ \E i \in DOMAIN s.rows : b.word = s.rows[i].item
<1>0. s.page \in Nat /\ s.pages \in Nat /\ s.list \in Lists /\ s.list.kind \in Kinds
  BY ListsAre DEF ScreenFits
<1>1. \A l, p : Open(l, p).op = "open" /\ Open(l, p).list = l /\ Open(l, p).page = p
  BY DEF Open, Press
<1> DEFINE F == IF s.filters THEN FilterRow(s.list.kind) ELSE {}
           R == UNION {RowButtons(s, s.rows[i].item) : i \in DOMAIN s.rows}
           N == {Open(s.list, p) : p \in {s.page - 1, s.page + 1} \cap 0 .. (s.pages - 1)}
           L == R \cup N
           E == {Press("set", s.list, s.page, s.word, t) : t \in Statuses}
                  \cup {Open(s.list, s.page)}
           C == CASE s.view = "list" -> L [] s.view = "edit" -> E [] OTHER -> {}
<1>2. Buttons(s) = F \cup C
  BY Zenon DEF Buttons
<1>3. C = IF s.view = "list" THEN L ELSE IF s.view = "edit" THEN E ELSE {}
  <2> HIDE DEF L, E
  <2> QED OBVIOUS
<1>4. CASE b \in F
  <2>1. b \in FilterRow(s.list.kind)
    BY <1>4
  <2>2. CASE s.list.kind = "mine"
    <3>1. PICK f \in Filters : b = Open([kind |-> "mine", of |-> f], 0)
      BY <2>1, <2>2 DEF FilterRow
    <3>2. [kind |-> "mine", of |-> f] \in Lists
      BY DEF Lists
    <3> QED BY <1>1, <3>1, <3>2
  <2>3. CASE s.list.kind = "history"
    <3>1. PICK c \in Categories : b = Open([kind |-> "history", of |-> c], 0)
      BY <2>1, <2>3 DEF FilterRow
    <3>2. [kind |-> "history", of |-> c] \in Lists
      BY DEF Lists
    <3> QED BY <1>1, <3>1, <3>2
  <2>4. CASE s.list.kind = "article"
    BY <2>1, <2>4 DEF FilterRow
  <2> QED BY <1>0, <2>2, <2>3, <2>4 DEF Kinds
<1>5. CASE b \in C /\ s.view = "list" /\ b \in R
  <2>1. PICK i \in DOMAIN s.rows : b \in RowButtons(s, s.rows[i].item)
    BY <1>5
  <2>2. CASE s.list.kind = "mine"
    <3>1. b = Press("edit", s.list, s.page, s.rows[i].item, NoStatus)
      BY <2>1, <2>2 DEF RowButtons
    <3> QED BY <1>0, <1>5, <2>2, <3>1 DEF Press
  <2>3. CASE s.list.kind = "article"
    <3>1. PICK t \in {"known", "learning", "skipped"} :
            b = Press("set", s.list, s.page, s.rows[i].item, t)
      BY <2>1, <2>3 DEF RowButtons
    <3> QED BY <1>0, <3>1 DEF Press
  <2>4. CASE s.list.kind = "history"
    BY <2>1, <2>4 DEF RowButtons
  <2> QED BY <1>0, <2>2, <2>3, <2>4 DEF Kinds
<1>6. CASE b \in C /\ s.view = "list" /\ b \in N
  <2>1. PICK p \in 0 .. (s.pages - 1) : b = Open(s.list, p)
    BY <1>6
  <2> QED BY <1>0, <1>1, <2>1
<1>7. CASE b \in C /\ s.view = "edit"
  <2>1. b \in E
    <3> HIDE DEF L, E, C
    <3> QED BY <1>3, <1>7
  <2> QED BY <1>0, <2>1 DEF Open, Press
<1>8. CASE b \in Commands(k)
  <2>1. "all" \in Filters /\ "all" \in Categories
    BY DEF Filters, Categories
  <2>2. \A a \in ToSet(analysed) : a \in Articles
    BY DEF ToSet
  <2>3. \E l \in Lists : b = Open(l, 0)
    <3>1. CASE k = "mine"
      BY <1>8, <2>1, <3>1 DEF Commands, Lists
    <3>2. CASE k = "history"
      BY <1>8, <2>1, <3>2 DEF Commands, Lists
    <3>3. CASE k = "article"
      <4>1. PICK a \in ToSet(analysed) : b = Open([kind |-> "article", of |-> a], 0)
        BY <1>8, <3>3 DEF Commands
      <4>2. [kind |-> "article", of |-> a] \in Lists
        BY <2>2 DEF Lists
      <4> QED BY <4>1, <4>2
    <3> QED BY <3>1, <3>2, <3>3 DEF Kinds
  <2> QED BY <1>1, <2>3
<1>9. b \in F \/ (b \in C /\ s.view = "list" /\ (b \in R \/ b \in N))
        \/ (b \in C /\ s.view = "edit") \/ b \in Commands(k)
  <2>1. L = R \cup N
    OBVIOUS
  <2> HIDE DEF L, E, C, F, R, N
  <2> QED BY <1>2, <1>3, <2>1
<1> QED BY <1>4, <1>5, <1>6, <1>7, <1>8, <1>9

\* Where a press begins.
LEMMA FirstStepIs ==
  ASSUME NEW b, b.list \in Lists, b.op \in {"open", "edit", "set"}
  PROVE  /\ b.list.kind = "mine" /\ b.op = "open" => FirstStep(b) = "language"
         /\ b.list.kind = "mine" /\ b.op = "edit" => FirstStep(b) = "get"
         /\ b.list.kind = "mine" /\ b.op = "set" => FirstStep(b) = "upsert"
         /\ b.list.kind = "article" => FirstStep(b) = "own"
         /\ b.list.kind = "history" => FirstStep(b) = "count"
         /\ b.list.kind \in Kinds
<1>1. b.list.kind \in Kinds
  BY ListsAre
<1>2. CASE b.list.kind = "mine" /\ b.op = "open"
  BY <1>2 DEF FirstStep, Kinds
<1>3. CASE b.list.kind = "mine" /\ b.op = "edit"
  BY <1>3 DEF FirstStep, Kinds
<1>4. CASE b.list.kind = "mine" /\ b.op = "set"
  BY <1>4 DEF FirstStep, Kinds
<1>5. CASE b.list.kind = "article"
  BY <1>5 DEF FirstStep, Kinds
<1>6. CASE b.list.kind = "history"
  BY <1>6 DEF FirstStep, Kinds
<1> QED BY <1>1, <1>2, <1>3, <1>4, <1>5, <1>6 DEF Kinds

LEMMA ScreenIs == ScreenFits(Screen) /\ Screen.view = "closed" /\ Screen.asOf = -1
BY DEF Screen, ScreenFits, IsScreen, Lists, Filters

LEMMA IdleIs ==
  JobFits(Idle) /\ Idle.pc = "idle" /\ Idle.op = "open" /\ Idle.asOf = -1 /\ Idle.from = -1
<1>1. [kind |-> "mine", of |-> "all"] \in Lists
  BY DEF Lists, Filters
<1>2. Idle.screen = Screen /\ Idle.list = [kind |-> "mine", of |-> "all"]
  BY DEF Idle, Screen
<1>3. IsJob(Idle)
  BY DEF Idle, IsJob
<1> QED BY <1>1, <1>2, <1>3, ScreenIs DEF Idle, JobFits, PCs

\* A handler goes on, the tables being written once at most.
LEMMA JobFitsIn ==
  ASSUME Typed, NEW h \in Handlers, NEW j, JobFits(j), j.asOf <= writes', j.from <= writes',
         job' = [job EXCEPT ![h] = j], shown' = shown,
         analysed' \in Seq(Articles), writes' \in {writes, writes + 1}
  PROVE  Typed'
<1>1. writes' \in Nat /\ writes \in Nat /\ writes <= writes'
  BY DEF Typed
<1>2. /\ job' = [g \in Handlers |-> job'[g]] /\ job'[h] = j
      /\ \A g \in Handlers : g # h => job'[g] = job[g]
  BY DEF Typed
<1>3. \A g \in Handlers : JobFits(job'[g]) /\ job'[g].asOf <= writes' /\ job'[g].from <= writes'
  <2> SUFFICES ASSUME NEW g \in Handlers
               PROVE  JobFits(job'[g]) /\ job'[g].asOf <= writes' /\ job'[g].from <= writes'
    OBVIOUS
  <2>1. CASE g = h
    BY <1>2, <2>1
  <2>2. CASE g # h
    <3>1. JobFits(job[g]) /\ job[g].asOf <= writes /\ job[g].from <= writes
      BY DEF Typed
    <3>2. job[g].asOf \in Int /\ job[g].from \in Int
      BY <3>1 DEF JobFits
    <3> QED BY <1>1, <1>2, <2>2, <3>1, <3>2
  <2> QED BY <2>1, <2>2
<1>4. \A k \in Kinds : ScreenFits(shown'[k]) /\ shown'[k].asOf <= writes'
  <2> SUFFICES ASSUME NEW k \in Kinds PROVE ScreenFits(shown'[k]) /\ shown'[k].asOf <= writes'
    OBVIOUS
  <2>1. ScreenFits(shown[k]) /\ shown[k].asOf <= writes
    BY DEF Typed
  <2>2. shown[k].asOf \in Int
    BY <2>1 DEF ScreenFits
  <2> QED BY <1>1, <2>1, <2>2
<1>5. shown' = [k \in Kinds |-> shown'[k]]
  BY DEF Typed
<1> QED BY <1>1, <1>2, <1>3, <1>4, <1>5 DEF Typed

\* The lists stay as they are when the tables they are read from do.
LEMMA TablesStay ==
  ASSUME UNCHANGED <<status, active, analysed, writes>>
  PROVE  /\ \A l, lang : Items(l, lang)' = Items(l, lang)
         /\ \A sts, lang : WithStatus(sts, lang)' = WithStatus(sts, lang)
         /\ \A s : Truthful(s)' <=> Truthful(s)
         /\ \A s : ListsPage(s)' <=> ListsPage(s)
         /\ \A j : Reading(j)' <=> Reading(j)
         /\ \A j : Editing(j)' <=> Editing(j)
<1>1. \A sts, lang : WithStatus(sts, lang)' = WithStatus(sts, lang)
  BY DEF WithStatus
<1>2. \A c : PlacesOf(c)' = PlacesOf(c)
  BY DEF PlacesOf
<1>3. \A l, lang : Items(l, lang)' = Items(l, lang)
  <2> SUFFICES ASSUME NEW l, NEW lang PROVE Items(l, lang)' = Items(l, lang)
    OBVIOUS
  <2>1. WithStatus(StatusesOf(l.of), lang)' = WithStatus(StatusesOf(l.of), lang)
    BY <1>1
  <2>2. PlacesOf(l.of)' = PlacesOf(l.of)
    BY <1>2
  <2> QED BY <2>1, <2>2 DEF Items
<1>4. \A s : ListsPage(s)' <=> ListsPage(s)
  <2> SUFFICES ASSUME NEW s PROVE ListsPage(s)' <=> ListsPage(s)
    OBVIOUS
  <2>1. Items(s.list, active)' = Items(s.list, active)
    BY <1>3
  <2>2. PageOfList(s)' = PageOfList(s)
    BY <2>1 DEF PageOfList
  <2> QED BY <2>1, <2>2 DEF ListsPage
<1>5. \A s : Truthful(s)' <=> Truthful(s)
  <2> SUFFICES ASSUME NEW s PROVE Truthful(s)' <=> Truthful(s)
    OBVIOUS
  <2>1. Marked(s)' <=> Marked(s)
    BY DEF Marked
  <2>2. NoRows(s)' <=> NoRows(s)
    BY <1>1, <1>3 DEF NoRows
  <2> QED BY <1>4, <2>1, <2>2 DEF Truthful
<1>6. \A j : Reading(j)' <=> Reading(j)
  <2> SUFFICES ASSUME NEW j PROVE Reading(j)' <=> Reading(j)
    OBVIOUS
  <2>1. Items(j.list, active)' = Items(j.list, active)
    BY <1>3
  <2> QED BY <1>4, <1>5, <2>1 DEF Reading
<1>7. \A j : Editing(j)' <=> Editing(j)
  <2> SUFFICES ASSUME NEW j PROVE Editing(j)' <=> Editing(j)
    OBVIOUS
  <2>1. Items(j.list, active)' = Items(j.list, active)
    BY <1>3
  <2> QED BY <2>1 DEF Editing
<1> QED BY <1>1, <1>3, <1>4, <1>5, <1>6, <1>7

\* Nothing is up to date once the tables are written.
LEMMA AllStale ==
  ASSUME Typed, ListInv, writes' = writes + 1, analysed' \in Seq(Articles), UNCHANGED <<shown, job>>
  PROVE  ListInv'
<1>1. Typed'
  <2>1. \A k \in Kinds : ScreenFits(shown[k]) /\ shown[k].asOf <= writes'
    <3> SUFFICES ASSUME NEW k \in Kinds PROVE ScreenFits(shown[k]) /\ shown[k].asOf <= writes'
      OBVIOUS
    <3>1. ScreenFits(shown[k]) /\ shown[k].asOf <= writes /\ writes \in Nat
      BY DEF Typed
    <3>2. shown[k].asOf \in Int
      BY <3>1 DEF ScreenFits
    <3> QED BY <3>1, <3>2
  <2>2. \A h \in Handlers : JobFits(job[h]) /\ job[h].asOf <= writes' /\ job[h].from <= writes'
    <3> SUFFICES ASSUME NEW h \in Handlers
                 PROVE  JobFits(job[h]) /\ job[h].asOf <= writes' /\ job[h].from <= writes'
      OBVIOUS
    <3>1. JobFits(job[h]) /\ job[h].asOf <= writes /\ job[h].from <= writes /\ writes \in Nat
      BY DEF Typed
    <3>2. job[h].asOf \in Int /\ job[h].from \in Int
      BY <3>1 DEF JobFits
    <3> QED BY <3>1, <3>2
  <2> QED BY <2>1, <2>2 DEF Typed
<1>2. \A k \in Kinds : shown[k].asOf # writes'
  <2> SUFFICES ASSUME NEW k \in Kinds PROVE shown[k].asOf # writes'
    OBVIOUS
  <2>1. shown[k].asOf <= writes /\ writes \in Nat /\ ScreenFits(shown[k])
    BY DEF Typed
  <2> QED BY <2>1 DEF ScreenFits
<1>3. \A h \in Handlers : job[h].asOf # writes' /\ job[h].from # writes'
  <2> SUFFICES ASSUME NEW h \in Handlers PROVE job[h].asOf # writes' /\ job[h].from # writes'
    OBVIOUS
  <2>1. job[h].asOf <= writes /\ job[h].from <= writes /\ writes \in Nat /\ JobFits(job[h])
    BY DEF Typed
  <2> QED BY <2>1 DEF JobFits
<1>4. \A j : j.asOf # writes' => Reading(j)'
  BY DEF Reading
<1>5. \A j : j.from # writes' => Editing(j)'
  BY DEF Editing
<1> QED BY <1>1, <1>2, <1>3, <1>4, <1>5 DEF ListInv

\* A handler goes on while the tables stay.
LEMMA GoesOn ==
  ASSUME ListInv, UNCHANGED tables,
         NEW h \in Handlers, NEW j, job' = [job EXCEPT ![h] = j], shown' = shown,
         JobFits(j), j.asOf <= writes, j.from <= writes, Reading(j), Editing(j)
  PROVE  ListInv'
<1>1. UNCHANGED <<status, active, analysed, writes>> /\ Typed /\ writes \in Nat
  BY DEF tables, ListInv, Typed
<1>2. Typed'
  <2>1. analysed' \in Seq(Articles) /\ writes' \in {writes, writes + 1}
    BY <1>1 DEF Typed
  <2>2. j.asOf <= writes' /\ j.from <= writes'
    BY <1>1
  <2> QED BY <1>1, <2>1, <2>2, JobFitsIn
<1>3. \A k \in Kinds : \A s \in {shown'[k]} : s.asOf = writes' => Truthful(s)'
  BY <1>1, TablesStay DEF ListInv
<1>4. \A g \in Handlers : \A i \in {job'[g]} : Reading(i)' /\ Editing(i)'
  <2>1. Reading(j)' /\ Editing(j)'
    BY <1>1, TablesStay
  <2> SUFFICES ASSUME NEW g \in Handlers, NEW i, i = job'[g] PROVE Reading(i)' /\ Editing(i)'
    OBVIOUS
  <2>2. CASE g = h
    <3>1. i = j
      BY <1>1, <2>2 DEF Typed
    <3> QED BY <2>1, <3>1
  <2>3. CASE g # h
    <3>1. i = job[g]
      BY <1>1, <2>3 DEF Typed
    <3>2. Reading(i) /\ Editing(i)
      BY <3>1 DEF ListInv
    <3> QED BY <1>1, <3>2, TablesStay
  <2> QED BY <2>2, <2>3
<1> QED BY <1>2, <1>3, <1>4 DEF ListInv

\* What is known of a press.
LEMMA PressIs ==
  ASSUME ListInv, NEW h \in Handlers
  PROVE  /\ JobFits(job[h]) /\ job[h].asOf <= writes /\ job[h].from <= writes
         /\ Reading(job[h]) /\ Editing(job[h])
         /\ analysed \in Seq(Articles) /\ writes \in Nat
BY DEF ListInv, Typed

\* Only its program counter changes.
LEMMA GoesFits ==
  ASSUME NEW j, JobFits(j), NEW step,
         step \in {"upsert", "count", "grand"},
         step = "grand" => j.list.kind = "mine" /\ j.list.of # "all"
  PROVE  LET k == [j EXCEPT !.pc = step] IN
         /\ JobFits(k) /\ k.pc = step /\ k.op = j.op /\ k.list = j.list /\ k.word = j.word
         /\ k.lang = j.lang /\ k.asOf = j.asOf /\ k.from = j.from
<1> DEFINE k == [j EXCEPT !.pc = step]
<1>1. /\ IsJob(k) /\ k.pc = step /\ k.op = j.op /\ k.list = j.list /\ k.page = j.page
      /\ k.word = j.word /\ k.lang = j.lang /\ k.asOf = j.asOf /\ k.from = j.from
      /\ k.screen = j.screen
  BY DEF JobFits, IsJob
<1> HIDE DEF k
<1>2. JobFits(k)
  BY <1>1 DEF JobFits, PCs
<1> QED BY <1>1, <1>2 DEF k

\* It is about to write a screen.
LEMMA ShowsFits ==
  ASSUME NEW j, JobFits(j), NEW s, ScreenFits(s)
  PROVE  LET k == [j EXCEPT !.pc = "write", !.screen = s] IN
         /\ JobFits(k) /\ k.pc = "write" /\ k.op = j.op /\ k.list = j.list /\ k.word = j.word
         /\ k.asOf = j.asOf /\ k.from = j.from /\ k.screen = s
<1> DEFINE k == [j EXCEPT !.pc = "write", !.screen = s]
<1>1. /\ IsJob(k) /\ k.pc = "write" /\ k.op = j.op /\ k.list = j.list /\ k.page = j.page
      /\ k.word = j.word /\ k.lang = j.lang /\ k.asOf = j.asOf /\ k.from = j.from
      /\ k.screen = s
  <2>1. IsJob(j)
    BY DEF JobFits
  <2> QED BY <2>1 DEF IsJob
<1> HIDE DEF k
<1>2. JobFits(k)
  BY <1>1 DEF JobFits, PCs
<1> QED BY <1>1, <1>2 DEF k

LEMMA TextFits ==
  ASSUME NEW j, JobFits(j), NEW view, NEW filters
  PROVE  /\ ScreenFits(Text(j, view, filters)) /\ Text(j, view, filters).view = view
         /\ Text(j, view, filters).list = j.list /\ Text(j, view, filters).filters = filters
<1>1. j.list \in Lists
  BY DEF JobFits
<1> DEFINE s == Text(j, view, filters)
<1>2. /\ IsScreen(s) /\ s.view = view /\ s.list = j.list /\ s.page = 0 /\ s.pages = 0
      /\ s.filters = filters /\ s.asOf = -1
  BY DEF Text, Screen, IsScreen
<1> HIDE DEF s
<1>3. ScreenFits(s)
  BY <1>1, <1>2 DEF ScreenFits, IsScreen
<1> QED BY <1>2, <1>3 DEF s

\* Showing a screen: what is left to say is that it is true.
LEMMA Showing ==
  ASSUME ListInv, UNCHANGED tables, NEW h \in Handlers, NEW s, Shows(h, s), ScreenFits(s),
         job[h].asOf = writes => Truthful(s),
         job[h].op = "edit" /\ job[h].from = writes =>
           \/ s.view = "no language"
           \/ s.view = "edit" /\ s.word = job[h].word /\ s.mark = status[job[h].word]
  PROVE  ListInv'
<1> DEFINE j == job[h]
           k == [j EXCEPT !.pc = "write", !.screen = s]
<1>1. JobFits(j) /\ j.asOf <= writes /\ j.from <= writes
  BY PressIs
<1>2. /\ JobFits(k) /\ k.pc = "write" /\ k.op = j.op /\ k.list = j.list /\ k.word = j.word
      /\ k.asOf = j.asOf /\ k.from = j.from /\ k.screen = s
  BY <1>1, ShowsFits, Zenon
<1>3. job' = [job EXCEPT ![h] = k] /\ shown' = shown
  BY DEF Shows, Becomes
<1> HIDE DEF k
<1>4. Reading(k)
  BY <1>2 DEF Reading
<1>5. Editing(k)
  BY <1>2 DEF Editing
<1> QED BY <1>1, <1>2, <1>3, <1>4, <1>5, GoesOn

LEMMA Returning ==
  ASSUME ListInv, UNCHANGED tables, NEW h \in Handlers, Returns(h)
  PROVE  ListInv'
<1>1. Reading(Idle) /\ Editing(Idle) /\ Idle.asOf <= writes /\ Idle.from <= writes
  <2>1. writes \in Nat
    BY PressIs
  <2>2. Idle.asOf = -1 /\ Idle.from = -1 /\ Idle.op = "open"
    BY IdleIs
  <2>3. Idle.asOf <= writes /\ Idle.from <= writes /\ Idle.asOf # writes
    BY <2>1, <2>2
  <2> QED BY <2>2, <2>3 DEF Reading, Editing
<1> QED BY <1>1, IdleIs, GoesOn DEF Returns, Becomes

LEMMA TakeStep ==
  ASSUME ListInv, NEW h \in Handlers, Take(h)
  PROVE  ListInv'
<1>0. PICK k \in Kinds : \E b \in Buttons(shown[k]) \cup Commands(k) :
        job' = [job EXCEPT ![h] = [Idle EXCEPT !.pc = FirstStep(b), !.op = b.op, !.list = b.list,
                                     !.page = b.page, !.word = b.word, !.to = b.to,
                                     !.asOf = writes, !.from = shown[k].asOf]]
  BY DEF Take
<1>1. PICK b \in Buttons(shown[k]) \cup Commands(k) :
        job' = [job EXCEPT ![h] = [Idle EXCEPT !.pc = FirstStep(b), !.op = b.op, !.list = b.list,
                                     !.page = b.page, !.word = b.word, !.to = b.to,
                                     !.asOf = writes, !.from = shown[k].asOf]]
  BY <1>0
<1> DEFINE s == shown[k]
           j == [Idle EXCEPT !.pc = FirstStep(b), !.op = b.op, !.list = b.list, !.page = b.page,
                             !.word = b.word, !.to = b.to, !.asOf = writes, !.from = s.asOf]
<1>2. ScreenFits(s) /\ s.asOf <= writes /\ writes \in Nat /\ (s.asOf = writes => Truthful(s))
      /\ analysed \in Seq(Articles) /\ s.asOf \in Int
  BY DEF ListInv, Typed, ScreenFits
<1>3. /\ b.op \in {"open", "edit", "set"} /\ b.list \in Lists /\ b.page \in Nat
      /\ b.op = "edit" => /\ s.view = "list" /\ s.list.kind = "mine" /\ b.list = s.list
                          /\ b.page = s.page
                          /\ \E i \in DOMAIN s.rows : b.word = s.rows[i].item
  <2> HIDE DEF s
  <2>1. b \in Buttons(s) \cup Commands(k)
    BY DEF s
  <2> QED BY <1>2, <2>1, ButtonsAsk
<1>4. /\ b.list.kind = "mine" /\ b.op = "open" => FirstStep(b) = "language"
      /\ b.list.kind = "mine" /\ b.op = "edit" => FirstStep(b) = "get"
      /\ b.list.kind = "mine" /\ b.op = "set" => FirstStep(b) = "upsert"
      /\ b.list.kind = "article" => FirstStep(b) = "own"
      /\ b.list.kind = "history" => FirstStep(b) = "count"
      /\ b.list.kind \in Kinds
  BY <1>3, FirstStepIs
<1>5. /\ IsJob(j) /\ j.pc = FirstStep(b) /\ j.op = b.op /\ j.list = b.list /\ j.page = b.page
      /\ j.word = b.word /\ j.asOf = writes /\ j.from = s.asOf /\ j.screen = Screen
  BY DEF Idle, IsJob
<1>6. job' = [job EXCEPT ![h] = j] /\ shown' = shown /\ UNCHANGED tables
  BY <1>1 DEF Take
<1> HIDE DEF j
<1>7. JobFits(j)
  BY <1>2, <1>3, <1>4, <1>5, ScreenIs DEF JobFits, PCs, Kinds
<1>8. Reading(j)
  BY <1>3, <1>4, <1>5 DEF Reading, Kinds
<1>9. ASSUME j.op = "edit", j.from = writes
      PROVE  j.pc = "get" /\ j.word \in ToSet(Rows(Items(j.list, active), PageSize["mine"], j.page))
  <2> HIDE DEF s
  <2>1. ListsPage(s)
    BY <1>2, <1>3, <1>5, <1>9 DEF Truthful
  <2>2. PICK i \in DOMAIN s.rows : b.word = s.rows[i].item
    BY <1>3, <1>5, <1>9
  <2>3. i \in DOMAIN PageOfList(s) /\ s.rows[i].item = PageOfList(s)[i]
    BY <2>1, <2>2 DEF ListsPage
  <2>4. PageOfList(s) = Rows(Items(j.list, active), PageSize["mine"], j.page)
    BY <1>3, <1>5, <1>9 DEF PageOfList
  <2>5. j.word = PageOfList(s)[i]
    BY <1>5, <2>2, <2>3
  <2>6. j.word \in ToSet(PageOfList(s))
    BY <2>3, <2>5 DEF ToSet
  <2> QED BY <1>3, <1>4, <1>5, <1>9, <2>4, <2>6
<1>10. Editing(j)
  BY <1>9 DEF Editing
<1> QED
  <2>1. j.asOf <= writes /\ j.from <= writes
    BY <1>2, <1>5
  <2> QED BY <1>6, <1>7, <1>8, <1>10, <2>1, GoesOn

LEMMA ReadCurrentStep ==
  ASSUME ListInv, NEW h \in Handlers, ReadCurrent(h)
  PROVE  ListInv'
<1> DEFINE j == job[h]
           k == [j EXCEPT !.pc = "language", !.mark = status[j.word]]
<1>1. JobFits(j) /\ j.asOf <= writes /\ j.from <= writes /\ Reading(j) /\ Editing(j) /\ j.pc = "get"
  BY PressIs DEF ReadCurrent
<1>2. /\ IsJob(k) /\ k.pc = "language" /\ k.op = j.op /\ k.list = j.list /\ k.page = j.page
      /\ k.word = j.word /\ k.asOf = j.asOf /\ k.from = j.from
      /\ k.screen = j.screen /\ k.mark = status[j.word]
  BY <1>1 DEF JobFits, IsJob
<1>3. job' = [job EXCEPT ![h] = k] /\ shown' = shown /\ UNCHANGED tables
  BY DEF ReadCurrent, Becomes
<1> HIDE DEF j, k
<1>4. JobFits(k)
  BY <1>1, <1>2 DEF JobFits, PCs
<1>5. Reading(k)
  BY <1>2 DEF Reading
<1>6. Editing(k)
  BY <1>1, <1>2 DEF Editing
<1> QED BY <1>1, <1>2, <1>3, <1>4, <1>5, <1>6, GoesOn

LEMMA ReadLanguageStep ==
  ASSUME ListInv, NEW h \in Handlers, ReadLanguage(h)
  PROVE  ListInv'
<1> DEFINE j == job[h]
<1>1. JobFits(j) /\ j.asOf <= writes /\ j.from <= writes /\ Reading(j) /\ Editing(j)
      /\ j.pc = "language"
  BY PressIs DEF ReadLanguage
<1>2. UNCHANGED tables
  BY DEF ReadLanguage
<1>3. CASE active = NoLanguage
  <2> DEFINE v == "no language"
             f == FALSE
             s == Text(j, v, f)
  <2>1. Shows(h, s)
    BY <1>3 DEF ReadLanguage
  <2>2. ScreenFits(s) /\ s.view = v
    <3> HIDE DEF f, v
    <3> QED BY <1>1, TextFits
  <2> HIDE DEF s
  <2>3. Truthful(s)
    BY <2>2 DEF Truthful
  <2> QED BY <1>2, <2>1, <2>2, <2>3, Showing
<1>4. CASE active # NoLanguage
  <2> DEFINE step == IF j.op = "edit" THEN "find" ELSE "count"
             k == [j EXCEPT !.pc = step, !.lang = active]
  <2>1. job' = [job EXCEPT ![h] = k] /\ shown' = shown
    BY <1>4 DEF ReadLanguage, Becomes
  <2>2. /\ IsJob(k) /\ k.pc = step /\ k.op = j.op /\ k.list = j.list /\ k.page = j.page
        /\ k.word = j.word /\ k.asOf = j.asOf /\ k.from = j.from
        /\ k.screen = j.screen /\ k.mark = j.mark /\ k.lang = active
    <3> HIDE DEF step
    <3> QED BY <1>1 DEF JobFits, IsJob
  <2> HIDE DEF k, j
  <2>3. JobFits(k)
    BY <1>1, <2>2 DEF JobFits, PCs
  <2>4. Reading(k)
    BY <2>2 DEF Reading
  <2>5. Editing(k)
    BY <1>1, <2>2 DEF Editing
  <2> QED BY <1>1, <1>2, <2>1, <2>2, <2>3, <2>4, <2>5, GoesOn
<1> QED BY <1>3, <1>4

LEMMA FindStep ==
  ASSUME ListInv, NEW h \in Handlers, Find(h)
  PROVE  ListInv'
<1> DEFINE j == job[h]
<1>1. JobFits(j) /\ j.asOf <= writes /\ j.from <= writes /\ Reading(j) /\ Editing(j)
      /\ j.pc = "find" /\ j.op = "edit" /\ j.list \in Lists
  BY PressIs DEF Find, JobFits
<1>2. UNCHANGED tables
  BY DEF Find
<1>3. CASE j.word \in ToSet(NamedPage(j))
  <2> DEFINE s == [Screen EXCEPT !.view = "edit", !.list = j.list, !.page = j.page,
                                 !.word = j.word, !.mark = j.mark]
  <2>1. Shows(h, s)
    BY <1>3 DEF Find
  <2>2. /\ IsScreen(s) /\ s.view = "edit" /\ s.list = j.list /\ s.page = j.page /\ s.pages = 0
        /\ s.asOf = -1 /\ s.word = j.word /\ s.mark = j.mark
    BY DEF Screen, IsScreen
  <2> HIDE DEF s
  <2>3. ScreenFits(s)
    BY <1>1, <2>2 DEF ScreenFits, JobFits
  <2>4. Truthful(s)
    BY <2>2 DEF Truthful
  <2>5. j.from = writes => s.mark = status[j.word]
    BY <1>1, <2>2 DEF Editing
  <2> QED BY <1>2, <2>1, <2>2, <2>3, <2>4, <2>5, Showing
<1>4. CASE j.word \notin ToSet(NamedPage(j))
  <2> DEFINE k == [j EXCEPT !.pc = "count"]
  <2>1. job' = [job EXCEPT ![h] = k] /\ shown' = shown
    BY <1>4 DEF Find, Goes, Becomes
  <2>2. /\ JobFits(k) /\ k.pc = "count" /\ k.op = j.op /\ k.list = j.list /\ k.word = j.word
        /\ k.lang = j.lang /\ k.asOf = j.asOf /\ k.from = j.from
    BY <1>1, GoesFits, Zenon
  <2> HIDE DEF k, j
  <2>3. Reading(k)
    BY <1>1, <2>2 DEF Reading
  <2>4. j.from # writes
    BY <1>1, <1>4 DEF Editing, NamedPage
  <2>5. Editing(k)
    BY <2>2, <2>4 DEF Editing
  <2> QED BY <1>1, <1>2, <2>1, <2>2, <2>3, <2>5, GoesOn
<1> QED BY <1>3, <1>4

LEMMA CheckOwnerStep ==
  ASSUME ListInv, NEW h \in Handlers, CheckOwner(h)
  PROVE  ListInv'
<1> DEFINE j == job[h]
<1>1. JobFits(j) /\ j.asOf <= writes /\ j.from <= writes /\ j.pc = "own"
  BY PressIs DEF CheckOwner
<1>2. UNCHANGED tables
  BY DEF CheckOwner
<1>3. CASE j.list.of \in Mine
  <2> DEFINE step == IF j.op = "set" THEN "upsert" ELSE "count"
             k == [j EXCEPT !.pc = step]
  <2>1. job' = [job EXCEPT ![h] = k] /\ shown' = shown
    BY <1>3 DEF CheckOwner, Goes, Becomes
  <2>2. step \in {"upsert", "count", "grand"} /\ (step = "grand" => FALSE)
    OBVIOUS
  <2>3. /\ JobFits(k) /\ k.pc = step /\ k.op = j.op /\ k.list = j.list /\ k.word = j.word
        /\ k.lang = j.lang /\ k.asOf = j.asOf /\ k.from = j.from
    <3> HIDE DEF step
    <3>1. /\ IsJob(k) /\ k.pc = step /\ k.op = j.op /\ k.list = j.list /\ k.page = j.page
          /\ k.word = j.word /\ k.lang = j.lang /\ k.asOf = j.asOf /\ k.from = j.from
          /\ k.screen = j.screen
      BY <1>1 DEF JobFits, IsJob
    <3> HIDE DEF k, j
    <3> QED BY <1>1, <2>2, <3>1 DEF JobFits, PCs
  <2> HIDE DEF k, j
  <2>4. j.list.kind = "article" /\ j.op # "edit"
    BY <1>1 DEF JobFits
  <2>5. Reading(k)
    BY <2>2, <2>3, <2>4 DEF Reading
  <2>6. Editing(k)
    BY <2>3, <2>4 DEF Editing
  <2> QED BY <1>1, <1>2, <2>1, <2>3, <2>5, <2>6, GoesOn
<1>4. CASE j.list.of \notin Mine
  BY <1>2, <1>4, Returning DEF CheckOwner
<1> QED BY <1>3, <1>4

LEMMA CountStep ==
  ASSUME ListInv, NEW h \in Handlers, Count(h)
  PROVE  ListInv'
<1> DEFINE j == job[h]
           total == Len(Items(j.list, j.lang))
<1>1. JobFits(j) /\ j.asOf <= writes /\ j.from <= writes /\ Reading(j) /\ Editing(j)
      /\ j.pc = "count" /\ j.list \in Lists /\ analysed \in Seq(Articles)
  BY PressIs DEF Count, JobFits
<1>2. UNCHANGED tables
  BY DEF Count
<1>3. total \in Nat /\ (total = 0 => Items(j.list, j.lang) = <<>>)
  BY <1>1, ItemsAre
<1>4. j.asOf = writes => Items(j.list, j.lang) = Items(j.list, active)
  BY <1>1, OtherLanguage DEF Reading
<1>5. j.op = "edit" => j.from # writes
  BY <1>1 DEF Editing
<1>6. CASE total > 0
  <2> DEFINE k == [j EXCEPT !.pc = "page", !.total = total]
  <2>1. job' = [job EXCEPT ![h] = k] /\ shown' = shown
    BY <1>6 DEF Count, Becomes
  <2>2. /\ IsJob(k) /\ k.pc = "page" /\ k.op = j.op /\ k.list = j.list /\ k.page = j.page
        /\ k.word = j.word /\ k.asOf = j.asOf /\ k.from = j.from
        /\ k.screen = j.screen /\ k.lang = j.lang /\ k.total = total
    <3> HIDE DEF total
    <3> QED BY <1>1 DEF JobFits, IsJob
  <2>3. k.asOf = writes => k.total = Len(Items(k.list, active))
    <3> HIDE DEF k
    <3> QED BY <1>4, <2>2
  <2> HIDE DEF k, j, total
  <2>4. JobFits(k)
    BY <1>1, <1>3, <1>6, <2>2 DEF JobFits, PCs
  <2>5. Reading(k)
    BY <1>1, <2>2, <2>3 DEF Reading
  <2>6. Editing(k)
    BY <1>5, <2>2 DEF Editing
  <2> QED BY <1>1, <1>2, <2>1, <2>2, <2>4, <2>5, <2>6, GoesOn
<1>7. CASE ~ (total > 0) /\ j.list.kind = "mine" /\ j.list.of # "all"
  <2> DEFINE k == [j EXCEPT !.pc = "grand"]
  <2>1. job' = [job EXCEPT ![h] = k] /\ shown' = shown
    BY <1>7 DEF Count, Goes, Becomes
  <2>2. /\ JobFits(k) /\ k.pc = "grand" /\ k.op = j.op /\ k.list = j.list /\ k.word = j.word
        /\ k.lang = j.lang /\ k.asOf = j.asOf /\ k.from = j.from
    BY <1>1, <1>7, GoesFits, Zenon
  <2>3. k.asOf = writes => Items(k.list, active) = <<>>
    <3> HIDE DEF k
    <3> QED BY <1>3, <1>4, <1>7, <2>2
  <2> HIDE DEF k, j, total
  <2>4. Reading(k)
    BY <1>1, <2>2, <2>3 DEF Reading
  <2>5. Editing(k)
    BY <1>5, <2>2 DEF Editing
  <2> QED BY <1>1, <1>2, <2>1, <2>2, <2>4, <2>5, GoesOn
<1>8. CASE ~ (total > 0) /\ ~ (j.list.kind = "mine" /\ j.list.of # "all")
  <2> DEFINE f == j.list.kind = "history" /\ j.list.of # "all"
             s == Text(j, "empty", f)
  <2>1. Shows(h, s)
    BY <1>8 DEF Count
  <2>2. ScreenFits(s) /\ s.view = "empty" /\ s.list = j.list /\ s.filters = f
    <3> HIDE DEF f
    <3> QED BY <1>1, TextFits
  <2> HIDE DEF s
  <2>3. ASSUME j.asOf = writes PROVE Truthful(s)
    <3>1. Items(s.list, active) = <<>>
      <4> HIDE DEF j
      <4> QED BY <1>3, <1>4, <1>8, <2>2, <2>3
    <3>2. s.list.kind = "mine" => s.filters = (WithStatus(StatusesOf("all"), active) # {})
      <4> HIDE DEF j, total
      <4> SUFFICES ASSUME s.list.kind = "mine"
                   PROVE  s.filters = (WithStatus(StatusesOf("all"), active) # {})
        OBVIOUS
      <4>1. s.list \in Lists /\ s.list.of = "all" /\ s.filters = FALSE
        BY <1>1, <1>8, <2>2
      <4>2. WithStatus(StatusesOf("all"), active) = {}
        BY <3>1, <4>1, MineIs
      <4> QED BY <4>1, <4>2
    <3> QED BY <2>2, <3>1, <3>2 DEF Truthful, NoRows
  <2> HIDE DEF j
  <2> QED BY <1>2, <1>5, <2>1, <2>2, <2>3, Showing DEF j
<1> QED BY <1>6, <1>7, <1>8

LEMMA CountAllStep ==
  ASSUME ListInv, NEW h \in Handlers, CountAll(h)
  PROVE  ListInv'
<1> DEFINE j == job[h]
           f == WithStatus(StatusesOf("all"), j.lang) # {}
           s == Text(j, "empty", f)
<1>1. JobFits(j) /\ Reading(j) /\ Editing(j) /\ j.pc = "grand" /\ j.list.kind = "mine"
  BY PressIs DEF CountAll, JobFits
<1>2. UNCHANGED tables /\ Shows(h, s)
  BY DEF CountAll
<1>3. ScreenFits(s) /\ s.view = "empty" /\ s.list = j.list /\ s.filters = f
  <2> HIDE DEF f
  <2> QED BY <1>1, TextFits
<1> HIDE DEF s
<1>4. ASSUME j.asOf = writes PROVE Truthful(s)
  <2>1. Items(j.list, active) = <<>> /\ j.lang = active
    <3> HIDE DEF j
    <3> QED BY <1>1, <1>4 DEF Reading
  <2>2. s.filters = (WithStatus(StatusesOf("all"), active) # {})
    BY <1>3, <2>1
  <2> QED BY <1>3, <2>1, <2>2 DEF Truthful, NoRows
<1>5. j.op = "edit" => j.from # writes
  <2> HIDE DEF j
  <2> QED BY <1>1 DEF Editing
<1> QED BY <1>2, <1>3, <1>4, <1>5, Showing

LEMMA ReadPageStep ==
  ASSUME ListInv, NEW h \in Handlers, ReadPage(h)
  PROVE  ListInv'
<1> DEFINE j    == job[h]
           z    == PageSize[j.list.kind]
           page == Rows(Items(j.list, j.lang), z, PageOf(j))
           rows == [i \in DOMAIN page |-> [item |-> page[i], mark |-> Mark(j.list, page[i])]]
           s    == [ListScreen(j) EXCEPT !.rows = rows]
<1>1. JobFits(j) /\ j.asOf <= writes /\ j.from <= writes /\ Reading(j) /\ Editing(j)
      /\ j.pc = "page" /\ j.list \in Lists /\ j.total \in Nat \ {0} /\ j.page \in Nat
  BY PressIs DEF ReadPage, JobFits
<1>2. UNCHANGED tables
  BY DEF ReadPage
<1>3. j.op = "edit" => j.from # writes
  <2> HIDE DEF j
  <2> QED BY <1>1 DEF Editing
<1>4. /\ IsScreen(s) /\ s.view = "list" /\ s.list = j.list /\ s.page = PageOf(j)
      /\ s.pages = PageCount(j.total, z) /\ s.rows = rows /\ s.filters = TRUE /\ s.asOf = -1
  <2> HIDE DEF j, rows
  <2> QED BY DEF ListScreen, Screen, IsScreen
<1>5. z \in Nat \ {0} /\ s.pages \in Nat \ {0} /\ s.page \in Nat /\ s.page < s.pages
  <2> HIDE DEF j, s, z
  <2>1. z \in Nat \ {0}
    BY <1>1, ListsAre DEF z
  <2>2. s.pages \in Nat \ {0}
    BY <1>1, <1>4, <2>1, PagesAre
  <2>3. s.page = Clamp(j.page, s.pages)
    BY <1>4 DEF PageOf, z
  <2> QED BY <1>1, <2>1, <2>2, <2>3, ClampIs
<1>6. ScreenFits(s)
  <2> HIDE DEF j, s, z
  <2> QED BY <1>1, <1>4, <1>5 DEF ScreenFits
<1>7. s.rows = [i \in DOMAIN page |-> s.rows[i]] /\ \A i \in DOMAIN page : s.rows[i].item = page[i]
  <2> HIDE DEF s, page
  <2> QED BY <1>4
<1>8. ASSUME j.asOf = writes PROVE ListsPage(s)
  <2> HIDE DEF j, s, z, rows
  <2>1. Items(j.list, j.lang) = Items(j.list, active)
    BY <1>1, <1>8, OtherLanguage DEF Reading
  <2>2. j.total = Len(Items(j.list, active))
    BY <1>1, <1>8 DEF Reading
  <2>3. PageOfList(s) = page
    BY <1>4, <2>1 DEF PageOfList, z
  <2> HIDE DEF page
  <2>4. Len(Items(s.list, active)) = j.total /\ j.total > 0
    BY <1>1, <1>4, <2>2
  <2> QED BY <1>4, <1>5, <1>7, <2>3, <2>4 DEF ListsPage, z
<1>9. Marked(s)
  <2>1. j.list.kind # "history" =>
          \A i \in DOMAIN page : rows[i].item = page[i] /\ rows[i].mark = status[page[i]]
    <3> HIDE DEF j, page
    <3> QED BY DEF Mark
  <2>2. DOMAIN rows = DOMAIN page
    OBVIOUS
  <2> HIDE DEF s, rows, page
  <2> QED BY <1>4, <2>1, <2>2 DEF Marked
<1>10. CASE j.list.kind = "article"
  <2> DEFINE k == [j EXCEPT !.pc = "marks", !.screen = s]
  <2>1. job' = [job EXCEPT ![h] = k] /\ shown' = shown
    BY <1>10 DEF ReadPage, Becomes
  <2>2. /\ IsJob(k) /\ k.pc = "marks" /\ k.op = j.op /\ k.list = j.list /\ k.page = j.page
        /\ k.word = j.word /\ k.asOf = j.asOf /\ k.from = j.from
        /\ k.screen = s
    <3> HIDE DEF s
    <3> QED BY <1>1 DEF JobFits, IsJob
  <2> HIDE DEF k, s
  <2>3. JobFits(k)
    <3> HIDE DEF j
    <3> QED BY <1>1, <1>6, <1>10, <2>2 DEF JobFits, PCs
  <2>4. Reading(k)
    BY <1>4, <1>8, <2>2 DEF Reading
  <2>5. Editing(k)
    BY <1>3, <2>2 DEF Editing
  <2> HIDE DEF j
  <2> QED BY <1>1, <1>2, <2>1, <2>2, <2>3, <2>4, <2>5, GoesOn
<1>11. CASE j.list.kind # "article"
  <2>1. Shows(h, s)
    BY <1>11 DEF ReadPage
  <2> HIDE DEF s
  <2>2. j.asOf = writes => Truthful(s)
    BY <1>4, <1>8, <1>9 DEF Truthful
  <2> QED BY <1>2, <1>3, <1>6, <2>1, <2>2, Showing
<1> QED BY <1>10, <1>11

LEMMA ReadMarksStep ==
  ASSUME ListInv, NEW h \in Handlers, ReadMarks(h)
  PROVE  ListInv'
<1> DEFINE j == job[h]
           s == j.screen
           rows == [i \in DOMAIN s.rows |->
                      [item |-> s.rows[i].item, mark |-> status[s.rows[i].item]]]
           r == [s EXCEPT !.rows = rows]
<1>1. JobFits(j) /\ Reading(j) /\ Editing(j) /\ j.pc = "marks" /\ ScreenFits(s)
  BY PressIs DEF ReadMarks, JobFits
<1>2. UNCHANGED tables /\ Shows(h, r)
  <2>1. rows = [i \in DOMAIN s.rows |->
                  [item |-> s.rows[i].item, mark |-> status[s.rows[i].item]]]
    OBVIOUS
  <2>2. Shows(h, [s EXCEPT !.rows = [i \in DOMAIN @ |->
                                       [item |-> @[i].item, mark |-> status[@[i].item]]]])
    BY DEF ReadMarks
  <2>3. IsScreen(s)
    BY <1>1 DEF ScreenFits
  <2>4. [s EXCEPT !.rows = [i \in DOMAIN @ |->
                              [item |-> @[i].item, mark |-> status[@[i].item]]]] = r
    BY <2>3 DEF IsScreen
  <2> HIDE DEF r
  <2> QED BY <2>2, <2>4 DEF ReadMarks
<1>3. /\ IsScreen(r) /\ r.view = s.view /\ r.list = s.list /\ r.page = s.page
      /\ r.pages = s.pages /\ r.rows = rows /\ r.filters = s.filters /\ r.asOf = s.asOf
  <2> HIDE DEF s, rows
  <2> QED BY <1>1 DEF ScreenFits, IsScreen
<1>4. j.op = "edit" => j.from # writes
  <2> HIDE DEF j
  <2> QED BY <1>1 DEF Editing
<1>5. /\ DOMAIN rows = DOMAIN s.rows
      /\ \A i \in DOMAIN s.rows : /\ rows[i].item = s.rows[i].item
                                  /\ rows[i].mark = status[rows[i].item]
  <2> HIDE DEF s
  <2> QED OBVIOUS
<1>6. Marked(r)
  <2> HIDE DEF rows, r, s
  <2> QED BY <1>3, <1>5 DEF Marked
<1>7. ASSUME j.asOf = writes PROVE Truthful(r)
  <2>1. s.view = "list" /\ ListsPage(s)
    <3> HIDE DEF j
    <3> QED BY <1>1, <1>7 DEF Reading
  <2>2. PageOfList(r) = PageOfList(s)
    <3> HIDE DEF r, s
    <3> QED BY <1>3 DEF PageOfList
  <2>3. rows = [i \in DOMAIN s.rows |-> rows[i]]
    OBVIOUS
  <2>4. DOMAIN s.rows = DOMAIN PageOfList(s)
    <3> HIDE DEF s
    <3> QED BY <2>1 DEF ListsPage
  <2> HIDE DEF rows, r, s
  <2>5. ListsPage(r)
    BY <1>3, <1>5, <2>1, <2>2, <2>3, <2>4 DEF ListsPage
  <2> QED BY <1>3, <1>6, <2>1, <2>5 DEF Truthful
<1>8. ScreenFits(r)
  <2> HIDE DEF rows, r, s
  <2> QED BY <1>1, <1>3 DEF ScreenFits
<1> HIDE DEF r
<1> QED BY <1>2, <1>4, <1>7, <1>8, Showing

LEMMA FailsStep ==
  ASSUME ListInv, NEW h \in Handlers, Fails(h)
  PROVE  ListInv'
<1> DEFINE j == job[h]
<1>1. JobFits(j) /\ Editing(j)
  BY PressIs
<1>2. UNCHANGED tables
  BY DEF Fails
<1>3. CASE Returns(h)
  BY <1>2, <1>3, Returning
<1>4. ASSUME NEW v, v \notin {"list", "empty"}, Shows(h, Text(j, v, FALSE)),
             v = "no language" \/ j.pc \in {"count", "grand", "page"}
      PROVE  ListInv'
  <2> DEFINE f == FALSE
             s == Text(j, v, f)
  <2>1. ScreenFits(s) /\ s.view = v
    <3> HIDE DEF f
    <3>1. JobFits(j)
      BY <1>1
    <3> HIDE DEF j
    <3> QED BY <3>1, TextFits
  <2>2. Shows(h, s)
    BY <1>4
  <2> HIDE DEF s
  <2>3. Truthful(s)
    BY <1>4, <2>1 DEF Truthful
  <2>4. v # "no language" /\ j.op = "edit" => j.from # writes
    <3> HIDE DEF j
    <3> QED BY <1>1, <1>4 DEF Editing
  <2> QED BY <1>2, <2>1, <2>2, <2>3, <2>4, Showing
<1>5. \/ Shows(h, Text(j, "error", FALSE)) /\ j.pc \in {"count", "grand", "page"}
      \/ Shows(h, Text(j, "no language", FALSE))
      \/ Returns(h)
  BY Zenon DEF Fails
<1>6. CASE Shows(h, Text(j, "error", FALSE)) /\ j.pc \in {"count", "grand", "page"}
  <2> HIDE DEF j
  <2> QED BY <1>4, <1>6, Zenon
<1>7. CASE Shows(h, Text(j, "no language", FALSE))
  <2> DEFINE v == "no language"
  <2>1. Shows(h, Text(j, v, FALSE))
    BY <1>7
  <2>2. v \notin {"list", "empty"} /\ (v = "no language" \/ j.pc \in {"count", "grand", "page"})
    OBVIOUS
  <2> HIDE DEF v, j
  <2> QED BY <1>4, <2>1, <2>2
<1> QED BY <1>3, <1>5, <1>6, <1>7

LEMMA WriteScreenStep ==
  ASSUME ListInv, NEW h \in Handlers, WriteScreen(h)
  PROVE  ListInv'
<1> DEFINE j == job[h]
           s == [j.screen EXCEPT !.asOf = j.asOf]
           k == j.list.kind
<1>1. JobFits(j) /\ j.asOf <= writes /\ Reading(j) /\ j.pc = "write" /\ ScreenFits(j.screen)
      /\ k \in Kinds /\ j.asOf \in Int
  BY PressIs, ListsAre DEF WriteScreen, JobFits
<1>2. UNCHANGED <<status, active, analysed, writes>> /\ Typed
  BY DEF WriteScreen, tables, ListInv
<1>3. shown' = [shown EXCEPT ![k] = s] /\ job' = [job EXCEPT ![h] = Idle]
  BY DEF WriteScreen
<1>4. /\ IsScreen(s) /\ s.view = j.screen.view /\ s.list = j.screen.list
      /\ s.page = j.screen.page /\ s.pages = j.screen.pages /\ s.rows = j.screen.rows
      /\ s.filters = j.screen.filters /\ s.asOf = j.asOf
  <2> HIDE DEF j
  <2> QED BY <1>1 DEF ScreenFits, IsScreen
<1> HIDE DEF j, s, k
<1>5. ScreenFits(s)
  BY <1>1, <1>4 DEF ScreenFits
<1>6. ASSUME s.asOf = writes PROVE Truthful(s)
  <2>1. Truthful(j.screen)
    BY <1>1, <1>4, <1>6 DEF Reading
  <2>2. PageOfList(s) = PageOfList(j.screen)
    BY <1>4 DEF PageOfList
  <2>3. Marked(s) <=> Marked(j.screen)
    BY <1>4 DEF Marked
  <2>4. NoRows(s) <=> NoRows(j.screen)
    BY <1>4 DEF NoRows
  <2>5. ListsPage(s) <=> ListsPage(j.screen)
    BY <1>4, <2>2 DEF ListsPage
  <2> QED BY <1>4, <2>1, <2>3, <2>4, <2>5 DEF Truthful
<1>7. \A i \in Kinds : shown'[i] = IF i = k THEN s ELSE shown[i]
  BY <1>2, <1>3 DEF Typed
<1>8. \A g \in Handlers : job'[g] = IF g = h THEN Idle ELSE job[g]
  BY <1>2, <1>3 DEF Typed
<1>9. Typed'
  <2>1. \A i \in Kinds : ScreenFits(shown'[i]) /\ shown'[i].asOf <= writes'
    BY <1>1, <1>2, <1>4, <1>5, <1>7 DEF Typed
  <2>2. \A g \in Handlers : JobFits(job'[g]) /\ job'[g].asOf <= writes' /\ job'[g].from <= writes'
    <3>1. JobFits(Idle) /\ Idle.asOf <= writes /\ Idle.from <= writes
      <4>1. JobFits(Idle) /\ Idle.asOf = -1 /\ Idle.from = -1 /\ writes \in Nat
        BY <1>2, IdleIs DEF Typed
      <4> QED BY <4>1
    <3> QED BY <1>2, <1>8, <3>1 DEF Typed
  <2>3. shown' = [i \in Kinds |-> shown'[i]] /\ job' = [g \in Handlers |-> job'[g]]
    BY <1>2, <1>3 DEF Typed
  <2> QED BY <1>2, <2>1, <2>2, <2>3 DEF Typed
<1>10. \A i \in Kinds : \A x \in {shown'[i]} : x.asOf = writes' => Truthful(x)'
  <2> SUFFICES ASSUME NEW i \in Kinds, NEW x, x = shown'[i], x.asOf = writes PROVE Truthful(x)'
    BY <1>2
  <2>1. Truthful(x)
    BY <1>6, <1>7 DEF ListInv
  <2> QED BY <1>2, <2>1, TablesStay
<1>11. \A g \in Handlers : \A x \in {job'[g]} : Reading(x)' /\ Editing(x)'
  <2> SUFFICES ASSUME NEW g \in Handlers, NEW x, x = job'[g] PROVE Reading(x)' /\ Editing(x)'
    OBVIOUS
  <2>1. CASE x = Idle
    <3>1. Idle.asOf # writes /\ Idle.op = "open"
      <4>1. Idle.asOf = -1 /\ writes \in Nat
        BY <1>2, IdleIs DEF Typed
      <4> QED BY <4>1, IdleIs
    <3>2. Reading(x) /\ Editing(x)
      BY <2>1, <3>1 DEF Reading, Editing
    <3> QED BY <1>2, <3>2, TablesStay
  <2>2. CASE x = job[g]
    <3>1. Reading(x) /\ Editing(x)
      BY <2>2 DEF ListInv
    <3> QED BY <1>2, <3>1, TablesStay
  <2> QED BY <1>8, <2>1, <2>2
<1> QED BY <1>9, <1>10, <1>11 DEF ListInv

LEMMA SetStatusStep ==
  ASSUME ListInv, NEW h \in Handlers, SetStatus(h)
  PROVE  ListInv'
<1> DEFINE j  == job[h]
           step == FirstStep(Open(j.list, j.page))
           at == IF j.asOf = writes THEN writes' ELSE j.asOf
           k  == [j EXCEPT !.pc = step, !.op = "open", !.asOf = at]
<1>1. JobFits(j) /\ j.asOf <= writes /\ j.from <= writes /\ writes \in Nat /\ j.list \in Lists
      /\ j.asOf \in Int /\ j.from \in Int /\ analysed \in Seq(Articles) /\ Typed
  BY PressIs DEF JobFits, ListInv
<1>2. analysed' = analysed /\ writes' = writes + 1
  BY DEF SetStatus, Write
<1>3. job' = [job EXCEPT ![h] = k] /\ shown' = shown
  <2>1. [j EXCEPT !.pc = step, !.op = "open", !.asOf = IF @ = writes THEN writes' ELSE @] = k
    OBVIOUS
  <2>2. Becomes(h, [j EXCEPT !.pc = step, !.op = "open",
                             !.asOf = IF @ = writes THEN writes' ELSE @])
    BY DEF SetStatus
  <2> HIDE DEF k
  <2> QED BY <2>1, <2>2 DEF Becomes
<1>4. step \in {"language", "own", "count"} /\ (j.list.kind = "mine" => step = "language")
      /\ (step = "own" => j.list.kind = "article") /\ (step = "language" => j.list.kind = "mine")
  <2> DEFINE b == Open(j.list, j.page)
  <2>1. b.list = j.list /\ b.op = "open"
    BY DEF Open, Press
  <2> HIDE DEF b, j
  <2>2. /\ j.list.kind = "mine" => FirstStep(b) = "language"
        /\ j.list.kind = "article" => FirstStep(b) = "own"
        /\ j.list.kind = "history" => FirstStep(b) = "count"
        /\ j.list.kind \in Kinds
    BY <1>1, <2>1, FirstStepIs
  <2> QED BY <2>2 DEF b, Kinds
<1>5. at \in Int /\ at <= writes' /\ j.from <= writes' /\ at # writes
      /\ (at = writes' => j.asOf = writes)
  <2> HIDE DEF j
  <2> QED BY <1>1, <1>2
<1>6. /\ IsJob(k) /\ k.pc = step /\ k.op = "open" /\ k.list = j.list /\ k.page = j.page
      /\ k.asOf = at /\ k.from = j.from /\ k.screen = j.screen
  <2> HIDE DEF step, at
  <2> QED BY <1>1 DEF JobFits, IsJob
<1> HIDE DEF k, at, step
<1>7. JobFits(k)
  <2> HIDE DEF j
  <2> QED BY <1>1, <1>4, <1>5, <1>6 DEF JobFits, PCs
<1>8. Typed'
  <2>1. k.asOf <= writes' /\ k.from <= writes'
    BY <1>5, <1>6
  <2>2. analysed' \in Seq(Articles) /\ writes' \in {writes, writes + 1}
    BY <1>1, <1>2
  <2> QED BY <1>1, <1>3, <1>7, <2>1, <2>2, JobFitsIn
<1>9. \A i \in Kinds : \A x \in {shown'[i]} : x.asOf = writes' => Truthful(x)'
  <2> SUFFICES ASSUME NEW i \in Kinds PROVE shown[i].asOf # writes'
    BY <1>3
  <2>1. shown[i].asOf <= writes /\ ScreenFits(shown[i])
    BY <1>1 DEF Typed
  <2> QED BY <1>1, <1>2, <2>1 DEF ScreenFits
<1>10. \A g \in Handlers : \A x \in {job'[g]} : Reading(x)' /\ Editing(x)'
  <2> SUFFICES ASSUME NEW g \in Handlers, NEW x, x = job'[g] PROVE Reading(x)' /\ Editing(x)'
    OBVIOUS
  <2>1. CASE g = h
    <3>1. x = k
      BY <1>1, <1>3, <2>1 DEF Typed
    <3>2. Editing(x)'
      BY <1>6, <3>1 DEF Editing
    <3>3. Reading(x)'
      BY <1>4, <1>6, <3>1 DEF Reading
    <3> QED BY <3>2, <3>3
  <2>2. CASE g # h
    <3>1. x = job[g]
      BY <1>1, <1>3, <2>2 DEF Typed
    <3>2. x.asOf <= writes /\ x.from <= writes /\ JobFits(x)
      BY <1>1, <3>1 DEF Typed
    <3>3. x.asOf # writes' /\ x.from # writes'
      BY <1>1, <1>2, <3>2 DEF JobFits
    <3> QED BY <3>3 DEF Reading, Editing
  <2> QED BY <2>1, <2>2
<1> QED BY <1>8, <1>9, <1>10 DEF ListInv

LEMMA CloseStep ==
  ASSUME ListInv, NEW k \in Kinds, Close(k)
  PROVE  ListInv'
<1>1. UNCHANGED <<status, active, analysed, writes>> /\ Typed /\ writes \in Nat /\ job' = job
  BY DEF Close, tables, ListInv, Typed
<1>2. \A i \in Kinds : shown'[i] = IF i = k THEN Screen ELSE shown[i]
  BY <1>1 DEF Close, Typed
<1>3. Screen.asOf <= writes /\ Screen.asOf # writes
  <2>1. Screen.asOf = -1
    BY ScreenIs
  <2> QED BY <1>1, <2>1
<1>4. Typed'
  <2>1. \A i \in Kinds : ScreenFits(shown'[i]) /\ shown'[i].asOf <= writes'
    BY <1>1, <1>2, <1>3, ScreenIs DEF Typed
  <2>2. shown' = [i \in Kinds |-> shown'[i]]
    BY <1>1 DEF Close, Typed
  <2> QED BY <1>1, <2>1, <2>2 DEF Typed
<1>5. \A i \in Kinds : \A x \in {shown'[i]} : x.asOf = writes' => Truthful(x)'
  <2> SUFFICES ASSUME NEW i \in Kinds, NEW x, x = shown'[i], x.asOf = writes PROVE Truthful(x)'
    BY <1>1
  <2>1. Truthful(x)
    BY <1>2, <1>3 DEF ListInv
  <2> QED BY <1>1, <2>1, TablesStay
<1>6. \A g \in Handlers : \A x \in {job'[g]} : Reading(x)' /\ Editing(x)'
  BY <1>1, TablesStay DEF ListInv
<1> QED BY <1>4, <1>5, <1>6 DEF ListInv

LEMMA ListsBegin == WordsInit => ListInv
<1> SUFFICES ASSUME WordsInit PROVE ListInv
  OBVIOUS
<1>1. writes = 0 /\ analysed \in Seq(Articles) /\ ListInit
  BY VocabularyAssumption DEF WordsInit
<1>2. Typed
  BY <1>1, ScreenIs, IdleIs DEF ListInit, Typed
<1>3. \A k \in Kinds : shown[k].asOf # writes
  BY <1>1, ScreenIs DEF ListInit
<1>4. Reading(Idle) /\ Editing(Idle)
  BY <1>1, IdleIs DEF Reading, Editing
<1> QED BY <1>1, <1>2, <1>3, <1>4 DEF ListInv, ListInit

\* The steps that leave the lists alone.
LEMMA OtherStep ==
  ASSUME ListInv, UNCHANGED <<shown, job>>,
         \/ UNCHANGED <<status, active, analysed, writes>>
         \/ writes' = writes + 1 /\ analysed' \in Seq(Articles)
  PROVE  ListInv'
<1>1. Typed
  BY DEF ListInv
<1>2. CASE UNCHANGED <<status, active, analysed, writes>>
  <2>1. Typed'
    BY <1>1, <1>2 DEF Typed
  <2>2. \A k \in Kinds : \A x \in {shown'[k]} : x.asOf = writes' => Truthful(x)'
    BY <1>2, TablesStay DEF ListInv
  <2>3. \A g \in Handlers : \A x \in {job'[g]} : Reading(x)' /\ Editing(x)'
    BY <1>2, TablesStay DEF ListInv
  <2> QED BY <2>1, <2>2, <2>3 DEF ListInv
<1>3. CASE writes' = writes + 1 /\ analysed' \in Seq(Articles)
  BY <1>1, <1>3, AllStale
<1> QED BY <1>2, <1>3

LEMMA ListsStep == ListInv /\ [WordsNext]_wordsVars => ListInv'
<1> SUFFICES ASSUME ListInv, [WordsNext]_wordsVars PROVE ListInv'
  OBVIOUS
<1>0. analysed \in Seq(Articles)
  BY DEF ListInv, Typed
<1>1. ASSUME NEW h \in Handlers, ListStep(h) PROVE ListInv'
  BY <1>1, TakeStep, ReadCurrentStep, ReadLanguageStep, FindStep, CheckOwnerStep, SetStatusStep,
     CountStep, CountAllStep, ReadPageStep, ReadMarksStep, WriteScreenStep, FailsStep DEF ListStep
<1>2. ASSUME NEW k \in Kinds, Close(k) PROVE ListInv'
  BY <1>2, CloseStep
<1>3. ASSUME DeckStep, UNCHANGED listVars PROVE ListInv'
  <2>1. UNCHANGED tables \/ (writes' = writes + 1 /\ analysed' = analysed)
    BY <1>3 DEF DeckStep, Deal, ReadQueue, ReadSamples, MakeCard, StartRound, DealFails,
       AnswerRight, AnswerWrong, SkipCard, DeleteCard, EndRound, Answered, Write
  <2> QED BY <1>0, <1>3, <2>1, OtherStep DEF listVars, tables
<1>4. ASSUME Elsewhere PROVE ListInv'
  <2>1. CASE \E a \in Articles : Analyse(a)
    <3>1. PICK a \in Articles : Analyse(a)
      BY <2>1
    <3>2. analysed' \in Seq(Articles) /\ writes' = writes + 1
      BY <1>0, <3>1 DEF Analyse, Write
    <3> QED BY <1>4, <3>2, OtherStep DEF Elsewhere, listVars
  <2>2. CASE \E l \in Languages \cup {NoLanguage} : SwitchLanguage(l)
    <3>1. analysed' \in Seq(Articles) /\ writes' = writes + 1
      BY <1>0, <2>2 DEF SwitchLanguage, Write
    <3> QED BY <1>4, <3>1, OtherStep DEF Elsewhere, listVars
  <2>3. CASE Tick
    BY <1>4, <2>3, OtherStep DEF Elsewhere, Tick, listVars
  <2> QED BY <1>4, <2>1, <2>2, <2>3 DEF Elsewhere
<1>5. CASE UNCHANGED wordsVars
  BY <1>5, OtherStep DEF wordsVars, tables, listVars
<1> QED BY <1>1, <1>2, <1>3, <1>4, <1>5 DEF WordsNext

LEMMA ListsKeep == WordsSpec => []ListInv
<1>1. WordsInit => ListInv
  BY ListsBegin
<1>2. ListInv /\ [WordsNext]_wordsVars => ListInv'
  BY ListsStep
<1> QED BY <1>1, <1>2, PTL DEF WordsSpec

\* The row one sees is the row one opens: while the tables stay as they were
\* when a list was read, the button of a word leads to its editor, whoever
\* else presses what meanwhile.  mywords.go:210.
THEOREM RowsOpen == WordsSpec => []RowOpens
<1>1. ListInv => RowOpens
  <2> SUFFICES ASSUME ListInv, NEW h \in Handlers, NEW j, j = job[h],
                      j.pc = "write", j.op = "edit", j.from = writes,
                      j.screen.view \in {"edit", "list", "empty"}
               PROVE  /\ j.screen.view = "edit" /\ j.screen.word = j.word
                      /\ j.screen.mark = status[j.word]
    BY DEF RowOpens
  <2>1. Editing(j)
    BY PressIs
  <2> QED BY <2>1 DEF Editing
<1> QED BY <1>1, ListsKeep, PTL

\* Whatever stale button was pressed, the list a press brings up is a page
\* of the list as it is, with the buttons to the pages next to it, and it is
\* said to be empty only when it is.  mywords.go:321, words.go:166,
\* history.go:183.
THEOREM ListsAreTrue == WordsSpec => []ListTrue
<1>1. ListInv => ListTrue
  <2> SUFFICES ASSUME ListInv, NEW h \in Handlers, Undisturbed(h), NEW s, s = job[h].screen
               PROVE  LET now    == Items(s.list, active)
                          Before == s.page * PageSize[s.list.kind] IN
                      /\ s.view = "list" =>
                           /\ s.rows # <<>>
                           /\ \A i \in DOMAIN s.rows :
                                /\ Before + i <= Len(now) /\ s.rows[i].item = now[Before + i]
                                /\ s.list.kind # "history" =>
                                     s.rows[i].mark = status[s.rows[i].item]
                           /\ LeadsTo(s, s.page + 1) <=> Before + Len(s.rows) < Len(now)
                           /\ LeadsTo(s, s.page - 1) <=> Before > 0
                      /\ s.view = "empty" =>
                           /\ now = <<>>
                           /\ s.list.kind = "mine" =>
                                (s.filters <=> \E f \in Filters :
                                                 Items([s.list EXCEPT !.of = f], active) # <<>>)
    BY Zenon DEF ListTrue
  <2>1. Truthful(s) /\ ScreenFits(s) /\ analysed \in Seq(Articles)
    BY PressIs DEF Undisturbed, Reading, JobFits
  <2>2. ASSUME s.view = "list"
        PROVE  LET now    == Items(s.list, active)
                   Before == s.page * PageSize[s.list.kind] IN
               /\ s.rows # <<>>
               /\ \A i \in DOMAIN s.rows :
                    Before + i <= Len(now) /\ s.rows[i].item = now[Before + i]
               /\ LeadsTo(s, s.page + 1) <=> Before + Len(s.rows) < Len(now)
               /\ LeadsTo(s, s.page - 1) <=> Before > 0
    <3>1. ListsPage(s)
      BY <2>1, <2>2 DEF Truthful
    <3> QED BY <2>1, <2>2, <3>1, PageShown
  <2>3. s.view = "list" /\ s.list.kind # "history" =>
          \A i \in DOMAIN s.rows : s.rows[i].mark = status[s.rows[i].item]
    BY <2>1 DEF Truthful, Marked
  <2>4. s.view = "empty" =>
          /\ Items(s.list, active) = <<>>
          /\ s.list.kind = "mine" =>
               (s.filters <=> \E f \in Filters : Items([s.list EXCEPT !.of = f], active) # <<>>)
    BY <2>1, EmptyShown DEF Truthful, NoRows
  <2> QED BY <2>2, <2>3, <2>4
<1> QED BY <1>1, ListsKeep, PTL

-----------------------------------------------------------------------------
(* The decks.                                                              *)

LEMMA ImageFinite ==
  ASSUME NEW S, IsFiniteSet(S), NEW f
  PROVE  IsFiniteSet({f[x] : x \in S})
<1> DEFINE T == {f[x] : x \in S}
           g == [x \in S |-> f[x]]
<1>1. g \in Surjection(S, T)
  BY DEF Surjection
<1> HIDE DEF g, T
<1>2. IsFiniteSet(T)
  BY <1>1, FS_Surjection
<1> QED BY <1>2 DEF T

LEMMA ToSetFinite ==
  ASSUME NEW s, s \in Seq(ToSet(s))
  PROVE  IsFiniteSet(ToSet(s))
<1>1. DOMAIN s = 1 .. Len(s) /\ Len(s) \in Nat
  OBVIOUS
<1>2. IsFiniteSet(DOMAIN s)
  BY <1>1, FS_Interval
<1>3. ToSet(s) = {s[i] : i \in DOMAIN s}
  BY DEF ToSet
<1>4. IsFiniteSet({s[i] : i \in DOMAIN s})
  BY <1>2, ImageFinite
<1> QED BY <1>3, <1>4

LEMMA RowsFinite ==
  ASSUME analysed \in Seq(Articles)
  PROVE  IsFiniteSet(RowsOf(ToSet(analysed)))
<1> DEFINE as == ToSet(analysed)
           R  == {ToSet(WordsOf[a]) : a \in as}
           g  == [a \in as |-> ToSet(WordsOf[a])]
<1>1. IsFiniteSet(as)
  <2>1. analysed \in Seq(ToSet(analysed))
    <3>1. /\ analysed = [i \in 1 .. Len(analysed) |-> analysed[i]]
          /\ Len(analysed) \in Nat
      OBVIOUS
    <3>2. ToSet(analysed) = {analysed[i] : i \in 1 .. Len(analysed)}
      BY DEF ToSet
    <3> QED BY <3>1, <3>2, ListIs
  <2> QED BY <2>1, ToSetFinite
<1>2. \A a \in as : a \in Articles
  BY DEF ToSet
<1>3. IsFiniteSet(R)
  <2>1. {g[a] : a \in as} = R
    OBVIOUS
  <2> HIDE DEF g, R, as
  <2> QED BY <1>1, <2>1, ImageFinite
<1>4. \A T \in R : IsFiniteSet(T)
  <2> SUFFICES ASSUME NEW a \in as PROVE IsFiniteSet(ToSet(WordsOf[a]))
    OBVIOUS
  <2>1. WordsOf[a] \in Seq(ToSet(WordsOf[a]))
    BY <1>2, WordTableAssumption
  <2> QED BY <2>1, ToSetFinite
<1>5. RowsOf(as) = UNION R
  BY DEF RowsOf
<1> HIDE DEF R, as
<1>6. IsFiniteSet(UNION R)
  BY <1>3, <1>4, FS_UNION
<1> QED BY <1>5, <1>6 DEF as

LEMMA PoolsFinite ==
  ASSUME analysed \in Seq(Articles), NEW w, NEW ws \in SUBSET Words
  PROVE  IsFiniteSet(GlossPool(w, ws)) /\ IsFiniteSet(LemmaPool(w, ws))
<1>1. IsFiniteSet(LemmaPool(w, ws))
  <2>1. IsFiniteSet(ws \ {w})
    BY WordTableAssumption, FS_Subset
  <2>2. IsFiniteSet({Lemma[v] : v \in ws \ {w}})
    BY <2>1, ImageFinite
  <2> QED BY <2>2 DEF LemmaPool
<1>2. IsFiniteSet(GlossPool(w, ws))
  <2> DEFINE S == {x \in RowsOf(ToSet(analysed)) : x.word \in ws \ {w}}
             g == [r \in S |-> r.gloss]
             T == {r.gloss : r \in S}
  <2>1. IsFiniteSet(S)
    <3>1. S \in SUBSET RowsOf(ToSet(analysed))
      OBVIOUS
    <3> HIDE DEF S
    <3> QED BY <3>1, RowsFinite, FS_Subset
  <2>2. IsFiniteSet({g[r] : r \in S})
    <3> HIDE DEF S, g
    <3> QED BY <2>1, ImageFinite
  <2>3. {g[r] : r \in S} = T
    <3> HIDE DEF S
    <3> QED OBVIOUS
  <2>4. GlossPool(w, ws) = T \ {NoGloss}
    BY DEF GlossPool
  <2>5. T \ {NoGloss} \in SUBSET T
    OBVIOUS
  <2> HIDE DEF T, g, S
  <2> QED BY <2>2, <2>3, <2>4, <2>5, FS_Subset
<1> QED BY <1>1, <1>2

\* What a pick of a pool has.
LEMMA PickIs ==
  ASSUME NEW pool, IsFiniteSet(pool), NEW taken, NEW n \in Nat, NEW S \in Pick(pool, taken, n)
  PROVE  /\ IsFiniteSet(S) /\ Cardinality(S) \in Nat /\ Cardinality(S) <= n
         /\ IsFiniteSet({Fold[x] : x \in S})
         /\ Cardinality({Fold[x] : x \in S}) = Cardinality(S)
         /\ {Fold[x] : x \in S} \cap {Fold[x] : x \in taken} = {}
<1> DEFINE F == {Fold[x] : x \in pool}
           U == {Fold[x] : x \in taken}
           keys == F \ U
           enough == IF Cardinality(keys) < n THEN Cardinality(keys) ELSE n
<1>1. /\ S \subseteq {x \in pool : Fold[x] \in keys} /\ Cardinality(S) = enough
      /\ Cardinality({Fold[x] : x \in S}) = Cardinality(S)
  BY DEF Pick
<1>2. IsFiniteSet(S)
  BY <1>1, FS_Subset
<1>3. Cardinality(keys) \in Nat
  <2>1. IsFiniteSet(F)
    BY ImageFinite
  <2>2. keys \in SUBSET F
    OBVIOUS
  <2> HIDE DEF F, keys
  <2> QED BY <2>1, <2>2, FS_Subset, FS_CardinalityType
<1>4. {Fold[x] : x \in S} \cap U = {}
  BY <1>1
<1>5. IsFiniteSet({Fold[x] : x \in S})
  BY <1>2, ImageFinite
<1>6. Cardinality(S) \in Nat /\ Cardinality(S) <= n
  <2> HIDE DEF keys
  <2> QED BY <1>1, <1>3
<1> QED BY <1>1, <1>2, <1>4, <1>5, <1>6

\* Enough wrong answers of one word leave nothing to take one answer for
\* another.
LEMMA DistractorsSound ==
  ASSUME NEW own, IsFiniteSet(own), NEW all, IsFiniteSet(all), NEW right,
         NEW S \in Distractors(right, own, all),
         NEW wrong, wrong \subseteq S, Cardinality(wrong) >= Wrong
  PROVE  Cardinality({Fold[x] : x \in wrong \cup {right}}) = 1 + Wrong
<1>1. Wrong \in Nat
  BY DecksAssumption
<1>2. PICK A \in Pick(own, {right}, Wrong) :
        \E T \in Pick(all, {right} \cup A, Wrong - Cardinality(A)) : S = A \cup T
  BY DEF Distractors
<1>3. PICK T \in Pick(all, {right} \cup A, Wrong - Cardinality(A)) : S = A \cup T
  BY <1>2
<1> DEFINE FA == {Fold[x] : x \in A}
           FT == {Fold[x] : x \in T}
           F0 == {Fold[x] : x \in {right}}
           F1 == {Fold[x] : x \in {right} \cup A}
           n  == Wrong - Cardinality(A)
<1>4. /\ IsFiniteSet(A) /\ Cardinality(A) \in Nat /\ Cardinality(A) <= Wrong
      /\ IsFiniteSet(FA) /\ Cardinality(FA) = Cardinality(A) /\ FA \cap F0 = {}
  BY <1>1, PickIs
<1>5. n \in Nat
  BY <1>1, <1>4
<1>6. /\ IsFiniteSet(T) /\ Cardinality(T) \in Nat /\ Cardinality(T) <= n
      /\ IsFiniteSet(FT) /\ Cardinality(FT) = Cardinality(T) /\ FT \cap F1 = {}
  <2> HIDE DEF n
  <2>1. T \in Pick(all, {right} \cup A, n)
    BY DEF n
  <2> DEFINE taken == {right} \cup A
  <2>2. T \in Pick(all, taken, n)
    BY <2>1
  <2> HIDE DEF taken
  <2>3. /\ IsFiniteSet(T) /\ Cardinality(T) \in Nat /\ Cardinality(T) <= n
        /\ IsFiniteSet(FT) /\ Cardinality(FT) = Cardinality(T)
        /\ FT \cap {Fold[x] : x \in taken} = {}
    BY <1>5, <2>2, PickIs
  <2>4. F1 = {Fold[x] : x \in taken}
    BY DEF taken
  <2> HIDE DEF F1, FT
  <2> QED BY <2>3, <2>4
<1>7. IsFiniteSet(S) /\ Cardinality(S) <= Cardinality(A) + Cardinality(T) /\ Cardinality(S) \in Nat
  <2>1. A \cap T \in SUBSET A
    OBVIOUS
  <2>2. IsFiniteSet(A \cap T) /\ Cardinality(A \cap T) \in Nat
    BY <1>4, <2>1, FS_Subset, FS_CardinalityType
  <2>3. /\ IsFiniteSet(A \cup T)
        /\ Cardinality(A \cup T) = Cardinality(A) + Cardinality(T) - Cardinality(A \cap T)
    BY <1>4, <1>6, FS_Union
  <2>4. Cardinality(A \cup T) \in Nat
    BY <2>3, FS_CardinalityType
  <2> QED BY <1>3, <1>4, <1>6, <2>2, <2>3, <2>4
<1>8. IsFiniteSet(wrong) /\ Cardinality(wrong) <= Cardinality(S) /\ Cardinality(wrong) \in Nat
      /\ (Cardinality(S) = Cardinality(wrong) => S = wrong)
  BY <1>7, FS_Subset, FS_CardinalityType
<1>9. Cardinality(A) + Cardinality(T) = Wrong /\ wrong = S
  <2> HIDE DEF FA, FT, F0, F1
  <2> QED BY <1>1, <1>4, <1>6, <1>7, <1>8
<1>10. {Fold[x] : x \in wrong \cup {right}} = (FA \cup FT) \cup {Fold[right]}
  BY <1>3, <1>9
<1>11. FA \cap FT = {} /\ Fold[right] \notin FA \cup FT
  <2>1. FA \subseteq F1 /\ Fold[right] \in F1 /\ Fold[right] \in F0
    OBVIOUS
  <2> HIDE DEF FA, FT, F0, F1
  <2> QED BY <1>4, <1>6, <2>1
<1> HIDE DEF FA, FT
<1>12. IsFiniteSet(FA \cup FT) /\ Cardinality(FA \cup FT) = Wrong
  <2>1. Cardinality({}) = 0
    BY FS_EmptySet
  <2>2. IsFiniteSet(FA \cup FT)
        /\ Cardinality(FA \cup FT) = Cardinality(FA) + Cardinality(FT) - Cardinality(FA \cap FT)
    BY <1>4, <1>6, FS_Union
  <2>3. FA \cap FT = {}
    BY <1>11
  <2>4. Cardinality(FA \cap FT) = 0
    BY <2>1, <2>3
  <2>5. /\ Cardinality(FA) = Cardinality(A) /\ Cardinality(FT) = Cardinality(T)
        /\ Cardinality(A) \in Nat /\ Cardinality(T) \in Nat
    BY <1>4, <1>6
  <2> QED BY <1>9, <2>2, <2>4, <2>5
<1>13. Cardinality((FA \cup FT) \cup {Fold[right]}) = Wrong + 1
  BY <1>11, <1>12, FS_AddElement
<1> QED BY <1>1, <1>10, <1>13

LEMMA Appended ==
  ASSUME NEW s, s \in Seq(ToSet(s)), NEW c
  PROVE  /\ Append(s, c) \in Seq(ToSet(Append(s, c)))
         /\ ToSet(Append(s, c)) = ToSet(s) \cup {c}
<1> DEFINE T == ToSet(s) \cup {c}
           t == Append(s, c)
<1>1. s \in Seq(T) /\ c \in T /\ DOMAIN s = 1 .. Len(s) /\ Len(s) \in Nat
  BY SeqDef
<1> HIDE DEF T
<1>2. t \in Seq(T) /\ Len(t) = Len(s) + 1 /\ DOMAIN t = 1 .. Len(s) + 1
      /\ t[Len(s) + 1] = c /\ \A i \in 1 .. Len(s) : t[i] = s[i]
  BY <1>1
<1> HIDE DEF t
<1>3. ToSet(t) = ToSet(s) \cup {c}
  BY <1>1, <1>2 DEF ToSet
<1>4. ToSet(t) = T
  BY <1>3 DEF T
<1> QED BY <1>2, <1>3, <1>4 DEF t

LEMMA NoDealIs == DealFits(NoDeal) /\ NoDeal.pc = "idle"
<1>1. /\ IsDeal(NoDeal) /\ NoDeal.pc = "idle" /\ NoDeal.queue = <<>> /\ NoDeal.deck = <<>>
  BY DEF NoDeal, IsDeal
<1>2. ToSet(<<>>) = {}
  BY DEF ToSet
<1>3. <<>> \in Seq(Words) /\ <<>> \in Seq({})
  OBVIOUS
<1> QED BY <1>1, <1>2, <1>3 DEF DealFits

\* On to the next word of the queue.
LEMMA OnFits ==
  ASSUME NEW d, DealFits(d), d.queue # <<>>, NEW deck, deck \in Seq(ToSet(deck)),
         \A c \in ToSet(deck) : c.word \in Words /\ SoundCard(c)
  PROVE  DealFits([d EXCEPT !.queue = Tail(@), !.deck = deck])
<1> DEFINE e == [d EXCEPT !.queue = Tail(@), !.deck = deck]
<1>1. IsDeal(e) /\ e.queue = Tail(d.queue) /\ e.deck = deck
  BY DEF DealFits, IsDeal
<1>2. Tail(d.queue) \in Seq(Words)
  BY DEF DealFits
<1> HIDE DEF e
<1>3. DealFits(e)
  BY <1>1, <1>2 DEF DealFits
<1> QED BY <1>3 DEF e

LEMMA MakeCardStep ==
  ASSUME DeckInv, analysed \in Seq(Articles), MakeCard
  PROVE  DealFits(deal')
<1> DEFINE w == Head(deal.queue)
           HasStatus == {v \in Words : status[v] # NoStatus /\ LangOf[v] = deal.lang}
           Stored == {v \in RowWords(ToSet(analysed)) : LangOf[v] = deal.lang}
           Card(right, wrong) == [word |-> w, right |-> right, wrong |-> wrong]
           On(deck) == deal' = [deal EXCEPT !.queue = Tail(@), !.deck = deck]
           Ask(right, own, all) ==
             \/ On(deal.deck)
             \/ \E S \in Distractors(right, own, all) :
                  /\ ~ (Cardinality(S \ SpacedOut) < Wrong)
                  /\ On(Append(deal.deck, Card(right, S \ SpacedOut)))
<1>1. DealFits(deal) /\ deal.queue # <<>> /\ deal.queue \in Seq(Words) /\ w \in Words
  <2> DEFINE q == deal.queue
  <2>1. DealFits(deal) /\ q # <<>>
    BY DEF DeckInv, MakeCard
  <2>2. q \in Seq(Words)
    BY <2>1 DEF DealFits
  <2>3. Head(q) \in Words
    <3> HIDE DEF q
    <3> QED BY <2>1, <2>2
  <2> QED BY <2>1, <2>2, <2>3
<1>2. /\ deal.deck \in Seq(ToSet(deal.deck))
      /\ \A c \in ToSet(deal.deck) : c.word \in Words /\ SoundCard(c)
  BY <1>1 DEF DealFits
<1>3. \/ On(deal.deck)
      \/ Ask(deal.gloss[w], GlossPool(w, HasStatus), GlossPool(w, Stored))
      \/ Ask(Lemma[w], LemmaPool(w, HasStatus), LemmaPool(w, Stored))
  BY Zenon DEF MakeCard
<1>4. HasStatus \in SUBSET Words /\ Stored \in SUBSET Words
  <2>1. \A a \in ToSet(analysed) : a \in Articles
    BY DEF ToSet
  <2>2. \A v \in RowWords(ToSet(analysed)) : v \in Words
    BY <2>1, WordTableAssumption DEF RowWords, RowsOf
  <2> QED BY <2>2
<1>5. /\ IsFiniteSet(GlossPool(w, HasStatus)) /\ IsFiniteSet(GlossPool(w, Stored))
      /\ IsFiniteSet(LemmaPool(w, HasStatus)) /\ IsFiniteSet(LemmaPool(w, Stored))
  <2> HIDE DEF HasStatus, Stored, w
  <2> QED BY <1>4, PoolsFinite
<1>6. ASSUME On(deal.deck) PROVE DealFits(deal')
  <2> HIDE DEF w
  <2> QED BY <1>1, <1>2, <1>6, OnFits
<1>7. ASSUME NEW right, NEW own, IsFiniteSet(own), NEW all, IsFiniteSet(all), Ask(right, own, all)
      PROVE  DealFits(deal')
  <2>1. CASE On(deal.deck)
    BY <1>6, <2>1
  <2>2. ASSUME NEW S \in Distractors(right, own, all), ~ (Cardinality(S \ SpacedOut) < Wrong),
               On(Append(deal.deck, Card(right, S \ SpacedOut)))
        PROVE  DealFits(deal')
    <3> DEFINE wrong == S \ SpacedOut
               c == Card(right, wrong)
               deck == Append(deal.deck, c)
    <3>0. IsFiniteSet(wrong) /\ Cardinality(wrong) \in Nat
      <4>1. PICK A \in Pick(own, {right}, Wrong) :
              \E T \in Pick(all, {right} \cup A, Wrong - Cardinality(A)) : S = A \cup T
        BY <2>2 DEF Distractors
      <4>2. PICK T \in Pick(all, {right} \cup A, Wrong - Cardinality(A)) : S = A \cup T
        BY <4>1
      <4>3. wrong \in SUBSET (own \cup all)
        BY <4>2 DEF Pick
      <4>4. IsFiniteSet(own \cup all)
        BY <1>7, FS_Union
      <4> HIDE DEF wrong
      <4> QED BY <4>3, <4>4, FS_Subset, FS_CardinalityType
    <3>1. Cardinality({Fold[x] : x \in wrong \cup {right}}) = 1 + Wrong
      <4>1. Cardinality(wrong) >= Wrong
        BY <2>2, <3>0, DecksAssumption
      <4>2. wrong \subseteq S
        OBVIOUS
      <4> HIDE DEF wrong
      <4> QED BY <1>7, <2>2, <4>1, <4>2, DistractorsSound
    <3>2. c.word = w /\ c.right = right /\ c.wrong = wrong /\ wrong \cap SpacedOut = {}
      OBVIOUS
    <3> HIDE DEF wrong, c
    <3>3. SoundCard(c) /\ c.word \in Words
      BY <1>1, <3>1, <3>2 DEF SoundCard
    <3>4. deck \in Seq(ToSet(deck)) /\ ToSet(deck) = ToSet(deal.deck) \cup {c}
      BY <1>2, Appended
    <3>5. deal' = [deal EXCEPT !.queue = Tail(@), !.deck = deck]
      BY <2>2 DEF c, wrong
    <3> HIDE DEF deck
    <3>6. \A x \in ToSet(deck) : x.word \in Words /\ SoundCard(x)
      BY <1>2, <3>3, <3>4
    <3>7. deck \in Seq(ToSet(deck))
      BY <3>4
    <3> QED BY <1>1, <3>5, <3>6, <3>7, OnFits
  <2> QED BY <1>7, <2>1, <2>2
<1> HIDE DEF Ask, On, HasStatus, Stored, w
<1> QED BY <1>3, <1>5, <1>6, <1>7

\* A queue: the words under study, oldest first, as many as a deck may have.
LEMMA QueueIs ==
  ASSUME NEW lang, NEW q \in Oldest(lang)
  PROVE  /\ q \in Seq(Words)
         /\ \A w \in ToSet(q) : \A v \in WithStatus({"learning"}, lang) \ ToSet(q) :
              w \in WithStatus({"learning"}, lang) /\ stamp[w] <= stamp[v]
<1> DEFINE all == WithStatus({"learning"}, lang)
           n == Cardinality(all)
<1>1. PICK p \in SetToSeqs(all) :
        /\ \A i, k \in DOMAIN p : i < k => stamp[p[i]] <= stamp[p[k]]
        /\ q = SubSeq(p, 1, IF Len(p) < DeckSize THEN Len(p) ELSE DeckSize)
  BY DEF Oldest
<1>2. all \subseteq Words /\ IsFiniteSet(all) /\ n \in Nat
  <2>1. all \in SUBSET Words
    BY DEF WithStatus
  <2> HIDE DEF all
  <2> QED BY <2>1, WordTableAssumption, FS_Subset, FS_CardinalityType
<1>3. p \in [1 .. n -> all] /\ \A i, k \in 1 .. n : i # k => p[i] # p[k]
  BY DEF SetToSeqs
<1> HIDE DEF all
<1>4. p \in Seq(all) /\ Len(p) = n /\ DOMAIN p = 1 .. n
  BY <1>2, <1>3
<1>5. \A v \in all : \E k \in 1 .. n : p[k] = v
  <2>1. p \in Injection(1 .. n, all)
    BY <1>3 DEF Injection, IsInjective
  <2>2. Cardinality(1 .. n) = n
    BY <1>2, FS_Interval
  <2>3. p \in Surjection(1 .. n, all)
    BY <1>2, <2>1, <2>2, FS_Injection
  <2> QED BY <2>3 DEF Surjection
<1> DEFINE m == IF Len(p) < DeckSize THEN Len(p) ELSE DeckSize
<1>6. m \in Nat /\ m <= n
  BY <1>2, <1>4, DecksAssumption
<1>7. q = SubSeq(p, 1, m)
  BY <1>1
<1> HIDE DEF m, n
<1>8. q \in Seq(all) /\ DOMAIN q = 1 .. m /\ \A i \in 1 .. m : q[i] = p[i]
  <2>1. CASE m = 0
    <3>1. q = <<>>
      BY <1>4, <1>7, <2>1
    <3> QED BY <2>1, <3>1
  <2>2. CASE m >= 1
    <3>1. q = [i \in 1 .. m - 1 + 1 |-> p[1 + i - 1]]
      BY <1>2, <1>4, <1>6, <1>7, <2>2
    <3>2. m - 1 + 1 = m /\ \A i \in 1 .. m : 1 + i - 1 = i /\ i \in 1 .. n
      BY <1>2, <1>6
    <3>3. q = [i \in 1 .. m |-> p[i]]
      BY <3>1, <3>2
    <3>4. \A i \in 1 .. m : p[i] \in all
      BY <1>3, <3>2
    <3>5. q \in [1 .. m -> all]
      BY <3>3, <3>4
    <3> QED BY <1>6, <3>3, <3>5
  <2> QED BY <1>6, <2>1, <2>2
<1>9. q \in Seq(Words)
  BY <1>2, <1>8, SeqDef
<1>10. ASSUME NEW w \in ToSet(q), NEW v \in all \ ToSet(q)
       PROVE  w \in all /\ stamp[w] <= stamp[v]
  <2>1. PICK i \in 1 .. m : w = q[i]
    BY <1>8 DEF ToSet
  <2>2. PICK k \in 1 .. n : v = p[k]
    BY <1>5
  <2>3. k \notin 1 .. m
    BY <1>8, <2>2 DEF ToSet
  <2>4. i \in 1 .. n /\ i < k
    BY <1>2, <1>6, <2>1, <2>2, <2>3
  <2>5. w = p[i]
    BY <1>8, <2>1
  <2> QED BY <1>1, <1>3, <1>4, <2>2, <2>4, <2>5
<1> QED BY <1>9, <1>10 DEF all

LEMMA DecksBegin == WordsInit => DeckInv /\ Served
<1> SUFFICES ASSUME WordsInit PROVE DeckInv /\ Served
  OBVIOUS
<1>1. analysed \in Seq(Articles) /\ DeckInit /\ clock = Len(analysed)
  BY VocabularyAssumption DEF WordsInit
<1>2. DeckInv
  BY <1>1, NoDealIs DEF DeckInit, DeckInv
<1> DEFINE Later(w) == {i \in DOMAIN analysed :
                          \E k \in i .. Len(analysed) :
                            analysed[k] \in Mine /\ w \in RowWords({analysed[k]})}
<1>3. \A w \in Words : Cardinality(Later(w)) \in Nat /\ Cardinality(Later(w)) <= clock
  <2> SUFFICES ASSUME NEW w \in Words
               PROVE  Cardinality(Later(w)) \in Nat /\ Cardinality(Later(w)) <= clock
    OBVIOUS
  <2>1. Later(w) \in SUBSET (1 .. Len(analysed)) /\ Len(analysed) \in Nat
    BY <1>1
  <2>2. IsFiniteSet(1 .. Len(analysed)) /\ Cardinality(1 .. Len(analysed)) = Len(analysed)
    <3> DEFINE n == Len(analysed)
    <3> HIDE DEF n
    <3>1. n \in Nat
      BY <2>1 DEF n
    <3>2. IsFiniteSet(1 .. n) /\ Cardinality(1 .. n) = IF 1 > n THEN 0 ELSE n - 1 + 1
      BY <3>1, FS_Interval
    <3>3. IsFiniteSet(1 .. n) /\ Cardinality(1 .. n) = n
      BY <3>1, <3>2
    <3> QED BY <3>3 DEF n
  <2> HIDE DEF Later
  <2> QED BY <1>1, <2>1, <2>2, FS_Subset, FS_CardinalityType
<1>4. stamp = [w \in Words |-> Cardinality(Later(w))]
  BY DEF WordsInit
<1> HIDE DEF Later
<1>5. RowsTyped
  <2>1. status = [w \in Words |-> status[w]]
    BY DEF WordsInit
  <2>2. stamp \in [Words -> Nat]
    BY <1>3, <1>4
  <2> QED BY <1>1, <2>1, <2>2 DEF RowsTyped, DeckInit
<1>6. \A w \in Words : stamp[w] \in Nat /\ stamp[w] <= clock /\ answeredAt[w] = -1
  BY <1>1, <1>3, <1>4 DEF DeckInit
<1>7. clock \in Nat
  BY <1>1
<1>8. Served
  <2> SUFFICES ASSUME NEW w \in Words
               PROVE  /\ stamp[w] <= clock /\ answeredAt[w] <= clock
                      /\ status[w] # NoStatus => answeredAt[w] <= stamp[w]
    BY <1>5 DEF Served
  <2> QED BY <1>6, <1>7
<1> QED BY <1>2, <1>8

LEMMA DecksStep == DeckInv /\ analysed \in Seq(Articles) /\ [WordsNext]_wordsVars => DeckInv'
<1> SUFFICES ASSUME DeckInv, analysed \in Seq(Articles), [WordsNext]_wordsVars PROVE DeckInv'
  OBVIOUS
<1>0. DealFits(deal) /\ round \in Seq(Words)
  BY DEF DeckInv
<1>1. CASE UNCHANGED deckVars
  BY <1>0, <1>1 DEF deckVars, DeckInv
<1>2. CASE Deal
  <2> DEFINE d == [NoDeal EXCEPT !.pc = "queue", !.lang = active]
  <2>1. DealFits(d)
    <3>1. IsDeal(d) /\ d.queue = NoDeal.queue /\ d.deck = NoDeal.deck
      BY NoDealIs DEF DealFits, IsDeal
    <3> HIDE DEF d
    <3> QED BY <3>1, NoDealIs DEF DealFits
  <2> HIDE DEF d
  <2>2. deal' = d /\ round' = round
    BY <1>2 DEF Deal, d
  <2> QED BY <1>0, <2>1, <2>2 DEF DeckInv
<1>3. CASE ReadQueue
  <2>1. PICK q \in Oldest(deal.lang) :
          deal' = IF q = <<>> THEN NoDeal ELSE [deal EXCEPT !.pc = "samples", !.queue = q]
    BY <1>3 DEF ReadQueue
  <2> DEFINE d == [deal EXCEPT !.pc = "samples", !.queue = q]
  <2>2. IsDeal(d) /\ d.queue = q /\ d.deck = deal.deck
    BY <1>0 DEF DealFits, IsDeal
  <2>3. q \in Seq(Words)
    BY QueueIs
  <2>4. DealFits(d)
    <3> HIDE DEF d
    <3> QED BY <1>0, <2>2, <2>3 DEF DealFits
  <2>5. DealFits(deal') /\ round' = round
    BY <1>3, <2>1, <2>4, NoDealIs DEF ReadQueue
  <2> QED BY <1>0, <2>5 DEF DeckInv
<1>4. CASE ReadSamples
  <2> DEFINE g == [w \in ToSet(deal.queue) |-> LatestGloss(w)]
             d == [deal EXCEPT !.pc = "cards", !.gloss = g]
  <2>1. IsDeal(d) /\ d.queue = deal.queue /\ d.deck = deal.deck
    <3> HIDE DEF g
    <3> QED BY <1>0 DEF DealFits, IsDeal
  <2>2. deal' = d /\ round' = round
    BY <1>4 DEF ReadSamples
  <2> HIDE DEF d
  <2>3. DealFits(d)
    BY <1>0, <2>1 DEF DealFits
  <2> QED BY <1>0, <2>2, <2>3 DEF DeckInv
<1>5. CASE MakeCard
  <2>1. DealFits(deal') /\ round' = round
    BY <1>5, MakeCardStep DEF MakeCard
  <2> QED BY <1>0, <2>1 DEF DeckInv
<1>6. CASE StartRound
  <2>1. deal' = NoDeal
    BY <1>6 DEF StartRound
  <2>2. [i \in DOMAIN deal.deck |-> deal.deck[i].word] \in Seq(Words)
    <3> DEFINE deck == deal.deck
    <3>1. deck \in Seq(ToSet(deck)) /\ \A c \in ToSet(deck) : c.word \in Words
      BY <1>0 DEF DealFits
    <3> HIDE DEF deck
    <3>2. DOMAIN deck = 1 .. Len(deck) /\ Len(deck) \in Nat
      BY <3>1
    <3>3. \A i \in 1 .. Len(deck) : deck[i].word \in Words
      BY <3>1, <3>2 DEF ToSet
    <3>4. [i \in 1 .. Len(deck) |-> deck[i].word] \in [1 .. Len(deck) -> Words]
      BY <3>3
    <3> QED BY <3>2, <3>4 DEF deck
  <2>3. round' \in Seq(Words)
    BY <1>0, <1>6, <2>2 DEF StartRound
  <2> QED BY <2>1, <2>3, NoDealIs DEF DeckInv
<1>7. CASE DealFails
  <2>1. CASE deal' = NoDeal
    BY <1>0, <1>7, <2>1, NoDealIs DEF DealFails, DeckInv
  <2>2. CASE deal.queue # <<>> /\ deal' = [deal EXCEPT !.queue = Tail(@)]
    <3> DEFINE d == [deal EXCEPT !.queue = Tail(@)]
    <3>1. IsDeal(d) /\ d.queue = Tail(deal.queue) /\ d.deck = deal.deck
      BY <1>0 DEF DealFits, IsDeal
    <3>2. Tail(deal.queue) \in Seq(Words)
      BY <1>0, <2>2 DEF DealFits
    <3> HIDE DEF d
    <3>3. DealFits(d)
      BY <1>0, <3>1, <3>2 DEF DealFits
    <3>4. deal' = d /\ round' = round
      BY <1>7, <2>2 DEF d, DealFails
    <3> QED BY <1>0, <3>3, <3>4 DEF DeckInv
  <2> QED BY <1>7, <2>1, <2>2 DEF DealFails
<1>8. CASE deal' = deal /\ (round' = <<>> \/ (round # <<>> /\ round' = Tail(round)))
  <2>1. round' \in Seq(Words)
    <3>1. <<>> \in Seq(Words)
      OBVIOUS
    <3>2. round # <<>> => Tail(round) \in Seq(Words)
      BY <1>0
    <3> QED BY <1>8, <3>1, <3>2
  <2> QED BY <1>0, <1>8, <2>1 DEF DeckInv
<1>9. DeckStep => \/ Deal \/ ReadQueue \/ ReadSamples \/ MakeCard \/ StartRound \/ DealFails
                  \/ deal' = deal /\ (round' = <<>> \/ (round # <<>> /\ round' = Tail(round)))
  BY DEF DeckStep, AnswerRight, AnswerWrong, Answered, SkipCard, DeleteCard, EndRound
<1>10. DeckStep \/ UNCHANGED deckVars
  BY DEF WordsNext, Elsewhere, wordsVars
<1> QED BY <1>1, <1>2, <1>3, <1>4, <1>5, <1>6, <1>7, <1>8, <1>9, <1>10

\* A row that is written says now.
LEMMA UpsertServed ==
  ASSUME Served, NEW ws, NEW s, Upserted(ws, s), clock' = clock,
         \/ answeredAt' = answeredAt
         \/ \E w \in Words : answeredAt' = [answeredAt EXCEPT ![w] = clock] /\ w \in ws
  PROVE  Served'
<1>1. RowsTyped /\ clock \in Nat
  BY DEF Served, RowsTyped
<1>2. \A w \in Words : /\ status'[w] = IF w \in ws THEN s ELSE status[w]
                       /\ stamp'[w] = IF w \in ws THEN clock ELSE stamp[w]
  BY DEF Upserted
<1>3. \A w \in Words : answeredAt'[w] = answeredAt[w] \/ (answeredAt'[w] = clock /\ w \in ws)
  BY <1>1 DEF RowsTyped
<1>4. RowsTyped'
  <2>1. status' = [w \in Words |-> status'[w]]
    BY DEF Upserted
  <2>2. stamp' \in [Words -> Nat]
    BY <1>1 DEF Upserted, RowsTyped
  <2>3. answeredAt' \in [Words -> Int]
    BY <1>1 DEF RowsTyped
  <2> QED BY <1>1, <2>1, <2>2, <2>3 DEF RowsTyped
<1>5. \A w \in Words : /\ stamp'[w] <= clock' /\ answeredAt'[w] <= clock'
                       /\ status'[w] # NoStatus => answeredAt'[w] <= stamp'[w]
  <2> SUFFICES ASSUME NEW w \in Words
               PROVE  /\ stamp'[w] <= clock /\ answeredAt'[w] <= clock
                      /\ status'[w] # NoStatus => answeredAt'[w] <= stamp'[w]
    OBVIOUS
  <2>1. /\ stamp[w] <= clock /\ answeredAt[w] <= clock
        /\ status[w] # NoStatus => answeredAt[w] <= stamp[w]
    BY DEF Served
  <2>2. stamp[w] \in Nat /\ answeredAt[w] \in Int
    BY <1>1 DEF RowsTyped
  <2>3. CASE w \in ws
    BY <1>1, <1>2, <1>3, <2>1, <2>2, <2>3
  <2>4. CASE w \notin ws
    BY <1>2, <1>3, <2>1, <2>4
  <2> QED BY <2>3, <2>4
<1> QED BY <1>4, <1>5 DEF Served

\* A card is answered.
LEMMA AnswerServed ==
  ASSUME Served, DeckInv, Answered, NEW sts, Recorded(Asked, sts)
  PROVE  Served'
<1>1. Asked \in Words
  <2>1. round \in Seq(Words) /\ round # <<>>
    BY DEF DeckInv, Answered
  <2> QED BY <2>1 DEF Asked
<1>2. answeredAt' = [answeredAt EXCEPT ![Asked] = clock] /\ clock' = clock
  BY DEF Answered
<1>3. CASE status[Asked] = NoStatus
  <2>1. UNCHANGED <<status, stamp, clock>>
    BY <1>2, <1>3 DEF Recorded
  <2>2. RowsTyped
    BY DEF Served
  <2>3. clock \in Nat /\ answeredAt \in [Words -> Int]
    BY <2>2 DEF RowsTyped
  <2>4. answeredAt' \in [Words -> Int]
        /\ \A w \in Words : answeredAt'[w] = IF w = Asked THEN clock ELSE answeredAt[w]
    <3>1. clock \in Int
      BY <2>3
    <3>2. answeredAt' \in [Words -> Int]
      BY <1>2, <2>3, <3>1
    <3>3. \A w \in Words : answeredAt'[w] = IF w = Asked THEN clock ELSE answeredAt[w]
      BY <1>2, <2>3
    <3> QED BY <3>2, <3>3
  <2>5. RowsTyped'
    BY <2>1, <2>2, <2>4 DEF RowsTyped
  <2>6. \A w \in Words : /\ stamp'[w] <= clock' /\ answeredAt'[w] <= clock'
                         /\ status'[w] # NoStatus => answeredAt'[w] <= stamp'[w]
    BY <1>3, <2>1, <2>3, <2>4 DEF Served
  <2> QED BY <2>5, <2>6 DEF Served
<1>4. CASE status[Asked] # NoStatus
  <2>1. PICK s \in sts : Upserted({Asked}, s)
    BY <1>4 DEF Recorded
  <2>2. Asked \in {Asked}
    OBVIOUS
  <2> QED BY <1>1, <1>2, <2>1, <2>2, UpsertServed
<1> QED BY <1>3, <1>4

LEMMA ServedNext == Served /\ DeckInv /\ [WordsNext]_wordsVars => Served'
<1> SUFFICES ASSUME Served, DeckInv, [WordsNext]_wordsVars PROVE Served'
  OBVIOUS
<1>0. RowsTyped
  BY DEF Served
<1>1. CASE UNCHANGED <<status, stamp, clock, answeredAt>>
  BY <1>1 DEF Served, RowsTyped
<1>2. CASE UNCHANGED deckVars /\ \E h \in Handlers : SetStatus(h)
  <2>1. PICK h \in Handlers : SetStatus(h)
    BY <1>2
  <2>2. Upserted({job[h].word}, job[h].to) /\ clock' = clock /\ answeredAt' = answeredAt
    BY <1>2, <2>1 DEF SetStatus, deckVars
  <2> QED BY <2>2, UpsertServed
<1>3. CASE UNCHANGED deckVars /\ \E a \in Articles : Analyse(a)
  <2>1. PICK a \in Articles : Analyse(a)
    BY <1>3
  <2>2. clock' = clock /\ answeredAt' = answeredAt
    BY <1>3, <2>1 DEF Analyse, deckVars
  <2>3. CASE a \in Mine
    <3>1. Upserted(RowWords({a}), "learning")
      BY <2>1, <2>3 DEF Analyse
    <3> QED BY <2>2, <3>1, UpsertServed
  <2>4. CASE a \notin Mine
    BY <1>1, <2>1, <2>2, <2>4 DEF Analyse
  <2> QED BY <2>3, <2>4
<1>4. CASE UNCHANGED deckVars /\ Tick
  <2>1. clock' = clock + 1 /\ UNCHANGED <<status, stamp, answeredAt>>
    BY <1>4 DEF Tick, deckVars
  <2>2. clock \in Nat /\ clock' \in Nat
    BY <1>0, <2>1 DEF RowsTyped
  <2>3. RowsTyped'
    BY <1>0, <2>1, <2>2 DEF RowsTyped
  <2>4. \A w \in Words : stamp[w] \in Nat /\ answeredAt[w] \in Int
    BY <1>0 DEF RowsTyped
  <2>5. \A w \in Words : /\ stamp'[w] <= clock' /\ answeredAt'[w] <= clock'
                         /\ status'[w] # NoStatus => answeredAt'[w] <= stamp'[w]
    BY <2>1, <2>2, <2>4 DEF Served
  <2> QED BY <2>3, <2>5 DEF Served
<1>5. CASE AnswerRight
  BY <1>5, AnswerServed DEF AnswerRight
<1>6. CASE AnswerWrong
  BY <1>6, AnswerServed DEF AnswerWrong
<1>7. CASE DeleteCard
  <2>1. status' = [status EXCEPT ![Asked] = NoStatus] /\ UNCHANGED <<stamp, clock, answeredAt>>
    BY <1>7 DEF DeleteCard
  <2>2. \A w \in Words : status'[w] = NoStatus \/ status'[w] = status[w]
    BY <1>0, <2>1 DEF RowsTyped
  <2>3. RowsTyped'
    BY <1>0, <2>1 DEF RowsTyped
  <2> QED BY <2>1, <2>2, <2>3 DEF Served
<1>8. \A h \in Handlers : ListStep(h) => SetStatus(h) \/ UNCHANGED tables
  BY DEF ListStep, Take, ReadCurrent, ReadLanguage, Find, CheckOwner, Count, CountAll, ReadPage,
     ReadMarks, WriteScreen, Fails
<1>9. \A k \in Kinds : Close(k) => UNCHANGED tables
  BY DEF Close
<1>10. DeckStep => \/ AnswerRight \/ AnswerWrong \/ DeleteCard
                   \/ UNCHANGED <<status, stamp, clock, answeredAt>>
  BY DEF DeckStep, Deal, ReadQueue, ReadSamples, MakeCard, StartRound, DealFails, SkipCard,
     EndRound, tables
<1>11. Elsewhere => /\ UNCHANGED deckVars
                    /\ \/ \E a \in Articles : Analyse(a)
                       \/ Tick
                       \/ UNCHANGED <<status, stamp, clock>>
  BY DEF Elsewhere, SwitchLanguage
<1>12. UNCHANGED tables /\ UNCHANGED deckVars => UNCHANGED <<status, stamp, clock, answeredAt>>
  BY DEF tables, deckVars
<1>13. UNCHANGED deckVars => UNCHANGED answeredAt
  BY DEF deckVars
<1>14. UNCHANGED wordsVars => UNCHANGED <<status, stamp, clock, answeredAt>>
  BY DEF wordsVars, tables, deckVars
<1> QED
  <2> HIDE DEF Served
  <2> QED BY <1>1, <1>2, <1>3, <1>4, <1>5, <1>6, <1>7, <1>8, <1>9, <1>10, <1>11, <1>12, <1>13, <1>14
          DEF WordsNext

LEMMA DecksKeep == WordsSpec => [](ListInv /\ DeckInv /\ Served)
<1>1. WordsInit => ListInv /\ DeckInv /\ Served
  BY ListsBegin, DecksBegin
<1>2. ListInv /\ DeckInv /\ Served /\ [WordsNext]_wordsVars => (ListInv /\ DeckInv /\ Served)'
  <2>1. ListInv => analysed \in Seq(Articles)
    BY DEF ListInv, Typed
  <2> QED BY <2>1, ListsStep, DecksStep, ServedNext
<1> QED BY <1>1, <1>2, PTL DEF WordsSpec

\* Every card of a deck offers its right answer and as many others as there
\* must be, none of which could be taken for it or for each other, from
\* whatever pools they come.  quiz.go:57.
THEOREM OptionsAreSound == WordsSpec => []OptionsSound
<1>1. DeckInv => OptionsSound
  BY DEF DeckInv, DealFits, SoundCard, OptionsSound
<1> QED BY <1>1, DecksKeep, PTL

\* A word that was answered after another was last asked or set is not dealt
\* again while that other is left out.  repo.go:84.
THEOREM WordsTakeTurns == WordsSpec => TakesTurns
<1> DEFINE Turn == deal.pc = "queue" /\ deal'.pc = "samples" =>
             \A w \in ToSet(deal'.queue) :
               \A v \in WithStatus({"learning"}, deal.lang) \ ToSet(deal'.queue) :
                 answeredAt[w] <= stamp[v]
<1>1. ASSUME DeckInv, Served, [WordsNext]_wordsVars PROVE [Turn]_deal
  <2> SUFFICES ASSUME deal.pc = "queue", deal'.pc = "samples",
                      NEW w \in ToSet(deal'.queue),
                      NEW v \in WithStatus({"learning"}, deal.lang) \ ToSet(deal'.queue)
               PROVE  answeredAt[w] <= stamp[v]
    OBVIOUS
  <2>0. DealFits(deal) /\ RowsTyped
    BY <1>1 DEF DeckInv, Served
  <2>1. ReadQueue
    <3>1. deal' # deal
      OBVIOUS
    <3>2. DeckStep
      BY <1>1, <3>1 DEF WordsNext, Elsewhere, wordsVars, deckVars
    <3>3. ~ DealFails
      BY NoDealIs DEF DealFails
    <3> QED BY <3>1, <3>2, <3>3 DEF DeckStep, Deal, ReadSamples, MakeCard, StartRound, AnswerRight,
               AnswerWrong, Answered, SkipCard, DeleteCard, EndRound
  <2>2. PICK q \in Oldest(deal.lang) :
          deal' = IF q = <<>> THEN NoDeal ELSE [deal EXCEPT !.pc = "samples", !.queue = q]
    BY <2>1 DEF ReadQueue
  <2>3. deal'.queue = q
    <3>1. deal' = [deal EXCEPT !.pc = "samples", !.queue = q]
      BY <2>2, NoDealIs
    <3> QED BY <2>0, <3>1 DEF DealFits, IsDeal
  <2>4. w \in WithStatus({"learning"}, deal.lang) /\ stamp[w] <= stamp[v]
    BY <2>3, QueueIs
  <2>5. w \in Words /\ v \in Words /\ status[w] = "learning"
    BY <2>4 DEF WithStatus
  <2>6. answeredAt[w] <= stamp[w]
    BY <1>1, <2>5 DEF Served, NoStatus
  <2>7. stamp[w] \in Nat /\ stamp[v] \in Nat /\ answeredAt[w] \in Int
    BY <2>0, <2>5 DEF RowsTyped
  <2> QED BY <2>4, <2>6, <2>7
<1>2. WordsSpec => [][Turn]_deal
  BY <1>1, DecksKeep, PTL DEF WordsSpec
<1> QED BY <1>2 DEF TakesTurns

-----------------------------------------------------------------------------
(* Recursion.  Induction on the naturals is said of a set, not of a        *)
(* predicate, and a function that is defined by recursion is shown to be   *)
(* there, prefix by prefix, before its equation is used.                   *)

LEMMA Climb ==
  ASSUME NEW n \in Nat, NEW S, 0 \in S, \A k \in 1 .. n : k - 1 \in S => k \in S
  PROVE  0 .. n \subseteq S
<1> DEFINE T == (0 .. n) \ S
<1> SUFFICES ASSUME T # {} PROVE FALSE
  OBVIOUS
<1> DEFINE e == Earliest(T)
<1>1. e \in T /\ \A j \in T : e <= j
  BY EarliestIs
<1> HIDE DEF e
<1>2. e \in 1 .. n /\ e - 1 \in 0 .. n /\ ~ (e - 1 \in T)
  BY <1>1
<1> QED BY <1>1, <1>2

\* What mergeWords' loop has after each of its turns.
Turns(m, ws, more, limit, n) ==
  m = [k \in 0 .. n |-> IF k = 0 THEN ws ELSE Added(ws, m[k - 1], more[k], limit)]

LEMMA TurnsExist ==
  ASSUME NEW ws, NEW more, NEW limit, NEW n \in Nat
  PROVE  \E m : Turns(m, ws, more, limit, n)
<1> DEFINE S == {k \in 0 .. n : \E m : Turns(m, ws, more, limit, k)}
<1>1. 0 \in S
  <2> DEFINE m == [k \in 0 .. 0 |-> ws]
  <2>1. m = [k \in 0 .. 0 |-> IF k = 0 THEN ws ELSE Added(ws, m[k - 1], more[k], limit)]
    OBVIOUS
  <2> HIDE DEF m
  <2>2. Turns(m, ws, more, limit, 0)
    BY <2>1 DEF Turns
  <2> QED BY <2>2
<1>2. ASSUME NEW k \in 1 .. n, k - 1 \in S PROVE k \in S
  <2>1. PICK m : Turns(m, ws, more, limit, k - 1)
    BY <1>2
  <2> DEFINE last == Added(ws, m[k - 1], more[k], limit)
             long == [i \in 0 .. k |-> IF i = k THEN last ELSE m[i]]
  <2>2. \A i \in 0 .. k - 1 :
          m[i] = IF i = 0 THEN ws ELSE Added(ws, m[i - 1], more[i], limit)
    BY <2>1 DEF Turns
  <2>3. long[k] = last /\ \A i \in 0 .. k - 1 : long[i] = m[i]
    BY <1>2
  <2> HIDE DEF long, last
  <2>4. ASSUME NEW i \in 0 .. k
        PROVE  long[i] = IF i = 0 THEN ws ELSE Added(ws, long[i - 1], more[i], limit)
    <3>1. CASE i = k
      <4>1. k # 0 /\ k - 1 \in 0 .. k - 1 /\ long[k - 1] = m[k - 1]
        BY <1>2, <2>3
      <4> QED BY <2>3, <3>1, <4>1 DEF last
    <3>2. CASE i # k
      <4>1. i \in 0 .. k - 1 /\ (i # 0 => i - 1 \in 0 .. k - 1)
        BY <1>2, <3>2
      <4>2. long[i] = m[i] /\ (i # 0 => long[i - 1] = m[i - 1])
        BY <2>3, <4>1
      <4> QED BY <2>2, <4>1, <4>2
    <3> QED BY <3>1, <3>2
  <2>5. long = [i \in 0 .. k |->
                  IF i = 0 THEN ws ELSE Added(ws, long[i - 1], more[i], limit)]
    BY <2>4 DEF long
  <2>6. Turns(long, ws, more, limit, k)
    BY <2>5 DEF Turns
  <2> QED BY <1>2, <2>6
<1>3. n \in S
  <2> HIDE DEF S
  <2>1. 0 .. n \subseteq S
    BY <1>1, <1>2, Climb
  <2> QED BY <2>1
<1> QED BY <1>3

MergedBy(m, ws, more, limit) ==
  /\ m[0] = ws
  /\ \A k \in 1 .. Len(more) : m[k] = Added(ws, m[k - 1], more[k], limit)
  /\ Merge(ws, more, limit) = m[Len(more)]

LEMMA MergeIs ==
  ASSUME NEW ws, NEW more, NEW limit, Len(more) \in Nat
  PROVE  \E m : MergedBy(m, ws, more, limit)
<1> DEFINE n == Len(more)
           m == CHOOSE f : f = [k \in 0 .. n |->
                  IF k = 0 THEN ws ELSE Added(ws, f[k - 1], more[k], limit)]
<1>1. \E f : f = [k \in 0 .. n |->
                  IF k = 0 THEN ws ELSE Added(ws, f[k - 1], more[k], limit)]
  <2>1. n \in Nat
    OBVIOUS
  <2> HIDE DEF n
  <2>2. \E f : Turns(f, ws, more, limit, n)
    BY <2>1, TurnsExist
  <2> QED BY <2>2 DEF Turns
<1>2. m = [k \in 0 .. n |-> IF k = 0 THEN ws ELSE Added(ws, m[k - 1], more[k], limit)]
  <2> HIDE DEF n
  <2> QED BY <1>1, Zenon
<1>3. Merge(ws, more, limit) = m[n]
  BY Zenon DEF Merge
<1> HIDE DEF m
<1>4. m[0] = ws /\ \A k \in 1 .. n : m[k] = Added(ws, m[k - 1], more[k], limit)
  BY <1>2
<1> QED BY <1>3, <1>4 DEF MergedBy

-----------------------------------------------------------------------------
(* mergeWords.                                                             *)

LEMMA NthIs ==
  ASSUME NEW N \in Nat, NEW S, S \subseteq 1 .. N, NEW x \in S,
         NEW n, n = Cardinality({j \in S : j < x}) + 1
  PROVE  Nth(S, n) = x
<1> DEFINE Below(y) == {j \in S : j < y}
           y == Nth(S, n)
<1>1. IsFiniteSet(S) /\ \A a \in S : a \in Int
  <2>1. S \in SUBSET (1 .. N) /\ \A a \in S : a \in Int
    OBVIOUS
  <2>2. IsFiniteSet(1 .. N)
    BY FS_Interval
  <2>3. IsFiniteSet(S)
    BY <2>1, <2>2, FS_Subset
  <2> QED BY <2>1, <2>3
<1>2. ASSUME NEW a \in S
      PROVE  IsFiniteSet(Below(a)) /\ Cardinality(Below(a)) \in Nat
  <2>1. Below(a) \in SUBSET S
    OBVIOUS
  <2> HIDE DEF Below
  <2> QED BY <1>1, <2>1, FS_Subset, FS_CardinalityType
<1>3. Cardinality(Below(x)) = n - 1
  <2>1. Cardinality(Below(x)) \in Nat /\ n = Cardinality(Below(x)) + 1
    BY <1>2
  <2> HIDE DEF Below
  <2> QED BY <2>1
<1>4. y \in S /\ Cardinality(Below(y)) = n - 1
  <2>1. \E i \in S : Cardinality({j \in S : j < i}) = n - 1
    BY <1>3
  <2>2. /\ Nth(S, n) \in S
        /\ Cardinality({j \in S : j < Nth(S, n)}) = n - 1
    BY <2>1, Zenon DEF Nth
  <2> HIDE DEF Nth
  <2> QED BY <2>2
<1>5. ASSUME NEW a \in S, NEW b \in S, a < b
      PROVE  Cardinality(Below(a)) # Cardinality(Below(b))
  <2>1. \A j \in Below(a) : j \in S /\ j < b
    BY <1>1, <1>5
  <2>2. Below(a) \cup {a} \in SUBSET Below(b)
    BY <1>5, <2>1
  <2>3. a \notin Below(a)
    BY <1>1
  <2> HIDE DEF Below
  <2>4. Cardinality(Below(a) \cup {a}) = Cardinality(Below(a)) + 1
    BY <1>2, <2>3, FS_AddElement
  <2>5. Cardinality(Below(a) \cup {a}) <= Cardinality(Below(b))
    BY <1>2, <2>2, FS_Subset
  <2>6. Cardinality(Below(a)) \in Nat /\ Cardinality(Below(b)) \in Nat
    BY <1>2
  <2> QED BY <2>4, <2>5, <2>6
<1> HIDE DEF y, Below
<1>6. ~ (x < y) /\ ~ (y < x)
  BY <1>3, <1>4, <1>5
<1>7. x = y
  BY <1>1, <1>4, <1>6
<1> QED BY <1>7 DEF y

\* How many of the first n words of more are new.
Found(ws, more, n) == Cardinality({i \in Fresh(ws, more) : i <= n})

CountedIn(ws, more, L) ==
  /\ \A n \in 0 .. L : Found(ws, more, n) \in 0 .. n
  /\ Found(ws, more, L) = Cardinality(Fresh(ws, more))
  /\ \A n \in 1 .. L :
       /\ n \notin Fresh(ws, more) => Found(ws, more, n) = Found(ws, more, n - 1)
       /\ n \in Fresh(ws, more) =>
            /\ Found(ws, more, n) = Found(ws, more, n - 1) + 1
            /\ Nth(Fresh(ws, more), Found(ws, more, n)) = n

LEMMA FoundIs ==
  ASSUME NEW ws, NEW more, NEW L \in Nat, DOMAIN more = 1 .. L
  PROVE  CountedIn(ws, more, L)
<1> DEFINE F == Fresh(ws, more)
           Upto(n) == {i \in F : i <= n}
<1>1. \A i \in F : i \in 1 .. L
  BY DEF Fresh
<1> HIDE DEF F
<1>2. ASSUME NEW n \in 0 .. L
      PROVE  IsFiniteSet(Upto(n)) /\ Cardinality(Upto(n)) \in 0 .. n
  <2>1. \A i \in Upto(n) : i \in 1 .. n
    BY <1>1
  <2>2. Upto(n) \in SUBSET (1 .. n)
    BY <2>1
  <2>3. IsFiniteSet(1 .. n) /\ Cardinality(1 .. n) = n
    <3>1. 1 \in Int /\ n \in Int
      OBVIOUS
    <3>2. Cardinality(1 .. n) = IF 1 > n THEN 0 ELSE n - 1 + 1
      BY <3>1, FS_Interval
    <3> QED BY <3>1, <3>2, FS_Interval
  <2> HIDE DEF Upto
  <2>4. /\ IsFiniteSet(Upto(n))
        /\ Cardinality(Upto(n)) <= n
        /\ Cardinality(Upto(n)) \in Nat
    BY <2>2, <2>3, FS_Subset, FS_CardinalityType
  <2> QED BY <2>4
<1>3. Upto(L) = F
  <2>1. \A i \in F : i <= L
    BY <1>1
  <2> QED BY <2>1
<1>4. ASSUME NEW n \in 1 .. L, n \notin F PROVE Upto(n) = Upto(n - 1)
  <2>1. \A i \in F : i <= n <=> i <= n - 1
    BY <1>1, <1>4
  <2> QED BY <2>1
<1>5. ASSUME NEW n \in 1 .. L, n \in F
      PROVE  /\ Cardinality(Upto(n)) = Cardinality(Upto(n - 1)) + 1
             /\ Nth(F, Cardinality(Upto(n))) = n
  <2>1. \A i \in F : i <= n <=> i <= n - 1 \/ i = n
    BY <1>1
  <2>2. Upto(n) = Upto(n - 1) \cup {n}
    BY <1>5, <2>1
  <2>3. n \notin Upto(n - 1)
    OBVIOUS
  <2>4. Upto(n - 1) = {j \in F : j < n}
    <3>1. \A i \in F : i <= n - 1 <=> i < n
      BY <1>1
    <3> QED BY <3>1
  <2>5. n - 1 \in 0 .. L
    OBVIOUS
  <2>6. Cardinality(Upto(n)) = Cardinality(Upto(n - 1)) + 1
    <3> HIDE DEF Upto
    <3>1. IsFiniteSet(Upto(n - 1))
      BY <1>2, <2>5
    <3>2. Cardinality(Upto(n - 1) \cup {n}) = Cardinality(Upto(n - 1)) + 1
      BY <2>3, <3>1, FS_AddElement
    <3> QED BY <2>2, <3>2
  <2>7. Nth(F, Cardinality(Upto(n))) = n
    <3> DEFINE c == Cardinality(Upto(n))
    <3>1. c = Cardinality({j \in F : j < n}) + 1
      BY <2>4, <2>6
    <3>2. F \subseteq 1 .. L
      BY <1>1
    <3>3. n \in F
      BY <1>5
    <3> HIDE DEF c
    <3>4. Nth(F, c) = n
      BY <3>1, <3>2, <3>3, NthIs
    <3> QED BY <3>4 DEF c
  <2> QED BY <2>6, <2>7
<1>6. \A n : Found(ws, more, n) = Cardinality(Upto(n))
  BY DEF Found, F
<1> HIDE DEF Upto
<1>7. CountedIn(ws, more, L)
  BY <1>2, <1>3, <1>4, <1>5, <1>6 DEF F, CountedIn
<1> QED BY <1>7

\* What mergeWords leaves room for.
RoomFor(ws, limit) == IF limit > Len(ws) + 1 THEN limit - Len(ws) ELSE 1

\* The words that are new are found in order, each in its own turn.
NewFound(ws, more, L) ==
  /\ Len(New(ws, more)) = Found(ws, more, L)
  /\ DOMAIN New(ws, more) = 1 .. Found(ws, more, L)
  /\ \A n \in 1 .. L : n \in Fresh(ws, more) =>
       /\ Found(ws, more, n) \in 1 .. Found(ws, more, L)
       /\ New(ws, more)[Found(ws, more, n)] = more[n]

LEMMA NewIs ==
  ASSUME NEW ws, NEW more, NEW L \in Nat, DOMAIN more = 1 .. L
  PROVE  NewFound(ws, more, L)
<1> DEFINE F == Fresh(ws, more)
           c(n) == Found(ws, more, n)
<1>1. /\ \A n \in 0 .. L : c(n) \in 0 .. n
      /\ c(L) = Cardinality(F)
      /\ \A n \in 1 .. L :
           /\ n \notin F => c(n) = c(n - 1)
           /\ n \in F => c(n) = c(n - 1) + 1 /\ Nth(F, c(n)) = n
  BY FoundIs DEF CountedIn
<1>2. New(ws, more) = [n \in 1 .. c(L) |-> more[Nth(F, n)]]
  BY <1>1 DEF New
<1> HIDE DEF F, c
<1>3. c(L) \in Nat
  BY <1>1
<1>4. Len(New(ws, more)) = c(L) /\ DOMAIN New(ws, more) = 1 .. c(L)
  BY <1>2, <1>3
<1>5. ASSUME NEW n \in 1 .. L PROVE c(n) <= c(L)
  <2> DEFINE S == {k \in 0 .. L - n : c(n) <= c(n + k)}
  <2>1. 0 \in S
    <3>1. n \in 0 .. L /\ n + 0 = n
      OBVIOUS
    <3>2. c(n) \in 0 .. n
      BY <1>1, <3>1
    <3> QED BY <3>1, <3>2
  <2>2. ASSUME NEW k \in 1 .. L - n, k - 1 \in S PROVE k \in S
    <3>1. n + k \in 1 .. L /\ n + (k - 1) = (n + k) - 1
      OBVIOUS
    <3>2. c(n) <= c((n + k) - 1)
      BY <2>2, <3>1
    <3>3. n \in 0 .. L /\ (n + k) - 1 \in 0 .. L
      BY <3>1
    <3>4. c(n) \in Int /\ c((n + k) - 1) \in Int
      BY <1>1, <3>3
    <3>5. c(n + k) = c((n + k) - 1) \/ c(n + k) = c((n + k) - 1) + 1
      BY <1>1, <3>1
    <3>6. c(n) <= c(n + k)
      BY <3>2, <3>4, <3>5
    <3> QED BY <3>6
  <2>3. 0 .. L - n \subseteq S
    <3> HIDE DEF S
    <3>1. L - n \in Nat
      OBVIOUS
    <3> QED BY <2>1, <2>2, <3>1, Climb
  <2>4. L - n \in S
    BY <2>3
  <2>5. n + (L - n) = L
    OBVIOUS
  <2> QED BY <2>4, <2>5
<1>6. ASSUME NEW n \in 1 .. L, n \in F
      PROVE  c(n) \in 1 .. c(L) /\ New(ws, more)[c(n)] = more[n]
  <2>1. n \in 0 .. L /\ n - 1 \in 0 .. L
    OBVIOUS
  <2>2. c(n) = c(n - 1) + 1 /\ Nth(F, c(n)) = n
    BY <1>1, <1>6
  <2>3. c(n) \in 1 .. c(L)
    BY <1>1, <1>3, <1>5, <2>1, <2>2
  <2> QED BY <1>2, <2>2, <2>3
<1> QED BY <1>4, <1>6 DEF c, F, NewFound

LEMMA OneMore ==
  ASSUME NEW T, NEW acc \in Seq(T), NEW e \in T
  PROVE  /\ Append(acc, e) \in Seq(T) /\ Len(Append(acc, e)) = Len(acc) + 1
         /\ \A i \in 1 .. Len(acc) : Append(acc, e)[i] = acc[i]
         /\ Append(acc, e)[Len(acc) + 1] = e
         /\ Keys(Append(acc, e)) = Keys(acc) \cup {Key(e)}
         /\ ToSet(Append(acc, e)) = ToSet(acc) \cup {e}
<1> DEFINE new == Append(acc, e)
<1>1. /\ new \in Seq(T) /\ Len(new) = Len(acc) + 1
      /\ \A i \in 1 .. Len(acc) : new[i] = acc[i]
      /\ new[Len(acc) + 1] = e
      /\ Len(acc) \in Nat
  OBVIOUS
<1>2. DOMAIN new = 1 .. Len(acc) + 1 /\ DOMAIN acc = 1 .. Len(acc)
  OBVIOUS
<1> HIDE DEF new
<1>3. DOMAIN new = DOMAIN acc \cup {Len(acc) + 1}
  BY <1>1, <1>2
<1>4. /\ \A i \in DOMAIN new : i \in DOMAIN acc \/ i = Len(acc) + 1
      /\ \A i \in DOMAIN acc : i \in DOMAIN new /\ new[i] = acc[i]
      /\ Len(acc) + 1 \in DOMAIN new
  BY <1>1, <1>2, <1>3
<1>5. Keys(new) = Keys(acc) \cup {Key(e)}
  BY <1>1, <1>4 DEF Keys
<1>6. ToSet(new) = ToSet(acc) \cup {e}
  BY <1>1, <1>4 DEF ToSet
<1> QED BY <1>1, <1>5, <1>6 DEF new

\* mergeWords appends the new words in order, as many as there is room for.
LEMMA MergeAdds ==
  ASSUME NEW ws \in Seq(Entries), NEW more \in Seq(Entries), NEW limit \in Nat
  PROVE  LET new == New(ws, more)
             got == Merge(ws, more, limit)
             n   == IF limit > 0 /\ Len(new) > RoomFor(ws, limit)
                      THEN RoomFor(ws, limit) ELSE Len(new)
         IN /\ got \in Seq(Entries) /\ Len(got) = Len(ws) + n
            /\ n \in 0 .. Len(new) /\ DOMAIN new = 1 .. Len(new) /\ Len(new) \in Nat
            /\ \A i \in 1 .. Len(ws) : got[i] = ws[i]
            /\ \A i \in 1 .. n : got[Len(ws) + i] = new[i]
<1> DEFINE L == Len(more)
           F == Fresh(ws, more)
           new == New(ws, more)
           c(k) == Found(ws, more, k)
           W == Len(ws)
           R == IF limit > 0 THEN RoomFor(ws, limit) ELSE L + 1
           Took(k) == IF c(k) < R THEN c(k) ELSE R
<1>1. L \in Nat /\ W \in Nat /\ DOMAIN more = 1 .. L /\ \A k \in 1 .. L : more[k] \in Entries
  OBVIOUS
<1>2. PICK m : /\ m[0] = ws
               /\ \A k \in 1 .. L : m[k] = Added(ws, m[k - 1], more[k], limit)
               /\ Merge(ws, more, limit) = m[L]
  <2>1. Len(more) \in Nat
    OBVIOUS
  <2>2. PICK m : MergedBy(m, ws, more, limit)
    BY <2>1, MergeIs
  <2> QED BY <2>2 DEF MergedBy
<1>3. R \in Nat \ {0}
  BY <1>1 DEF RoomFor
<1>4. /\ Len(new) = c(L) /\ DOMAIN new = 1 .. c(L)
      /\ \A k \in 1 .. L : k \in F => c(k) \in 1 .. c(L) /\ new[c(k)] = more[k]
  <2>1. NewFound(ws, more, L)
    <3> HIDE DEF L
    <3> QED BY <1>1, NewIs
  <2> QED BY <2>1 DEF NewFound
<1>5. /\ \A k \in 0 .. L : c(k) \in 0 .. k
      /\ \A k \in 1 .. L : c(k) = IF k \in F THEN c(k - 1) + 1 ELSE c(k - 1)
  <2>1. CountedIn(ws, more, L)
    <3> HIDE DEF L
    <3> QED BY <1>1, FoundIs
  <2> QED BY <2>1 DEF CountedIn
<1>6. \A k \in 0 .. L : limit = 0 => c(k) < R
  BY <1>1, <1>5
<1>7. \A k \in 1 .. L : k \in F <=> /\ Key(more[k]) \notin Keys(ws)
                                    /\ \A j \in 1 .. k - 1 : Key(more[j]) # Key(more[k])
  BY <1>1 DEF Fresh
<1> DEFINE Full(acc) == limit > 0 /\ Len(acc) >= limit /\ Len(acc) > Len(ws)
           Said(k) == {Key(more[j]) : j \in 1 .. k}
<1>8. ASSUME NEW acc, NEW a \in 0 .. L, Len(acc) = W + (IF a < R THEN a ELSE R), limit = 0 => a < R
      PROVE  Full(acc) <=> a >= R
  BY <1>1, <1>3, <1>8 DEF RoomFor
<1> HIDE DEF L, F, new, c, W, R, Full
<1> DEFINE P(k) ==
      /\ m[k] \in Seq(Entries) /\ Len(m[k]) = W + Took(k)
      /\ \A i \in 1 .. W : m[k][i] = ws[i]
      /\ \A i \in 1 .. Took(k) : m[k][W + i] = new[i]
      /\ c(k) < R => Keys(m[k]) = Keys(ws) \cup Said(k)
    S == {k \in 0 .. L : P(k)}
<1>9. 0 \in S
  <2>1. c(0) = 0 /\ 0 \in 0 .. L
    <3>1. 0 \in 0 .. L
      BY <1>1
    <3> QED BY <1>5, <3>1
  <2>2. Took(0) = 0 /\ Said(0) = {}
    BY <1>3, <2>1
  <2>3. m[0] \in Seq(Entries) /\ Len(m[0]) = W + 0
    BY <1>1, <1>2 DEF W
  <2> QED BY <1>1, <1>2, <2>1, <2>2, <2>3
<1>10. ASSUME NEW k \in 1 .. L, k - 1 \in S PROVE k \in S
  <2> DEFINE acc == m[k - 1]
             a == c(k - 1)
             e == more[k]
  <2>1. P(k - 1) /\ k - 1 \in 0 .. L /\ k \in 0 .. L
    BY <1>1, <1>10
  <2>2. a \in Nat /\ a \in 0 .. L /\ (limit = 0 => a < R) /\ e \in Entries
    BY <1>1, <1>5, <1>6, <2>1
  <2>3. /\ acc \in Seq(Entries) /\ Len(acc) = W + (IF a < R THEN a ELSE R)
        /\ \A i \in 1 .. W : acc[i] = ws[i]
        /\ \A i \in 1 .. (IF a < R THEN a ELSE R) : acc[W + i] = new[i]
        /\ a < R => Keys(acc) = Keys(ws) \cup Said(k - 1)
    BY <2>1
  <2>4. m[k] = IF Key(e) \in Keys(acc) \/ Full(acc) THEN acc ELSE Append(acc, e)
    BY <1>2 DEF Added, Full
  <2>5. Full(acc) <=> a >= R
    BY <1>8, <2>2, <2>3
  <2>6. c(k) = IF k \in F THEN a + 1 ELSE a
    BY <1>5
  <2>7. Said(k) = Said(k - 1) \cup {Key(e)}
    <3>1. \A j \in 1 .. k : j \in 1 .. k - 1 \/ j = k
      BY <1>1
    <3>2. \A j \in 1 .. k - 1 : j \in 1 .. k
      BY <1>1
    <3>3. k \in 1 .. k
      BY <1>1
    <3> QED BY <3>1, <3>2, <3>3
  <2>8. k \in F <=> Key(e) \notin Keys(ws) \cup Said(k - 1)
    BY <1>7
  <2> HIDE DEF P, acc, a, e
  <2>9. CASE a >= R
    <3>1. m[k] = acc /\ Took(k) = R /\ ~ (c(k) < R)
      BY <1>3, <2>2, <2>4, <2>5, <2>6, <2>9
    <3>2. P(k)
      BY <1>3, <2>2, <2>3, <2>9, <3>1 DEF P
    <3> QED BY <2>1, <3>2
  <2>10. CASE a < R /\ k \notin F
    <3>1. m[k] = acc /\ c(k) = a /\ Said(k - 1) \cup Keys(ws) = Said(k) \cup Keys(ws)
      BY <2>3, <2>4, <2>6, <2>7, <2>8, <2>10
    <3>2. P(k)
      BY <2>3, <2>10, <3>1 DEF P
    <3> QED BY <2>1, <3>2
  <2>11. CASE a < R /\ k \in F
    <3>1. m[k] = Append(acc, e) /\ c(k) = a + 1 /\ new[a + 1] = e
      <4>1. Key(e) \notin Keys(acc) /\ ~ Full(acc)
        <5>1. ~ (a >= R)
          BY <1>3, <2>2, <2>11
        <5>2. Keys(acc) = Keys(ws) \cup Said(k - 1)
          BY <2>3, <2>11
        <5> HIDE DEF Said
        <5> QED BY <2>5, <2>8, <2>11, <5>1, <5>2
      <4>2. new[c(k)] = more[k]
        BY <1>4, <2>11
      <4> QED BY <2>4, <2>6, <2>11, <4>1, <4>2 DEF e
    <3>2. Took(k) = a + 1 /\ Len(acc) = W + a
      BY <1>3, <2>2, <2>3, <2>11, <3>1
    <3>3. /\ m[k] \in Seq(Entries) /\ Len(m[k]) = Len(acc) + 1
          /\ \A i \in 1 .. Len(acc) : m[k][i] = acc[i]
          /\ m[k][Len(acc) + 1] = e
          /\ Keys(m[k]) = Keys(acc) \cup {Key(e)}
      BY <2>2, <2>3, <3>1, OneMore
    <3>4. Len(m[k]) = W + Took(k)
      BY <1>1, <2>2, <3>2, <3>3
    <3>5. \A i \in 1 .. W : m[k][i] = ws[i]
      BY <1>1, <2>2, <2>3, <3>2, <3>3
    <3>6. ASSUME NEW i \in 1 .. a + 1 PROVE m[k][W + i] = new[i]
      <4>1. CASE i \in 1 .. a
        <5>1. W + i \in 1 .. Len(acc)
          BY <1>1, <2>2, <3>2, <4>1
        <5>2. m[k][W + i] = acc[W + i]
          BY <3>3, <5>1
        <5>3. acc[W + i] = new[i]
          BY <2>3, <2>11, <4>1
        <5> QED BY <5>2, <5>3
      <4>2. CASE i = a + 1
        <5>1. W + i = Len(acc) + 1
          BY <1>1, <2>2, <3>2, <4>2
        <5> QED BY <3>1, <3>3, <4>2, <5>1
      <4> QED BY <2>2, <4>1, <4>2
    <3>7. Keys(m[k]) = Keys(ws) \cup Said(k)
      BY <2>3, <2>7, <2>11, <3>3
    <3>8. P(k)
      BY <3>2, <3>3, <3>4, <3>5, <3>6, <3>7 DEF P
    <3> QED BY <2>1, <3>8
  <2> QED BY <1>3, <2>2, <2>9, <2>10, <2>11
<1>11. P(L)
  <2> HIDE DEF P
  <2>1. 0 .. L \subseteq S
    <3> HIDE DEF S
    <3> QED BY <1>1, <1>9, <1>10, Climb
  <2>2. L \in 0 .. L
    BY <1>1
  <2> QED BY <2>1, <2>2
<1>12. c(L) \in Nat /\ (limit = 0 => c(L) < R)
  BY <1>1, <1>5, <1>6
<1>13. Took(L) = IF limit > 0 /\ Len(new) > RoomFor(ws, limit) THEN RoomFor(ws, limit) ELSE Len(new)
  <2>1. limit > 0 => R = RoomFor(ws, limit)
    BY DEF R
  <2> QED BY <1>3, <1>4, <1>12, <2>1
<1> QED
  <2>1. Took(L) \in 0 .. Len(new) /\ Len(new) \in Nat /\ DOMAIN new = 1 .. Len(new)
    BY <1>3, <1>4, <1>12
  <2> HIDE DEF Took
  <2> QED BY <1>2, <1>11, <1>13, <2>1 DEF new, W

\* mergeWords repeats no word and loses no repetition.
LEMMA MergeDistinct ==
  ASSUME NEW ws \in Seq(Entries), NEW more \in Seq(Entries), NEW limit \in Nat
  PROVE  Storable(Merge(ws, more, limit)) <=> Storable(ws)
<1> DEFINE L == Len(more)
<1>1. L \in Nat /\ \A k \in 1 .. L : more[k] \in Entries
  OBVIOUS
<1>2. PICK m : /\ m[0] = ws
               /\ \A k \in 1 .. L : m[k] = Added(ws, m[k - 1], more[k], limit)
               /\ Merge(ws, more, limit) = m[L]
  <2>1. Len(more) \in Nat
    OBVIOUS
  <2>2. PICK m : MergedBy(m, ws, more, limit)
    BY <2>1, MergeIs
  <2> QED BY <2>2 DEF MergedBy
<1> HIDE DEF L
<1> DEFINE P(k) ==
      /\ m[k] \in Seq(Entries) /\ IsFiniteSet(ToSet(m[k]))
      /\ Cardinality(ToSet(m[k])) - Len(m[k]) = Cardinality(ToSet(ws)) - Len(ws)
    S == {k \in 0 .. L : P(k)}
<1>3. 0 \in S
  <2>1. ws \in Seq(ToSet(ws))
    <3>1. DOMAIN ws = 1 .. Len(ws) /\ Len(ws) \in Nat /\ ws = [i \in 1 .. Len(ws) |-> ws[i]]
      OBVIOUS
    <3>2. \A i \in 1 .. Len(ws) : ws[i] \in ToSet(ws)
      BY <3>1 DEF ToSet
    <3> QED BY <3>1, <3>2, IsASeq
  <2> QED BY <1>1, <1>2, <2>1, ToSetFinite
<1>4. ASSUME NEW k \in 1 .. L, k - 1 \in S PROVE k \in S
  <2> DEFINE acc == m[k - 1]
             e == more[k]
  <2>1. P(k - 1) /\ k \in 0 .. L
    BY <1>1, <1>4
  <2>2. m[k] = acc \/ (m[k] = Append(acc, e) /\ Key(e) \notin Keys(acc))
    BY <1>2 DEF Added
  <2>3. e \in Entries
    BY <1>1
  <2> HIDE DEF e
  <2>4. CASE m[k] = acc
    BY <2>1, <2>4
  <2>5. CASE m[k] = Append(acc, e) /\ Key(e) \notin Keys(acc)
    <3> HIDE DEF acc
    <3>1. acc \in Seq(Entries) /\ IsFiniteSet(ToSet(acc)) /\ Len(acc) \in Nat
      BY <2>1 DEF acc
    <3>2. /\ m[k] \in Seq(Entries) /\ Len(m[k]) = Len(acc) + 1
          /\ ToSet(m[k]) = ToSet(acc) \cup {e}
      BY <2>3, <2>5, <3>1, OneMore
    <3>3. e \notin ToSet(acc)
      BY <2>5 DEF Keys, ToSet
    <3>4. /\ IsFiniteSet(ToSet(m[k]))
          /\ Cardinality(ToSet(m[k])) = Cardinality(ToSet(acc)) + 1
      BY <3>1, <3>2, <3>3, FS_AddElement
    <3>5. Cardinality(ToSet(acc)) \in Nat
      BY <3>1, FS_CardinalityType
    <3>6. Cardinality(ToSet(m[k])) - Len(m[k]) = Cardinality(ToSet(acc)) - Len(acc)
      BY <3>1, <3>2, <3>4, <3>5
    <3>7. P(k)
      BY <2>1, <3>2, <3>4, <3>6 DEF acc
    <3> QED BY <2>1, <3>7
  <2> QED BY <2>2, <2>4, <2>5
<1>5. P(L)
  <2> HIDE DEF P
  <2>1. 0 .. L \subseteq S
    <3> HIDE DEF S
    <3> QED BY <1>1, <1>3, <1>4, Climb
  <2>2. L \in 0 .. L
    BY <1>1
  <2> QED BY <2>1, <2>2
<1> DEFINE all == m[L]
<1>6. /\ Cardinality(ToSet(all)) \in Nat /\ Len(all) \in Nat /\ Len(ws) \in Nat
      /\ Cardinality(ToSet(ws)) \in Nat
  <2>1. P(0)
    BY <1>3
  <2>2. /\ IsFiniteSet(ToSet(all)) /\ all \in Seq(Entries)
        /\ IsFiniteSet(ToSet(ws))
    BY <1>2, <1>5, <2>1
  <2>3. Cardinality(ToSet(all)) \in Nat /\ Cardinality(ToSet(ws)) \in Nat
    BY <2>2, FS_CardinalityType
  <2> HIDE DEF all
  <2> QED BY <2>2, <2>3
<1>7. Cardinality(ToSet(all)) = Len(all) <=> Cardinality(ToSet(ws)) = Len(ws)
  <2> HIDE DEF all
  <2>1. Cardinality(ToSet(all)) - Len(all) = Cardinality(ToSet(ws)) - Len(ws)
    BY <1>5 DEF all
  <2> QED BY <1>6, <2>1
<1> QED BY <1>2, <1>7 DEF Storable

\* So the words of the article are those of the analysis and, up to the
\* target, the new ones.
Expected(ws, more, limit) ==
  LET new == New(ws, more) IN
  ws \o (IF limit > 0 /\ Len(new) > RoomFor(ws, limit)
           THEN SubSeq(new, 1, RoomFor(ws, limit)) ELSE new)

LEMMA MergeWritten ==
  ASSUME NEW ws \in Seq(Entries), NEW more \in Seq(Entries), NEW limit \in Nat
  PROVE  /\ Merge(ws, more, limit) = Expected(ws, more, limit)
         /\ Merge(ws, more, limit) \in Seq(Entries)
<1> DEFINE new == New(ws, more)
           got == Merge(ws, more, limit)
           R == RoomFor(ws, limit)
           cut == limit > 0 /\ Len(new) > R
           n == IF cut THEN R ELSE Len(new)
           tail == IF cut THEN SubSeq(new, 1, R) ELSE new
           W == Len(ws)
<1>1. /\ got \in Seq(Entries) /\ Len(got) = W + n
      /\ n \in 0 .. Len(new) /\ DOMAIN new = 1 .. Len(new) /\ Len(new) \in Nat
      /\ \A i \in 1 .. W : got[i] = ws[i]
      /\ \A i \in 1 .. n : got[W + i] = new[i]
  BY MergeAdds
<1>2. W \in Nat /\ R \in Nat \ {0}
  BY DEF RoomFor
<1>3. new = [i \in DOMAIN new |-> new[i]]
  BY DEF New
<1>4. Expected(ws, more, limit) = ws \o tail
  BY DEF Expected
<1> HIDE DEF new, got, R, W
<1>5. \A i \in 1 .. n : new[i] \in Entries
  <2> TAKE i \in 1 .. n
  <2>1. W + i \in 1 .. Len(got)
    BY <1>1, <1>2
  <2>2. got[W + i] \in Entries
    BY <1>1, <2>1, ElementOfSeq
  <2> QED BY <1>1, <2>2
<1>6. tail \in Seq(Entries) /\ Len(tail) = n /\ \A i \in 1 .. n : tail[i] = new[i]
  <2>1. CASE cut
    <3>1. \A i \in 1 .. R : new[i] \in Entries
      BY <1>5, <2>1
    <3>2. 1 \in Int /\ R \in Int /\ 1 <= R
      BY <1>2
    <3>3. SubSeq(new, 1, R) \in Seq(Entries)
      BY <3>1, <3>2, SubSeqProperties
    <3>4. Len(SubSeq(new, 1, R)) = IF 1 <= R THEN R - 1 + 1 ELSE 0
      BY <3>1, <3>2, SubSeqProperties
    <3>5. DOMAIN SubSeq(new, 1, R) = 1 .. R - 1 + 1
          /\ \A i \in 1 .. R - 1 + 1 : SubSeq(new, 1, R)[i] = new[1 + i - 1]
      BY <3>1, <3>2, PieceIs
    <3>6. Len(SubSeq(new, 1, R)) = R /\ \A i \in 1 .. R : SubSeq(new, 1, R)[i] = new[i]
      BY <1>2, <3>4, <3>5
    <3> QED BY <2>1, <3>3, <3>6
  <2>2. CASE ~ cut
    <3>1. n = Len(new) /\ tail = new
      BY <2>2
    <3>2. new \in [1 .. Len(new) -> Entries]
      BY <1>1, <1>3, <1>5, <3>1
    <3>3. new \in Seq(Entries)
      BY <1>1, <3>2, SeqDef
    <3> QED BY <3>1, <3>3
  <2> QED BY <2>1, <2>2
<1> HIDE DEF tail, n
<1>7. n \in Nat
  BY <1>1
<1>8. /\ ws \o tail \in Seq(Entries) /\ Len(ws \o tail) = W + n
      /\ \A i \in 1 .. W : (ws \o tail)[i] = ws[i]
      /\ \A i \in 1 .. n : (ws \o tail)[W + i] = tail[i]
  <2>1. W = Len(ws)
    BY DEF W
  <2>2. ws \o tail \in Seq(Entries) /\ Len(ws \o tail) = W + n
    BY <1>6, <2>1, ConcatProperties
  <2>3. \A i \in 1 .. W : (ws \o tail)[i] = ws[i]
    <3> TAKE i \in 1 .. W
    <3>1. i \in 1 .. Len(ws) + Len(tail) /\ i <= Len(ws)
      BY <1>2, <1>6, <1>7, <2>1
    <3> QED BY <1>6, <3>1, ConcatProperties
  <2>4. \A i \in 1 .. n : (ws \o tail)[W + i] = tail[i]
    <3> TAKE i \in 1 .. n
    <3>1. W + i \in 1 .. Len(ws) + Len(tail) /\ ~ (W + i <= Len(ws)) /\ (W + i) - Len(ws) = i
      BY <1>2, <1>6, <1>7, <2>1
    <3> QED BY <1>6, <3>1, ConcatProperties
  <2> QED BY <2>2, <2>3, <2>4
<1>9. ASSUME NEW i \in 1 .. W + n PROVE (ws \o tail)[i] = got[i]
  <2>1. CASE i \in 1 .. W
    BY <1>1, <1>8, <2>1
  <2>2. CASE i \notin 1 .. W
    <3> DEFINE j == i - W
    <3>1. j \in 1 .. n /\ i = W + j
      BY <1>2, <1>7, <2>2
    <3> HIDE DEF j
    <3> QED BY <1>1, <1>6, <1>8, <3>1
  <2> QED BY <2>1, <2>2
<1>10. got = ws \o tail
  BY <1>1, <1>8, <1>9, SeqEqual
<1> QED BY <1>1, <1>4, <1>10 DEF got

LEMMA NothingNew ==
  ASSUME NEW ws \in Seq(Entries), NEW limit \in Nat
  PROVE  Expected(ws, <<>>, limit) = ws
<1> DEFINE new == New(ws, <<>>)
<1>1. Found(ws, <<>>, 0) \in 0 .. 0
  <2>1. DOMAIN <<>> = 1 .. 0 /\ 0 \in Nat
    OBVIOUS
  <2>2. CountedIn(ws, <<>>, 0)
    BY <2>1, FoundIs
  <2> QED BY <2>2 DEF CountedIn
<1>2. Len(new) = 0 /\ DOMAIN new = {}
  <2>1. DOMAIN <<>> = 1 .. 0 /\ 0 \in Nat
    OBVIOUS
  <2>2. NewFound(ws, <<>>, 0)
    BY <2>1, NewIs
  <2> QED BY <1>1, <2>2 DEF NewFound
<1>3. new = <<>>
  <2>1. new = [i \in DOMAIN new |-> new[i]]
    BY DEF New
  <2> HIDE DEF new
  <2>2. \A i \in DOMAIN new : FALSE
    BY <1>2
  <2>3. new = [i \in 1 .. 0 |-> new[i]]
    BY <1>2, <2>1
  <2> QED BY <2>2, <2>3
<1> HIDE DEF new
<1>4. RoomFor(ws, limit) \in Nat
  BY DEF RoomFor
<1>5. Expected(ws, <<>>, limit) = ws \o <<>>
  <2>1. ~ (Len(new) > RoomFor(ws, limit))
    BY <1>2, <1>4
  <2> QED BY <1>3, <2>1 DEF Expected, new
<1> QED BY <1>5

-----------------------------------------------------------------------------
(* The search for more words.                                              *)

\* Answers, of the calls cs and of n chunks that the last of them are about.
Joined(f, cs, d, n) ==
  f = [k \in 0 .. n |-> IF k = 0 THEN <<>> ELSE f[k - 1] \o cs[d + k].found]

AnswersOf(cs, c) ==
  LET n == Len(cs) - Len(c)
      found[k \in 0 .. Len(c)] ==
        IF k = 0 THEN <<>> ELSE found[k - 1] \o cs[n + k].found
  IN found[Len(c)]

LEMMA JoinedExists ==
  ASSUME NEW cs, NEW d, NEW n \in Nat
  PROVE  \E f : Joined(f, cs, d, n)
<1> DEFINE S == {k \in 0 .. n : \E f : Joined(f, cs, d, k)}
<1>1. 0 \in S
  <2> DEFINE f == [k \in 0 .. 0 |-> <<>>]
  <2>1. f = [k \in 0 .. 0 |-> IF k = 0 THEN <<>> ELSE f[k - 1] \o cs[d + k].found]
    OBVIOUS
  <2> HIDE DEF f
  <2>2. Joined(f, cs, d, 0)
    BY <2>1 DEF Joined
  <2> QED BY <2>2
<1>2. ASSUME NEW k \in 1 .. n, k - 1 \in S PROVE k \in S
  <2>1. PICK f : Joined(f, cs, d, k - 1)
    BY <1>2
  <2> DEFINE last == f[k - 1] \o cs[d + k].found
             long == [i \in 0 .. k |-> IF i = k THEN last ELSE f[i]]
  <2>2. \A i \in 0 .. k - 1 : f[i] = IF i = 0 THEN <<>> ELSE f[i - 1] \o cs[d + i].found
    BY <2>1 DEF Joined
  <2>3. long[k] = last /\ \A i \in 0 .. k - 1 : long[i] = f[i]
    BY <1>2
  <2> HIDE DEF long, last
  <2>4. ASSUME NEW i \in 0 .. k
        PROVE  long[i] = IF i = 0 THEN <<>> ELSE long[i - 1] \o cs[d + i].found
    <3>1. CASE i = k
      <4>1. k # 0 /\ k - 1 \in 0 .. k - 1 /\ long[k - 1] = f[k - 1]
        BY <1>2, <2>3
      <4> QED BY <2>3, <3>1, <4>1 DEF last
    <3>2. CASE i # k
      <4>1. i \in 0 .. k - 1 /\ (i # 0 => i - 1 \in 0 .. k - 1)
        BY <1>2, <3>2
      <4>2. long[i] = f[i] /\ (i # 0 => long[i - 1] = f[i - 1])
        BY <2>3, <4>1
      <4> QED BY <2>2, <4>1, <4>2
    <3> QED BY <3>1, <3>2
  <2>5. long = [i \in 0 .. k |-> IF i = 0 THEN <<>> ELSE long[i - 1] \o cs[d + i].found]
    BY <2>4 DEF long
  <2>6. Joined(long, cs, d, k)
    BY <2>5 DEF Joined
  <2> QED BY <1>2, <2>6
<1>3. n \in S
  <2> HIDE DEF S
  <2>1. 0 .. n \subseteq S
    BY <1>1, <1>2, Climb
  <2> QED BY <2>1
<1> QED BY <1>3

LEMMA AnswersAre ==
  ASSUME NEW cs, NEW c, Len(c) \in Nat
  PROVE  \E f : Joined(f, cs, Len(cs) - Len(c), Len(c)) /\ AnswersOf(cs, c) = f[Len(c)]
<1> DEFINE n == Len(c)
           d == Len(cs) - Len(c)
           f == CHOOSE f : f = [k \in 0 .. n |->
                  IF k = 0 THEN <<>> ELSE f[k - 1] \o cs[d + k].found]
<1>1. \E g : g = [k \in 0 .. n |-> IF k = 0 THEN <<>> ELSE g[k - 1] \o cs[d + k].found]
  <2>1. n \in Nat
    OBVIOUS
  <2> HIDE DEF n, d
  <2>2. \E g : Joined(g, cs, d, n)
    BY <2>1, JoinedExists
  <2> QED BY <2>2 DEF Joined
<1>2. f = [k \in 0 .. n |-> IF k = 0 THEN <<>> ELSE f[k - 1] \o cs[d + k].found]
  <2> HIDE DEF n, d
  <2> QED BY <1>1, Zenon
<1>3. AnswersOf(cs, c) = f[n]
  BY Zenon DEF AnswersOf
<1> HIDE DEF f
<1>4. Joined(f, cs, d, n)
  BY <1>2 DEF Joined
<1> QED BY <1>3, <1>4

\* One more call about one more chunk adds its words.
LEMMA AnswersGrow ==
  ASSUME NEW T, NEW cs \in Seq(T), NEW C, NEW c \in Seq(C), Len(c) <= Len(cs),
         NEW call \in T, NEW chunk \in C
  PROVE  AnswersOf(Append(cs, call), Append(c, chunk)) = AnswersOf(cs, c) \o call.found
<1> DEFINE n == Len(c)
           d == Len(cs) - Len(c)
           cs2 == Append(cs, call)
           c2 == Append(c, chunk)
<1>1. n \in Nat /\ d \in Nat /\ Len(c2) = n + 1 /\ Len(cs2) - Len(c2) = d
  OBVIOUS
<1>2. cs2[d + (n + 1)] = call /\ \A k \in 1 .. n : cs2[d + k] = cs[d + k]
  OBVIOUS
<1>3. PICK f : Joined(f, cs, d, n) /\ AnswersOf(cs, c) = f[n]
  BY <1>1, AnswersAre
<1>4. PICK g : Joined(g, cs2, d, n + 1) /\ AnswersOf(cs2, c2) = g[n + 1]
  <2> HIDE DEF cs2, c2, n, d
  <2>1. Len(c2) \in Nat
    BY <1>1
  <2>2. \E g : Joined(g, cs2, Len(cs2) - Len(c2), Len(c2)) /\ AnswersOf(cs2, c2) = g[Len(c2)]
    BY <2>1, AnswersAre
  <2> QED BY <1>1, <2>2
<1> HIDE DEF n, d, cs2, c2
<1>5. \A k \in 0 .. n : f[k] = IF k = 0 THEN <<>> ELSE f[k - 1] \o cs[d + k].found
  BY <1>3 DEF Joined
<1>6. \A k \in 0 .. n + 1 : g[k] = IF k = 0 THEN <<>> ELSE g[k - 1] \o cs2[d + k].found
  BY <1>4 DEF Joined
<1> DEFINE S == {k \in 0 .. n : f[k] = g[k]}
<1>7. 0 \in S
  BY <1>1, <1>5, <1>6
<1>8. ASSUME NEW k \in 1 .. n, k - 1 \in S PROVE k \in S
  <2>1. k \in 0 .. n /\ k \in 0 .. n + 1 /\ k # 0 /\ f[k - 1] = g[k - 1]
    BY <1>1, <1>8
  <2>2. f[k] = f[k - 1] \o cs[d + k].found
    BY <1>5, <2>1
  <2>3. g[k] = g[k - 1] \o cs[d + k].found
    BY <1>2, <1>6, <2>1
  <2> QED BY <2>1, <2>2, <2>3
<1>9. f[n] = g[n]
  <2> HIDE DEF S
  <2>1. 0 .. n \subseteq S
    BY <1>1, <1>7, <1>8, Climb
  <2>2. n \in S
    BY <1>1, <2>1
  <2> QED BY <2>2 DEF S
<1>10. g[n + 1] = g[n] \o call.found
  <2>1. n + 1 \in 0 .. n + 1 /\ n + 1 # 0 /\ (n + 1) - 1 = n
    BY <1>1
  <2> QED BY <1>2, <1>6, <2>1
<1> QED BY <1>3, <1>4, <1>9, <1>10 DEF cs2, c2

LEMMA AnswersNone ==
  ASSUME NEW cs, NEW c, c = <<>>
  PROVE  AnswersOf(cs, c) = <<>>
<1>1. Len(c) = 0
  OBVIOUS
<1>2. PICK f : Joined(f, cs, Len(cs) - Len(c), Len(c)) /\ AnswersOf(cs, c) = f[Len(c)]
  BY <1>1, AnswersAre
<1>3. f[0] = <<>>
  BY <1>1, <1>2 DEF Joined
<1> QED BY <1>1, <1>2, <1>3

\* What was found is what the chunks' calls answered.
SearchInv ==
  /\ primary \in Seq(Entries) /\ extra \in Seq(Entries)
  /\ failures \in 0 .. Len(chunks) /\ Len(chunks) <= Len(calls)
  /\ failures = Len(chunks) => extra = <<>>
  /\ pc \in {"truncate", "summarize"} => chunks = <<>>
  /\ Answers = extra
  /\ SearchAddsUp

LEMMA SearchInvInit == Init => SearchInv
<1> SUFFICES ASSUME Init PROVE SearchInv
  OBVIOUS
<1>1. primary = <<>> /\ extra = <<>> /\ failures = 0 /\ chunks = <<>> /\ calls = <<>>
  BY DEF Init
<1>2. AnswersOf(calls, chunks) = <<>>
  BY <1>1, AnswersNone
<1>3. Answers = <<>>
  BY <1>2 DEF Answers, AnswersOf
<1>4. SearchAddsUp
  BY <1>1 DEF SearchAddsUp
<1> QED BY <1>1, <1>3, <1>4, EmptySeq DEF SearchInv

\* Before the search there are no chunks and nothing was found in them.
LEMMA AnalyzeFinds ==
  ASSUME SearchInv, chunks = <<>>, primary' \in Seq(Entries), IInv',
         UNCHANGED <<rest, chunks, extra, failures, words>>, pc' \in {"vocab", "lost"}
  PROVE  SearchInv'
<1>1. chunks' = <<>> /\ extra' = extra /\ failures' = failures
  OBVIOUS
<1>2. extra = <<>> /\ failures = 0
  <2>1. Len(chunks) = 0
    OBVIOUS
  <2> QED BY <2>1 DEF SearchInv
<1>3. AnswersOf(calls', chunks') = <<>>
  BY <1>1, AnswersNone
<1>4. Answers' = <<>>
  BY <1>3 DEF Answers, AnswersOf
<1>5. SearchAddsUp'
  BY <1>1 DEF SearchAddsUp
<1>6. Len(chunks') = 0 /\ Len(calls') \in Nat
  BY <1>1 DEF IInv
<1> QED BY <1>1, <1>2, <1>4, <1>5, <1>6, EmptySeq DEF SearchInv

LEMMA ExtractVocabFinds == IInv /\ IInv' /\ SearchInv /\ ExtractVocab => SearchInv'
<1> SUFFICES ASSUME IInv, IInv', SearchInv, ExtractVocab PROVE SearchInv'
  OBVIOUS
<1>1. pc' = pc /\ pc = "vocab" /\ primary' = primary /\ chunks' = Append(chunks, Here)
  BY DEF ExtractVocab
<1>2. PICK ws \in Seq(Entries) :
        /\ extra' = extra \o ws /\ calls' = Append(calls, Call(text, Here, MaxTokens, ws))
        /\ failures' = failures \/ (failures' = failures + 1 /\ ws = <<>>)
  <2>1. CASE \E ws \in Replies : /\ extra' = extra \o ws
                                 /\ calls' = Append(calls, Call(text, Here, MaxTokens, ws))
                                 /\ UNCHANGED failures
    BY <2>1, LongTextAssumption
  <2>2. CASE /\ failures' = failures + 1
             /\ calls' = Append(calls, Call(text, Here, MaxTokens, <<>>))
             /\ UNCHANGED extra
    <3>1. extra \o <<>> = extra /\ <<>> \in Seq(Entries)
      BY DEF SearchInv
    <3> QED BY <2>2, <3>1
  <2> QED BY <2>1, <2>2 DEF ExtractVocab
<1> DEFINE call == Call(text, Here, MaxTokens, ws)
<1>3. /\ calls \in Seq(SoundCalls) /\ chunks \in Seq(Piece)
      /\ calls' \in Seq(SoundCalls) /\ chunks' \in Seq(Piece)
  BY DEF IInv
<1>4. call \in SoundCalls /\ Len(calls') = Len(calls) + 1
  <2>1. Len(calls) \in Nat /\ Len(calls') = Len(calls) + 1 /\ calls'[Len(calls) + 1] = call
    BY <1>2, <1>3
  <2>2. Len(calls) + 1 \in 1 .. Len(calls')
    BY <2>1
  <2> HIDE DEF call
  <2> QED BY <1>3, <2>1, <2>2, ElementOfSeq
<1>5. Here \in Piece /\ Len(chunks') = Len(chunks) + 1
  <2>1. Len(chunks) \in Nat /\ Len(chunks') = Len(chunks) + 1 /\ chunks'[Len(chunks) + 1] = Here
    <3> HIDE DEF Here
    <3> QED BY <1>1, <1>3
  <2>2. Len(chunks) + 1 \in 1 .. Len(chunks')
    BY <2>1
  <2> QED BY <1>3, <2>1, <2>2, ElementOfSeq
<1>6. call.found = ws
  BY DEF Call
<1>7. Answers' = Answers \o ws
  <2>1. AnswersOf(Append(calls, call), Append(chunks, Here))
          = AnswersOf(calls, chunks) \o call.found
    <3> HIDE DEF call, Here
    <3>1. Len(chunks) <= Len(calls)
      BY DEF SearchInv
    <3> QED BY <1>3, <1>4, <1>5, <3>1, AnswersGrow
  <2>2. AnswersOf(calls', chunks') = AnswersOf(calls, chunks) \o ws
    BY <1>1, <1>2, <1>6, <2>1
  <2>3. Answers' = AnswersOf(calls', chunks') /\ Answers = AnswersOf(calls, chunks)
    BY Zenon DEF Answers, AnswersOf
  <2> QED BY <2>2, <2>3
<1>8. Answers' = extra'
  BY <1>2, <1>7 DEF SearchInv
<1>9. primary' \in Seq(Entries) /\ extra' \in Seq(Entries)
  BY <1>1, <1>2, ConcatProperties DEF SearchInv
<1>10. /\ failures' \in 0 .. Len(chunks') /\ Len(chunks') <= Len(calls')
       /\ failures' = Len(chunks') => extra' = <<>>
  <2>1. Len(chunks) \in Nat /\ Len(calls) \in Nat
    BY <1>3
  <2>2. /\ failures \in 0 .. Len(chunks) /\ Len(chunks) <= Len(calls)
        /\ failures = Len(chunks) => extra = <<>>
    BY DEF SearchInv
  <2>3. extra = <<>> /\ ws = <<>> => extra' = <<>>
    BY <1>2
  <2> QED BY <1>2, <1>4, <1>5, <2>1, <2>2, <2>3
<1>11. SearchAddsUp'
  BY <1>1 DEF SearchAddsUp
<1> QED BY <1>1, <1>8, <1>9, <1>10, <1>11 DEF SearchInv

LEMMA StoreAdds == SearchInv /\ Store => SearchInv'
<1> SUFFICES ASSUME SearchInv, Store PROVE SearchInv'
  OBVIOUS
<1> DEFINE all == IF failures = Len(chunks) THEN primary ELSE Merge(primary, extra, Target)
           due == Expected(primary, extra, Target)
<1>1. /\ UNCHANGED <<text, primary, rest, chunks, extra, failures, calls>>
      /\ \/ Storable(all) /\ pc' = "stored" /\ words' = all
         \/ ~ Storable(all) /\ pc' = "lost" /\ words' = words
  BY DEF Store
<1>2. primary \in Seq(Entries) /\ extra \in Seq(Entries) /\ Target \in Nat
  BY LongTextAssumption DEF SearchInv
<1>3. all = due /\ (Storable(all) <=> Storable(primary))
  <2>1. CASE failures = Len(chunks)
    <3>1. extra = <<>>
      BY <2>1 DEF SearchInv
    <3>2. due = primary
      BY <1>2, <3>1, NothingNew
    <3> QED BY <2>1, <3>2
  <2>2. CASE failures # Len(chunks)
    <3>1. Merge(primary, extra, Target) = due
      BY <1>2, MergeWritten
    <3>2. Storable(Merge(primary, extra, Target)) <=> Storable(primary)
      BY <1>2, MergeDistinct
    <3> QED BY <2>2, <3>1, <3>2
  <2> QED BY <2>1, <2>2
<1> HIDE DEF all
<1>4. Answers' = extra'
  <2>1. Answers' = Answers
    BY <1>1 DEF Answers
  <2> QED BY <1>1, <2>1 DEF SearchInv
<1>5. Room = RoomFor(primary, Target)
  BY DEF Room, RoomFor
<1>6. SearchAddsUp'
  <2> DEFINE new == New(primary, extra)
  <2>1. due = primary \o (IF Target > 0 /\ Len(new) > Room THEN SubSeq(new, 1, Room) ELSE new)
    BY <1>5 DEF Expected
  <2>2. primary' = primary /\ Answers' = extra /\ Room' = Room
    BY <1>1, <1>4 DEF Room
  <2>3. IF Storable(primary) THEN pc' = "stored" /\ words' = due ELSE pc' = "lost"
    BY <1>1, <1>3
  <2> HIDE DEF new, due
  <2>4. New(primary', Answers') = new
    BY <2>2 DEF new
  <2> QED BY <2>1, <2>2, <2>3, <2>4 DEF SearchAddsUp
<1>7. pc' \notin {"truncate", "summarize"}
  BY <1>1
<1> QED BY <1>1, <1>4, <1>6, <1>7 DEF SearchInv

LEMMA SearchInvNext == IInv /\ IInv' /\ SearchInv /\ [Next]_vars => SearchInv'
<1> SUFFICES ASSUME IInv, IInv', SearchInv, [Next]_vars PROVE SearchInv'
  OBVIOUS
<1>1. ASSUME NEW t, NEW before, Analyze(t, MaxTokens, before), chunks = <<>> PROVE SearchInv'
  <2>1. primary' \in Seq(Entries)
    BY <1>1, LongTextAssumption DEF Analyze, SearchInv
  <2>2. UNCHANGED <<rest, chunks, extra, failures, words>> /\ pc' \in {"vocab", "lost"}
    BY <1>1 DEF Analyze
  <2> QED BY <1>1, <2>1, <2>2, AnalyzeFinds
<1>2. CASE Truncate
  BY <1>1, <1>2 DEF Truncate, SearchInv
<1>3. CASE Summarize
  <2>1. chunks = <<>>
    BY <1>3 DEF Summarize, SearchInv
  <2>2. CASE \E t, before : Analyze(t, MaxTokens, before)
    BY <1>1, <2>1, <2>2
  <2>3. CASE pc' = "lost" /\ UNCHANGED <<text, primary, rest, chunks, extra, failures, words>>
    <3>1. primary' \in Seq(Entries)
      BY <2>3 DEF SearchInv
    <3> QED BY <2>1, <2>3, <3>1, AnalyzeFinds
  <2> QED BY <1>3, <2>2, <2>3 DEF Summarize
<1>4. CASE UNCHANGED vars
  <2>1. Answers' = Answers
    BY <1>4 DEF vars, Answers
  <2>2. SearchAddsUp' <=> SearchAddsUp
    <3>1. UNCHANGED <<pc, chunks, primary, words>>
      BY <1>4 DEF vars
    <3>2. Room' = Room
      BY <3>1 DEF Room
    <3> QED BY <2>1, <3>1, <3>2 DEF SearchAddsUp
  <2> QED BY <1>4, <2>1, <2>2 DEF vars, SearchInv
<1> QED BY <1>2, <1>3, <1>4, ExtractVocabFinds, StoreAdds DEF Next

\* Whatever the chunks' calls answered or failed at, the article gets the
\* words of its analysis and then, up to the target, each new word once, and
\* the search never costs it the article.  mergeWords and extractVocabChunks,
\* usecase.go:477-492 and 606-677.
THEOREM WordsAddUp == Spec => []SearchAddsUp
<1>1. SearchInv => SearchAddsUp
  BY DEF SearchInv
<1> QED BY <1>1, IInvInit, IInvNext, SearchInvInit, SearchInvNext, PTL DEF Spec
=============================================================================
