----------------------------- MODULE MCLongText -----------------------------
(***************************************************************************)
(* LongText for TLC. Any text of up to MaxRunes runes is cut, or any       *)
(* summary of one text, and nothing is found in them; or the calls about   *)
(* one text of two chunks find any words.                                  *)
(***************************************************************************)
EXTENDS LongText, TLC

CONSTANT MaxRunes

Trimmed(n) == {t \in [1 .. n -> Runes] : t[1] = "letter" /\ t[n] = "letter"}

MCLongTexts == UNION {{t \in Trimmed(n) : Tokens(n) > MaxTokens} : n \in 1 .. MaxRunes}
MCSummaries == {<<>>} \cup Trimmed(MaxRunes - 2)
MCEntries   == [lemma : {"a", "A", "b"}, form : {1}] \cup {[lemma |-> "a", form |-> 2]}
MCReplies   == UNION {[1 .. n -> MCEntries] : n \in 0 .. 2}
MCLower     == [l \in {"a", "A", "b"} |-> IF l = "A" THEN "a" ELSE l]

\* Two chunks of one paragraph each.
TwoChunks == <<"letter", "newline", "newline", "letter", "letter", "blank", "letter">>

VARIABLE about  \* "texts", "summaries" or "words"

Keeps ==
  /\ about' = about
  /\ about # "words" => \A i \in DOMAIN calls' : calls'[i].found = <<>>
  /\ about # "summaries" => \A i \in DOMAIN calls' : calls'[i].text \in {text, <<>>}

MCInit ==
  /\ Init /\ about \in {"texts", "summaries", "words"}
  /\ about # "texts" => text = TwoChunks
MCNext == Next /\ Keeps
MCSpec == MCInit /\ [][MCNext]_<<vars, about>>
=============================================================================
