------------------------------- MODULE Paging -------------------------------
(***************************************************************************)
(* How the lists of the bot are cut into pages: the words of /mywords      *)
(* (handlers/mywords.go), the words of an article (handlers/words.go) and  *)
(* the history (handlers/history.go) do it alike.  Pages count from 0.     *)
(***************************************************************************)
EXTENDS Integers, Sequences

PageCount(total, size) == (total + size - 1) \div size

\* The page a button asked for, once the list may have shrunk since.
Clamp(page, pages) ==
  IF page < 0 THEN 0 ELSE IF page >= pages THEN pages - 1 ELSE page

\* LIMIT size OFFSET page * size.
Rows(s, size, page) ==
  LET last == (page + 1) * size IN
  SubSeq(s, page * size + 1, IF last < Len(s) THEN last ELSE Len(s))
=============================================================================
