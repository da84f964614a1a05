---------------------------- MODULE MCGroqClient ----------------------------
(***************************************************************************)
(* The Groq client with the numbers of the code, in units of 250 ms:       *)
(* backoff 1 s and 3 s, MaxRetryAfter 60 s, buffer 0.75 s.  The hints: no  *)
(* hint, 9.75 s (the tests' value), and one above the clamp.               *)
(***************************************************************************)
EXTENDS GroqClient

MCBackoff == <<4, 12>>
MCHints == {0, 39, 14400}
=============================================================================
