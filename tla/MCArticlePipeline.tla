-------------------------- MODULE MCArticlePipeline -------------------------
(***************************************************************************)
(* ArticlePipeline for TLC: users, handlers, languages and lemmas are      *)
(* interchangeable.                                                        *)
(***************************************************************************)
EXTENDS ArticlePipeline, TLC

Symmetry == Permutations(Users) \cup Permutations(Handlers)
              \cup Permutations(Langs) \cup Permutations(Lemmas)
=============================================================================
