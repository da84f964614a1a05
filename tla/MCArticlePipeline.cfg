SPECIFICATION Spec
CONSTANTS
  Users = {u1, u2}
  Pages = {p1, p2}
  Langs = {en, de}
  Levels = {B1}
  Lemmas = {w1}
  Handlers = {h1, h2}
  Blockable = {p1}
  NoUser = NoUser
  NoPage = NoPage
  NoLang = NoLang
  MaxEvents = 4
SYMMETRY Symmetry
INVARIANTS
  BlockedStopsAtGate
  OnlyAskedFor
  ParkedOnce
PROPERTIES
  ImplementsLibrary
  LearnedWithArticle
CHECK_DEADLOCK FALSE
