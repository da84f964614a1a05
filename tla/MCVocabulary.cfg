SPECIFICATION MCSpec
CONSTANTS
  h1 = h1
  h2 = h2
  Quiz = Quiz
  Handlers = {h1, h2}
  Words <- MCWords
  LangOf <- MCLangOf
  Languages <- MCLanguages
  Articles <- MCArticles
  Mine <- MCMine
  WordsOf <- MCWordsOf
  CategoryOf <- MCCategoryOf
  Shelves <- MCShelves
  PageSize <- MCPageSize
  Lemma <- MCLemma
  Fold <- MCFold
  SpacedOut <- MCSpacedOut
  NoGloss = ""
  DeckSize = 2
  Wrong = 3
  MaxWrites = 2
  MaxSeconds = 4
  MaxPresses = 4
  ManyPresses = 2
  ManyWrites = 1
INVARIANTS
  ListTrue
  RowOpens
  OptionsSound
PROPERTIES
  TakesTurns
CHECK_DEADLOCK FALSE
