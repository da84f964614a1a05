\* Texts of up to eight runes; budgets of two tokens, and three for a summary,
\* of two runes each; at most two chunks.
SPECIFICATION MCSpec
CONSTANTS
  PerToken = 2
  MaxPieces = 2
  MaxTokens = 2
  SummaryTokens = 3
  Target = 2
  MaxRunes = 8
  LongTexts <- MCLongTexts
  Summaries <- MCSummaries
  Entries <- MCEntries
  Replies <- MCReplies
  Lower <- MCLower
INVARIANTS NothingOverBudget CutAtLatestBreak ChunksCover SearchAddsUp
CHECK_DEADLOCK FALSE
