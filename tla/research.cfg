\* The offline parts: a replay over three candles, two sources, one message.
SPECIFICATION Spec
CONSTANTS
  Plans <- MCPlans
  Start = 5
  Moves <- MCMoves
  Span = 2
  Window = 5
  Unit = 6
  PostUntil = 1
  MaxPosts = 2
  MaxTicks = 8
  Sources = {s1, s2}
  Outcomes <- MCOutcomes
  R = 2
  Recent = 2
  MaxOutcomes = 4
  MaxReviews = 1
  Words <- MCWords
  MaxWords = 5
  MaxPapers = 2
SYMMETRY Symmetry
INVARIANTS TypeOK ReplayAgrees ScoreNeverFlatters MemoryTotals AdviceSound PaperAsMeant
PROPERTIES VerdictFinal
CHECK_DEADLOCK FALSE
