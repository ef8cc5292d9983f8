CONSTANTS
    Corpus <- MCCorpus
    SIBLING_WINDOW = 2
    Toggles <- MCToggles
    Gates <- MCGates
    Drafts <- MCDrafts
    Budgets = {1, 3, 9}
    Multiplier = 3
    TopK = 2
    CRAG_MAX_RETRIES = 2
SPECIFICATION FairSpec
CHECK_DEADLOCK FALSE
INVARIANTS
  LowConfidenceRefused
  ToldAboutReturned
  TraceTellsReply
  HintHolds
PROPERTIES
  Answered
