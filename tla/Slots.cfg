\* Two calls remember two texts, with and without a slot tag, while atoms change.
SPECIFICATION Spec
CONSTANTS
  x = x
  y = y
  list = list
  u = u
  s = s
  NoSlot = NoSlot
  Ids = {a1, a2}
  Contents = {x, y, list}
  Callers = {c1, c2}
  ExplicitSlots = {s}
  TagOrder <- ByName
  InferredSlots = {u}
  PiecesOf <- Pieces
  SlotOfContent <- Wording
  Matches <- All
  NearlySame <- Same
  Ambiguous <- Other
  LifecycleTexts = {x}
  LongTexts = {}
  Deployments <- ThreeDeployments
  TextTokens <- Tokens
  PromptTokens <- Prompts
  MaxOverhead = 2
  CallBudget = 2
  TokenBudget = 4
  CacheSize = 1
  MaxPlanned = 1
  MaxVersion = 3
SYMMETRY Symmetry
INVARIANTS
  OneValuePerSlot
  DailyBudgetAlmostHolds
  CachedDecisionFitsCandidates
PROPERTIES
  ReplacesOnlyItsSlot
CHECK_DEADLOCK FALSE
