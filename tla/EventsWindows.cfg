CONSTANTS
  trg = trg
  obj = obj
  w1 = w1
  w2 = w2
  n1 = n1
  tag1 = tag1
  h1 = h1
  c1 = c1
  c2 = c2
  None = None
  Objects = {w1, w2}
  Triggers = {}
  Windows = {w1, w2}
  Names = {n1}
  InputTags = {tag1}
  Hooks = {h1}
  Closures = {c1, c2}
  MaxHooks = 2
  MaxClosures = 2
  MaxDepth = 2
  MaxSeq = 1
  UninitialisedR = {TRUE, FALSE}
  HandlerPostsInput = TRUE
  MaxEvents = 0
  MaxInput = 0
SPECIFICATION Spec
SYMMETRY HandlerSymmetry
INVARIANTS
  ContinuousKeptAlive
  UpdatesBounded
  LoopGuards
  LoopIndexInRange
