CONSTANTS
  trg = trg
  obj = obj
  w1 = w1
  w2 = w2
  n1 = n1
  tag1 = tag1
  h1 = h1
  c1 = c1
  c2 = c2
  None = None
  Objects = {trg, w1}
  Triggers = {trg}
  Windows = {w1}
  Names = {n1}
  InputTags = {tag1}
  Hooks = {}
  Closures = {}
  MaxHooks = 2
  MaxClosures = 2
  MaxDepth = 1
  MaxSeq = 3
  UninitialisedR = {TRUE}
  HandlerPostsInput = FALSE
  MaxEvents = 2
  MaxInput = 1
SPECIFICATION FairSpec
PROPERTY FlushEnds
INVARIANTS
  WaitsForNextFlush
  InputWaitsForExclusive
