CONSTANTS
  trg = trg
  obj = obj
  w1 = w1
  w2 = w2
  n1 = n1
  tag1 = tag1
  h1 = h1
  c1 = c1
  c2 = c2
  None = None
  Objects = {trg}
  Triggers = {trg}
  Windows = {}
  Names = {n1}
  InputTags = {tag1}
  Hooks = {h1}
  Closures = {c1, c2}
  MaxHooks = 2
  MaxClosures = 2
  MaxDepth = 1
  MaxSeq = 3
  UninitialisedR = {TRUE}
  HandlerPostsInput = FALSE
  MaxEvents = 1
  MaxInput = 0
SPECIFICATION LoopingSpec
PROPERTY ContinuousStops
