CONSTANTS
  d1 = d1
  d2 = d2
  d3 = d3
  q1 = q1
  q2 = q2
  onReady = onReady
  f = f
  g = g
  v = v
  w = w
  none = none
  Fn = {f, g}
  Value = {v, w}
  Nothing = none
  PageDef = {d1, d2, d3}
  ReqId = {q1, q2}
  ReadyList = onReady
  DefId <- MCDefId
  ListId <- MCListId
  OwnList <- MCOwnList
  Scripts <- MCScripts
  ListOptions <- MCListOptions
  Settings <- MCSettings
  Handled <- MCHandled
  FirstMade = {d1, d2}
SPECIFICATION Spec
SYMMETRY Symmetric
INVARIANTS
  OneLoopPerList
  ActiveInFlight
  ReadyComes
PROPERTIES
  NobodySkipped
  PromiseSpec
  CompleteIsLast
CHECK_DEADLOCK FALSE
