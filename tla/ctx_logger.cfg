SPECIFICATION Spec
CONSTANTS
  v1 = v1
  v2 = v2
  o1 = o1
  o2 = o2
  o3 = o3
  h2 = h2
  NULL = NULL
  VM = {v1}
  HostCtx = {h1}
  Obj = {o1, o2, o3}
  Handle = {x1, x2}
  HeapOf <- HeapOne
  LoggerEndpoint = TRUE
SYMMETRY HandleSymmetry
CONSTRAINT CollectorOn
CHECK_DEADLOCK FALSE
INVARIANTS OneHolder LoggerFollowsContext
