SPECIFICATION FairSpec
CONSTANTS
  v1 = v1
  v2 = v2
  o1 = o1
  o2 = o2
  o3 = o3
  h2 = h2
  NULL = NULL
  VM = {v1, v2}
  HostCtx = {h1}
  Obj = {o1, o2}
  Handle = {x1, x2}
  HeapOf <- HeapTwo
  LoggerEndpoint = FALSE
CONSTRAINT Undisturbed
CHECK_DEADLOCK FALSE
PROPERTIES KeepsSession
