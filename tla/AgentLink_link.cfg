SPECIFICATION LinkSpec
CONSTANTS
  t1 = t1
  t2 = t2
  good1 = good1
  good2 = good2
  first = first
  second = second
  undo = undo
  o1 = o1
  o2 = o2
  o3 = o3
  Threads <- ThreadsMC
  Configs <- ConfigsMC
  Accepted <- ConfigsMC
  OpIds = {o1, o2, o3}
  NoConfig = NoConfig
  NoOp = NoOp
  Free = Free
  JournalLimit = 256
  JournalEvict = 64
  Faults <- AllFaults
  Calls <- TwoCalls
  CallRequest <- TwoRequests
  NoCall = NoCall
SYMMETRY Symmetry
CHECK_DEADLOCK FALSE
INVARIANTS
  OncePerChannel
  KeyedAtMostOnce
  OkTookEffect
