SPECIFICATION FairSpec
CONSTANTS
  t1 = t1
  t2 = t2
  good1 = good1
  good2 = good2
  bad = bad
  o1 = o1
  o2 = o2
  o3 = o3
  Threads <- ThreadsMC
  Configs = {good1, bad}
  Accepted = {good1}
  OpIds = {o1}
  NoConfig = NoConfig
  NoOp = NoOp
  Free = Free
  JournalLimit = 2
  JournalEvict = 1
  Faults <- AllFaults
PROPERTIES
  Answered
