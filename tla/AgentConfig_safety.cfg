SPECIFICATION Spec
CONSTANTS
  t1 = t1
  t2 = t2
  good1 = good1
  good2 = good2
  bad = bad
  o1 = o1
  o2 = o2
  o3 = o3
  Threads <- ThreadsMC
  Configs <- ConfigsMC
  Accepted <- AcceptedMC
  OpIds <- OpIdsMC
  NoConfig = NoConfig
  NoOp = NoOp
  Free = Free
  JournalLimit = 2
  JournalEvict = 1
  Faults <- AllFaults
SYMMETRY Symmetry
INVARIANTS
  TypeOK
  Serialized
  OnlyAccepted
  NoOrphanFallback
  JournalSound
  HolderInv
PROPERTIES
  NoEffectTwice
  FailureRestores
  AckedIsLive
  AckedIsUndoable
  StoreSpec
