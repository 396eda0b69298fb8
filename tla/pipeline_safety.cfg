SPECIFICATION Spec
CONSTANTS
  w1 = w1
  w2 = w2
  v1 = v1
  v2 = v2
  k1 = k1
  NoKey = NoKey
  NoRow = NoRow
  NoWorker = NoWorker
  Webhooks <- TwoWebhooks
  Workers <- TwoWorkers
  Keys <- OneKey
  Payloads <- EveryPayload
  MaxAttempts = 2
  MaxWorkers = 1
SYMMETRY Symmetry
INVARIANTS
  IInv
  NoLostOrOrphanedWork
  ProcessedIsComplete
  CompletedImpliesProcessed
  EffectsAreBounded
PROPERTIES
  ProcessedIsFinal
  ComebackNeedsRetry
  WorkIsBounded
  ImplementsLedger
