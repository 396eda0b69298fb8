SPECIFICATION FairSpec
CONSTANTS
  w1 = w1
  w2 = w2
  v1 = v1
  v2 = v2
  k1 = k1
  NoKey = NoKey
  NoRow = NoRow
  NoWorker = NoWorker
  Webhooks <- TwoWebhooks
  Workers <- OneWorker
  Keys <- OneKey
  Payloads <- SharedEntity
  MaxAttempts = 2
  MaxWorkers = 1
PROPERTIES
  EveryWebhookSettles
