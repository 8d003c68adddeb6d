SPECIFICATION Spec
CONSTANTS
  worker = worker
  Messages = {1, 2}
  Urgent = {2}
  Senders = {worker}
  Background = worker
  BatchSize = 2
  MaxRetries = 1
  MaxMishaps = 2
CHECK_DEADLOCK FALSE
INVARIANTS
  TypeOK
  SentWasDelivered
  DeliveredOnce
PROPERTY EveryMessageHandled
