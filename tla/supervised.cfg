\* The polling loop, its calls about an order and the watchdog.
SPECIFICATION SupervisedSpec
CONSTANTS
  Timeout = 22
  Interval = 1
  NotifyTimeout = 1
  PollSeconds = 1
  LagMax = 1
  IterationMax = 20
  MaxAge = 25
  Size = 2
  Retries = 2
  DriveTries = 1
  CallTime = 1
  PollOrders = 2
  PollReads = 1
INVARIANTS SupervisedTypeOK HangIsEnded NoFalseAlarm
PROPERTIES OrdersAreOneShot TurnsAreBounded
