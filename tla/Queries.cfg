SPECIFICATION Spec
CONSTANTS
  Requests <- AllRequests
  Day = 5
  ClockLimit = 4
INVARIANTS
  TypeOK
  AnsweredOnce
  ImportExact
  DetailsExact
  TargetPermitted
  HopExact
CHECK_DEADLOCK FALSE
