CONSTANTS
  Iods = {a}
  Needs = {1}
  PerIod = 1
  MaxRequests = 4
  MaxData = 1
SPECIFICATION Spec
INVARIANTS CountsExact StructuresOwned AnsweredOnce NoLostWakeup
PROPERTIES TimeoutsDelivered
