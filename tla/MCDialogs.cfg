\* Four updates, one failed scope, one crash.
SPECIFICATION Spec
CONSTANTS
  Ids = {"a", "b"}
  Unset = Unset
  Sent <- Varied
  MaxSent = 4
  MaxFaults = 1
  MaxCrashes = 1
INVARIANTS
  TypeOK
  StateHasData
  RejectedIsCleared
PROPERTIES
  QuietAnswersMatch
  NoDoubleAnswer
