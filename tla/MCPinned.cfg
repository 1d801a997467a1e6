\* Three syncs of one chat and a change that is not synced, with faults of
\* every kind.
SPECIFICATION Spec
CONSTANTS
  Tasks = {t1, t2, t3}
  MaxVersion = 4
  MaxMessage = 5
  MaxLosses = 2
  MaxFaults = 1
  MaxDeleted = 2
  MaxCrashes = 1
SYMMETRY Interchangeable
INVARIANTS
  TypeOK
  OneMessageOrExcess
PROPERTY HealsWhenCalm
\* No more updates come.
CHECK_DEADLOCK FALSE
