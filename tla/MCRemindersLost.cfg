\* The call to Telegram fails after the mark is committed.
SPECIFICATION Spec
CONSTANTS
  Users = {u1}
  Nobody = Nobody
  Never <- NoDate
  MaxDay = 1
  MaxCrashes = 0
  MaxFaults = 0
INVARIANT MarkedIsReminded
