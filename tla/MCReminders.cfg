\* Two users, three days, one crash, one failed transaction, fairness.
SPECIFICATION FairSpec
CONSTANTS
  Users = {u1, u2}
  Nobody = Nobody
  Never <- NoDate
  MaxDay = 2
  MaxCrashes = 1
  MaxFaults = 1
INVARIANTS
  TypeOK
  AtMostOnceADay
PROPERTIES
  RemindsWhoIsDue
  NobodyForgotten
