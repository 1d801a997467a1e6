\* A number typed right behind a button.
SPECIFICATION Spec
CONSTANTS
  Ids = {"a"}
  Unset = Unset
  Sent <- OneDialog
  MaxSent = 3
  MaxFaults = 0
  MaxCrashes = 0
INVARIANT NoRideMidDialog
