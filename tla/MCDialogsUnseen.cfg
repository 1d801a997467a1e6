\* Every outcome of the calls that show a prompt.
SPECIFICATION Spec
CONSTANTS
  Ids = {"a"}
  Unset = Unset
  Sent <- OneDialog
  MaxSent = 3
  MaxFaults = 0
  MaxCrashes = 0
INVARIANT OpenDialogWasShown
