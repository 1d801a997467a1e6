\* A list of rides stays in the chat while rides come and go.
SPECIFICATION Spec
CONSTANTS
  Users = {"ann"}
  Nobody = Nobody
  NoRide = NoRide
  MaxGroup = 1
  MaxChain = 3
  MaxRide = 2
  MaxNow = 5
  MaxDay = 2
INVARIANT ButtonMeansItsRide
