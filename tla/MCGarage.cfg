\* Two users, a bike each or two for one of them, three chains, rides and
\* rotations over midnights, and every button they may press.
SPECIFICATION Spec
CONSTANTS
  Users = {ann, bob}
  Nobody = Nobody
  NoRide = NoRide
  MaxGroup = 2
  MaxChain = 3
  MaxRide = 2
  MaxNow = 4
  MaxDay = 2
SYMMETRY Interchangeable
INVARIANTS
  TypeOK
  OneActivePerGroup
  ActiveIsUsable
  OwnGarage
PROPERTIES
  ChangesOnlyOwn
  KeepsOdometer
