\* Two guests, two invites and four updates, in any order, across a restart.
SPECIFICATION Spec
CONSTANTS
  Updates = {u1, u2, u3, u4}
  a = a
  g = g
  h = h
  Users = {a, g, h}
  Nobody = Nobody
  Codes = {c1, c2}
  NoCode = NoCode
  NoInvite = NoInvite
  Messages <- MCMessages
  Unsent = Unsent
  AdminSets <- MCAdminSets
  INVITE_TTL = 1
  MaxNow = 2
  MaxCrashes = 1
SYMMETRY Interchangeable
INVARIANTS
  TypeOK
  EveryoneWasVouchedFor
  OneGuestPerInvite
  SpentOnAGuest
  OneInvitePerGuest
  MarksAreOfMembers
\* No more messages come.
CHECK_DEADLOCK FALSE
