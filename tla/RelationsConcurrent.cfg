SPECIFICATION Spec
CONSTANTS
  Agents = {a1, a2}
  Calls = {c1, c2}
  MaxCalls = 6
  MaxFaults = 1
INVARIANTS
  RelationsInv
  FriendSymmetry
  NoMutualPending
  BlockedNotFriendsAlone
  AcceptedAreFriendsAlone
  FriendsWereAcceptedAlone
  CachesCoherent
CHECK_DEADLOCK FALSE
SYMMETRY Symmetry
PROPERTIES
  BlockEnforcedAlone
