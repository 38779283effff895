\* A user who clicks on a room, or on the button for a new one, twice.
SPECIFICATION Spec
CONSTANTS
  c1 = c1
  c2 = c2
  c3 = c3
  c4 = c4
  Clients <- TwoUsers
  Clicks = 2
  Capacity = 2
  Inbox = 2
  Actions <- FourTimes
  Unsteady <- TwoUsers
CHECK_DEADLOCK FALSE
INVARIANTS
  AddresseesAreConnected
