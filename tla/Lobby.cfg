\* Users who wait for the answer to a request for a seat before the next one.
SPECIFICATION Spec
CONSTANTS
  c1 = c1
  c2 = c2
  c3 = c3
  c4 = c4
  Clients <- Users
  Clicks = 1
  Capacity = 2
  Inbox = 2
  Actions <- Doings
  Unsteady <- Fickle
SYMMETRY Alike
CHECK_DEADLOCK FALSE
INVARIANTS
  TypeOK
  StaysUp
  ListsAgree
  ViewCatchesUp
  IndexIsOwn
  RequestsAreAnswered
PROPERTIES
  ImplementsHall
