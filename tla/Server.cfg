\* Three messages to the client, of which the second does not fit into a frame,
\* and two or three frames from it.
\* A message that ends with its second frame is one the game cannot take.
SPECIFICATION FairSpec
CONSTANTS
  MaxOut = 3
  MaxIn = 3
  Long = {2}
  Unfit = {2}
CHECK_DEADLOCK FALSE
INVARIANTS
  TypeOK
  OneWriter
  NothingForgotten
  MessagesAreWhole
  CloseIsLast
  HarmlessWhileOpen
PROPERTIES
  ImplementsChannel
  QueueDrains
  StopReturns
