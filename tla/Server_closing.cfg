\* A client that leaves while messages to it are under way.
SPECIFICATION FairSpec
CONSTANTS
  MaxOut = 2
  MaxIn = 0
  Long = {}
  Unfit = {}
CHECK_DEADLOCK FALSE
INVARIANT UnregisteredOnce
