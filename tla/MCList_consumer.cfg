SPECIFICATION Spec
CONSTANTS
  CPUs = {c1, c2, c3}
  Nobody = Nobody
  Nodes = {1, 2, 3}
  Key <- KeyOf
  Consumers = {c1}
  None = None
CHECK_DEADLOCK FALSE
INVARIANTS WellLinked NoFault
PROPERTIES ImplementsMutex ImplementsSequence LockPasses
