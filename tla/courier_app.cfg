\* One order, and two loads at the same time.
SPECIFICATION FairSpec
CONSTANTS
  None = None
  o1 = o1
  l1 = l1
  own = own
  Orders = {o1}
  Loads = {l1}
  Own = own
PROPERTIES CatchesUp BusyEnds SuspendedLeaves
