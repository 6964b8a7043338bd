SPECIFICATION FairSpec
CONSTANTS
  Pods = {p1, p2}
  Personas = {i1, i2, i3, i4}
  MaxPeople = 2
  MaxResponders = 2
  MaxFaults = 2
  None = None
INVARIANTS
  NoOrphan
  CountCorrect
PROPERTIES
  EmptyHouse
  DemotedReaps
