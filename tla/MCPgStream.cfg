SPECIFICATION FairStreamSpec
CONSTANTS
  Pods = {p1}
  Requests = {q1}
  Humans = {}
  Personas = {b}
  Declining = {b}
  Accounts = {}
  Owned = {q1}
  AskedByPersona = {}
  AllowChoices = {TRUE}
  PreferredChoices = {}
  Grant = 1
  MaxFragments = 3
  MaxCalls = 5
  MaxFaults = 1
  BufferCap = 2
  None = None
INVARIANTS
  GapFree
PROPERTIES
  StreamEnds
  SilenceEnds
  BackstopMatches
