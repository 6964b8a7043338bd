SPECIFICATION Spec
CONSTANTS
  Pods = {p1, p2}
  Requests = {q1, q2}
  Humans = {h}
  Personas = {}
  Declining = {}
  Accounts = {}
  Owned = {}
  AskedByPersona = {}
  AllowChoices = {TRUE}
  PreferredChoices = {}
  Grant = 0
  MaxFragments = 1
  MaxCalls = 6
  MaxFaults = 0
  None = None
SYMMETRY PodSymmetry
INVARIANTS
  SingleActive
