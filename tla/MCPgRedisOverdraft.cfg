SPECIFICATION Spec
CONSTANTS
  Pods = {p1, p2}
  Requests = {q1, q2}
  Humans = {}
  Personas = {b}
  Declining = {b}
  Accounts = {}
  Owned = {q1, q2}
  AskedByPersona = {}
  AllowChoices = {TRUE}
  PreferredChoices = {}
  Grant = 1
  MaxFragments = 1
  MaxCalls = 4
  MaxFaults = 0
  None = None
SYMMETRY PodSymmetry
INVARIANTS
  NoOverdraft
