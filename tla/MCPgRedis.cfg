SPECIFICATION Spec
CONSTANTS
  Pods = {p1, p2}
  Requests = {q1, q2}
  Humans = {h}
  Personas = {b}
  Declining = {b}
  Accounts = {h}
  Owned = {q1}
  AskedByPersona = {q2}
  AllowChoices = {TRUE, FALSE}
  PreferredChoices = {h}
  Grant = 1
  MaxFragments = 1
  MaxCalls = 4
  MaxFaults = 1
  None = None
SYMMETRY PodSymmetry
INVARIANTS
  TypeOK
  Listed
  PointsExact
  Consent
PROPERTIES
  LifecycleRefined
