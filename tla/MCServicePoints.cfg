SPECIFICATION Spec
CONSTANTS
  Requests = {r1, r2}
  AnnSessions = {ann}
  BobSessions = {}
  GuestSessions = {guest}
  PersonaResponders = {}
  PersonaAskers = {}
  Answerers = {ann}
  uAnn = uAnn
  uBob = uBob
  NoUser = NoUser
  None = None
  Users <- MCUsers
  Sessions <- MCSessions
  UserOf <- MCUserOf
  KindOf <- MCKindOf
  SignupGrant = 10
  QuestionCost = 10
  BaseAnswerReward = 10
  DislikeReward = 8
  OutputLimitChars = 2
  OutputLimits = {0, 1, 3}
  AllowChoices = {FALSE}
  AcceptChoices = {TRUE}
  ReactionChoices = {"none", "like", "dislike"}
  ClientSeqs = {1, 2}
  FragmentSizes = {1, 2}
  ChannelCap = 1
SYMMETRY RequestSymmetry
INVARIANTS
  LedgerExact
  AnswerWithinLimit
PROPERTIES
  NoOverdraft
