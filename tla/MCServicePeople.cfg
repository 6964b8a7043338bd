SPECIFICATION Spec
CONSTANTS
  Requests = {r1, r2}
  AnnSessions = {ann}
  BobSessions = {}
  GuestSessions = {guest}
  PersonaResponders = {}
  PersonaAskers = {}
  Answerers = {ann, guest}
  uAnn = uAnn
  uBob = uBob
  NoUser = NoUser
  None = None
  Users <- MCUsers
  Sessions <- MCSessions
  UserOf <- MCUserOf
  KindOf <- MCKindOf
  SignupGrant = 20
  QuestionCost = 5
  BaseAnswerReward = 10
  DislikeReward = 8
  OutputLimitChars = 2
  OutputLimits = {0}
  AllowChoices = {TRUE}
  AcceptChoices = {TRUE}
  ReactionChoices = {"none"}
  ClientSeqs = {1}
  FragmentSizes = {1, 2}
  ChannelCap = 1
SYMMETRY RequestSymmetry
INVARIANTS
  TypeOK
  OneAssignment
  QueueExact
  HoldUntilFirstFragment
  SingleAuthor
PROPERTIES
  CommittedAnswerOwned
  MatchedUnlessDisconnect
