SPECIFICATION FairFallbackSpec
CONSTANTS
  Requests = {r1}
  AnnSessions = {}
  BobSessions = {}
  GuestSessions = {ann, bob}
  PersonaResponders = {eve}
  PersonaAskers = {zed}
  Answerers = {ann, eve}
  uAnn = uAnn
  uBob = uBob
  NoUser = NoUser
  None = None
  Users <- MCUsers
  Sessions <- MCSessions
  UserOf <- MCUserOf
  KindOf <- MCKindOf
  SignupGrant = 20
  QuestionCost = 5
  BaseAnswerReward = 10
  DislikeReward = 8
  OutputLimitChars = 2
  OutputLimits = {0}
  AllowChoices = {TRUE, FALSE}
  AcceptChoices = {TRUE, FALSE}
  ReactionChoices = {"none"}
  ClientSeqs = {1, 2, 3}
  FragmentSizes = {1, 2}
  ChannelCap = 1
INVARIANTS
  ConsentRespected
  PoolConsistent
  AssignmentAttended
  FallbackAnswerWhole
PROPERTIES
  SilenceEnds
  WatcherEnds
  AnsweredUnlessSkipFails
