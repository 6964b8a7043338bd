SPECIFICATION WorkSpec
CONSTANTS
  Requests = {r1, r2}
  AnnSessions = {}
  BobSessions = {}
  GuestSessions = {ann}
  PersonaResponders = {eve}
  PersonaAskers = {zed, zoe}
  Answerers = {ann, eve}
  uAnn = uAnn
  uBob = uBob
  NoUser = NoUser
  None = None
  Users <- MCUsers
  Sessions <- MCSessions
  UserOf <- MCUserOf
  KindOf <- MCKindOf
  SignupGrant = 20
  QuestionCost = 5
  BaseAnswerReward = 10
  DislikeReward = 8
  OutputLimitChars = 3
  OutputLimits = {0}
  AllowChoices = {TRUE}
  AcceptChoices = {TRUE, FALSE}
  ReactionChoices = {}
  TargetQueue = 2
  ClientSeqs = {1}
  FragmentSizes = {2}
  ChannelCap = 1
SYMMETRY WorkSymmetry
INVARIANTS
  NeverIdle
  OwnQuestion
  PostingAccounted
  FollowUpWatched
