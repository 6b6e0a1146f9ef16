CONSTANTS
  p1 = p1  p2 = p2  s1 = s1  c1 = c1  c2 = c2  c0 = c0  k1 = k1  k2 = k2
  NoBlock = NoBlock  NoComm = NoComm  NoHash = NoHash  Opaque = Opaque
  PopBlocks <- MCPopBlocks
  RespBlocks <- MCRespBlocks
  OwnCommitments <- MCOwnCommitments
  PriorStores <- MCStoresAny
  PriorAnswered = {}
  GetKeys <- MCGetKeys
  PopId = 4001  AhId = 1000
  MaxHeight = 3  BlockHashCount = 2  StateWindow = 2
  CommitmentSource = "index0"
  ReliableEvents = FALSE
  NodeMayRefuse = TRUE
SPECIFICATION Spec
INVARIANT DoneMeansResolvedAnswered
PROPERTIES Termination
CHECK_DEADLOCK FALSE
