SPECIFICATION FairSpec
CONSTANTS
  Messages <- MessagesMC
  Secrets = {"s", "t"}
  NoSecret = "none"
  Versions = {2, 3}
  PROTOCOL_VERSION = 3
  BS = 2
  MaxPending = 5
  MaxSent = 3
INVARIANTS IInv EqualPeersUnderstand CountsPieces
PROPERTIES ChannelSpec EveryMessageArrives
CHECK_DEADLOCK FALSE
