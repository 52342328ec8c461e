SPECIFICATION Spec
CONSTANTS
  r1 = r1
  r2 = r2
  t1 = t1
  t2 = t2
  c1 = c1
  c2 = c2
  p1 = p1
  p2 = p2
  NoConn = NoConn
  NoCtx = NoCtx
  NoAnswer = NoAnswer
  Reqs = {r1, r2}
  Trunks = {t1}
  Conns = {c1, c2}
  DialledBy <- ClientDials
  MaxId = 4
  Restartable = {"server"}
  ServerChain = 0
  ClientChain = 0
  Peers = {p1}
  kind <- Informs
  trunkIdList <- OneTrunk
  peerIdList <- OnePeer
SYMMETRY ConnSymmetry
INVARIANTS AnswerIsOwn
