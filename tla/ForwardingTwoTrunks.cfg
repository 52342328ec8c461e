SPECIFICATION FairSpec
CONSTANTS
  r1 = r1
  r2 = r2
  t1 = t1
  t2 = t2
  c1 = c1
  c2 = c2
  p1 = p1
  p2 = p2
  NoConn = NoConn
  NoCtx = NoCtx
  NoAnswer = NoAnswer
  Reqs = {r1, r2}
  Trunks = {t1, t2}
  Conns = {c1, c2}
  DialledBy <- EitherDials
  MaxId = 3
  Restartable = {"client"}
  ServerChain = 1
  ClientChain = 0
  Peers = {p1}
  kind <- CommandAndInform
  trunkIdList <- Mixed
  peerIdList <- OnePeerOnce
INVARIANTS TypeOK StateSurvives OneRequestPerId AnswerIsOwn
PROPERTIES RepliesArrive
