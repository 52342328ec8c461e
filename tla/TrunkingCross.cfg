SPECIFICATION TimedSpec
CONSTANTS
  a = a
  b = b
  t1 = t1
  t2 = t2
  c1 = c1
  c2 = c2
  c3 = c3
  NoConn = NoConn
  NoTrunk = NoTrunk
  Procs = {a, b}
  TrunkIds = {t1, t2}
  Conns = {c1, c2}
  Dials <- CrossDials
  PingPeriod <- PassiveOnly
INVARIANTS IInv MapsAgree PendingPingIsTracked OnePingAtATime
PROPERTIES RegistrySpec UnansweredIsDropped
