SPECIFICATION FairSpec
CONSTANTS
  p = p
  q = q
  m = m
  n = n
  k = k
  a = a
  b = b
  Ids = {p, q}
  Modules = {m, n}
  Keys = {k}
  Peers = {a, b}
  Reqs = {1}
  MaxEdits = 1
  MaxWrites = 2
  Files <- FilesMC
CHECK_DEADLOCK FALSE
INVARIANTS TypeOK RoutedAreLoaded KnownPeers OnlyWhatWasSeen
PROPERTIES TakesEffect
