SPECIFICATION Spec
CONSTANTS
  r1 = r1
  r2 = r2
  r3 = r3
  r4 = r4
  r5 = r5
  p1 = p1
  p2 = p2
  f = f
  g = g
  w = w
  filter = filter
  rewriter = rewriter
  NoNote = NoNote
  NoReq = NoReq
  Reqs = {r1, r2, r3, r4, r5}
  Peers = {p1, p2}
  Plugins = {f, g, w}
  Modules = {filter, rewriter}
  Noting = {filter}
  kind <- KindMC
  peerIdList <- PeersMC
  pluginIdList <- PluginsMC
  moduleOf <- ModuleMC
CHECK_DEADLOCK FALSE
INVARIANTS IInv OnlyUnsentLeft SentToOwnEndpoints HearsOwnRequest UnfilteredAfterRespondOnly SkippedByVerdictOnly RepliedOnce
