SPECIFICATION Spec
CONSTANTS
  e1 = e1
  e2 = e2
  far = far
  public = public
  user = user
  here = here
  any = any
  None = None
  Engines = {e1, e2, far}
  Reqs = {1, 2}
  Messages <- MessagesMC
  credIdMap <- CredIdsMC
  contextIdList <- ContextsMC
  peerIdMap <- AnyMC
  contentIdList <- AnyMC
  pluginIdMap <- PluginsMC
  trunkIdMap <- TrunksMC
INVARIANTS OwnSecurityEngine
