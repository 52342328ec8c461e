SPECIFICATION Spec
CONSTANTS
  NoCtx = NoCtx
  MaxOid = 4
  MaxBulk = 2
  Oids <- OidsMC
  Lists <- ListsMC
  Reloads <- ReloadsMC
  Mibs <- MibsMC
  Requests <- RequestsMC
  Walks <- WalksMC
  MayTruncate = FALSE
INVARIANT BulkNonRepeatersAsNext
