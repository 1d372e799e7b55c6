CONSTANTS
  Endpoint = {e1, e2}
  NoEndpoint = NoEndpoint
  Local = {e1}
  MaxPeers = 2
  MaxFail = 1
  MinReconnect = 1
  Transfer = {t1, t2}
  NoTransfer = NoTransfer
  FirstPeers = {e1}
  MaxConnections = 1
  MaxConnectsPerSecond = 0
  InSessionPause = 1
  MaxTime = 2
SPECIFICATION Spec
INVARIANTS TypeOK TablesAgree ClosedOnce NobodyIsLeft
PROPERTIES LeastFailedIsNext TickEnds StopEnds
