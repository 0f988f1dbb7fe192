\* Two servers, on hosts of their own or on one, open a pack for a client.
CONSTANTS
  Server = {s1, s2}
  Boot = s1
  NoServer = NoServer
  Operation = "openPack"
  Deployments <- BothDeployments
  Attempts = 2
  MaxCalls = 3
  MaxDisruptions = 1
SPECIFICATION FairSpec
CHECK_DEADLOCK FALSE
INVARIANT TypeOK
INVARIANT RetriesExplained
INVARIANT AcceptedExecuted
PROPERTY EveryCallbackAnswers
