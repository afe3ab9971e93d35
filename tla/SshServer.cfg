SPECIFICATION FairServerSpec
CONSTANTS
  MaxRequests = 3
  MaxOut = 2
  MaxIn = 1
  PatientClient = FALSE
  Clients = {c1}
  Keys = {"k1", "k2"}
  KeyNames = {"ann", "bob"}
  None = None
  Pushes <- MCPushes
  MaxPushes = 2
  Base = 4
  Width = 2
  Requests <- MCRequests
INVARIANT LetInByOneSet
INVARIANT RequestsReadExactly
INVARIANT StatusIsFinal
INVARIANT OutputBeforeStatus
PROPERTY GoneClientIsCleanedUp
PROPERTY EofEndsSession
ACTION_CONSTRAINT SessionLast
CHECK_DEADLOCK FALSE
