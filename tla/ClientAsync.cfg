\* Three requests to two services, one of them new to the client; one request has
\* a Response.  Servers may never answer, or never end an answer.  The contracts
\* are those of MCClient.
CONSTANTS
  N = 3
  Service <- MCTwoServices
  NoResponse = {1, 2}
  EmptyDirs = TRUE
  Configured = {"sub"}
  None = None
  Contracts <- MCContracts
  Providers <- MCProviders
SPECIFICATION FairSpec
INVARIANTS
  TypeOK
  OneResultEach
  ResultMatchesReply
  RunsConfigured
  ContractsAgree
PROPERTIES
  CallReturns
CHECK_DEADLOCK FALSE
