CONSTANTS
  Client = Client
  Server = Server
  TaskNames = {"driver", "party0", "party1"}
  Listener = "party0"
  Connector = "party1"
  MaxTries = 2
  MaxPayload = 3
  MaxChunk = 2
  Programs <- MCPrograms
  Capacities = {2, 3, 5}
SPECIFICATION FairSpec
INVARIANTS NoMismatch CleanBetweenCalls Lockstep
PROPERTY Completes
CHECK_DEADLOCK FALSE
