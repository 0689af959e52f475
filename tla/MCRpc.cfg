SPECIFICATION Spec
CONSTANTS
  Undefined = Undefined
  MaxSafe = 3
  Requests <- MCRequests
  Responses <- MCResponses
INVARIANTS
  MessagesArrive
  JsonKeepsMessages
