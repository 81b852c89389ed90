\* Two requests at once out of three, on every kind of route; the response leaves
\* before the commit, as with the FastAPI version of uv.lock.
CONSTANTS
  h1 = h1  h2 = h2  k1 = k1  b1 = b1  b2 = b2
  Handlers = {h1, h2}
  Scopes = {"intents", "cancellations", "admin_role_assignments", "agent_intents", "approvals"}
  Keys = {k1}
  Bodies = {b1, b2}
  None = None
  MaxRequests = 3
  MaxFaults = 1
  AnswersBeforeCommit = TRUE
SPECIFICATION Spec
INVARIANTS AppliedOnce AnswersBelong NoPendingLeft ErrorsAreDurable
PROPERTY EveryRequestServed
