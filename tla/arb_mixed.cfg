SPECIFICATION Spec
CONSTANTS
  c1 = c1
  c2 = c2
  c3 = c3
  i1 = i1
  i2 = i2
  i3 = i3
  NoOrder = NoOrder
  Calls = {c1, c2, c3}
  Intents = {i1, i2, i3}
  IntentOf <- MCThree
  InvalidIntents = {i2}
  Unroutable <- MCUnroutable
  Replies = {"ack", "fill", "reject", "err"}
  DbAnswers = {}
INVARIANTS
  VerdictsAgree
  SubmittedIsRoutable
PROPERTIES
  ImplementsOutcome
