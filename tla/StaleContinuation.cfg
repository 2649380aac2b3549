SPECIFICATION Spec
CONSTANTS
  Ops = {"LOGIN", "SELECT", "IDLE"}
  PreCaps = {}
  PostCaps = {{"IDLE"}}
  MaxCommands = 4
INVARIANTS ContinuationIsOwn
CHECK_DEADLOCK FALSE
