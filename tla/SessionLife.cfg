SPECIFICATION Spec
CONSTANTS
  Ops = {"NOOP", "CAPABILITY", "LOGOUT", "LOGIN", "AUTHENTICATE", "SELECT", "EXAMINE", "LIST", "FETCH", "SEARCH", "STORE", "EXPUNGE", "CLOSE", "UNSELECT", "CHECK", "IDLE", "MOVE"}
  PreCaps = {"UNSELECT"}
  PostCaps = {{"IDLE"}, {"IDLE", "UNSELECT", "MOVE"}}
  MaxCommands = 5
INVARIANTS TypeOK StatesAgree LegalCommands CapabilitiesOfThisPhase CredentialsInvited IdleHandleInvited
CHECK_DEADLOCK FALSE
