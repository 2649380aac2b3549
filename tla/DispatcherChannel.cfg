SPECIFICATION Spec
CONSTANTS
  NCmds = 2
  Classes = {"fetch"}
  NoClass = "other"
  Modes = {"exec"}
  Filters = {"fetch","other"}
  Noise = {}
  Statuses = {"ok", "no"}
  Repeats = {1}
  Ends = {"eof", "huge"}
  STREAM_CHANNEL_CAP = 1
  WRITE_CHANNEL_CAP = 1
  MaxRaw = 1
  MaxSent = 3
INVARIANTS OutcomeIsAnswer
PROPERTIES ImplementsChannel
CHECK_DEADLOCK FALSE
