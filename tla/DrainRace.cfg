SPECIFICATION Spec
CONSTANTS
  NCmds = 2
  Classes = {"fetch"}
  NoClass = "other"
  Modes = {"async"}
  Filters = {"fetch"}
  Noise = {"fetch"}
  Statuses = {"ok"}
  Repeats = {}
  Ends = {}
  STREAM_CHANNEL_CAP = 1
  WRITE_CHANNEL_CAP = 1
  MaxRaw = 0
  MaxSent = 4
INVARIANTS IntoReplyLosesNothing
CHECK_DEADLOCK FALSE
