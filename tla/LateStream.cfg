SPECIFICATION FairSpec
CONSTANTS
  NCmds = 1
  Classes = {"fetch"}
  NoClass = "other"
  Modes = {"async"}
  Filters = {"fetch"}
  Noise = {"fetch"}
  Statuses = {"ok"}
  Repeats = {}
  Ends = {"eof"}
  STREAM_CHANNEL_CAP = 1
  WRITE_CHANNEL_CAP = 1
  MaxRaw = 0
  MaxSent = 1
PROPERTIES StreamEndsOnFailure
CHECK_DEADLOCK FALSE
