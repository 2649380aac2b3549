SPECIFICATION WedgedSpec
CONSTANTS
  NCmds = 3
  Classes = {"fetch"}
  NoClass = "other"
  Modes = {"exec"}
  Filters = {"fetch"}
  Noise = {}
  Statuses = {"ok"}
  Repeats = {}
  Ends = {}
  STREAM_CHANNEL_CAP = 1
  WRITE_CHANNEL_CAP = 1
  MaxRaw = 0
  MaxSent = 1
PROPERTIES WholeExchangeTimed
CHECK_DEADLOCK FALSE
