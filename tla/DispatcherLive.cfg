SPECIFICATION WedgedSpec
CONSTANTS
  NCmds = 2
  Classes = {"fetch"}
  NoClass = "other"
  Modes = {"exec"}
  Filters = {"fetch","other"}
  Noise = {"fetch"}
  Statuses = {"bye"}
  Repeats = {}
  Ends = {"bad"}
  STREAM_CHANNEL_CAP = 1
  WRITE_CHANNEL_CAP = 1
  MaxRaw = 0
  MaxSent = 3
PROPERTIES ExecReturns ReaderResumes FailureReachesWaiters
CHECK_DEADLOCK FALSE
