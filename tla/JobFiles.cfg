CONSTANTS
  Jobs = {1, 2}
  Types = {"Local", "PBS", "SGE", "SLURM", "OAR"}
  Requests <- MCRequests
  Programs <- MCPrograms
  MaxRetries = 1
  Events = {"sendFails", "submitFails", "copyFails", "fetchFails", "cleanFails"}
  CutPoints = {4, 5}
  Sources = {"text", "binary", "unreadable"}
  Banners = {"OAR"}
  ClientKeywords = {"$$basis$$", "$$other$$"}
  None = None
SPECIFICATION Spec
INVARIANTS
  NothingIsLost
  InputsAreSent
  FinishedIsDelivered
  ScriptIsExpanded
CHECK_DEADLOCK FALSE
