CONSTANTS
  worker = worker
  supervisor = supervisor
  message = message
  error = error
  Procs = {worker, supervisor}
  Supervisor = supervisor
  Writes = {message, error}
  Writer <- MCWriter
  Keyed = {message}
  Replays = {r1, r2}
  NoWrite = NoWrite
  LostAnswers = FALSE
  MaxCrashes = 0
  FailThreshold = 1
  ProbeInterval = 1
SPECIFICATION Spec
INVARIANT LandsOnce
