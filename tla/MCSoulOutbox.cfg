CONSTANTS
  worker = worker
  supervisor = supervisor
  message = message
  error = error
  Procs = {worker, supervisor}
  Supervisor = supervisor
  Writes = {message, error}
  Writer <- MCWriter
  Keyed = {message}
  Replays = {r1, r2}
  NoWrite = NoWrite
  LostAnswers = TRUE
  MaxCrashes = 2
  FailThreshold = 2
  ProbeInterval = 1
SPECIFICATION FairSpec
INVARIANTS
  AcceptedNeverLost
PROPERTIES
  BacklogDrains
  DiversionEnds
