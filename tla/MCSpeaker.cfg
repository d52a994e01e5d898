SPECIFICATION Spec
CONSTANTS
  a = a
  b = b
  Local = Local
  None = None
  Remote = {a}
  HostTimeout = 3
  BusyTimeout = 2
  AudioRelease = 2
  Jitter = 1
  JitterIdle = 1
  TockTock = 2
  TickTock = 1
  JitterTock = 1
  Tries = 2
  MaxHits = 1
  MaxLost = 1
  MaxBacklog = 0
CHECK_DEADLOCK FALSE
INVARIANTS
  
  NotLeftMuted
  GetsAudio
PROPERTIES
  KeyKept
  Unblocks
