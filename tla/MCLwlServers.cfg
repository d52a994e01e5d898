SPECIFICATION Spec
CONSTANTS
  u1 = u1
  A = A
  B = B
  User <- MCUser
  Server <- MCServer
  Ssrc <- MCSsrc
  Draws <- MCDraws
  Tells <- MCTells
  Forwards <- MCForwards
  Retransmit = 2
  StrikeOut = 2
  TimeoutTime = 3
  TockTock = 2
  ForwarderSleep = 1
  ForwarderMaxQ = 1
  MaxTime = 6
  MaxStarts = 2
  MaxCrashes = 1
CHECK_DEADLOCK FALSE
INVARIANTS
  NoLoop
  KeptListed
  GoneUnlisted
  
PROPERTIES
  IsDirectory
