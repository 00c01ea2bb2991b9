CONSTANTS
  u1 = u1
  u2 = u2
  u3 = u3
  u4 = u4
  Users <- MCUsers
  Items <- MCItems
  Callers <- MCCallers
SPECIFICATION FairSpec
INVARIANTS CountExact RunsWhenRequested OnIsRunning
PROPERTY ToldInTime
