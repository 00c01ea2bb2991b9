SPECIFICATION FairSpec
INVARIANTS HandsFullBuffer IdleIsQuiet
PROPERTIES TransitionEnds StopStops
