CONSTANT Lengths <- MCLengths
SPECIFICATION FairSpec
INVARIANTS NothingLost ReadyAnnounces LeftClean
PROPERTY TransferReturns
