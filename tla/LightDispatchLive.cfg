CONSTANT MaxQueue = 2
SPECIFICATION FairSpec
INVARIANT IInv
PROPERTIES ServiceLive SequenceLive
