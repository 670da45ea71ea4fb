CONSTANT MaxQueue = 3
SPECIFICATION Spec
INVARIANTS TypeOK OneInService LampShowsTask NoLostWakeup NoLostHandover
PROPERTIES ImplementsService ImplementsSequence
