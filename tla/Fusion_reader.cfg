SPECIFICATION Spec
CONSTANTS
  Buffer = 2
  SubBuffer = 2
INVARIANTS ValuesComeInTheirMode
PROPERTIES KnownIsUnsubscribed ConsumerIsServed DroppedLeavesNothing
