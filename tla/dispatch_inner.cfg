\* Every order of subscribing, every message.
CONSTANTS
  CustomSuffixes <- MCSuffixes
SPECIFICATION Spec
INVARIANTS EveryMessageHandled
