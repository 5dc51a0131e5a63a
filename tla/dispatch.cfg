\* Every order of subscribing, every message, two messages or one twice.
CONSTANTS
  CustomSuffixes <- MCSuffixes
  MaxMessages = 2
SPECIFICATION TmSpec
INVARIANTS RightCallback SimpleFiltersReached SetsAnswered ClearedAfterHandedOver
