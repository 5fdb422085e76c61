\* What rtc.rs says of an origin.
SPECIFICATION FormatsSpec
CONSTANTS
  MaxPath = 2
  MaxDepth = 4
  MaxInflated = 2
  Files <- FilesFound
  Types = {"Clock"}
  Roles = {"cartridge"}
INVARIANT OriginIsExact
CHECK_DEADLOCK FALSE
