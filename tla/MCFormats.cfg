\* Each part at the size its module says; a job is over when it has its answer.
SPECIFICATION FormatsSpec
CONSTANTS
  MaxPath = 2
  MaxDepth = 4
  MaxInflated = 2
  Files <- FilesFound
  Types = {"Clock"}
  Roles = {"cartridge"}
INVARIANTS
  TypesOK ReadIsWritten WritesWhatReads ClocksKeepTime StatesReload
  SameDiscHoweverDumped HeadersAreFound CardFilesComeBack ArrivesAsWhatItIs SaysWhoWroteIt
PROPERTIES EditsKeepTheRest StepsGoOn
CHECK_DEADLOCK FALSE
