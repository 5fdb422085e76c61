\* A save wrapped under the role that is the default, as `1saves convert --role primary` does.
SPECIFICATION Spec
CONSTANTS
  MaxPath = 2
  MaxDepth = 4
  MaxInflated = 2
  Files <- FilesFound
  Types = {"Clock"}
  Roles = {"primary"}
INVARIANT WrittenReads
CHECK_DEADLOCK FALSE
