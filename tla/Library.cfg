SPECIFICATION MCSpec
CONSTANTS
  Fns = {"f", "g"}
  Events = {"a", "b"}
  Calls = 4
  Files = {"x", "y", "z"}
  Packages = {"x"}
  Natives = {"n"}
  Broken = {"z"}
  MaxRecords = 3
  MaxPending = 1
  Body = 1
  FileChunks = 2
  HttpCalls = 3
  Answer = 1
  ClientCalls = 2
CHECK_DEADLOCK FALSE
INVARIANTS LibraryTypeOK EmissionsAreHeard ModulesAreWhole HttpIsWhole
PROPERTIES HttpGoesOn
