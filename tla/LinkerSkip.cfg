SPECIFICATION Spec
CONSTANTS
  Modules <- AllModules
  Names <- AllNames
  Programs <- AllPrograms
  Label = "label"
  Count = "count"
  Dispatcher = "dispatcher"
  Absent = Absent
  Unresolved = Unresolved
  Linker = Linker
INVARIANTS EveryNeededLoaded
CHECK_DEADLOCK FALSE
