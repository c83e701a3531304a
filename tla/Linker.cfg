SPECIFICATION Spec
CONSTANTS
  Modules <- AllModules
  Names <- AllNames
  Programs <- AllPrograms
  Label = "label"
  Count = "count"
  Dispatcher = "dispatcher"
  Absent = Absent
  Unresolved = Unresolved
  Linker = Linker
INVARIANTS Counted ExpCurrent NeededOnly GroupComplete LoadedOrSkipped InterruptorsDispatched
CHECK_DEADLOCK FALSE
