\* The producer stops after MaxWrites pushes.
CHECK_DEADLOCK FALSE
SPECIFICATION Spec
CONSTANTS Size = 3
          MaxBacklog = 3
          MaxWrites = 8
INVARIANTS TypeOK HeldIsNext NoInvalidRead
PROPERTIES EveryElementRead ImplementsChannel
