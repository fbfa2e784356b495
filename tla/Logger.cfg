\* The logger may be destroyed and the process may exit.
CHECK_DEADLOCK FALSE
SPECIFICATION Spec
CONSTANTS Format <- Formats
          Values <- ValueLists
          MaxCalls = 2
INVARIANTS RendersFormat LosesOnlyTheTail
PROPERTY EverythingIsWritten
