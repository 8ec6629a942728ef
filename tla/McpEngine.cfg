SPECIFICATION ClientSpec
CONSTANTS
  MaxNotes = 2
  Callers = {c1, c2, c3}
  NoCaller = NoCaller
INVARIANT EngineUnderLock
PROPERTIES
  ContextEndsCall
  ReaderEnds
  OnlyLibraryBlocks
