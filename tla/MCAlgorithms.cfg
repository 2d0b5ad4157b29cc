SPECIFICATION Spec
CONSTANTS
  TextLengths = {0, 14, 15, 26, 27, 42, 43, 62, 63, 84, 85, 106, 214}
  Strides = {0, 37}
  Characters <- NameCharacters
  NameLength = 3
  MaxChunks = 4
  MaxOptions = 3
  MaxDelay = 3
  MaxCalls = 4
INVARIANTS
  SymbolReadsBack
  AgreesWithReference
