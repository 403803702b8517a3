SPECIFICATION Spec
CONSTANTS
  MAX_KEY_BYTES = 11
  Keys <- StemsAndTails
  Places <- OnPage
  Fillers <- AnyByte
  NULL = NULL
  JumpSymbols = {11, 22}
  ChildSymbols = {0, 1, 8, 31, 32}
  ChildColors = {3, 8}
  StackBytes <- AnyByte
  MaxChildren = 3
  Tag = 5
  OtherTag = 13
  Nodes <- SomeNodes
  MaxChanges = 3
INVARIANT SymbolsAgree
INVARIANT SymbolOrderIsKeyOrder
INVARIANT NodeKeepsContents
INVARIANT SearchesAgree
\* a descent ends, a node and a pair of buckets may stay as they are
CHECK_DEADLOCK FALSE
