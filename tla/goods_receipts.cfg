\* Two receipts of batteries with one passport id and two of boxes, on pages of two;
\* calls that overlap, deaths.
SPECIFICATION FairSpec
CONSTANTS
  Documents <- FourDocuments
  Master <- Batteries
  Top = 2
  SeenCap = 1
  MaxCalls = 2
  MaxStops = 1
CONSTRAINT InTurn
INVARIANTS
  SeenIsMinted
  MintedOnce
PROPERTIES
  ReceiptsAreMinted
CHECK_DEADLOCK FALSE
