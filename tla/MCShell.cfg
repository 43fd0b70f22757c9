\* Six slots: enough for a pipeline of three programs, and too few for one of four.
CONSTANTS
  MAXARGS = 3
  Lines <- MCLines
  MaxProc = 6
  MaxFork = 3
SPECIFICATION Spec
INVARIANTS
  ParsesAsMeant
  DescriptorsPlaced
PROPERTY PromptReturns
