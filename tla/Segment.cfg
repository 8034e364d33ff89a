CONSTANTS
  ImmBits = 6
  Byte = 3
  Programs <- ProgramsDef
  Entries <- EntriesDef
  Junk <- JunkDef
SPECIFICATION Spec
\* The life of a segment ends.
CHECK_DEADLOCK FALSE
INVARIANTS
  TypeOK BranchesLand AllocationFaithful SegmentRight DecisionRight FlagRight CountCharged SiteRight
