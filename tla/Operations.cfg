CONSTANTS
  ImmBits = 6
  Byte = 3
  Programs <- ProgramsDef
  Operands <- OperandsDef
  Junk <- JunkDef
SPECIFICATION Spec
\* The life of an instruction ends.
CHECK_DEADLOCK FALSE
INVARIANTS
  TypeOK ShiftsRight SumsRight ComparesRight LogicRight ProductsRight
  AccessesRight OnlyTargetChanges RefusalsKnown ClassifiersAgree TablesAgree
