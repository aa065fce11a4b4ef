SPECIFICATION Spec
CONSTANTS
  Statements <- MCStatements
  Distances <- MCDistances
  Offsets <- MCOffsets
INVARIANTS
  NeverStops
  FieldsKept
  FormsApart
  
  ConditionsMeant
  RegistersMeant
  LinkedRight
