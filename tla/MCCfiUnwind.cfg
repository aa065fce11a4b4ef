SPECIFICATION Spec
CONSTANTS
  Programs <- MCPrograms
  CodeSections <- MCCodeSections
INVARIANTS
  CompactMeant
  EntriesMeant
