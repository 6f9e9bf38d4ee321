SPECIFICATION Spec
CONSTANTS
  LineNum = 4
  UintMod = 10
  MaxLocks = 10
INVARIANTS FieldsApart GrantsApart FreeCountExact
\* A full bucket that nobody announced stops at the bound MaxLocks.
CHECK_DEADLOCK FALSE
