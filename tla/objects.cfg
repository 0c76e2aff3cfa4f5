SPECIFICATION Spec
CONSTANTS
    Members <- MCMembers
    Numbers <- MCNumbers
    MaxAttrs = 3
INVARIANTS TypeOK Derived Acknowledged
CHECK_DEADLOCK FALSE
