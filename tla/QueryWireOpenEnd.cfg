\* Queries that set one field.
SPECIFICATION WireSpec
CONSTANTS
    Numbers = {1, 2, 3}
    MaxSet = 1
INVARIANT UnsetEndIsOpen
