\* A remover between its check and its unlink deletes a newer live lock.
SPECIFICATION Spec
CONSTANTS
    Proc = {p1, p2, p3}
    Desktop = {}
    Compat = {}
    Canonical = canonical
    None = none
    MaxCrash = 1
    MaxAge = 1
SYMMETRY Symmetry
INVARIANTS
    OneProvisioner
CHECK_DEADLOCK FALSE
