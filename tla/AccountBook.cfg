\* Three accounts that may be over, even or short.
SPECIFICATION Spec
CONSTANTS
    Accounts = {a1, a2, a3}
    Variances <- OverEvenShort
    None = None
SYMMETRY Symmetry
PROPERTIES
    MovedIsForGood
CHECK_DEADLOCK FALSE
