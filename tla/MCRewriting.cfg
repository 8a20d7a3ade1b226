CONSTANTS
    Label = {lnamespace, lother}
    Value = {a, b, c, none, blank}
    namespaceMatchName = lnamespace
    noneNamespace = none
    Blank = blank
    BadPattern = bad
    other = lother
    Pool <- MCPool
    DropSets <- MCDropSets
    MaxMatchers = 2
SYMMETRY Symmetry
SPECIFICATION Spec
INVARIANTS SelectorExact VisitedTwice ReadConfined CopiesAgree
CHECK_DEADLOCK FALSE
