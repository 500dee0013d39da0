CONSTANTS
    Items = {b1, b2, b3}
    item_ct = 3
    Unassigned = Unassigned
SPECIFICATION Spec
INVARIANT TypeOK
INVARIANT IndicesAgree
PROPERTY IsFifo
