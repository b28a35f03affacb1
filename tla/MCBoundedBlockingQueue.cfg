SPECIFICATION Spec
CONSTANTS
    Producers = {p1, p2, p3}
    Consumers = {c1, c2, c3}
    Items = {a, b}
    NoItem = NoItem
    Capacity = 3
SYMMETRY Symmetry
INVARIANTS
    LiveSlotsHoldItems
    NoneForgotten
PROPERTIES
    ImplementsFifo
