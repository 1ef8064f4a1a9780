SPECIFICATION Spec
CONSTANTS
    p1 = p1
    p2 = p2
    c1 = c1
    c2 = c2
    Producers = {p1, p2}
    Consumers = {c1, c2}
    Entries = 2
    Wrap = 8
    Starts = {0, 7}
    MaxPush = 2
INVARIANTS PopsInOrder SlotsExclusive CountersOrdered
PROPERTIES EverythingPopped
