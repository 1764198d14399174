SPECIFICATION Spec
CONSTANTS
    w1 = w1
    w2 = w2
    Workers = {w1, w2}
    Settings <- AllSettings
    Unique = {u1}
    Inodes = {1, 2, 3, 4, 5}
    Lengths = {2}
    MaxVersion = 2
    None = None
INVARIANTS TypeOK InPlaceExact
PROPERTIES NeverReplaced PublishedWhole FreshIntact
