\* Core filter, m = 3 bits, k = 2 positions per item, up to 4 add calls (all three items and a repeat).
CONSTANTS
    i1 = i1
    f1 = f1
    s1 = s1
    NoItem = NoItem
    Items <- MCItems
    Str <- MCStr
    Size = 3
    HashCount = 2
    MaxAdds = 4
SPECIFICATION Spec
INVARIANTS
    TypeOK
    NoFalseNegatives
    BitsExact
    CallsCoverDistinct
PROPERTIES
    ApproxSpec
