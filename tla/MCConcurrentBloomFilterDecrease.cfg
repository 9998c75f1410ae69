\* Two threads, three adds: can __len__ go down?
CONSTANTS
    a1 = a1
    a2 = a2
    t1 = t1
    t2 = t2
    NoItem = NoItem
    Items <- MCItems
    Str <- MCStr
    Threads <- MCThreads
    Size = 3
    HashCount = 2
    MaxAdds = 3
SPECIFICATION Spec
PROPERTY
    LenNeverDecreases
