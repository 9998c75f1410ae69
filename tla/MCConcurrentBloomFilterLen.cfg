\* Two threads adding concurrently: does __len__ count every returned add?
CONSTANTS
    a1 = a1
    a2 = a2
    t1 = t1
    t2 = t2
    NoItem = NoItem
    Items <- MCItems
    Str <- MCStr
    Threads <- MCThreads
    Size = 3
    HashCount = 2
    MaxAdds = 2
SPECIFICATION Spec
INVARIANTS
    LenCountsReturnedAdds
