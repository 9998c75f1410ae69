\* A saturated one-bit filter, k = 2: 19 add calls make k*n/m = 38 > 54 ln 2.
CONSTANTS
    i1 = i1
    f1 = f1
    s1 = s1
    NoItem = NoItem
    Items <- MCItems
    Str <- MCStr
    Size = 1
    HashCount = 2
    MaxAdds = 19
SPECIFICATION Spec
INVARIANTS
    EstimateBelowOne
