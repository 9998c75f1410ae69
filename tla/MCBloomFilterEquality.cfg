\* 'in' under Python equality: add(1) then 1.0 in bf.
CONSTANTS
    i1 = i1
    f1 = f1
    s1 = s1
    NoItem = NoItem
    Items <- MCItems
    Str <- MCStr
    Size = 3
    HashCount = 2
    MaxAdds = 2
SPECIFICATION Spec
INVARIANTS
    NoFalseNegativesUnderEquality
