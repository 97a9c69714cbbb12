SPECIFICATION Spec
CONSTANTS
    a1 = a1
    a2 = a2
    a3 = a3
    b1 = b1
    fa1 = fa1
    fa2 = fa2
    fa3 = fa3
    fb1 = fb1
    c1 = c1
    fc1 = fc1
    Calls = {a1, a2, a3, b1}
    Scopes = {s1}
    Wrappers = {fa1, fa2, fa3, fb1, fc1}
    WrapperOf <- MCWrapperOf
    FileOf <- MCFileOf
    Base = base
    None = none
    Unresolved = unresolved
    MaxDepth = 3
INVARIANTS
    FieldsNameYoungest
    ResumedIsItself
    YoungestIsNobodyElse
CHECK_DEADLOCK FALSE
