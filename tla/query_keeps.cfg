SPECIFICATION Spec
CONSTANTS
    v = v
    Users = {a}  Keys = {k1}  Values = {v, w, x}  Matching = {v, w}  Initially <- Full  Caching = {TRUE}
    Absent = Absent  Null = Null  Attempts = 2
    MaxWrites = 1  MaxUpsets = 2
INVARIANTS TypeOK Exact Listening NeverHalfway
CHECK_DEADLOCK FALSE
PROPERTY Returns
