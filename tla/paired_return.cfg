SPECIFICATION Spec
CONSTANTS
    ret = ret  old = old  chk = chk  t1 = t1  t2 = t2  v1 = v1  v2 = v2
    Line = {ret}
    Cents <- Amounts
    Check = {}
    Flag <- Descriptors
    Legacy = {}
    Settlement = {}
    Token = {t1, t2}
    Carries <- Aliases
    Vendor = {v1, v2}
    Kinds <- Types
    Teachable <- AnyVendor
    Receipt = {r1, r2}
    Part = {1}
    Mills = {10}
    MinConfirms = 3
    None = None
INVARIANT PairedNeverExpense
