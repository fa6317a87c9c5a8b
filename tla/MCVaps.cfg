CONSTANTS
    x1 = x1
    x2 = x2
    Vaps = {x1, x2}
    Plans <- MCPlans
    NoVap = NoVap
    NullPage = NullPage
SPECIFICATION Spec
INVARIANTS   PausesAgree 
