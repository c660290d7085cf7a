SPECIFICATION Spec
CONSTANTS
    Docs = {d1}
    Writers = {w1}
    Listeners = {l1}
    Ops = {"update"}
    Cap = 2
    MaxWrites = 3
    MaxOps = 2
    MaxAdds = 1
INVARIANTS NoDoubleClose
CHECK_DEADLOCK FALSE
