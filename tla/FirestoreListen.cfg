SPECIFICATION Spec
CONSTANTS
    Docs = {d1}
    Writers = {w1, w2}
    Listeners = {l1}
    Ops = {"create", "update", "delete", "commit"}
    Cap = 3
    MaxWrites = 2
    MaxOps = 1
    MaxAdds = 1
SYMMETRY Symmetry
INVARIANTS ListenInv NewestShown WriterNeverWaits
CHECK_DEADLOCK FALSE
