SPECIFICATION MCSpec
CONSTANTS
    User = {u1, u2}
    c1 = c1
    c2 = c2
    Company = {c1, c2}
    Request = {r1, r2}
    None = None
    Edge = {e1}
    Job = {j1, j2}
    Cap = 1
    Name = {ann, admin}
    Reserved = {admin}
    Secret = {s1}
    CodeSet = {k1}
CHECK_DEADLOCK FALSE
INVARIANT CapIsHard
