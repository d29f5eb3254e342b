SPECIFICATION Spec
CONSTANTS
    User = {u1, u2}
    Provider = {google, line}
    Subject = {s1}
    Key = {k1, k2}
    Request = {r1, r2}
    None = None
SYMMETRY Symmetry
INVARIANTS TypeOK BoundByConsent WorksOnce
PROPERTY ClosedStaysClosed
