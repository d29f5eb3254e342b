SPECIFICATION Spec
CONSTANTS
    User = {u1}
    Provider = {google, line}
    Subject = {s1}
    Key = {k1, k2}
    Request = {r1, r2}
    None = None
INVARIANT LastLoginMethodKept
