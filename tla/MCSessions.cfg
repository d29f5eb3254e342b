SPECIFICATION MCSpec
CONSTANTS
    User = {u1}
    Family = {f1, f2}
    Token = {t1, t2, t3}
    Request = {r1, r2}
    None = None
    MaxVersion = 1
SYMMETRY Symmetry
INVARIANTS TypeOK OneLivePerFamily RotatedAtMostOnce OldPasswordSessionsDie
PROPERTIES LogoutAllIsFinal SuspensionBars ImplementsLine
