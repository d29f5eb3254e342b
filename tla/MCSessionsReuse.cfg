SPECIFICATION HistSpec
CONSTANTS
    User = {u1}
    Family = {f1}
    Token = {t1, t2}
    Request = {r1, r2}
    None = None
    MaxVersion = 0
INVARIANT RevokedFamilyHasNoLiveToken
