SPECIFICATION Spec
CONSTANTS
    User = {u1}
    VerificationToken = {v1, v2}
    ResetToken = {p1, p2}
    Request = {r1, r2}
    None = None
    MaxTier = 2
    MaxLogouts = 1
SYMMETRY Symmetry
INVARIANTS TypeOK VerifiedByLink ResetsAccounted ResetNeedsPassword
PROPERTIES DeadLinksStayDead TierNeverDrops
