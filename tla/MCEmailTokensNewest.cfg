SPECIFICATION Spec
CONSTANTS
    User = {u1}
    VerificationToken = {v1}
    ResetToken = {p1, p2}
    Request = {r1, r2}
    None = None
    MaxTier = 1
    MaxLogouts = 0
INVARIANT OnlyNewestUsable
