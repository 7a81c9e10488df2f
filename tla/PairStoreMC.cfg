SPECIFICATION Spec
CONSTANTS
    Desktops = {d1}
    Mobiles = {m1, m2}
    Keys = {k1, k2}
    ChallengeIds = {c1}
    Tokens = {t1, t2, t3}
    ChallengeTTL = 1
    AuthTTL = 2
    EntityTTL = 1
    PairIds = {p1, p2}
    BindingIds = {b1, b2}
    MaxPairTTL = 1
    NoMobile = NoMobile
    NoBinding = NoBinding
    NoDesktop = NoDesktop
SYMMETRY Symmetric
INVARIANTS
    ClaimBacked
    ActiveIffApproved
PROPERTIES
    KeyContinuity
    ActiveIsFrozen
    KeepsPairingPromise
