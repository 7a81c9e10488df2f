SPECIFICATION RecoverySpec
CONSTANTS
    Desktops = {d1}
    Mobiles = {m1}
    Keys = {k1}
    ChallengeIds = {c1}
    Tokens = {t1, t2}
    ChallengeTTL = 1
    AuthTTL = 2
    EntityTTL = 1
    PairIds = {p1}
    BindingIds = {b1}
    MaxPairTTL = 1
    NoMobile = NoMobile
    NoBinding = NoBinding
    NoDesktop = NoDesktop
    NoImage = NoImage
    LeaseFloor = 2
SYMMETRY Symmetric
INVARIANTS
    TrustSurvives
    NoRevival
    RecoveredStore
