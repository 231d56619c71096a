CONSTANTS
    a = a
    lan = lan
    Ips = {a}
    V4 = {a}
    Nets = {lan}
    Covers <- MCCovers
    Jails = {webkvm}
    Web = webkvm
    Workers = {w1, w2}
    DefaultAttempts = 2
    MaxAttempts = 2
    Limit = 2
    Window = 2
    MaxTTL = 2
SPECIFICATION Spec
INVARIANTS TypeOK BannedIsDropped DropIsListed WhitelistHonoured GuessesBounded
SYMMETRY MCSymmetry
