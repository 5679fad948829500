SPECIFICATION Spec
CONSTANTS
    u1 = u1
    u2 = u2
    b1 = b1
    b2 = b2
    Absent = Absent
    Torn = Torn
    Url <- TwoUrls
    Bytes <- TwoBytes
    Wanted <- BothWanted
    Overlapping = FALSE
    MaxChanges = 4
SYMMETRY ByteSymmetry
INVARIANTS TypeOK OnlyTrustedCompiles OnlyLockedCompiles
PROPERTIES PinnedUntilForgotten
