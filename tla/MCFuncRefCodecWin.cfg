CONSTANTS
    l1 = l1
    l2 = l2
    Locs <- MCLocs
    Numerals <- MCNumerals
    RawIdBits = 3
    LongBits = 3
    MaxTextLen = 3
    EmptyRange = EmptyRange
    NoRef = NoRef
    Crash = Crash
    Tilde = Tilde
    At = At
SPECIFICATION Spec
INVARIANT RoundTrip
