CONSTANTS
    l1 = l1
    Locs <- MCLocs
    Handles <- MCHandles
    CorruptIds <- MCCorruptIds
    Numerals = {}
    MaxTextLen = 0
    RawIdBits = 3
    LongBits = 5
    UintBits = 5
    MaxEdits = 2
    EmptyRange = EmptyRange
    NoRef = NoRef
    Crash = Crash
    Tilde = Tilde
    At = At
    None = None
SPECIFICATION Spec
INVARIANT RereadExact
