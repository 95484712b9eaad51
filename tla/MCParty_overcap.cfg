SPECIFICATION Spec
CONSTANTS
    Handlers = {h1, h2}
    Players = {a, b, c}
    MaxMembers = 2
    NoParty = NoParty
    MaxParties = 1
    MaxSeats = 3
    MaxFaults = 0
SYMMETRY Symmetry
CHECK_DEADLOCK FALSE
INVARIANT MembersCapped
