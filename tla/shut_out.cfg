\* Two users, two pairs of tokens; Redis misses invalidations.
CONSTANTS
    u1 = u1
    u2 = u2
    Users = {u1, u2}
    Tokens = {1, 2}
    LostInvalidations = TRUE
    NoRow = NoRow
SPECIFICATION FairSessionSpec
PROPERTIES
    ShutOut
