\* Two registrations under one name, beside each other.
CONSTANTS
    ann = ann
    Ann = Ann
    bob = bob
    n1 = n1
    r1 = r1
    r2 = r2
    r3 = r3
    Requests = {r1, r2}
    Asks <- Registering
    Typed = {ann, Ann, bob}
    Normal <- Lowered
    Names = {n1}
    MaxUsers = 2
    MaxKeys = 2
    Letters = {1, 2}
    LostInvalidations = TRUE
    BeatStarts = FALSE
    NoRow = NoRow
    MaxResends = 0
    Rendered = FALSE
CHECK_DEADLOCK FALSE
SPECIFICATION AccountSpec
INVARIANTS
    NamesDiffer
