\* A beat that cannot start, and what is to be done every night.
CONSTANTS
    ann = ann
    Ann = Ann
    bob = bob
    n1 = n1
    r1 = r1
    r2 = r2
    r3 = r3
    Requests = {r1}
    Asks <- Registering
    Typed = {ann, Ann, bob}
    Normal <- Lowered
    Names = {n1}
    MaxUsers = 1
    MaxKeys = 1
    Letters = {1}
    LostInvalidations = TRUE
    BeatStarts = FALSE
    NoRow = NoRow
    MaxResends = 0
    Rendered = FALSE
CHECK_DEADLOCK FALSE
SPECIFICATION FairAccountSpec
PROPERTIES
    TokensExpire
