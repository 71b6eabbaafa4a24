\* Registration, confirmation, profile and sign-in over two accounts.
CONSTANTS
    ann = ann
    Ann = Ann
    bob = bob
    n1 = n1
    r1 = r1
    r2 = r2
    r3 = r3
    Requests = {r1, r2, r3}
    Asks <- Asking
    Typed = {ann, Ann, bob}
    Normal <- Lowered
    Names = {n1}
    MaxUsers = 2
    MaxKeys = 1
    Letters = {1}
    LostInvalidations = TRUE
    BeatStarts = TRUE
    NoRow = NoRow
    MaxResends = 0
    Rendered = TRUE
CHECK_DEADLOCK FALSE
SPECIFICATION AccountSpec
INVARIANTS
    AccountsTypeOK
    AccountsFit
    ActiveWasConfirmed
