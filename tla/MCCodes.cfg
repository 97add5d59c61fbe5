\* Two creators and two checks of one key, any of which may die, with keys that expire.
CONSTANTS
    Creators = {r1, r2}
    Verifiers = {v1, v2}
    MaxAttempts = 2
    MaxCodes = 2
    MaxTries = 5
SPECIFICATION FairSpec
INVARIANTS
    MailedCodeExpires
    GuessesBounded
    SpentCodeIsGone
PROPERTY
    MailedCodesRunOut
\* Codes and tries run out in the instance.
CHECK_DEADLOCK FALSE
