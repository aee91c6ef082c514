CONSTANTS
    File = {f1}
    Length = 2
    Options <- CryptedOnly
    EarlyAnswer = TRUE
    BadAnswer = FALSE
SPECIFICATION Safety
INVARIANT SaltRegenerated
