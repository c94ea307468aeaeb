CONSTANTS
    a = a
    b = b
    p = p
    q = q
    PlainBytes = {a, b}
    Plain <- Dumps
    Passphrases = {p, q}
    SaltLength = 2
    IvLength = 1
    TagLength = 2
SPECIFICATION Spec
INVARIANTS OnlyTheDump IntactIsReadable DamageIsFound
CHECK_DEADLOCK FALSE
