SPECIFICATION Spec
CONSTANTS
    Buf <- MCBuf
    Start <- MCStart
    MaxLength = 5
    Damage <- MCDamage
INVARIANTS TypeOK DigestIsRemainder DigestArrives BurstsSeen PaddingSeen
CHECK_DEADLOCK FALSE
