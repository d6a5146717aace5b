SPECIFICATION Spec
CONSTANTS
    CLIENT_ID_MAX_LEN = 3
    PublicKeyLen = 2
    NonceLen = 1
    FingerprintLen = 2
    Digest <- MCDigest
    PublicKey <- MCPublicKey
    Args <- MCArgs
    OtherFrames <- MCOtherFrames
    OtherCodes = {"rate_limited"}
INVARIANTS FramesDecode ReportNamesProblem DerivedBytesMatch PinHonoured
CHECK_DEADLOCK FALSE
