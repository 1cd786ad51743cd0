SPECIFICATION Spec
CONSTANTS
    Half = 4
    Pairs <- MCPairs
    Contents <- MCContents
    Digest <- MCDigest
    MinPadding = 1
INVARIANTS
    TypeOK
    IntactKeysAreRead
    KeysAreReadAsWritten
    SignaturesVerify
    OneSignature
CHECK_DEADLOCK FALSE
