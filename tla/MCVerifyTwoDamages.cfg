SPECIFICATION Spec
CONSTANTS
    s1 = s1
    s2 = s2
    label = label
    alias = alias
    key = key
    otherKey = otherKey
    rsa = rsa
    junk = junk
    good = good
    bad = bad
    lone = lone
    odd = odd
    None = None
    Sessions = {s1}
    Labels <- MCLabels
    Keys = {key, otherKey}
    RsaKeys = {rsa}
    BadDers = {junk}
    Payloads <- MCTwoPayloads
    Unencodable = {}
    SignerKey = key
    SignerLabel = label
    WriterEvents = {"pre_tool_use", "session_end"}
    MaxLen = 2
    MaxCommits = 2
    MaxDamage = 2
    Pins <- MCPins
    Separating = {}
    OutOfContract = {}
INVARIANTS AcceptedAsWritten PinnedSound
CHECK_DEADLOCK FALSE
