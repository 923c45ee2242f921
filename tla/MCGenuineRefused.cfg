SPECIFICATION Spec
CONSTANTS
    s1 = s1
    s2 = s2
    label = label
    alias = alias
    key = key
    otherKey = otherKey
    rsa = rsa
    junk = junk
    good = good
    bad = bad
    lone = lone
    odd = odd
    None = None
    Sessions <- MCSessions
    Labels <- MCLabels
    Keys = {key, otherKey}
    RsaKeys = {rsa}
    BadDers = {junk}
    Payloads <- MCPayloads
    Unencodable = {lone}
    SignerKey = key
    SignerLabel = label
    WriterEvents = {"pre_tool_use", "session_end"}
    MaxLen = 3
    MaxCommits = 3
    MaxDamage = 1
    Pins <- MCPins
    Separating = {bad}
    OutOfContract = {}
INVARIANT GenuineNeverRefused
CHECK_DEADLOCK FALSE
