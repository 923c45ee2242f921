SPECIFICATION Spec
CONSTANTS
    s1 = s1
    s2 = s2
    label = label
    key = key
    otherKey = otherKey
    good = good
    bad = bad
    None = None
    Sessions <- MCSessions
    Labels = {label}
    Keys = {key, otherKey}
    RsaKeys = {}
    BadDers = {}
    Payloads <- MCPayloads
    Unencodable = {}
    WriterKey = key
    WriterLabel = label
    MaxLen = 2
    MaxChanges = 3
INVARIANTS PassesOnlyValid
