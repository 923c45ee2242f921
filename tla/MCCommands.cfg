SPECIFICATION Spec
CONSTANTS
    s1 = s1
    label = label
    alias = alias
    key = key
    otherKey = otherKey
    bash = bash
    read = read
    own = own
    r1 = r1
    r2 = r2
    lone = lone
    None = None
    Sessions = {s1}
    Labels = {label, alias}
    Keys = {key, otherKey}
    RsaKeys = {}
    BadDers = {}
    Payloads <- MCPayloads
    Unencodable <- MCUnencodable
    KNOWN_TOOL_NAMES = {bash, read}
    ACTORS = {"user", "system"}
    WriterKey = key
    WriterLabel = label
    OtherKey = otherKey
    Histories <- MCHistories
    Invocations <- MCInvocations
    Touched = {2}
    MaxChanges = 2
INVARIANTS TypeOK ZeroMeansAsked ReportAgrees ShownIsVerified ExplainedIsEdit TamperIsCaught DiffIsExact SweepIsExact
