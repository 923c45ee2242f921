SPECIFICATION Spec
CONSTANTS
    Heads = {h1, h2}
    SpkiDers = {tsa, rogue}
    Nonces = {n1, n2}
    None = None
    TsaSpki = tsa
    MaxTime = 1
    MaxStamps = 2
    MaxWitness = 2
    MaxAlter = 1
SYMMETRY Symmetry
INVARIANTS TypeOK VerifiedExisted OkIsTrustedTime AcquiredFresh UntouchedPasses
CHECK_DEADLOCK FALSE
