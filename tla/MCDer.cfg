SPECIFICATION Spec
CONSTANTS
    Messages <- MCMessages
    Beyond = 8388607
    Octets = {0, 1, 31, 127, 128, 129, 132, 133, 255}
INVARIANTS TypeOK RoundTrip TruncationSeen Tiled IntegersShortest
PROPERTY Advances
