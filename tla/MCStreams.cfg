CONSTANTS
    AudioRate = 3
    AudioFormat <- Stereo16
    BufOctets = 16
    Clients = {c1, c2, c3}
    Sources <- SomeSources
    Pans <- SomePans
    Shorts = {2}
    MaxDebt = 2
SYMMETRY SlotSymmetry
SPECIFICATION Spec
INVARIANTS
    TypeOK
    Owned
    WholeFrames
    MixInside
    TranslateInside
    PlainIsScaled
    MixMonotone
    RoundTrip
    MonitorsFresh
CHECK_DEADLOCK TRUE
