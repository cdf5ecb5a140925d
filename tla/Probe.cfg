\* Any order of frames and noise, cut anywhere, and any loss of the link.
CONSTANTS
    Payloads <- AllPayloads
    Noise <- SomeNoise
    FirstSeq = 32766
    MaxFrames = 2
    MaxSent = 3
    MaxWaiting = 1
    Splits = {1, 2, 13}
SPECIFICATION FairSpec
INVARIANTS
    TypeOK
    CountsWhatWasSent
    ShownAsSent
    AckNamesNext
PROPERTIES
    ProbeEnds
\* The probe ends.
CHECK_DEADLOCK FALSE
