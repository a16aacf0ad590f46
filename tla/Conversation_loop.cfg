SPECIFICATION FairSpec
CONSTANTS
    MaxTurns = 3
    Threshold = 2
    MaxInterrupts = 1
INVARIANTS KnownCircuit OnePlace SpeakerInUse
PROPERTIES HalfOpenEnds Silence
