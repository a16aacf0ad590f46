SPECIFICATION FairSpec
CONSTANTS
    Cap = 2
    Padding = 1
    Silence = 1
    MinSpeech = 2
    MaxRecord = 4
    NoSpeech = 3
    MaxChunks = 4
CHECK_DEADLOCK FALSE
INVARIANTS NoGap TranscriptComplete NoEcho
PROPERTIES CaptureEnds
