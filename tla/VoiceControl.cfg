SPECIFICATION FairVoiceSpec
CONSTANTS
    Stored <- MCStored
    MySQL <- MCMySQL
    Nil = Nil
INVARIANTS
    VoiceTypeOK
    SpokenSkipsMySQL
    LiveRecognizerHeld
PROPERTIES
    SelectionNeverLost
    ListeningEnds
