SPECIFICATION Spec
CONSTANTS
    Jobs <- MCShowTwo
    PipeCap = 2
PROPERTIES
    QuitSilencesTerminal
