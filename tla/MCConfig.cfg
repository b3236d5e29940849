\* Runs of the program over one config.json; two values are given at a start.
SPECIFICATION Spec
CONSTANTS
    Settings <- MCSettings
    MaxGiven = 2
    MaxEdited = 2
INVARIANT TypeOK
PROPERTY Precedence
PROPERTY SavedIsUsed
PROPERTY BadFileHarmless
