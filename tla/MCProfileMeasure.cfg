SPECIFICATION ProfileSpec
CONSTANTS
    Base <- MCBase
    Alternatives <- MCAlternatives
    MaxEdits = 1
INVARIANTS
    UnusedMeasuresDoNotBlock
