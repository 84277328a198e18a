SPECIFICATION ProfileSpec
CONSTANTS
    Base <- MCBase
    Alternatives <- MCAlternatives
    MaxEdits = 3
INVARIANTS
    TopologyAgrees
    LateErrorOnlyFromPrep
    DomainsAdmit
    NumbersSound
