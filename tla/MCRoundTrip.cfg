SPECIFICATION Spec
CONSTANTS
    Types <- MCTypes
    Lengths <- MCLengths
INVARIANTS
    RoundTrips
    NoOtherTypeDoes
    NeverAnother
CHECK_DEADLOCK FALSE
