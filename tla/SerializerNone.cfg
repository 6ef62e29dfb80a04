CONSTANTS
    Calls <- OptionalAttributes
    MaxNesting = 2
    MaxFields = 2
SPECIFICATION Spec
INVARIANT
    OutputIsValid
