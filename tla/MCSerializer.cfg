CONSTANTS
    Calls <- OrderlyCalls
    MaxNesting = 4
    MaxFields = 3
SPECIFICATION Spec
INVARIANTS
    TypeOK
    OutputIsValid
    FlagIsForAttributes
    ValuesLand
    RefusedOutOfOrder
