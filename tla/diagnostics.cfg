SPECIFICATION DiagnosticsSpec
CONSTANTS
    Inputs <- MCInputs
    MaxText = 6
    MaxListing = 5
CHECK_DEADLOCK FALSE
INVARIANTS
    CommentsStripped
    ListingComplete
