\* Every payload, whole and cut off at every token.
CONSTANTS
    Packages <- MCPackages
    Responses <- MCResponses
    Batches <- MCBatches
SPECIFICATION Spec
INVARIANT ArrivesAsSent
