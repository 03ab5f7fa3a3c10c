SPECIFICATION Spec
CONSTANTS
    Images <- SmallImages
    Patterns <- NulPatterns
INVARIANTS FoundMatches
