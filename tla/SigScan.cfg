SPECIFICATION Spec
CONSTANTS
    Images <- SmallImages
    Patterns <- PlainPatterns
INVARIANTS InsideImage FoundMatches MissingIsMissing
