CONSTANTS
    Names <- MCNames
    NoName = NoName
    NoLimit = NoLimit
    Limits = {1, 4, NoLimit}
    DEFAULT_LIMIT = 2
    MAX_LIMIT = 3
SPECIFICATION Spec
INVARIANTS
    EachNameOnce
    NothingSkipped
PROPERTIES
    ListingEnds
