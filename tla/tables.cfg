CONSTANTS
    None = None
    Names <- MCNames
    Within <- MCWithin
    Size <- MCSize
    Tokens <- MCTokens
    Stem <- MCStem
    Keywords <- MCKeywords
    Hints <- MCHints
    Diseases <- MCDiseases
    Brands <- MCBrands
    TermsWords <- MCTermsWords
    Generic = {}
    MinScore = 60
    MinMargin = 2
    Editions <- MCEditions
    Rank <- MCRank
    PayoutBases = {"direct"}
    KbBases = {"kb"}
    CancerBases = {"kb"}
    Queries <- MCQueries
    Start <- MCStart
    MaxOps = 3
SPECIFICATION Spec
INVARIANTS
    OwnProduct
    ExclusionsAttached
    NoContradiction
    MostSpecific
    SpecificCover
    OwnWaiting
    LoadedInOrder
