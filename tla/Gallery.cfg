CONSTANTS
    Urls = {a, b, c}
    MaxFetches = 2
    None = None
SPECIFICATION FairSpec
INVARIANTS
    TypeOK
    WholeGallery
PROPERTIES
    LoadedPhotosStay
    FetchEnds
