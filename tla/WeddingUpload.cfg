CONSTANTS
    Roles = {"groom"}
    Photos = {p1, p2}
    Texts = {Blank, t1}
    Blank = Blank
    MaxGallery = 2
    MaxPhotos = 2
    MaxSaves = 2
    MaxWaiting = 1
    None = None
SPECIFICATION Spec
INVARIANTS
    TypeOK
    NoDanglingLink
    GalleryInPickOrder
    PathsAreKept
PROPERTIES
    NothingGoesBack
