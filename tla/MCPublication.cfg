\* Four contents that build and four that do not, two front ends, builds cut short anywhere.
CONSTANTS
    None = None
    Plain = {"comment", "blog", "proc", "stat", "help", "notes", "about", "assets", "pix", "index", "robots", "a", "w"}
    Loose = {"a_1"}
    Hidden = {".draft"}
    MaxTargetLen = 4
    Trees <- MCTrees
    Vites <- MCVites
    Images <- MCImages
    KeyRank <- MCKeyRank
    SiteUrl = FALSE
    MaxBitmapBytes = 2
    MaxGifBytes = 3
    MaxArticleBytes = 3
    Pids = {p1, p2}
    MaxBuilds = 3
SPECIFICATION Spec
SYMMETRY Symmetry
INVARIANTS StaticSafe PublishedIsCurrent Rebuildable NoTreeLost ImagesServed ManifestsReadBack
CHECK_DEADLOCK FALSE
