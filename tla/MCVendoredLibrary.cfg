SPECIFICATION LibrarySpec
CONSTANTS
    Processes = {p1, p2}
    Platforms = {"posix", "windows"}
    Before = {"absent", "other", "whole"}
    MaxOutages = 1
    Assets <- ModelAssets
    Created <- ModelCreated
    Shipped <- ModelShipped
    Prereleases = {"d"}
    PageSize = 1
    MaxVendorings = 2
    Mine = "linux"
    SameSize <- ModelSameSize
INVARIANTS
    LoadedPinned
    RenameIsSafe
PROPERTIES
    LatestChosen
    EverybodyEnds
