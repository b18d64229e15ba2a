SPECIFICATION Spec
CONSTANTS
    n_fatent = 8
    SS = 2
    csize = 2
    n_root = 4
    MAX_DIR = 8
    Names = {1, 2, 3, 4, 5, 6, 7, 8}
    OldByte = 200
    Fils = {f1, f2}
    Paths <- MCPaths
    Dirs <- MCDirs
    Doomed <- MCDoomed
    Lengths = {1, 5}
    Offsets = {1, 5}
    Modes <- MCModes
    Volumes <- MCVolumes
    MaxCalls = 4
    MaxMishaps = 1
VIEW State
SYMMETRY Symmetry
INVARIANTS
    ChainsApart
    NoSpaceLost
PROPERTIES
    FatIsFileStore
    FullMeansFull
CHECK_DEADLOCK FALSE
