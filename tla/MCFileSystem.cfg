SPECIFICATION Spec
CONSTANTS
    fa = fa
    fb = fb
    fc = fc
    byte = byte
    Names = {fa, fb, fc}
    NoFile = NoFile
    Bytes = {byte}
    Junk = Junk
    NumSectors = 8
    SectorSize = 2
    NumDirEntries = 2
    MapSectors = 1
    DirSectors = 1
    MaxOpenFiles = 3
    Sizes = {1, 3}
    Data <- ShortAndLong
    Positions = {1}
INVARIANT SpaceExact
PROPERTY ImplementsStore
