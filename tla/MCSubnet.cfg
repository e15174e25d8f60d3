SPECIFICATION Spec
CONSTANTS
    short = short
    long = long
    Bits = 3
    MaxLeaves = 4
    Notes = {short, long}
    MaxBytes = 24
    LeafBytes <- NoteBytes
    Frame <- FrameBytes
    Padding = {0, 14}
PROPERTIES
    ImportIsExact
    ImplementsTree
    CommandsEditTheTree
