\* Up to four arguments; files of up to five bytes, in chunks of two bytes.
SPECIFICATION Spec
CONSTANTS
    Words <- SomeWords
    MaxArgs = 4
    ReadToEnd = {"1", "70000", ""}
    Ports = {"1"}
    Sizes = {"1", "70000"}
    Floats = {"1", "70000"}
    Ids = {"id"}
    ChatIds = {}
    Base = 2
    NameField = 2
    SizeField = 3
    ChunkField = 2
    HashField = 2
    ChunkBytes = 2
    HashPiece = 1
    Names <- SomeNames
    Contents <- SmallFiles
CHECK_DEADLOCK FALSE
INVARIANTS TypeOK ParsesGrammar LastValueWins CutAsRead FileComplete
PROPERTIES FindsWhatIsRight
