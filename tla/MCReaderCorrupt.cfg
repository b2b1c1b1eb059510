CONSTANTS
    Files <- AllFiles
    None = None
SPECIFICATION ReaderSpec
INVARIANTS
    FramesCoverRecords
