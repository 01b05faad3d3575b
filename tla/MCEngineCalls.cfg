SPECIFICATION Spec
CONSTANTS
    Tree <- MCTree
    Uploads <- MCUploads
    Filesystems <- MCFilesystems
    ChannelCap = 1
    ChunkEntries = 2
    Downloads <- MCDownloads
    Hosts <- MCHosts
    ReaderCap = 1
    ArchiveCap = 4
    Alphabet <- MCAlphabet
    Projects <- MCProjects
    Stores <- MCStores
    BodyCap = 1
    MaxLines = 1
    Transfers <- MCTransfers
    Held <- MCHeld
    Limit = 2
    MaxFrames = 2
    Follows <- MCFollows
    MaxWrites = 1
    Execs <- MCExecs
    PipeCap = 1
    Questions <- MCQuestions
    Realities <- MCRealities
    Editable <- MCEditable
    MaxEdits = 2
    MaxUps = 2
    Displays <- MCDisplays
    TickCap = 2
    ScreenCap = 14
    Oneoffs <- MCOneoffs
    MaxMeddles = 2
INVARIANTS
    CopyFaithful
    ImagesFaithful
    FollowAccounted
    ExecFaithful
    ListingFaithful
    HashFaithful
    BoardFaithful
    RunFaithful
