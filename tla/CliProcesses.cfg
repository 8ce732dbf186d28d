SPECIFICATION CliSpec
CONSTANTS
    p1 = p1
    p2 = p2
    Users = {p1, p2}
    MaxSent <- Room
    Uploads <- Lists
    Singles <- SomeSingles
    MaxTrans = 2
    Jobs <- TwoShells
    Asked <- Lines
    Mixed <- MixedLists
    Found <- Earlier
INVARIANTS
    WholeUploads
    ReadOnceInOrder
    ExitZeroIsTrue
    NothingGoesMissing
    ClosedBehind
PROPERTY UploadExact
CHECK_DEADLOCK FALSE
