SPECIFICATION Spec
CONSTANTS
    Users = {"spi", "button", "monitor"}
    MaxSent <- Room
    MaxReads = 2
    MaxRecords = 3
    Blank = {2}
    MaxLosses = 2
INVARIANTS ShownInOrder OffMeansClosed
PROPERTIES RecordedIsRead ButtonComesUp
