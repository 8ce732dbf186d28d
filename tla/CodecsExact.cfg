SPECIFICATION Spec
CONSTANTS
    AnyBytes <- SomeBytes
    Fillers <- SomeFillers
    Addresses = {0, 541, 1193046, 16777215}
    Values <- SomeValues
    Lengths = {0, 5}
    Blocks <- SomeBlocks
    MaxFields = 3
    MaxLength = 8
    MaxPresses = 25
INVARIANTS TransferExact MessageExact AddressesInverse
