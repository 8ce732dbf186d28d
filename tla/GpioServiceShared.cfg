SPECIFICATION Spec
CONSTANTS
    u1 = u1
    u2 = u2
    pin = pin
    Users <- BothUsers
    Pins = {pin}
    PinOf <- SamePin
    DirOf <- EitherWay
    MaxSent <- Bound
    MaxObjects = 3
INVARIANTS TypeOK LineMatchesMap OpenMeansHeld OneOwner WaitKeepsObject
PROPERTIES HeldUntilClosed FreshInitWorks
CHECK_DEADLOCK FALSE
