SPECIFICATION Spec
CONSTANTS
    Addrs = {0, 2, 3, 7}
    Values = {"x"}
    Manual <- OneByHand
    MaxGap = 1
    MaxSize = 3
    MaxAuto = 2
    MaxHw = 2
    MaxList = 3
    MaxHand = 1
PROPERTY ManualStays
