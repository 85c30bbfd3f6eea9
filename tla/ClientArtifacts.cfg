SPECIFICATION Spec
CONSTANTS
    NumberByteBits = 4
    NumberUIntBits = 9
    ByteBits = 3
    UIntBits = 6
    CacheSize = 4
    MaxRleLen = 3
    MaxCovers = 2
    InSizes = {1, 2, 3, 5, 40}
    OutSizes = {1, 2, 3}
    BlockMax = 2
    Overlength = 1
    MaxOpen = 2
    PieceSizes = {1, 2, 4}
    Wrong = 0
    MaxReads = 3
    Block = 4
    NameField = 3
    PrefixField = 4
    MaxLongName = 9
    MaxDevicePath = 8
    MaxSegment = 5
    ValidatorPath = 9
    Buffer = 3
INVARIANTS
    NumberReadBack
    NumberSizeIsKnown
    BadNumberRefused
    PatchTypeOK
    CompleteDiffApplies
    OutputIsNewData
    CompleteFileDecompresses
    
    ReadsOldData
    AcceptedBundleInstalls

    
CHECK_DEADLOCK FALSE
