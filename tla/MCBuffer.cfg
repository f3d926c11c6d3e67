CONSTANTS
    Byte = {a, n}
    Newline = n
    Zero = a
    Fill = a
    DefaultSize = 2
    MaxReadable = 4
    MaxWrite = 3
    Data <- MCData
    Length <- MCLength
SPECIFICATION Spec
INVARIANT TypeOK
INVARIANT GrowthBounded
PROPERTY ImplementsByteQueue
