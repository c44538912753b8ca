SPECIFICATION Spec
CONSTANTS
    CTypes <- MCTypes
    Models <- MCModels
    CHAR_BIT = 2
    WORD = 2
    INT_BITS = 5
    Nothing = Nothing
    Overflow = Overflow
    ByZero = ByZero
    BadIndex = BadIndex
    Undefined = Undefined
    OutOfRange = OutOfRange
VIEW TheStatementsDoNotMatter
INVARIANT AutoTypesFit
PROPERTY StoresWhatIsMeant
CHECK_DEADLOCK FALSE
