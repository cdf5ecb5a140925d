\* Files of any lines in any order.
CONSTANTS
    Ids = {rtu_main, rtu_west}
    RtuMain = rtu_main
    Addresses = {1, 2}
    Texts <- SomeTexts
    TooWide = TooWide
    Junk = Junk
    DefaultHost = DefaultHost
    Unset = Unset
    Lines <- SomeLines
    MaxLines = 4
SPECIFICATION Spec
INVARIANTS
    TypeOK
    OptionsAsWritten
    PointsAsWritten
\* The file is read.
CHECK_DEADLOCK FALSE
