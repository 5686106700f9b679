SPECIFICATION MovieSpec
CONSTANTS
    Feeders = {1}
    Viewers = {2}
    Mpegs = {m}
    Films <- MCFilms
    Cells = 2
    Capacity = 2
    Bank = 2
    Rate = 3
    Work = 2
    Reads <- MCReads
    MaxCalls = 2
    MaxAhead = 2
    Delay = 1
    Field = 2
    PtsWrap = 32
    Longest = 6
    NoTime = NoTime
    Absent = Absent
INVARIANTS
    NoForgottenWaiter
    PicturesExact
    NeverTooFast
    WholeFilm
PROPERTIES
    ReadsReturn
