SPECIFICATION Spec
CONSTANTS
    one = one
    three = three
    five = five
    cut = cut
    bad = bad
    Records = {one, three}
    Length <- MCShort
    Lockers = {s1}
    Unlocked = {w1}
    Popper = ticker
    Free = free
    NoRecord = none
    HeaderMod = 8
    MOffset = 9
INVARIANTS
    RecordsSurvive
CHECK_DEADLOCK FALSE
