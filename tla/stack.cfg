SPECIFICATION Spec
CONSTANTS
    one = one
    three = three
    five = five
    cut = cut
    bad = bad
    Records = {one, three, five, cut, bad}
    Length <- MCLength
    Lockers = {s1, s2}
    Unlocked = {}
    Popper = ticker
    Free = free
    NoRecord = none
    HeaderMod = 8
    MOffset = 9
INVARIANTS
    SizeBounded
PROPERTIES
    ImplementsStack
CHECK_DEADLOCK FALSE
