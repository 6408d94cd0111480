\* Two toggles of one reaction at a time; views are not needed.
SPECIFICATION ReactionsSpec
CONSTANTS
    Marks = {m1}
    Togglers = {t1, t2}
    Browsers = {}
    Visitors = {}
    NoVisitor = NoVisitor
    Watchers = {}
    LastDay = 0
PROPERTIES
    EveryToggleFlips
