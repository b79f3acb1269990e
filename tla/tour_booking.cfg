SPECIFICATION Spec
CONSTANTS
    Slot = {s1, s2}
    Tour = {t1, t2}
    Lead = {l1}
    Link = {k1}
    Clerk = {c1, c2}
    None = None
SYMMETRY Symmetry
INVARIANTS TypeOK BookedNamesItsTour ScheduledHoldsTime
