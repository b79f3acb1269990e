SPECIFICATION Spec
CONSTANTS
    Slot = {s1}
    Tour = {t1, t2}
    Lead = {l1}
    Link = {}
    Clerk = {c1, c2}
    None = None
PROPERTY RetryConverges
