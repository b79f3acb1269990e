SPECIFICATION Spec
CONSTANTS
    Slot = {s1, s2}
    Tour = {t1, t2}
    Lead = {l1}
    Link = {}
    Clerk = {c1}
    None = None
PROPERTY StaffBooksOne
