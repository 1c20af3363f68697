SPECIFICATION Spec
CONSTANTS
    Threads = {t1, t2}
    Nobody = Nobody
    Names = {n1}
    Severe = 0
    MaxRegister = 1
    MaxLog = 0
INVARIANT SameNameSameId
