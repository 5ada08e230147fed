SPECIFICATION Spec
CONSTANTS
    Principals = {p1, a1}
    Nobody = Nobody
    Heads = {h1}
    Humans = {p1}
    MaxAttempts = 1
    Requests = {r1, r2, r3}
    Ids = {c1}
    Streams = {s1, s2}
    Tasks = {t1}
    Free = Free
INVARIANTS
    SeqsAreContiguous
    TakesEffectOnce
    AnswersAgree
    NoCollision
    MembershipHeld
    ProjectionIsFold
SYMMETRY StreamSymmetry
