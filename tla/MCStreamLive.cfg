SPECIFICATION FairSpec
CONSTANTS
    Principals = {p1, a1}
    Nobody = Nobody
    Heads = {h1}
    Humans = {p1}
    MaxAttempts = 3
    Requests = {r1, r2}
    Ids = {c1}
    Streams = {s1}
    Tasks = {t1}
    Free = Free
PROPERTY
    EveryRequestEnds
