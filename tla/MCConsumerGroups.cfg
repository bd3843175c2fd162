CONSTANTS
    Producer = {p1}
    MaxMs = 3
    MaxSeq = 1
    MaxCount = 2
    Session = {s1, s2}
    Group = {g}
    None = None
SPECIFICATION GroupsSpec
INVARIANTS
    UnackedIsPending
SYMMETRY Symmetry
