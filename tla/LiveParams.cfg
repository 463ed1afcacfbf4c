\* Three requests, saves and adds in any mixture, two at a time, with resets,
\* removals and the entry of the keys between them; two symbols; three snapshots
\* that are valid and two that are not. The two requests are alike.
SPECIFICATION Spec
CONSTANTS
    Syms = {s1, s2}
    Active = s1
    Config <- MCConfig
    Snaps <- MCSnaps
    Ops = {r1, r2}
    MaxOps = 3
SYMMETRY Symmetry
INVARIANTS
    TypeOK
    ModesAgree
PROPERTY
    SavedIsInEffect
