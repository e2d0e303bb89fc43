\* Two sites, two functions at a time, another tab.
CONSTANTS
    s1 = s1
    s2 = s2
    c1 = c1
    c2 = c2
    i1 = i1
    i2 = i2
    Sites = {s1, s2}
    NoSite = NoSite
    Calls = {c1, c2}
    Items = {i1, i2}
    NoItem = NoItem
    Editable = {i1}
    Lists <- MCLists
    MaxVersions = 3
    MaxItems = 2
SYMMETRY Symmetry
SPECIFICATION Spec
INVARIANTS
    EditsOwnItem
PROPERTIES
    ConfirmedOnly
