SPECIFICATION Spec
CONSTANTS
    top = top
    mid = mid
    low = low
    f1 = f1
    f2 = f2
    yes = yes
    no = no
    billing = billing
    None = None
    Fields = {top, mid, low}
    Dropdowns = {top, mid}
    Source = mid
    Forms = {f1, f2}
    CategoryOf <- MCCategoryOf
    Compositions <- MCCompositions
    FirstEntries <- MCFirst
    Values = {yes, no}
    Handlers = {h1, h2}
    MaxActs = 2
INVARIANTS
    TypeOK
    Composed
PROPERTIES
    NothingHidden
    
CHECK_DEADLOCK FALSE
