SPECIFICATION Spec
CONSTANTS
    A = A
    B = B
    own = own
    both = both
    Schema = {A, B}
    Table = {own, both}
    Has <- MCHas
    NoSchema = NoSchema
    Idle = Idle
    Undefined = Undefined
    Widths <- MCWidths
    Heights <- MCHeights
    Neg = 2
    Base = 2
    Items = 2
    MaxFx = 3
    Gestures = 7
CHECK_DEADLOCK FALSE
INVARIANTS
    TypeOK
    MenuAtRest
    SidebarFits
    FormListsSelection
    OwnTables
    FrameFollowsHash
    AddressFollowed
