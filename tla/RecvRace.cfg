CONSTANTS
    Groups = {1, 2}
    BufferSize = 8
    Header = 1
    Payload = 2
    Wrong = 7
    Hops <- GroupToGroup
    Window = 4
    MaxMove = 3
    MaxBytes = 25
SPECIFICATION Spec
INVARIANTS BytesKept
CHECK_DEADLOCK FALSE
