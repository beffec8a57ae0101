CONSTANTS
    Bytes <- AllBytes
    Cap = 2
    Layout <- Keys
    Shifts <- ShiftKeys
    Scancodes <- Codes
    SerialBytes <- Serial
    MaxTyped = 5
    Words <- ShortWords
    Replies <- ShortReplies
    Prompt <- OneChar
    LineCap = 3
    Cols = 5
    Rows = 2
    OtherBytes <- SomeByte
SPECIFICATION Spec
INVARIANTS
    NoStuckShift
    ScreenShowsLine
    RunsAsTyped
PROPERTIES
    ImplementsQueue
    EnterIsAnswered
CHECK_DEADLOCK FALSE
