SPECIFICATION Spec
CONSTANTS
    Char <- TextChar
    Width <- TextWidth
    Newline = "nl"
    White = {" ", "nl"}
    Input <- TextInput
    MaxLineBytes = 2
    TooLarge = TooLarge
INVARIANTS
    TypeOK
    AnswersFollowTheText
    AnsweredBeforeWaiting
CHECK_DEADLOCK FALSE
