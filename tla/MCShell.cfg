\* Lines of five characters fill the array and wrap on rows of five; three rows
\* scroll from the second command on.
CONSTANTS
    SCREEN_CX = 5
    SCREEN_CY = 3
    BootText <- MCBootText
    Prompt <- MCPrompt
    MAX_CMD_LINE_CHAR = 5
    Keys = {"x", " ", "BS", "CR", "TAB", "NUL"}
    Outputs <- MCOutputs
    MaxKeys = 8
SPECIFICATION Spec
INVARIANTS WithinLine LineIsShown RunsWhatWasTyped
PROPERTY TextStays
\* The user may stop typing.
CHECK_DEADLOCK FALSE
