SPECIFICATION Spec
CONSTANTS
    Lines <- MCLines
    Size <- MCSize
    MAX_ARGS = 4
    CMD_BUFFER_SIZE = 3
    CMD_ROOM = 6
CHECK_DEADLOCK FALSE
INVARIANTS ParserInv ConsultMeaning PingText
