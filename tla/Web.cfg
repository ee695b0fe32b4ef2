SPECIFICATION MCSpec
CONSTANTS
    c1 = c1
    c2 = c2
    Conns = {c1, c2}
    None = None
    MAX_CONN = 2
    MAX_HEAD_LEN = 1
    MAX_POST = 2
    MaxForgotten = 1
    Chunk = 2
    Requests <- MCRequests
    Names <- MCNames
    Sizes = {1, 4, 6}
    MaxFiles = 2
    Pages <- MCPages
    Others <- MCOthers
    Users <- MCUsers
    Passwords <- MCPasswords
    MaxText = 6
INVARIANTS
    PartsTypeOK
    ConnectionsRight
    FilesRight
PROPERTIES
    WebAnswers
CHECK_DEADLOCK FALSE
