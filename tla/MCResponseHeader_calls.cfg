SPECIFICATION Spec
CONSTANTS
    Keys = {"Content-Type: ", "Server: ", "Connection: ", "Transfer-Encoding: ", "Content-Length: "}
    Lengths = {19, 24}
    StatusLengths = {13, 23}
    HTTP_BODY_FIELD_LIMIT = 4
INVARIANTS
    TypeOK
    TextFillsBuffer
    FieldsFitArray
PROPERTIES
    MapUntilFull
CHECK_DEADLOCK FALSE
