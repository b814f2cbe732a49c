SPECIFICATION Spec
CONSTANTS
    FileSizes = {0, 1, 2, 3, 4, 5, 6, 7, 8}
    PacketSizes = {1, 2}
    SeqModulus = 3
    SizeModulus = 9
    LinkFails = FALSE
    FileChanges = FALSE
PROPERTIES
    NumberIsModular
CHECK_DEADLOCK FALSE
