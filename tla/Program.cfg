SPECIFICATION ProgramSpec
CONSTANTS
    FileSizes = {0, 1, 3, 4, 6, 8, 9}
    PacketSizes = {0, 1, 2, 3, 4}
    SeqModulus = 3
    SizeModulus = 9
    LinkFails = TRUE
    FileChanges = TRUE
    LLMaxSize = 7
    Commands <- MCCommands
INVARIANTS
    TypeOK
    ProgramTypeOK
    OutputIsPrefix
    AcceptedIsComplete
    SuccessIsShared
    AppInv
    ArgsInv
PROPERTIES
    TransferAsAsked
    FileIsCopied
    BothExit
CHECK_DEADLOCK FALSE
