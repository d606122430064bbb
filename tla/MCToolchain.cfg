CONSTANTS
    SymNames <- NamesUsed
    ElfHash <- Hash
    CommandLines <- Programs
    Runtime <- Libraries
    OutputTypes = {"EXE", "OBJ"}
    PageSize = 8
    MemTop = 120
    HeaderSize = 6
    StartAddr = 16
    NoText = NoText
    TextAddrs = {19, NoText}
    PtrSize = 2
    LinkerSymbols <- Provided
    Entry = "_start"
    ArgRegs = 2
    MaxText = 5
    MaxTokens = 4
    MaxOperands = 3
    MaxArgs = 3
    MaxItems = 3
    MaxMembers = 3
    MaxLines = 4
SPECIFICATION MCSpec
INVARIANTS
    StrongestDefines
    ReferencesArrive
PROPERTIES
    ArchivesExhausted
    BlocksInvisible
    MacrosExpand
    AsmOperandsArrive
    CallsAgree
    InitializersMean
    MembersApart
    ListingsMean
CHECK_DEADLOCK FALSE
