SPECIFICATION FileSpec
CONSTANTS
    PageSize = 2
    Bytes = {0, 1}
    Initrd <- SmallFiles
    MaxOffset = 5
    MaxCount = 2
    Fds = {1, 2}
    UnlinkOpen = FALSE
    Junk = Junk
PROPERTY FileKept
