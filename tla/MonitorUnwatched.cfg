\* The folder cannot be watched, and the parameters ask for the automatic mode.
SPECIFICATION Spec

CONSTANTS
    Folders <- OneFolder
    Files <- OneFile
    FolderOf <- Together
    ObservedChanges <- All
    SubFolders = FALSE
    Environment = {"watch fails"}
    MaxChanges = 2
    MaxRequests = 0

INVARIANTS
    UnwatchedIsPolled
