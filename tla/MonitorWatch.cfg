\* One run of the thread over a folder whose files come, change and go.
SPECIFICATION Spec

CONSTANTS
    Folders <- OneFolder
    Files <- OneFile
    FolderOf <- Together
    ObservedChanges <- All
    SubFolders = FALSE
    Environment = {}
    MaxChanges = 4
    MaxRequests = 0

INVARIANTS
    HandoverExclusive
    StorageMatchesFiles
    SessionMatchesFiles

PROPERTIES
    AllChangesTold
