\* A file is written, deleted and written again.
SPECIFICATION Spec

CONSTANTS
    Folders <- OneFolder
    Files <- OneFile
    FolderOf <- Together
    ObservedChanges <- All
    SubFolders = FALSE
    Environment = {}
    MaxChanges = 4
    MaxRequests = 0

PROPERTIES
    ReportedInOrder
