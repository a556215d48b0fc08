\* The monitor is stopped and started again for the same folder.
SPECIFICATION Spec

CONSTANTS
    Folders <- OneFolder
    Files <- OneFile
    FolderOf <- Together
    ObservedChanges <- All
    SubFolders = FALSE
    Environment = {"restarts"}
    MaxChanges = 2
    MaxRequests = 1

PROPERTIES
    AllChangesTold

CHECK_DEADLOCK FALSE
