\* The monitor is sent to another folder.
SPECIFICATION Spec

CONSTANTS
    Folders <- TwoFolders
    Files <- TwoFiles
    FolderOf <- Apart
    ObservedChanges <- All
    SubFolders = FALSE
    Environment = {"restarts"}
    MaxChanges = 1
    MaxRequests = 1

INVARIANTS
    OnlyMonitoredFolder

CHECK_DEADLOCK FALSE
