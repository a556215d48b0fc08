\* The monitor is stopped, started and sent to another folder, its mode changes.
SPECIFICATION Spec

CONSTANTS
    Folders <- TwoFolders
    Files <- OneFile
    FolderOf <- Apart
    ObservedChanges <- All
    SubFolders = FALSE
    Environment = {"restarts", "modes", "watch fails"}
    MaxChanges = 1
    MaxRequests = 2

PROPERTIES
    StopReturns
    KeepsScanning

CHECK_DEADLOCK FALSE
