------------------------- MODULE MCDirectoryMonitor -------------------------
(* Small folders for TLC: one folder with two files, or two with one each.  *)
EXTENDS DirectoryMonitor

OneFolder  == {"a"}
TwoFolders == {"a", "b"}
TwoFiles   == {"f", "g"}
OneFile    == {"f"}
Together   == [f \in Files |-> "a"]
Apart      == [f \in Files |-> IF f = "f" THEN "a" ELSE "b"]
All        == {"add", "remove", "modified"}
=============================================================================
