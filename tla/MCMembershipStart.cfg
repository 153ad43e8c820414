SPECIFICATION FairSpec
CONSTANTS
    Servers = {s1, s2}
    Nobody = Nobody
    Unset = Unset
PROPERTIES
    BackupTakesOver
CHECK_DEADLOCK FALSE
