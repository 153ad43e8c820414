SPECIFICATION FairSpec
CONSTANTS
    Servers = {s1, s2, s3}
    Nobody = Nobody
    Unset = Unset
INVARIANTS TypeOK PromoterOwnsBackup AddressesAreOwners OneNameEach LinkIsCurrent NoLoneBackup
PROPERTIES ToldBackupTakesOver
CHECK_DEADLOCK FALSE
