SPECIFICATION Spec
CONSTANTS
    Servers = {s1, s2, s3}
    Nobody = Nobody
    Unset = Unset
PROPERTIES
    RefusedMeansTwo
CHECK_DEADLOCK FALSE
