CONSTANTS
    Searches = {s1, s2, s3}
    FailureThreshold = 2
    OpenDuration = 2
SPECIFICATION Spec
PROPERTIES
    OneProbe
