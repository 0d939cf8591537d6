SPECIFICATION FairSpec
CONSTANTS
  NO_PHIL = 5
  Nobody = Nobody
CHECK_DEADLOCK FALSE
PROPERTY
  ReleasingReleases
