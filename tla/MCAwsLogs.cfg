SPECIFICATION FairAwsSpec
CONSTANTS
  Groups = {g1, g2}
  Build = g1
  Limits = {1, 2}
  Since = TRUE
  MaxLog = 3
  MaxDrops = 1
INVARIANTS AwsTypeOK FollowedWithoutGap OnlyOverlapTwice FollowedEndExplained QueryWithoutGap QueryShowsEnough
PROPERTY AllEnd
CHECK_DEADLOCK FALSE
