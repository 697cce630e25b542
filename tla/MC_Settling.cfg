CONSTANTS
  Creator = {"ann", "bob", "cem"}
  Subscriber = "me"
  List <- Lists
  MaxCreators = 2
  MaxFaults = 2
SPECIFICATION SettlingSpec
INVARIANTS WatchersAreListed
PROPERTIES ListsConverge  GroupsSettle
CHECK_DEADLOCK FALSE
