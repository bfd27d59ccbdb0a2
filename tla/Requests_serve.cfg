SPECIFICATION Spec
CONSTANTS
  Tags <- MCTags
  Values <- MCValues
  Known <- MCKnown
  Writable <- MCWritable
  Lists <- MCLists
  MaxAttempts = 3
  MaxHandle = 4
  MaxGroups = 3
  SyncIO2 = TRUE
INVARIANTS Inv ReadAnswersItsTags AckedWritesAreMade GroupsStayTheirOwners CallsAreWhole
PROPERTIES EveryRequestIsAnswered
