SPECIFICATION PSpec
CONSTANTS
  TaskLists <- MCTaskLists
  RefLists <- MCRefLists
  KeyOf <- MCKeyOf
  IgnoredBranches <- MCIgnored
  Lower <- MCLower
  Blanks <- MCBlanks
  Plain <- MCPlain
  Lists <- MCLists
  Rules <- MCRules
  MaxRules = 2
  MaxEdited = 2
  Patterns <- MCPatterns
  Names <- MCNames
INVARIANTS TypeOK AttachedIfRelated NothingLost GroupsAreComponents WildcardsFit
PROPERTY LastRuleDecides
CHECK_DEADLOCK FALSE
