SPECIFICATION FairSpec
CONSTANTS
 Nodes <- Two
 Seeds <- OneSeed
 MDNS = TRUE
 RoleRank <- MCRoleRank
 Preferences <- MCPreferences
 StaleAfter = 3
 MaxStarts = 3
 MaxLost = 1
INVARIANTS NoResurrection LiveMembersStayFresh
PROPERTIES RichRecordsStay DeadAreForgotten ViewsConverge
