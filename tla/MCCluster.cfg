SPECIFICATION FairSpec
CONSTANTS
  n1 = n1
  n2 = n2
  c1 = c1
  c2 = c2
  Nodes <- MCNodes
  Columns <- MCColumns
  Knows <- MCKnows
  StaleAfter = 2
  Retention = 3
  Timeout = 1
  MaxStarts = 3
INVARIANT StartsOnce
INVARIANT ReadyIsListed
PROPERTY MembershipHeals
