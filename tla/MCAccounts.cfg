SPECIFICATION Spec
CONSTANTS
  root = root
  ann = ann
  h1 = h1
  h2 = h2
  Nobody = Nobody
  Users <- MCUsers
  Handlers = {h1, h2}
  AdminGroup = {}
  AutoProvision = TRUE
  Initial <- MCInitial
  MaxVersion = 2
  MaxTokens = 3
SYMMETRY Symmetry
CHECK_DEADLOCK FALSE
INVARIANT OldLoginsEnd
INVARIANT ChangeReplacesOwn
INVARIANT AdministratorRemains
PROPERTY DisabledStaysDisabled
