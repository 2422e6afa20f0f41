CONSTANTS
  None = None
  MaxMessages = 2
  MaxRecent = 2
  Me = me
  Host = host
  Others = {other}
  Names = {"a", "b"}
  Themes = {"dark", "light"}
  MaxOps = 2
  MaxLooks = 0
SPECIFICATION Spec
INVARIANT PermissionsHonoured
CHECK_DEADLOCK FALSE
