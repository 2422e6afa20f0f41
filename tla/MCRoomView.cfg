CONSTANTS
  None = None
  MaxMessages = 2
  MaxRecent = 2
  Me = me
  Host = host
  Others = {other}
  Names = {"a", "b"}
  Themes = {"dark", "light"}
  MaxOps = 2
  MaxLooks = 2
SPECIFICATION Spec
INVARIANTS ViewTypeOK RosterConverges AuthorityIsMine ChatOnce NewsIsOffered QueueSettles RoomIsShown
CHECK_DEADLOCK FALSE
