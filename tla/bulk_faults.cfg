SPECIFICATION Spec
CONSTANTS
  j1 = j1
  j2 = j2
  a1 = a1
  a2 = a2
  Jobs = {j1, j2}
  Accounts = {a1, a2}
  Scenarios <- Requests
  Kinds = {"group_join", "group_leave", "group_leave_target", "group_leave_all", "delete_own_messages", "message_send", "message_react", "message_view", "wipe_chat", "bulk_profile", "bulk_photo", "change_2fa", "terminate_other_sessions"}
  Retryable = {"group_join", "group_leave", "group_leave_target", "message_view", "terminate_other_sessions"}
  Conc = 1
  MaxActive = 2
  FaultBound = 1
  None = None
INVARIANTS
  StreamInv
  ReportsAreTrue
PROPERTIES
  ReportHolds
  RetriesUnfinished
  StreamsSettle
CHECK_DEADLOCK FALSE
