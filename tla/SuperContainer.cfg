SPECIFICATION FairSpec
CONSTANTS
  Me = n1
  Peer = {n2}
  Call = {c1}
  Mine = {c1}
  Thread = {"poller", "receive", "status", "remover", "fsm"}
INVARIANTS
  TypeOK
  ServicedCallsLeave
PROPERTY
  AssignmentMends
