SPECIFICATION FairSpec
CONSTANTS
  NPorts = 2
  MaxTag = 2
  MaxInflight = 2
  Latency = 1
  IdMod = 2
  Idle = Idle
  Modes = {"normal", "disabled", "drop_req", "drop_rsp"}
INVARIANT AnswersFindTheirPort
PROPERTY HeldIsAnswered
