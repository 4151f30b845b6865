CONSTANTS
  ask1 = ask1  ask2 = ask2  beat1 = beat1
  msg1 = msg1  msg2 = msg2  poll1 = poll1
  allow = allow  deny = deny  interrupt = interrupt
  UserAsks = {ask1}
  BeatAsks = {beat1}
  Replies = {msg1, msg2}
  Polls = {}
  Grants = {allow}
  Denied = deny
  Interrupted = interrupt
  NoDecision = NoDecision
  NoAsk = NoAsk
  MaxReprompts = 1
  MaxFaults = 0
  MaxCrashes = 1
  MaxPeerBoots = 1
  TurnDeadline = TRUE
SPECIFICATION Spec
SYMMETRY ReplySymmetry
CHECK_DEADLOCK FALSE
INVARIANTS TypeOK GateSound GrantNeedsReply
PROPERTIES ImplementsContract
