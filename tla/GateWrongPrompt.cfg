CONSTANTS
  ask1 = ask1  ask2 = ask2  beat1 = beat1
  msg1 = msg1  msg2 = msg2  poll1 = poll1
  allow = allow  deny = deny  interrupt = interrupt
  UserAsks = {ask1, ask2}
  BeatAsks = {}
  Replies = {msg1}
  Polls = {}
  Grants = {allow}
  Denied = deny
  Interrupted = interrupt
  NoDecision = NoDecision
  NoAsk = NoAsk
  MaxReprompts = 1
  MaxFaults = 0
  MaxCrashes = 0
  MaxPeerBoots = 0
  TurnDeadline = FALSE
SPECIFICATION Spec
CHECK_DEADLOCK FALSE
INVARIANT ReplyAnswersItsPrompt
