----------------------------- MODULE TurnContract -----------------------------
(***************************************************************************)
(* What message dispatch promises, without batcher, inbox, lock or rounds: *)
(* turns are sequential, a turn takes waiting messages when it starts and  *)
(* may take more while it runs, and no message is taken twice.             *)
(***************************************************************************)
CONSTANT Messages

VARIABLES
  waiting,   (* messages accepted and not yet taken by a turn              *)
  turn,      (* messages the running turn covers, {} when none runs        *)
  settled    (* messages whose turn has ended                              *)

vars == <<waiting, turn, settled>>

Init == waiting = {} /\ turn = {} /\ settled = {}

Accept(m) ==
  /\ m \notin waiting \cup turn \cup settled
  /\ waiting' = waiting \cup {m}
  /\ UNCHANGED <<turn, settled>>

Begin(S) ==
  /\ turn = {}
  /\ S # {}
  /\ turn' = S
  /\ waiting' = waiting \ S
  /\ UNCHANGED settled

Join(S) ==
  /\ turn # {}
  /\ turn' = turn \cup S
  /\ waiting' = waiting \ S
  /\ UNCHANGED settled

End ==
  /\ turn # {}
  /\ turn' = {}
  /\ settled' = settled \cup turn
  /\ UNCHANGED waiting

Next ==
  \/ \E m \in Messages : Accept(m)
  \/ \E S \in SUBSET waiting : Begin(S) \/ Join(S)
  \/ End

Spec == Init /\ [][Next]_vars
===============================================================================
