--------------------------- MODULE ApprovalContract ---------------------------
(***************************************************************************)
(* What the approval gate promises to the agent loop, with none of its     *)
(* mechanism: replies are attributed to asks, an ask returns at most once, *)
(* and what it returns is Denied or something that was answered to it.     *)
(***************************************************************************)
CONSTANTS Asks, Decisions, Denied, NoDecision

VARIABLES
  given,     (* given[a]: the decisions answered to ask a                  *)
  returned   (* what ask a returned, NoDecision before it did              *)

contractVars == <<given, returned>>

ContractInit ==
  /\ given = [a \in Asks |-> {}]
  /\ returned = [a \in Asks |-> NoDecision]

Answer(a, d) ==
  /\ given' = [given EXCEPT ![a] = @ \cup {d}]
  /\ UNCHANGED returned

Return(a) ==
  /\ returned[a] = NoDecision
  /\ \E d \in given[a] \cup {Denied} : returned' = [returned EXCEPT ![a] = d]
  /\ UNCHANGED given

ContractNext ==
  \E a \in Asks : Return(a) \/ \E d \in Decisions : Answer(a, d)

ContractSpec == ContractInit /\ [][ContractNext]_contractVars
===============================================================================
