---------------------------- MODULE HeartbeatProofs ----------------------------
(***************************************************************************)
(* Theorems about Heartbeat, for any number of users, days, crashes and    *)
(* failures: types and the semaphore, the daily budget of proactive        *)
(* messages, and the end of the typing indicator.                          *)
(***************************************************************************)
EXTENDS Heartbeat, FiniteSetTheorems, SequenceTheorems, TLAPS

(* Nothing of the future is counted yet.                                   *)
FutureInv ==
  \A u \in Users : \A d \in Days :
    d > today => logged[u][d] = 0 /\ nudged[u][d] = 0

(* A run that has published is still acting, or about to be counted; who   *)
(* waits for the semaphore has no run yet.                                 *)
SentInv ==
  \A u \in Users :
    /\ u \in waiting => at[u] = "idle"
    /\ u \in sent => at[u] \in {"acting", "storing", "logging"}
    /\ at[u] \in {"storing", "logging"} => u \in sent

(* A run past the gate has room for its message in the log of today, also  *)
(* when midnight has passed in between.                                    *)
PastGate == {"reading", "deciding", "silent", "acting", "sending",
             "storing", "logging"}
RoomInv ==
  /\ \A u \in Users : at[u] \in PastGate => logged[u][today] < MaxDaily
  /\ \A u \in Users : \A d \in Days : logged[u][d] <= MaxDaily

(* Messages that no row counts.                                            *)
Extra == MaxDaily * deletes + crashes + losses
Open(u) == IF u \in sent THEN 1 ELSE 0

(* The log falls behind by what was lost, and by a run in progress.        *)
BudgetInv ==
  /\ \A u \in Users : nudged[u][today] <= logged[u][today] + Open(u) + Extra
  /\ \A u \in Users : \A d \in Days : nudged[u][d] <= MaxDaily + Extra

(* The last word about a user's indicator, on the bus or behind it, is not *)
(* to show it, unless a run thinks about the user or a tool had the last   *)
(* word.                                                                   *)
Resting == {"idle", "routing", "gating", "storing", "logging"}
Settled(u) ==
  IF outbox[u] = <<>> THEN phone[u] \notin {"starting", "shown"}
                      ELSE outbox[u][Len(outbox[u])] # "start"
TypingInv ==
  /\ \A u \in Users \ Lasting : outbox[u] = <<>> /\ phone[u] = "hidden"
  /\ \A u \in Users : at[u] = "acting" /\ u \in sent => u \in tooled
  /\ \A u \in Users \ tooled : at[u] \in Resting => Settled(u)

IInv == TypeOK /\ FutureInv /\ SentInv /\ RoomInv /\ BudgetInv

-----------------------------------------------------------------------------
(* One more in one cell of a table.                                        *)
LEMMA CountOne ==
  ASSUME NEW f \in [Users -> [Days -> Nat]], NEW u \in Users, NEW d \in Days,
         NEW g, g = [f EXCEPT ![u][d] = @ + 1]
  PROVE  /\ g \in [Users -> [Days -> Nat]]
         /\ g[u][d] = f[u][d] + 1
         /\ \A v \in Users : \A e \in Days :
              v # u \/ e # d => g[v][e] = f[v][e]
  OBVIOUS

(* TypeOK but for the bound of the semaphore.                              *)
Shape ==
  /\ up \in BOOLEAN /\ today \in Days
  /\ due \in SUBSET Users /\ ticking \in BOOLEAN /\ waiting \in SUBSET Users
  /\ at \in [Users -> Places]
  /\ sent \in SUBSET Users /\ tooled \in SUBSET Users
  /\ outbox \in [Users -> Seq(Kinds)] /\ phone \in [Users -> Bubbles]
  /\ logged \in [Users -> [Days -> Nat]] /\ nudged \in [Users -> [Days -> Nat]]
  /\ losses \in Nat /\ crashes \in Nat /\ deletes \in Nat
  /\ ~ticking => waiting = {} /\ Running = {}
  /\ ~up => ~ticking

LEMMA TypeParts == TypeOK <=> Shape /\ Cardinality(Running) <= Concurrency
  BY DEF TypeOK, Shape

LEMMA Publishes ==
  ASSUME Shape, NEW u \in Users, NEW kind \in Kinds, Publish(u, kind)
  PROVE  outbox' \in [Users -> Seq(Kinds)]
<1>1. Append(outbox[u], kind) \in Seq(Kinds)
  BY DEF Shape
<1> QED
  BY <1>1 DEF Shape, Publish

(* The part that all the ways for a run to end share.                      *)
LEMMA EndTypes ==
  ASSUME Shape, NEW u \in Users, NEW stop \in BOOLEAN,
         at[u] # "idle", Ends(u, stop),
         UNCHANGED <<up, today, ticking, waiting, crashes, deletes>>,
         due' \in SUBSET Users, logged' \in [Users -> [Days -> Nat]],
         losses' \in Nat
  PROVE  Shape'
<1>1. at' \in [Users -> Places]
  BY DEF Shape, Ends, Goto, Places
<1>2. ticking /\ up
  BY DEF Shape, Running
<1>3. sent' \in SUBSET Users /\ tooled' \in SUBSET Users
      /\ phone' = phone /\ nudged' = nudged
  BY DEF Shape, Ends
<1>4. outbox' \in [Users -> Seq(Kinds)]
  <2>1. CASE stop
    BY <2>1, Publishes DEF Ends, Kinds
  <2>2. CASE ~stop
    BY <2>2 DEF Ends, Shape
  <2> QED
    BY <2>1, <2>2
<1> QED
  BY <1>1, <1>2, <1>3, <1>4 DEF Shape

LEMMA HandOverTypes ==
  ASSUME Shape, NEW u \in Users, HandOver(u)
  PROVE  /\ sent' \in SUBSET Users /\ outbox' \in [Users -> Seq(Kinds)]
         /\ nudged' \in [Users -> [Days -> Nat]] /\ phone' = phone
<1>1. nudged' \in [Users -> [Days -> Nat]]
  BY CountOne DEF Shape, HandOver
<1>2. outbox' \in [Users -> Seq(Kinds)]
  BY Publishes DEF HandOver, Kinds
<1> QED
  BY <1>1, <1>2 DEF Shape, HandOver

LEMMA ShapeStep == Shape /\ [Next]_vars => Shape'
<1> SUFFICES ASSUME Shape, [Next]_vars PROVE Shape'
  OBVIOUS
<1> USE DEF Shape, Running, Goto, scheduler, chat, bounds, Places
<1>0. LastDay \in Nat
  BY HeartbeatAssumption
<1>1. CASE Midnight
  BY <1>0, <1>1 DEF Midnight, Days
<1>2. CASE TickStarts
  BY <1>0, <1>2 DEF TickStarts
<1>3. CASE TickEnds
  BY <1>0, <1>3 DEF TickEnds
<1>4. CASE Crash
  <2>1. at' \in [Users -> Places] /\ (\A u \in Users : at'[u] = "idle")
    BY <1>4 DEF Crash
  <2>2. /\ outbox' \in [Users -> Seq(Kinds)] /\ phone' \in [Users -> Bubbles]
        /\ crashes' \in Nat
    BY <1>4 DEF Crash, Bubbles
  <2> QED
    BY <1>4, <2>1, <2>2 DEF Crash
<1>5. CASE Boot
  BY <1>0, <1>5 DEF Boot
<1>6. CASE UNCHANGED vars
  BY <1>0, <1>6 DEF vars
<1>7. ASSUME NEW u \in Users,
             Elapse(u) \/ Claim(u) \/ Step(u) \/ ToolSends(u) \/ Think(u)
             \/ Dispatch(u) \/ TypingCallEnds(u) \/ DeleteLogs(u)
      PROVE  Shape'
  <2>1. at[u] # "idle" => ticking
    OBVIOUS
  <2>2. CASE Elapse(u)
    BY <1>0, <2>2 DEF Elapse
  <2>3. CASE Claim(u)
    BY <1>0, <2>3 DEF Claim
  <2>4. CASE Route(u)
    <3>1. CASE \E stop \in BOOLEAN : Raises(u, stop)
      BY <2>4, <3>1, EndTypes DEF Route, Raises
    <3>2. CASE \E place \in Places : Goto(u, place) /\ UNCHANGED <<scheduler, chat>>
      BY <2>1, <2>4, <3>2 DEF Route
    <3> QED
      BY <2>4, <3>1, <3>2 DEF Route
  <2>5. CASE Gate(u)
    <3>1. CASE Returns(u, FALSE) \/ Raises(u, FALSE)
      <4>1. due' \in SUBSET Users /\ Ends(u, FALSE)
        BY <3>1 DEF Returns, Raises
      <4>2. UNCHANGED <<up, today, ticking, waiting, logged, bounds>> /\ at[u] # "idle"
        BY <2>5, <3>1 DEF Gate, Returns, Raises
      <4> QED
        BY <4>1, <4>2, EndTypes
    <3>2. CASE /\ Goto(u, "reading") /\ tooled' = tooled \ {u}
               /\ UNCHANGED <<scheduler, sent, outbox, phone, nudged>>
      BY <2>1, <2>5, <3>2 DEF Gate
    <3> QED
      BY <2>5, <3>1, <3>2 DEF Gate
  <2>16. CASE Prepare(u)
    <3>1. CASE Raises(u, TRUE)
      BY <2>16, <3>1, EndTypes DEF Prepare, Raises
    <3>2. CASE /\ Goto(u, "deciding") /\ Publish(u, "start")
               /\ UNCHANGED <<scheduler, sent, tooled, phone, nudged>>
      <4>1. outbox' \in [Users -> Seq(Kinds)]
        BY <3>2, Publishes DEF Kinds
      <4> HIDE DEF Kinds, Publish
      <4> QED
        BY <2>1, <2>16, <3>2, <4>1 DEF Prepare
    <3> QED
      BY <2>16, <3>1, <3>2 DEF Prepare
  <2>6. CASE Decide(u)
    <3>1. CASE \E stop \in BOOLEAN : Raises(u, stop)
      BY <2>6, <3>1, EndTypes DEF Decide, Raises
    <3>2. CASE \E place \in Places : Goto(u, place) /\ UNCHANGED <<scheduler, chat>>
      BY <2>1, <2>6, <3>2 DEF Decide
    <3> QED
      BY <2>6, <3>1, <3>2 DEF Decide
  <2>7. CASE LogSilence(u)
    <3>1. due' \in SUBSET Users /\ Ends(u, TRUE) /\ at[u] # "idle"
      BY <2>7 DEF LogSilence, Returns, Raises
    <3>2. UNCHANGED <<up, today, ticking, waiting, logged, bounds>>
      BY <2>7 DEF LogSilence, Returns, Raises
    <3> QED
      BY <3>1, <3>2, EndTypes
  <2>8. CASE ActFails(u)
    <3>1. due' \in SUBSET Users /\ Ends(u, TRUE) /\ at[u] # "idle"
      BY <2>8 DEF ActFails, Returns, Raises
    <3>2. UNCHANGED <<up, today, ticking, waiting, logged, crashes, deletes>>
      BY <2>8 DEF ActFails, Returns, Raises
    <3>3. losses' \in Nat
      BY <1>0, <2>8 DEF ActFails, Loses
    <3> QED
      BY <3>1, <3>2, <3>3, EndTypes
  <2>9. CASE ActEnds(u)
    BY <1>0, <2>1, <2>9 DEF ActEnds
  <2>10. CASE Send(u)
    <3>1. CASE Returns(u, TRUE)
      BY <2>10, <3>1, EndTypes DEF Send, Returns
    <3>2. CASE /\ HandOver(u) /\ Goto(u, "storing")
               /\ UNCHANGED <<scheduler, tooled>>
      BY <2>1, <2>10, <3>2, HandOverTypes DEF Send
    <3> QED
      BY <2>10, <3>1, <3>2 DEF Send
  <2>11. CASE Store(u)
    <3>1. CASE Loses /\ Raises(u, FALSE)
      <4>1. losses' \in Nat
        BY <1>0, <3>1 DEF Loses
      <4> QED
        BY <2>11, <3>1, <4>1, EndTypes DEF Store, Raises
    <3>2. CASE Goto(u, "logging") /\ UNCHANGED <<scheduler, chat, losses>>
      BY <1>0, <2>1, <2>11, <3>2 DEF Store
    <3> QED
      BY <2>11, <3>1, <3>2 DEF Store
  <2>12. CASE LogSend(u)
    <3>1. CASE Loses /\ Raises(u, FALSE) /\ UNCHANGED logged
      <4>1. losses' \in Nat
        BY <1>0, <3>1 DEF Loses
      <4> QED
        BY <2>12, <3>1, <4>1, EndTypes DEF LogSend, Raises
    <3>2. CASE /\ logged' = [logged EXCEPT ![u][today] = @ + 1]
               /\ Returns(u, FALSE) /\ UNCHANGED losses
      <4>1. logged' \in [Users -> [Days -> Nat]]
        BY <3>2, CountOne
      <4> QED
        BY <2>12, <3>2, <4>1, EndTypes DEF LogSend, Returns
    <3> QED
      BY <2>12, <3>1, <3>2 DEF LogSend
  <2>13. CASE ToolSends(u)
    <3>1. tooled' \in SUBSET Users
      BY <2>13 DEF ToolSends
    <3> QED
      BY <2>13, <3>1, HandOverTypes DEF ToolSends
  <2>14. CASE Think(u)
    <3>1. outbox' \in [Users -> Seq(Kinds)]
      BY <2>14, Publishes DEF Think, Kinds
    <3> QED
      BY <2>14, <3>1 DEF Think
  <2>17. CASE Dispatch(u)
    <3>1. Tail(outbox[u]) \in Seq(Kinds)
      BY <2>17 DEF Dispatch
    <3>2. outbox' \in [Users -> Seq(Kinds)]
      BY <2>17, <3>1 DEF Dispatch
    <3>3. \A arrives \in BOOLEAN : AfterText(phone[u], arrives) \in Bubbles
      BY DEF AfterText, Bubbles
    <3>4. phone' \in [Users -> Bubbles]
      BY <2>17, <3>3 DEF Dispatch, Shows, Bubbles
    <3> QED
      BY <2>17, <3>2, <3>4 DEF Dispatch
  <2>18. CASE TypingCallEnds(u)
    <3>1. phone' \in [Users -> Bubbles]
      BY <2>18 DEF TypingCallEnds, Shows, Bubbles
    <3> QED
      BY <2>18, <3>1 DEF TypingCallEnds
  <2>15. CASE DeleteLogs(u)
    BY <1>0, <2>15 DEF DeleteLogs
  <2> QED
    BY <1>7, <2>2, <2>3, <2>4, <2>5, <2>6, <2>7, <2>8, <2>9, <2>10, <2>11,
       <2>12, <2>13, <2>14, <2>15, <2>16, <2>17, <2>18 DEF Step
<1> QED
  BY <1>1, <1>2, <1>3, <1>4, <1>5, <1>6, <1>7 DEF Next

(* Only Claim adds a run, and only below the bound.                        *)
LEMMA BoundStep ==
  TypeOK /\ Shape' /\ [Next]_vars => Cardinality(Running') <= Concurrency
<1> SUFFICES ASSUME TypeOK, Shape', [Next]_vars
             PROVE  Cardinality(Running') <= Concurrency
  OBVIOUS
<1>1. /\ IsFiniteSet(Running) /\ IsFiniteSet(Running')
      /\ Cardinality(Running) \in Nat /\ Concurrency \in Nat
      /\ Cardinality(Running) <= Concurrency
  <2>1. Running \subseteq Users /\ Running' \subseteq Users
    BY DEF Running
  <2> QED
    BY <2>1, FS_Subset, FS_CardinalityType, HeartbeatAssumption DEF TypeOK
<1>2. CASE Running' \subseteq Running
  <2>1. Cardinality(Running') <= Cardinality(Running)
    BY <1>1, <1>2, FS_Subset
  <2>2. Cardinality(Running') \in Nat
    BY <1>1, FS_CardinalityType
  <2> QED
    BY <1>1, <2>1, <2>2
<1>3. CASE \E u \in Users : Claim(u)
  <2>1. PICK u \in Users : Claim(u)
    BY <1>3
  <2>2. Running' = Running \cup {u}
    BY <2>1 DEF Claim, Running, Goto, TypeOK, Places
  <2>3. Cardinality(Running) < Concurrency
    BY <2>1 DEF Claim
  <2>4. CASE u \in Running
    BY <1>1, <2>2, <2>4
  <2>5. CASE u \notin Running
    <3>1. Cardinality(Running') = Cardinality(Running) + 1
      BY <1>1, <2>2, <2>5, FS_AddElement
    <3> QED
      BY <1>1, <2>3, <3>1
  <2> QED
    BY <2>4, <2>5
<1>4. ASSUME NEW u \in Users, at[u] # "idle" \/ at'[u] = "idle",
             \A v \in Users \ {u} : at'[v] = at[v]
      PROVE  Running' \subseteq Running
  BY <1>4 DEF Running
<1>5. CASE /\ \/ Midnight \/ TickStarts \/ TickEnds \/ Boot \/ UNCHANGED vars
             \/ \E u \in Users : \/ Elapse(u) \/ ToolSends(u) \/ Think(u) \/ Dispatch(u)
                                 \/ TypingCallEnds(u) \/ DeleteLogs(u)
  <2>1. at' = at
    BY <1>5 DEF Midnight, TickStarts, TickEnds, Boot, vars, Elapse, ToolSends, Think,
       Dispatch, TypingCallEnds, DeleteLogs
  <2> QED
    BY <1>2, <2>1 DEF Running
<1>6. CASE Crash
  <2>1. Running' = {}
    BY <1>6 DEF Crash, Running
  <2> QED
    BY <1>2, <2>1
<1>7. ASSUME NEW u \in Users, Step(u)
      PROVE  Cardinality(Running') <= Concurrency
  <2>1. at[u] # "idle"
    BY <1>7 DEF Step, Route, Gate, Prepare, Decide, LogSilence, ActFails, ActEnds,
       Send, Store, LogSend
  <2>2. \E place \in Places : Goto(u, place)
    BY <1>7 DEF Step, Route, Gate, Prepare, Decide, LogSilence, ActFails, ActEnds,
       Send, Store, LogSend, Returns, Raises, Ends, Places
  <2>3. \A v \in Users \ {u} : at'[v] = at[v]
    BY <2>2 DEF Goto, TypeOK
  <2> QED
    BY <1>2, <1>4, <2>1, <2>3
<1> QED
  BY <1>3, <1>5, <1>6, <1>7 DEF Next

LEMMA TypeStep == TypeOK /\ [Next]_vars => TypeOK'
<1> SUFFICES ASSUME TypeOK, [Next]_vars PROVE TypeOK'
  OBVIOUS
<1>1. Shape'
  BY TypeParts, ShapeStep
<1>2. Cardinality(Running') <= Concurrency
  BY <1>1, BoundStep
<1> QED
  BY <1>1, <1>2 DEF TypeOK, Shape

-----------------------------------------------------------------------------
(* What the step of a run does to the tables                               *)

(* It publishes its first message, counts it, loses it, or none of these.  *)
Nudges(u) ==
  /\ u \notin sent /\ at[u] \in PastGate /\ at'[u] \in PastGate
  /\ nudged' = [nudged EXCEPT ![u][today] = @ + 1]
  /\ sent' = sent \cup {u}
  /\ UNCHANGED <<logged, losses>>

Counts(u) ==
  /\ u \in sent /\ at[u] \in PastGate /\ at'[u] = "idle"
  /\ logged' = [logged EXCEPT ![u][today] = @ + 1]
  /\ sent' = sent \ {u}
  /\ UNCHANGED <<nudged, losses>>

Forgets(u) ==
  /\ u \in sent /\ losses' = losses + 1 /\ at'[u] = "idle"
  /\ sent' = sent \ {u}
  /\ UNCHANGED <<logged, nudged>>

Proceeds(u) ==
  /\ at'[u] \in PastGate => at[u] \in PastGate \/ logged[u][today] < MaxDaily
  /\ UNCHANGED <<logged, nudged, sent, losses>>

Effects(u) == Nudges(u) \/ Counts(u) \/ Forgets(u) \/ Proceeds(u)
Alone(u) ==
  /\ \A v \in Users \ {u} : at'[v] = at[v]
  /\ UNCHANGED <<today, crashes, deletes>>

LEMMA RunEffects ==
  ASSUME TypeOK, SentInv, NEW u \in Users,
         Claim(u) \/ Step(u) \/ ToolSends(u) \/ Think(u)
  PROVE  Effects(u) /\ Alone(u) /\ SentInv'
<1> USE DEF TypeOK, SentInv, Goto, PastGate, scheduler, chat, bounds, Alone, Ends
<1> SUFFICES Effects(u) /\ Alone(u)
             /\ (u \in sent' => at'[u] \in {"acting", "storing", "logging"})
             /\ (at'[u] \in {"storing", "logging"} => u \in sent')
             /\ (u \in waiting' => at'[u] = "idle")
             /\ (\A v \in Users \ {u} : v \in sent' <=> v \in sent)
             /\ waiting' \subseteq waiting
  OBVIOUS
<1>1. CASE Claim(u)
  BY <1>1 DEF Claim, Effects, Proceeds
<1>2. CASE Route(u)
  BY <1>2 DEF Route, Raises, Effects, Proceeds
<1>3. CASE Gate(u)
  BY <1>3 DEF Gate, BelowLimit, Returns, Raises, Effects, Proceeds
<1>13. CASE Prepare(u)
  BY <1>13 DEF Prepare, Raises, Effects, Proceeds
<1>4. CASE Decide(u)
  BY <1>4 DEF Decide, Raises, Effects, Proceeds
<1>5. CASE LogSilence(u)
  BY <1>5 DEF LogSilence, Returns, Raises, Effects, Proceeds
<1>6. CASE ActFails(u)
  BY <1>6 DEF ActFails, Loses, Returns, Raises, Effects, Proceeds, Forgets
<1>7. CASE ActEnds(u)
  BY <1>7 DEF ActEnds, Effects, Proceeds
<1>8. CASE Send(u)
  <2>1. CASE /\ HandOver(u) /\ Goto(u, "storing")
             /\ UNCHANGED <<scheduler, tooled>>
    BY <1>8, <2>1 DEF Send, HandOver, Effects, Nudges
  <2>2. CASE Returns(u, TRUE)
    BY <1>8, <2>2 DEF Send, Returns, Effects, Proceeds
  <2> QED
    BY <1>8, <2>1, <2>2 DEF Send
<1>9. CASE Store(u)
  BY <1>9 DEF Store, Loses, Raises, Effects, Proceeds, Forgets
<1>10. CASE LogSend(u)
  <2>1. CASE /\ logged' = [logged EXCEPT ![u][today] = @ + 1]
             /\ Returns(u, FALSE) /\ UNCHANGED losses
    BY <1>10, <2>1 DEF LogSend, Returns, Effects, Counts
  <2>2. CASE Loses /\ Raises(u, FALSE) /\ UNCHANGED logged
    BY <1>10, <2>2 DEF LogSend, Loses, Raises, Effects, Forgets
  <2> QED
    BY <1>10, <2>1, <2>2 DEF LogSend
<1>11. CASE ToolSends(u)
  <2>1. CASE u \in sent
    BY <1>11, <2>1 DEF ToolSends, HandOver, Effects, Proceeds
  <2>2. CASE u \notin sent
    BY <1>11, <2>2 DEF ToolSends, HandOver, Effects, Nudges
  <2> QED
    BY <2>1, <2>2
<1>12. CASE Think(u)
  BY <1>12 DEF Think, Effects, Proceeds
<1> QED
  BY <1>1, <1>2, <1>3, <1>4, <1>5, <1>6, <1>7, <1>8, <1>9, <1>10, <1>11, <1>12,
     <1>13 DEF Step

LEMMA Product ==
  ASSUME NEW m \in Nat, NEW n \in Nat
  PROVE  m * n \in Nat /\ m * (n + 1) = m * n + m
  OBVIOUS

(* Extra never shrinks, and grows by one with every loss and crash, by a   *)
(* day's budget with every deletion.                                       *)
LEMMA ExtraGrows ==
  ASSUME TypeOK, TypeOK'
  PROVE  /\ Extra \in Nat /\ Extra' \in Nat
         /\ UNCHANGED <<crashes, deletes>> => Extra' = Extra + (losses' - losses)
         /\ crashes' = crashes + 1 /\ UNCHANGED <<losses, deletes>>
              => Extra' = Extra + 1
         /\ deletes' = deletes + 1 /\ UNCHANGED <<losses, crashes>>
              => Extra' = Extra + MaxDaily
<1>1. /\ MaxDaily \in Nat /\ deletes \in Nat /\ crashes \in Nat /\ losses \in Nat
      /\ deletes' \in Nat /\ crashes' \in Nat /\ losses' \in Nat
  BY HeartbeatAssumption DEF TypeOK
<1> DEFINE cost == MaxDaily * deletes
           cost2 == MaxDaily * deletes'
<1>2. cost \in Nat /\ cost2 \in Nat
  BY <1>1, Product
<1>3. deletes' = deletes + 1 => cost2 = cost + MaxDaily
  BY <1>1, Product
<1>4. deletes' = deletes => cost2 = cost
  OBVIOUS
<1>5. Extra = cost + crashes + losses /\ Extra' = cost2 + crashes' + losses'
  BY DEF Extra
<1> HIDE DEF cost, cost2
<1>6. Extra \in Nat /\ Extra' \in Nat
  <2>1. ASSUME NEW a \in Nat, NEW b \in Nat, NEW c \in Nat PROVE a + b + c \in Nat
    BY <2>1
  <2>2. cost + crashes + losses \in Nat
    BY <1>1, <1>2, <2>1
  <2>3. cost2 + crashes' + losses' \in Nat
    BY <1>1, <1>2, <2>1
  <2> QED
    BY <1>5, <2>2, <2>3
<1>7. deletes' = deletes /\ crashes' = crashes => Extra' = Extra + (losses' - losses)
  BY <1>1, <1>2, <1>4, <1>5
<1>8. crashes' = crashes + 1 /\ losses' = losses /\ deletes' = deletes
        => Extra' = Extra + 1
  BY <1>1, <1>2, <1>4, <1>5
<1>9. deletes' = deletes + 1 /\ losses' = losses /\ crashes' = crashes
        => Extra' = Extra + MaxDaily
  BY <1>1, <1>2, <1>3, <1>5
<1> QED
  BY <1>6, <1>7, <1>8, <1>9

-----------------------------------------------------------------------------
(* The invariants under a step of a run                                    *)

LEMMA RunKeeps ==
  ASSUME IInv, TypeOK', NEW u \in Users, Effects(u), Alone(u)
  PROVE  FutureInv' /\ RoomInv' /\ BudgetInv'
<1>0. IInv => TypeOK
  BY DEF IInv
<1>1. /\ MaxDaily \in Nat /\ today \in Days /\ today' = today /\ Days \subseteq Nat
      /\ logged \in [Users -> [Days -> Nat]] /\ nudged \in [Users -> [Days -> Nat]]
      /\ losses \in Nat /\ losses' \in Nat
  <2>1. Days \subseteq Nat
    BY DEF Days
  <2> QED
    BY <1>0, <2>1, HeartbeatAssumption DEF TypeOK, Alone
<1>2. /\ Extra \in Nat /\ Extra' \in Nat /\ Extra' = Extra + (losses' - losses)
  BY ExtraGrows DEF IInv, Alone
<1>3. /\ \A v \in Users : \A d \in Days :
           d > today => logged[v][d] = 0 /\ nudged[v][d] = 0
      /\ \A v \in Users : at[v] \in PastGate => logged[v][today] < MaxDaily
      /\ \A v \in Users : \A d \in Days : logged[v][d] <= MaxDaily
      /\ \A v \in Users : nudged[v][today] <= logged[v][today] + Open(v) + Extra
      /\ \A v \in Users : \A d \in Days : nudged[v][d] <= MaxDaily + Extra
  BY DEF IInv, FutureInv, RoomInv, BudgetInv
<1>4. \A v \in Users \ {u} : at'[v] = at[v]
  BY DEF Alone
<1> DEFINE
      Future == \A v \in Users : \A d \in Days :
        d > today => logged'[v][d] = 0 /\ nudged'[v][d] = 0
      Room == \A v \in Users : at'[v] \in PastGate => logged'[v][today] < MaxDaily
      Capped == \A v \in Users : \A d \in Days : logged'[v][d] <= MaxDaily
      Behind == \A v \in Users :
        nudged'[v][today] <= logged'[v][today] + Open(v)' + Extra'
      Within == \A v \in Users : \A d \in Days : nudged'[v][d] <= MaxDaily + Extra'
<1> SUFFICES Future /\ Room /\ Capped /\ Behind /\ Within
  BY <1>1 DEF FutureInv, RoomInv, BudgetInv
<1>2b. /\ \A v \in Users : Open(v) \in Nat /\ Open(v)' \in Nat
       /\ \A v \in Users : \A d \in Days : logged[v][d] \in Nat /\ nudged[v][d] \in Nat
  BY <1>1 DEF Open
<1>5. CASE Nudges(u)
  <2>1. /\ nudged'[u][today] = nudged[u][today] + 1
        /\ \A v \in Users : \A d \in Days :
             v # u \/ d # today => nudged'[v][d] = nudged[v][d]
    BY <1>1, <1>5, CountOne DEF Nudges
  <2>2. Open(u) = 0 /\ Open(u)' = 1 /\ (\A v \in Users \ {u} : Open(v)' = Open(v))
    BY <1>5 DEF Nudges, Open
  <2>3. /\ Extra' = Extra /\ logged' = logged /\ at[u] \in PastGate
    BY <1>1, <1>2, <1>5 DEF Nudges
  <2>4. Future
    BY <1>1, <1>3, <2>1, <2>3
  <2>5. Room /\ Capped
    BY <1>3, <1>4, <2>3
  <2> HIDE DEF Open, PastGate, Extra
  <2>6. Behind
    <3>1. ASSUME NEW v \in Users \ {u}
          PROVE  nudged'[v][today] <= logged'[v][today] + Open(v)' + Extra'
      BY <1>1, <1>3, <2>1, <2>2, <2>3
    <3>2. nudged'[u][today] <= logged'[u][today] + Open(u)' + Extra'
      <4>1. nudged[u][today] <= logged[u][today] + 0 + Extra
        BY <1>3, <2>2
      <4>2. nudged[u][today] \in Nat /\ logged[u][today] \in Nat /\ Extra \in Nat
        BY <1>1, <1>2, <1>2b
      <4>3. nudged[u][today] + 1 <= logged[u][today] + 1 + Extra
        BY <4>1, <4>2
      <4> QED
        BY <2>1, <2>2, <2>3, <4>3
    <3> QED
      BY <3>1, <3>2
  <2>7. Within
    <3>1. nudged'[u][today] <= MaxDaily + Extra'
      <4>1. /\ nudged[u][today] <= logged[u][today] + 0 + Extra
            /\ logged[u][today] < MaxDaily
        BY <1>3, <2>2, <2>3
      <4>2. nudged[u][today] \in Nat /\ logged[u][today] \in Nat /\ Extra \in Nat
        BY <1>1, <1>2, <1>2b
      <4>3. nudged[u][today] + 1 <= MaxDaily + Extra
        BY <1>1, <4>1, <4>2
      <4> QED
        BY <2>1, <2>3, <4>3
    <3> QED
      BY <1>3, <2>1, <2>3, <3>1
  <2> QED
    BY <2>4, <2>5, <2>6, <2>7
<1>6. CASE Counts(u)
  <2>1. /\ logged'[u][today] = logged[u][today] + 1
        /\ \A v \in Users : \A d \in Days :
             v # u \/ d # today => logged'[v][d] = logged[v][d]
    BY <1>1, <1>6, CountOne DEF Counts
  <2>2. Open(u) = 1 /\ Open(u)' = 0 /\ (\A v \in Users \ {u} : Open(v)' = Open(v))
    BY <1>6 DEF Counts, Open
  <2>3. /\ Extra' = Extra /\ nudged' = nudged /\ logged[u][today] < MaxDaily
        /\ at'[u] \notin PastGate
    BY <1>1, <1>2, <1>3, <1>6 DEF Counts, PastGate
  <2>4. Future
    BY <1>1, <1>3, <2>1, <2>3
  <2> HIDE DEF Open, PastGate, Extra
  <2>5. Room
    BY <1>1, <1>3, <1>4, <2>1, <2>3
  <2>6. Capped
    <3>1. logged'[u][today] <= MaxDaily
      BY <1>1, <1>2b, <2>1, <2>3
    <3> QED
      BY <1>3, <2>1, <3>1
  <2>7. Behind
    <3>1. ASSUME NEW v \in Users \ {u}
          PROVE  nudged'[v][today] <= logged'[v][today] + Open(v)' + Extra'
      BY <1>1, <1>3, <2>1, <2>2, <2>3
    <3>2. nudged'[u][today] <= logged'[u][today] + Open(u)' + Extra'
      <4>1. nudged[u][today] <= logged[u][today] + 1 + Extra
        BY <1>3, <2>2
      <4>2. nudged[u][today] \in Nat /\ logged[u][today] \in Nat /\ Extra \in Nat
        BY <1>1, <1>2, <1>2b
      <4>3. nudged[u][today] <= (logged[u][today] + 1) + 0 + Extra
        BY <4>1, <4>2
      <4> QED
        BY <2>1, <2>2, <2>3, <4>3
    <3> QED
      BY <3>1, <3>2
  <2>8. Within
    BY <1>3, <2>3
  <2> QED
    BY <2>4, <2>5, <2>6, <2>7, <2>8
<1>7. CASE Forgets(u)
  <2>1. Open(u) = 1 /\ Open(u)' = 0 /\ (\A v \in Users \ {u} : Open(v)' = Open(v))
    BY <1>7 DEF Forgets, Open
  <2>2. /\ Extra' = Extra + 1 /\ logged' = logged /\ nudged' = nudged
        /\ at'[u] \notin PastGate
    <3>1. losses' - losses = 1
      BY <1>1, <1>7 DEF Forgets
    <3> QED
      BY <1>2, <1>7, <3>1 DEF Forgets, PastGate
  <2> HIDE DEF Open, PastGate, Extra
  <2>3. Future /\ Room /\ Capped
    BY <1>3, <1>4, <2>2
  <2>4. Behind
    <3>1. ASSUME NEW v \in Users \ {u}
          PROVE  nudged'[v][today] <= logged'[v][today] + Open(v)' + Extra'
      BY <1>1, <1>2, <1>2b, <1>3, <2>1, <2>2
    <3>2. nudged'[u][today] <= logged'[u][today] + Open(u)' + Extra'
      BY <1>1, <1>2, <1>2b, <1>3, <2>1, <2>2
    <3> QED
      BY <3>1, <3>2
  <2>5. Within
    <3>1. ASSUME NEW v \in Users, NEW d \in Days PROVE nudged[v][d] <= MaxDaily + (Extra + 1)
      <4>1. nudged[v][d] <= MaxDaily + Extra /\ nudged[v][d] \in Nat
        BY <1>2b, <1>3
      <4> QED
        BY <1>1, <1>2, <4>1
    <3> QED
      BY <2>2, <3>1
  <2> QED
    BY <2>3, <2>4, <2>5
<1>8. CASE Proceeds(u)
  <2>1. /\ logged' = logged /\ nudged' = nudged
        /\ \A v \in Users : Open(v)' = Open(v)
    BY <1>8 DEF Proceeds, Open
  <2>2. Extra' = Extra
    BY <1>1, <1>2, <1>8 DEF Proceeds
  <2>3. at'[u] \in PastGate => logged[u][today] < MaxDaily
    BY <1>3, <1>8 DEF Proceeds
  <2> HIDE DEF Open, PastGate, Extra
  <2> QED
    BY <1>3, <1>4, <2>1, <2>2, <2>3
<1> QED
  BY <1>5, <1>6, <1>7, <1>8 DEF Effects

-----------------------------------------------------------------------------
(* The other steps                                                         *)

(* The scheduler starts and ends a tick, time passes for a user, and what  *)
(* is on the bus reaches the phone or gets lost.                           *)
LEMMA SchedulerKeeps ==
  ASSUME IInv, TypeOK',
         \/ TickStarts \/ TickEnds \/ Boot \/ UNCHANGED vars
         \/ \E u \in Users : Elapse(u) \/ Dispatch(u) \/ TypingCallEnds(u)
  PROVE  FutureInv' /\ SentInv' /\ RoomInv' /\ BudgetInv'
<1>1. /\ UNCHANGED <<today, at, logged, nudged, sent, losses, crashes, deletes>>
      /\ waiting' \subseteq waiting \/ TickStarts
  BY DEF IInv, TickStarts, TickEnds, Boot, Elapse, Dispatch, TypingCallEnds, vars,
     scheduler, chat, bounds
<1>2. SentInv'
  <2>1. CASE TickStarts
    BY <1>1, <2>1 DEF IInv, TypeOK, Running, SentInv, TickStarts
  <2>2. CASE waiting' \subseteq waiting
    BY <1>1, <2>2 DEF IInv, SentInv
  <2> QED
    BY <1>1, <2>1, <2>2
<1>3. FutureInv' /\ RoomInv' /\ BudgetInv'
  BY <1>1 DEF IInv, FutureInv, RoomInv, BudgetInv, Extra, Open
<1> QED
  BY <1>2, <1>3

(* Tomorrow starts with an empty log.                                      *)
LEMMA MidnightKeeps ==
  ASSUME IInv, TypeOK', Midnight
  PROVE  FutureInv' /\ SentInv' /\ RoomInv' /\ BudgetInv'
<1>1. /\ today' = today + 1 /\ today' \in Days /\ today \in Days /\ Days \subseteq Nat
      /\ UNCHANGED <<waiting, at, logged, nudged, sent, losses, crashes, deletes>>
      /\ MaxDaily \in Nat /\ 0 < MaxDaily
  BY HeartbeatAssumption
     DEF Midnight, IInv, TypeOK, Days, scheduler, chat, bounds
<1>2. today' > today /\ \A d \in Days : d > today' => d > today
  BY <1>1
<1>3. Extra \in Nat /\ Extra' = Extra
  BY <1>1, ExtraGrows DEF IInv, Extra
<1>4. \A u \in Users : logged[u][today'] = 0 /\ nudged[u][today'] = 0
  BY <1>1, <1>2 DEF IInv, FutureInv
<1>5. FutureInv'
  BY <1>1, <1>2 DEF IInv, FutureInv
<1>6. SentInv' /\ RoomInv'
  BY <1>1, <1>4 DEF IInv, SentInv, RoomInv
<1>7. BudgetInv'
  <2>1. \A u \in Users : 0 <= 0 + Open(u)' + Extra'
    BY <1>3 DEF Open
  <2> QED
    BY <1>1, <1>3, <1>4, <2>1 DEF IInv, BudgetInv
<1> QED
  BY <1>5, <1>6, <1>7

(* What a run had published when the worker died is never counted.         *)
LEMMA CrashKeeps ==
  ASSUME IInv, TypeOK', Crash
  PROVE  FutureInv' /\ SentInv' /\ RoomInv' /\ BudgetInv'
<1>0. IInv => TypeOK
  BY DEF IInv
<1>1. /\ UNCHANGED <<today, logged, nudged, losses, deletes>>
      /\ crashes' = crashes + 1 /\ sent' = {} /\ waiting' = {}
      /\ \A u \in Users : at'[u] = "idle"
      /\ MaxDaily \in Nat
  BY HeartbeatAssumption DEF Crash
<1>2. Extra \in Nat /\ Extra' = Extra + 1
  BY <1>0, <1>1, ExtraGrows
<1>3. FutureInv' /\ SentInv' /\ RoomInv'
  BY <1>1 DEF IInv, FutureInv, SentInv, RoomInv, PastGate
<1>4. /\ \A u \in Users : \A d \in Days : logged[u][d] \in Nat /\ nudged[u][d] \in Nat
      /\ today \in Days
  BY <1>0 DEF TypeOK
<1>5. ASSUME NEW u \in Users
      PROVE  nudged[u][today] <= logged[u][today] + 0 + (Extra + 1)
  <2>1. nudged[u][today] <= logged[u][today] + Open(u) + Extra
    BY DEF IInv, BudgetInv
  <2>2. Open(u) = 0 \/ Open(u) = 1
    BY DEF Open
  <2> HIDE DEF Open
  <2> QED
    BY <1>2, <1>4, <2>1, <2>2
<1>6. ASSUME NEW u \in Users, NEW d \in Days
      PROVE  nudged[u][d] <= MaxDaily + (Extra + 1)
  <2>1. nudged[u][d] <= MaxDaily + Extra
    BY DEF IInv, BudgetInv
  <2> QED
    BY <1>1, <1>2, <1>4, <2>1
<1>7. BudgetInv'
  <2>1. \A u \in Users : Open(u)' = 0
    BY <1>1 DEF Open
  <2> QED
    BY <1>1, <1>2, <1>5, <1>6, <2>1 DEF BudgetInv
<1> QED
  BY <1>3, <1>7

(* An empty log is a new budget.                                           *)
LEMMA DeleteKeeps ==
  ASSUME IInv, TypeOK', NEW u \in Users, DeleteLogs(u)
  PROVE  FutureInv' /\ SentInv' /\ RoomInv' /\ BudgetInv'
<1>0. IInv => TypeOK
  BY DEF IInv
<1>1. /\ UNCHANGED <<today, at, sent, waiting, nudged, losses, crashes>>
      /\ deletes' = deletes + 1
      /\ MaxDaily \in Nat /\ 0 < MaxDaily /\ today \in Days
  BY <1>0, HeartbeatAssumption
     DEF DeleteLogs, TypeOK, scheduler, chat
<1>2. Extra \in Nat /\ Extra' = Extra + MaxDaily
  BY <1>0, <1>1, ExtraGrows
<1>3. /\ \A d \in Days : logged'[u][d] = 0
      /\ \A v \in Users \ {u} : \A d \in Days : logged'[v][d] = logged[v][d]
  BY <1>0 DEF DeleteLogs, TypeOK
<1>4. FutureInv' /\ SentInv' /\ RoomInv'
  BY <1>1, <1>3 DEF IInv, FutureInv, SentInv, RoomInv
<1>5. \A v \in Users : \A d \in Days : logged[v][d] \in Nat /\ nudged[v][d] \in Nat
  BY <1>0 DEF TypeOK
<1>6. \A v \in Users : \A d \in Days : nudged[v][d] <= MaxDaily + Extra
  BY DEF IInv, BudgetInv
<1>7. ASSUME NEW v \in Users, NEW d \in Days
      PROVE  nudged[v][d] <= MaxDaily + (Extra + MaxDaily)
  BY <1>1, <1>2, <1>5, <1>6
<1>8. ASSUME NEW v \in Users
      PROVE  nudged[v][today] <= logged'[v][today] + Open(v) + (Extra + MaxDaily)
  <2>1. Open(v) \in Nat
    BY DEF Open
  <2>2. CASE v = u
    <3>1. nudged[v][today] <= 0 + Open(v) + (Extra + MaxDaily)
      <4> HIDE DEF Open, Extra
      <4>1. nudged[v][today] \in Nat /\ nudged[v][today] <= MaxDaily + Extra
        BY <1>1, <1>5, <1>6
      <4> QED
        BY <1>1, <1>2, <2>1, <4>1
    <3> QED
      BY <1>1, <1>3, <2>2, <3>1
  <2>3. CASE v # u
    <3>1. nudged[v][today] <= logged[v][today] + Open(v) + (Extra + MaxDaily)
      <4>1. nudged[v][today] <= logged[v][today] + Open(v) + Extra
        BY DEF IInv, BudgetInv
      <4>2. nudged[v][today] \in Nat /\ logged[v][today] \in Nat
        BY <1>1, <1>5
      <4> HIDE DEF Open, Extra
      <4> QED
        BY <1>1, <1>2, <2>1, <4>1, <4>2
    <3> QED
      BY <1>1, <1>3, <2>3, <3>1
  <2> QED
    BY <2>2, <2>3
<1>9. BudgetInv'
  <2>1. \A v \in Users : Open(v)' = Open(v)
    BY <1>1 DEF Open
  <2> QED
    BY <1>1, <1>2, <1>7, <1>8, <2>1 DEF BudgetInv
<1> QED
  BY <1>4, <1>9

-----------------------------------------------------------------------------
(* The theorems                                                            *)

LEMMA InitIInv == Init => IInv
<1> SUFFICES ASSUME Init PROVE IInv
  OBVIOUS
<1>1. MaxDaily \in Nat /\ 0 < MaxDaily /\ LastDay \in Nat
  BY HeartbeatAssumption
<1>2. /\ \A u \in Users : at[u] = "idle" /\ u \notin sent
      /\ \A u \in Users : \A d \in Days : logged[u][d] = 0 /\ nudged[u][d] = 0
      /\ today \in Days
  BY <1>1 DEF Init, Days
<1>3. TypeOK
  <2>1. /\ outbox \in [Users -> Seq(Kinds)] /\ phone \in [Users -> Bubbles]
        /\ at \in [Users -> Places]
        /\ logged \in [Users -> [Days -> Nat]] /\ nudged = logged
    BY DEF Init, Places, Bubbles
  <2>2. Running = {}
    BY <1>2 DEF Running
  <2>3. Cardinality(Running) <= Concurrency
    BY <2>2, FS_EmptySet, HeartbeatAssumption
  <2> QED
    BY <1>2, <2>1, <2>2, <2>3 DEF Init, TypeOK
<1>4. FutureInv /\ SentInv /\ RoomInv
  BY <1>1, <1>2 DEF FutureInv, SentInv, RoomInv, PastGate
<1>5. BudgetInv
  <2>1. Extra = 0
    <3>1. MaxDaily * 0 = 0
      BY <1>1
    <3> QED
      BY <3>1 DEF Extra, Init
  <2> QED
    BY <1>1, <1>2, <2>1 DEF BudgetInv, Open
<1> QED
  BY <1>3, <1>4, <1>5 DEF IInv

LEMMA StepIInv == IInv /\ [Next]_vars => IInv'
<1> SUFFICES ASSUME IInv, [Next]_vars PROVE IInv'
  OBVIOUS
<1>1. TypeOK /\ SentInv /\ TypeOK'
  BY TypeStep DEF IInv
<1> SUFFICES FutureInv' /\ SentInv' /\ RoomInv' /\ BudgetInv'
  BY <1>1 DEF IInv
<1>2. CASE \/ TickStarts \/ TickEnds \/ Boot \/ UNCHANGED vars
           \/ \E u \in Users : Elapse(u) \/ Dispatch(u) \/ TypingCallEnds(u)
  BY <1>1, <1>2, SchedulerKeeps
<1>3. CASE Midnight
  BY <1>1, <1>3, MidnightKeeps
<1>4. CASE Crash
  BY <1>1, <1>4, CrashKeeps
<1>5. ASSUME NEW u \in Users, Claim(u) \/ Step(u) \/ ToolSends(u) \/ Think(u)
      PROVE  FutureInv' /\ SentInv' /\ RoomInv' /\ BudgetInv'
  <2>1. Effects(u) /\ Alone(u) /\ SentInv'
    BY <1>1, <1>5, RunEffects
  <2> QED
    BY <1>1, <2>1, RunKeeps
<1>6. ASSUME NEW u \in Users, DeleteLogs(u)
      PROVE  FutureInv' /\ SentInv' /\ RoomInv' /\ BudgetInv'
  BY <1>1, <1>6, DeleteKeeps
<1> QED
  BY <1>2, <1>3, <1>4, <1>5, <1>6 DEF Next

(* The types, and the scheduler's shape: users are evaluated within a tick *)
(* only, no more of them at once than the semaphore admits, and a dead     *)
(* worker evaluates nobody.                                                *)
THEOREM TypeCorrect == Spec => []TypeOK
<1>1. Init => TypeOK
  BY InitIInv DEF IInv
<1> QED
  BY <1>1, TypeStep, PTL DEF Spec

(* The daily maximum of runs that publish a message holds, but for those   *)
(* that a crash or a failure kept from being counted and for the budgets   *)
(* that clearing the log renewed.                                          *)
THEOREM BudgetKept == Spec => []NudgesWithinBudget
<1>1. IInv => NudgesWithinBudget
  <2> SUFFICES ASSUME IInv, NEW u \in Users, NEW d \in Days
               PROVE  nudged[u][d] <= MaxDaily + MaxDaily * deletes + crashes + losses
    BY DEF NudgesWithinBudget
  <2>1. /\ MaxDaily \in Nat /\ deletes \in Nat /\ crashes \in Nat /\ losses \in Nat
        /\ nudged[u][d] \in Nat
    BY HeartbeatAssumption DEF IInv, TypeOK
  <2>2. nudged[u][d] <= MaxDaily + (MaxDaily * deletes + crashes + losses)
    BY DEF IInv, BudgetInv, Extra
  <2> DEFINE cost == MaxDaily * deletes
  <2>3. cost \in Nat
    BY <2>1, Product
  <2>4. nudged[u][d] <= MaxDaily + (cost + crashes + losses)
    BY <2>2
  <2> HIDE DEF cost
  <2>5. nudged[u][d] <= MaxDaily + cost + crashes + losses
    BY <2>1, <2>3, <2>4
  <2> QED
    BY <2>5 DEF cost
<1> QED
  BY <1>1, InitIInv, StepIInv, PTL DEF Spec

-----------------------------------------------------------------------------
(* The typing indicator                                                    *)

(* What a message on the bus does to the last word.                        *)
LEMMA LastPublished ==
  ASSUME TypeOK, NEW u \in Lasting, NEW kind \in Kinds, Publish(u, kind)
  PROVE  /\ outbox'[u] # <<>>
         /\ outbox'[u][Len(outbox'[u])] = kind
         /\ \A v \in Users \ {u} : outbox'[v] = outbox[v]
<1>1. u \in Users /\ outbox[u] \in Seq(Kinds)
  BY HeartbeatAssumption DEF TypeOK
<1>2. outbox'[u] = Append(outbox[u], kind)
  BY <1>1 DEF Publish, TypeOK
<1>3. \A v \in Users \ {u} : outbox'[v] = outbox[v]
  BY <1>1 DEF Publish, TypeOK
<1> QED
  BY <1>1, <1>2, <1>3

(* Whoever is not Lasting has nothing on the bus, whatever is published.   *)
LEMMA PublishOthers ==
  ASSUME TypeOK, TypingInv, NEW u \in Users, NEW kind \in Kinds, Publish(u, kind)
  PROVE  /\ \A v \in Users \ Lasting : outbox'[v] = <<>>
         /\ \A v \in Users \ {u} : outbox'[v] = outbox[v]
         /\ u \in Lasting => /\ outbox'[u] # <<>>
                             /\ outbox'[u][Len(outbox'[u])] = kind
<1>1. CASE u \in Lasting
  BY <1>1, LastPublished DEF TypingInv
<1>2. CASE u \notin Lasting
  BY <1>2 DEF Publish, TypingInv
<1> QED
  BY <1>1, <1>2

(* A run that ends has the last word, or had it.                           *)
LEMMA EndSettles ==
  ASSUME TypeOK, TypingInv, NEW u \in Users, NEW stop \in BOOLEAN,
         at[u] \notin Resting => stop, Ends(u, stop)
  PROVE  TypingInv'
<1>1. /\ at'[u] = "idle" /\ sent' = sent \ {u} /\ phone' = phone
      /\ \A v \in Users \ {u} : at'[v] = at[v] /\ (v \in tooled' <=> v \in tooled)
  BY DEF Ends, Goto, TypeOK
<1>2. /\ \A v \in Users \ Lasting : outbox'[v] = <<>>
      /\ \A v \in Users \ {u} : outbox'[v] = outbox[v]
  BY PublishOthers DEF Ends, Kinds, TypingInv
<1>3. CASE u \notin Lasting
  BY <1>1, <1>2, <1>3 DEF TypingInv, Settled
<1>4. CASE u \in Lasting /\ stop
  <2>1. outbox'[u] # <<>> /\ outbox'[u][Len(outbox'[u])] = "stop"
    BY <1>4, LastPublished DEF Ends, Kinds
  <2> QED
    BY <1>1, <1>2, <2>1 DEF TypingInv, Settled
<1>5. CASE ~stop
  <2>1. outbox' = outbox /\ tooled' = tooled /\ at[u] \in Resting
    BY <1>5 DEF Ends
  <2> QED
    BY <1>1, <1>2, <2>1 DEF TypingInv, Settled
<1> QED
  BY <1>3, <1>4, <1>5

(* A run that goes on while its last word may be to show it.               *)
LEMMA BusySettles ==
  ASSUME TypeOK, TypingInv, NEW u \in Users, at'[u] \notin Resting,
         at'[u] = "acting" /\ u \in sent' => u \in tooled',
         \A v \in Users \ {u} : /\ at'[v] = at[v] /\ outbox'[v] = outbox[v]
                                /\ (v \in tooled' <=> v \in tooled)
                                /\ (v \in sent' <=> v \in sent),
         phone' = phone, \A v \in Users \ Lasting : outbox'[v] = <<>>
  PROVE  TypingInv'
  BY DEF TypingInv, Settled

(* Taking the head off keeps the last word, if there is another.           *)
LEMMA TailLast ==
  ASSUME NEW s \in Seq(Kinds), s # <<>>
  PROVE  /\ Len(s) \in Nat \ {0}
         /\ Len(s) = 1 => Tail(s) = <<>> /\ Head(s) = s[Len(s)]
         /\ Len(s) # 1 => Tail(s) # <<>> /\ Tail(s)[Len(Tail(s))] = s[Len(s)]
<1>0. Len(<<>>) = 0 /\ \A t \in Seq(Kinds) : t # <<>> => Len(t) \in Nat \ {0}
  BY EmptySeq
<1>1. Len(s) \in Nat \ {0}
  BY <1>0
<1>2. /\ Tail(s) \in Seq(Kinds) /\ Len(Tail(s)) = Len(s) - 1
      /\ \A i \in 1 .. Len(Tail(s)) : Tail(s)[i] = s[i+1]
  BY HeadTailProperties
<1>3. CASE Len(s) = 1
  <2>1. Tail(s) = <<>>
    <3>1. Len(Tail(s)) = 0
      BY <1>2, <1>3
    <3> QED
      BY <1>0, <1>2, <3>1
  <2> QED
    BY <1>1, <1>3, <2>1
<1>4. CASE Len(s) # 1
  <2>1. Len(Tail(s)) \in 1 .. Len(Tail(s)) /\ Len(Tail(s)) + 1 = Len(s)
    BY <1>1, <1>2, <1>4
  <2>2. Tail(s) # <<>>
    <3>1. Len(Tail(s)) # 0
      BY <1>1, <1>2, <1>4
    <3> QED
      BY <1>0, <3>1
  <2>3. Tail(s)[Len(Tail(s))] = s[Len(s)]
    BY <1>2, <2>1
  <2> QED
    BY <1>1, <1>4, <2>2, <2>3
<1> QED
  BY <1>1, <1>3, <1>4

LEMMA DispatchSettles ==
  ASSUME TypeOK, TypingInv, NEW u \in Users, Dispatch(u)
  PROVE  TypingInv'
<1>1. u \in Lasting /\ outbox[u] # <<>> /\ outbox[u] \in Seq(Kinds)
  BY DEF Dispatch, TypingInv, TypeOK
<1>2. /\ outbox'[u] = Tail(outbox[u])
      /\ \A v \in Users \ {u} : outbox'[v] = outbox[v] /\ phone'[v] = phone[v]
      /\ UNCHANGED <<at, sent, tooled>>
  BY DEF Dispatch, Shows, TypeOK
<1>3. ASSUME Settled(u) PROVE Settled(u)'
  <2>1. CASE Len(outbox[u]) = 1
    <3>1. outbox'[u] = <<>> /\ Head(outbox[u]) # "start"
      BY <1>1, <1>2, <1>3, <2>1, TailLast DEF Settled
    <3>2. phone'[u] \notin {"starting", "shown"}
      <4>1. CASE Head(outbox[u]) = "stop"
        BY <1>1, <4>1 DEF Dispatch, Shows, TypeOK
      <4>2. CASE Head(outbox[u]) = "text"
        <5>1. PICK arrives \in BOOLEAN : Shows(u, AfterText(phone[u], arrives))
          BY <4>2 DEF Dispatch
        <5>2. phone'[u] = AfterText(phone[u], arrives)
          BY <5>1 DEF Shows, TypeOK
        <5>3. phone[u] \in Bubbles
          BY DEF TypeOK
        <5> QED
          BY <5>2, <5>3 DEF AfterText, Bubbles
      <4> QED
        BY <3>1, <4>1, <4>2 DEF Dispatch
    <3> QED
      BY <3>1, <3>2 DEF Settled
  <2>2. CASE Len(outbox[u]) # 1
    <3>2. /\ Tail(outbox[u]) # <<>>
          /\ Tail(outbox[u])[Len(Tail(outbox[u]))] = outbox[u][Len(outbox[u])]
      BY <1>1, <2>2, TailLast
    <3> QED
      BY <1>1, <1>2, <1>3, <3>2 DEF Settled
  <2> QED
    BY <2>1, <2>2
<1>4. \A v \in Users \ {u} : Settled(v)' <=> Settled(v)
  BY <1>2 DEF Settled
<1> QED
  BY <1>1, <1>2, <1>3, <1>4 DEF TypingInv

LEMMA RunSettles ==
  ASSUME TypeOK, SentInv, TypingInv, NEW u \in Users,
         Claim(u) \/ Step(u) \/ ToolSends(u) \/ Think(u)
  PROVE  TypingInv'
<1>1. ASSUME NEW place, Goto(u, place)
      PROVE  at'[u] = place /\ \A v \in Users \ {u} : at'[v] = at[v]
  BY <1>1 DEF Goto, TypeOK
<1>2. ASSUME Raises(u, FALSE) \/ Returns(u, FALSE), at[u] \in Resting
      PROVE  TypingInv'
  BY <1>2, EndSettles DEF Raises, Returns
<1>3. ASSUME Raises(u, TRUE) \/ Returns(u, TRUE)
      PROVE  TypingInv'
  BY <1>3, EndSettles DEF Raises, Returns
<1>4. ASSUME NEW place \in Resting, Goto(u, place), at[u] \in Resting,
             UNCHANGED <<sent, tooled, outbox, phone>>
      PROVE  TypingInv'
  BY <1>1, <1>4 DEF TypingInv, Settled, Resting
<1>5. ASSUME NEW place \in Places \ Resting, Goto(u, place),
             place = "acting" => u \notin sent,
             UNCHANGED <<sent, tooled, outbox, phone>>
      PROVE  TypingInv'
  BY <1>1, <1>5, BusySettles DEF TypingInv, Settled
<1>6. CASE Claim(u)
  <2>1. Goto(u, "routing") /\ at[u] = "idle" /\ UNCHANGED <<sent, tooled, outbox, phone>>
    BY <1>6 DEF Claim, SentInv, chat
  <2> QED
    BY <1>4, <2>1 DEF Resting
<1>7. CASE Route(u)
  <2>1. CASE Goto(u, "gating") /\ UNCHANGED <<scheduler, chat>>
    BY <1>4, <1>7, <2>1 DEF Route, Resting, chat
  <2> QED
    BY <1>2, <1>7, <2>1 DEF Route, Resting
<1>8. CASE Gate(u)
  <2>1. CASE /\ Goto(u, "reading") /\ tooled' = tooled \ {u}
             /\ UNCHANGED <<scheduler, sent, outbox, phone, nudged>>
    <3>1. at'[u] = "reading" /\ \A v \in Users \ {u} : at'[v] = at[v]
      BY <1>1, <2>1
    <3> QED
      BY <2>1, <3>1 DEF TypingInv, Settled, Resting
  <2> QED
    BY <1>2, <1>8, <2>1 DEF Gate, Resting
<1>9. CASE Prepare(u)
  <2>1. CASE /\ Goto(u, "deciding") /\ Publish(u, "start")
             /\ UNCHANGED <<scheduler, sent, tooled, phone, nudged>>
    <3>1. at'[u] = "deciding" /\ \A v \in Users \ {u} : at'[v] = at[v]
      BY <1>1, <2>1
    <3>2. /\ \A v \in Users \ Lasting : outbox'[v] = <<>>
          /\ \A v \in Users \ {u} : outbox'[v] = outbox[v]
      BY <2>1, PublishOthers DEF Kinds
    <3> QED
      BY <2>1, <3>1, <3>2 DEF TypingInv, Settled, Resting
  <2> QED
    BY <1>3, <1>9, <2>1 DEF Prepare
<1>10. CASE Decide(u)
  <2>1. CASE \E place \in {"silent", "acting"} :
               Goto(u, place) /\ UNCHANGED <<scheduler, chat>>
    <3>1. u \notin sent
      BY <1>10 DEF Decide, SentInv
    <3> QED
      BY <1>5, <2>1, <3>1 DEF Resting, Places, chat
  <2> QED
    BY <1>3, <1>10, <2>1 DEF Decide
<1>11. CASE LogSilence(u) \/ ActFails(u)
  BY <1>3, <1>11 DEF LogSilence, ActFails
<1>12. CASE ActEnds(u)
  <2>1. at[u] = "acting" /\ UNCHANGED <<sent, tooled, outbox, phone>>
    BY <1>12 DEF ActEnds, chat
  <2>2. CASE Goto(u, "silent") \/ Goto(u, "sending")
    BY <1>5, <2>1, <2>2 DEF Resting, Places
  <2>3. CASE u \in sent /\ Goto(u, "storing")
    <3>1. at'[u] = "storing" /\ \A v \in Users \ {u} : at'[v] = at[v]
      BY <1>1, <2>3
    <3> QED
      BY <2>1, <2>3, <3>1 DEF TypingInv, Settled
  <2> QED
    BY <1>12, <2>2, <2>3 DEF ActEnds
<1>13. CASE Send(u)
  <2>1. CASE /\ HandOver(u) /\ Goto(u, "storing")
             /\ UNCHANGED <<scheduler, tooled>>
    <3>1. at'[u] = "storing" /\ \A v \in Users \ {u} : at'[v] = at[v]
      BY <1>1, <2>1
    <3>2. /\ \A v \in Users \ Lasting : outbox'[v] = <<>>
          /\ \A v \in Users \ {u} : outbox'[v] = outbox[v]
          /\ u \in Lasting => /\ outbox'[u] # <<>>
                              /\ outbox'[u][Len(outbox'[u])] = "text"
      BY <2>1, PublishOthers DEF Kinds, HandOver
    <3>3. /\ phone' = phone /\ tooled' = tooled
          /\ \A v \in Users \ {u} : v \in sent' <=> v \in sent
      BY <2>1 DEF HandOver
    <3>4. Settled(u)'
      BY <3>2, <3>3 DEF Settled, TypingInv
    <3> QED
      BY <3>1, <3>2, <3>3, <3>4 DEF TypingInv, Settled
  <2> QED
    BY <1>3, <1>13, <2>1 DEF Send
<1>14. CASE Store(u)
  <2>1. at[u] \in Resting
    BY <1>14 DEF Store, Resting
  <2>2. CASE Goto(u, "logging") /\ UNCHANGED <<scheduler, chat, losses>>
    BY <1>4, <2>1, <2>2 DEF Resting, chat
  <2> QED
    BY <1>2, <1>14, <2>1, <2>2 DEF Store
<1>15. CASE LogSend(u)
  BY <1>2, <1>15 DEF LogSend, Resting
<1>16. CASE ToolSends(u) \/ Think(u)
  <2>1. /\ at[u] = "acting" /\ at' = at /\ phone' = phone
        /\ \E kind \in Kinds : Publish(u, kind)
        /\ \A v \in Users \ {u} : /\ v \in sent' <=> v \in sent
                                  /\ v \in tooled' <=> v \in tooled
        /\ u \in sent' => u \in tooled'
    BY <1>16 DEF ToolSends, Think, HandOver, Kinds, TypingInv
  <2>2. /\ \A v \in Users \ Lasting : outbox'[v] = <<>>
        /\ \A v \in Users \ {u} : outbox'[v] = outbox[v]
    BY <2>1, PublishOthers
  <2>3. at[u] \notin Resting
    BY <2>1 DEF Resting
  <2>4. \A v \in Users \ {u} : Settled(v)' <=> Settled(v)
    BY <2>1, <2>2 DEF Settled
  <2> QED
    <3>1. \A v \in Users : at'[v] = "acting" /\ v \in sent' => v \in tooled'
      BY <2>1 DEF TypingInv
    <3>2. \A v \in Users \ tooled' : at'[v] \in Resting => Settled(v)'
      BY <2>1, <2>3, <2>4 DEF TypingInv
    <3>3. \A v \in Users \ Lasting : outbox'[v] = <<>> /\ phone'[v] = "hidden"
      BY <2>1, <2>2 DEF TypingInv
    <3> QED
      BY <3>1, <3>2, <3>3 DEF TypingInv
<1> QED
  BY <1>6, <1>7, <1>8, <1>9, <1>10, <1>11, <1>12, <1>13, <1>14, <1>15, <1>16
     DEF Step

LEMMA TypingStep == TypeOK /\ SentInv /\ TypingInv /\ [Next]_vars => TypingInv'
<1> SUFFICES ASSUME TypeOK, SentInv, TypingInv, [Next]_vars PROVE TypingInv'
  OBVIOUS
<1>1. CASE \/ Midnight \/ TickStarts \/ TickEnds \/ Boot \/ UNCHANGED vars
           \/ \E u \in Users : Elapse(u) \/ DeleteLogs(u)
  <2>1. UNCHANGED <<at, sent, tooled, outbox, phone>>
    BY <1>1 DEF Midnight, TickStarts, TickEnds, Boot, Elapse, DeleteLogs, vars, chat
  <2> QED
    BY <2>1 DEF TypingInv, Settled
<1>2. CASE Crash
  BY <1>2 DEF Crash, TypingInv, Settled
<1>3. ASSUME NEW u \in Users, TypingCallEnds(u) PROVE TypingInv'
  <2>1. /\ UNCHANGED <<at, sent, tooled, outbox>>
        /\ \A v \in Users \ {u} : phone'[v] = phone[v]
        /\ u \in Lasting
        /\ phone'[u] \in {"starting", "shown"} => phone[u] \in {"starting", "shown"}
    BY <1>3 DEF TypingCallEnds, Shows, TypeOK, TypingInv
  <2> QED
    BY <2>1 DEF TypingInv, Settled
<1> QED
  BY <1>1, <1>2, <1>3, RunSettles, DispatchSettles DEF Next

(* Once nothing is on the bus for a user whom no run is thinking about,    *)
(* the indicator was taken back, unless the run thinks that a tool sent    *)
(* its message.                                                            *)
THEOREM TypingStops == Spec => []TypingEnds
<1>1. Init => TypingInv
  BY DEF Init, TypingInv, Settled
<1>2. TypingInv => TypingEnds
  BY DEF TypingInv, TypingEnds, Settled, Resting
<1> QED
  BY <1>1, <1>2, TypingStep, InitIInv, StepIInv, PTL DEF Spec, IInv
===============================================================================
