---------------------------- MODULE MediaStagingProofs ---------------------------
(***************************************************************************)
(* Proofs about MediaStaging, for any number of photos, calls, handles and *)
(* faults and any cap.                                                     *)
(***************************************************************************)
EXTENDS MediaStaging, FiniteSetTheorems, TLAPS

(* Each handle and each url has one row.                                   *)
OneRow == \A r, s \in table : r.url = s.url \/ r.id = s.id => r = s

(* What a task works on.                                                   *)
TaskInv ==
  /\ at[Boot] \in {"idle", "purging", "deleting"}
  /\ \A t \in Tasks :
       /\ at[t] # "deleting" => victims[t] = {}
       /\ at[t] = "writing" => id[t] \in Ids
       /\ at[t] \in {"uploading", "marking"} =>
            url[t] \in Urls \cup {NoUrl} /\ service[t] \in Services

TypeInv == TypeOK /\ TaskInv

(* Everything but the rows.                                                *)
Stages == {"idle", "writing", "capping", "deleting", "purging", "uploading", "marking"}
CallTypes ==
  /\ at \in [Tasks -> Stages]
  /\ url \in [Tasks -> Urls \cup {NoUrl}] /\ id \in [Tasks -> Ids \cup {NoId}]
  /\ service \in [Tasks -> Services \cup {NoReceipt}]
  /\ victims \in [Tasks -> SUBSET Ids]
OtherTypes ==
  /\ files \subseteq Ids /\ filed \subseteq Urls /\ strays \subseteq Ids
  /\ faults \in 0..MaxFaults
RowTypes == table \subseteq Rows /\ OneRow /\ Ordered

LEMMA TypesAre == TypeOK <=> RowTypes /\ CallTypes /\ OtherTypes
BY DEF TypeOK, RowTypes, OneRow, CallTypes, OtherTypes, Stages

LEMMA TypesAreNext == TypeOK' <=> RowTypes' /\ CallTypes' /\ OtherTypes'
BY DEF TypeOK, RowTypes, OneRow, CallTypes, OtherTypes, Stages

LEMMA NothingIsOne == NoReceipt \notin Services /\ NoId \notin Ids
BY StagingAssumption DEF NoReceipt, NoId, Ids

LEMMA IdsAre ==
  ASSUME table \subseteq Rows, NEW some \in SUBSET table
  PROVE  IdsOf(some) \in SUBSET Ids
BY DEF IdsOf, Rows

-----------------------------------------------------------------------------
(* The rows                                                                *)

(* A row that gets the latest expires_at comes last.                       *)
LEMMA LatestOrders ==
  ASSUME Ordered, NEW h, Latest(h), IdsOf(table') = IdsOf(table) \cup {h}
  PROVE  Ordered'
<1> DEFINE H == IdsOf(table)
<1>1. /\ sooner' = {p \in sooner : p[1] # h /\ p[2] # h} \cup {<<g, h>> : g \in H \ {h}}
      /\ expired' = expired \ {h}
  BY DEF Latest, Apart
<1>2. /\ sooner \subseteq H \X H /\ expired \subseteq H
      /\ \A f, g \in H : <<f, g>> \in sooner <=> f # g /\ <<g, f>> \notin sooner
      /\ \A e, f, g \in H : <<e, f>> \in sooner /\ <<f, g>> \in sooner => <<e, g>> \in sooner
      /\ \A f, g \in H : <<f, g>> \in sooner /\ g \in expired => f \in expired
  BY DEF Ordered
<1> HIDE DEF H
<1>3. \A f, g \in H \cup {h} :
        <<f, g>> \in sooner' <=> (g # h /\ f # h /\ <<f, g>> \in sooner) \/ (g = h /\ f # h)
  BY <1>1, <1>2
<1>4. sooner' \subseteq (H \cup {h}) \X (H \cup {h}) /\ expired' \subseteq H \cup {h}
  BY <1>1, <1>2
<1>5. \A f, g \in H \cup {h} : <<f, g>> \in sooner' <=> f # g /\ <<g, f>> \notin sooner'
  BY <1>2, <1>3
<1>6. \A e, f, g \in H \cup {h} :
        <<e, f>> \in sooner' /\ <<f, g>> \in sooner' => <<e, g>> \in sooner'
  BY <1>2, <1>3
<1>7. \A f, g \in H \cup {h} : <<f, g>> \in sooner' /\ g \in expired' => f \in expired'
  BY <1>1, <1>2, <1>3
<1>8. IdsOf(table)' = H \cup {h}
  BY DEF IdsOf, H
<1> QED BY <1>4, <1>5, <1>6, <1>7, <1>8 DEF Ordered

(* The rows of some handles go.                                            *)
LEMMA DeleteOrders ==
  ASSUME Ordered, NEW gone, table' = {r \in table : r.id \notin gone},
         sooner' = Apart(gone), expired' = expired \ gone
  PROVE  IdsOf(table)' = IdsOf(table) \ gone /\ Ordered'
<1> DEFINE H == IdsOf(table)
<1>1. IdsOf(table)' = H \ gone
  BY DEF IdsOf
<1>2. /\ sooner \subseteq H \X H /\ expired \subseteq H
      /\ \A f, g \in H : <<f, g>> \in sooner <=> f # g /\ <<g, f>> \notin sooner
      /\ \A e, f, g \in H : <<e, f>> \in sooner /\ <<f, g>> \in sooner => <<e, g>> \in sooner
      /\ \A f, g \in H : <<f, g>> \in sooner /\ g \in expired => f \in expired
  BY DEF Ordered
<1> HIDE DEF H
<1>3. \A f, g \in H \ gone : <<f, g>> \in sooner' <=> <<f, g>> \in sooner
  BY DEF Apart
<1>4. sooner' \subseteq (H \ gone) \X (H \ gone) /\ expired' \subseteq H \ gone
  BY <1>2 DEF Apart
<1>5. \A f, g \in H \ gone : <<f, g>> \in sooner' /\ g \in expired' => f \in expired'
  BY <1>2, <1>3, <1>4
<1> QED BY <1>1, <1>2, <1>3, <1>4, <1>5 DEF Ordered, H

(* Staging renews the row of the url, or makes one with a handle that is   *)
(* not in use.                                                             *)
LEMMA InsertIs ==
  ASSUME TypeInv, NEW t \in Tasks, NEW u \in Urls, Insert(t, u)
  PROVE  \E h \in Ids :
           /\ IF Held(u) # {} THEN h \in IdsOf(table) /\ table' = table
              ELSE /\ h \notin InUse
                   /\ table' = table \cup {[url |-> u, id |-> h, receipt |-> NoReceipt]}
           /\ Latest(h) /\ id' = [id EXCEPT ![t] = h]
           /\ strays' = IF Doomed(h, Tasks) THEN strays \cup {h}
                         ELSE IF Held(u) = {} THEN strays \ {h} ELSE strays
<1>1. PICK h \in HandleOf(u) :
        /\ table' = IF h \in IdsOf(table)
                    THEN {IF r.id = h THEN Renewed(r) ELSE r : r \in table}
                    ELSE table \cup {[url |-> u, id |-> h, receipt |-> NoReceipt]}
        /\ Latest(h) /\ id' = [id EXCEPT ![t] = h]
        /\ strays' = IF Doomed(h, Tasks) THEN strays \cup {h}
                      ELSE IF Held(u) = {} THEN strays \ {h} ELSE strays
  BY DEF Insert
<1>2. CASE Held(u) # {}
  <2>1. h \in IdsOf(table) /\ h \in Ids
    BY <1>2, IdsAre DEF HandleOf, Held, IdsOf, TypeInv, TypeOK, Rows
  <2>2. table' = table
    BY <1>1, <2>1 DEF Renewed
  <2> QED BY <1>1, <1>2, <2>1, <2>2
<1>3. CASE Held(u) = {}
  <2>1. h \in Ids /\ h \notin InUse
    BY <1>3 DEF HandleOf, NewHandle
  <2>2. h \notin IdsOf(table)
    BY <2>1 DEF InUse
  <2> QED BY <1>1, <1>3, <2>1, <2>2
<1> QED BY <1>2, <1>3

LEMMA InsertRows ==
  ASSUME TypeInv, NEW t \in Tasks, NEW u \in Urls, Insert(t, u)
  PROVE  RowTypes'
<1>1. PICK h \in Ids :
        /\ IF Held(u) # {} THEN h \in IdsOf(table) /\ table' = table
           ELSE /\ h \notin InUse
                /\ table' = table \cup {[url |-> u, id |-> h, receipt |-> NoReceipt]}
        /\ Latest(h)
  BY InsertIs
<1>2. RowTypes
  BY TypesAre DEF TypeInv
<1>3. CASE Held(u) # {}
  <2>1. IdsOf(table') = IdsOf(table) \cup {h} /\ table' = table
    BY <1>1, <1>3
  <2> QED BY <1>1, <1>2, <2>1, LatestOrders DEF RowTypes, OneRow
<1>4. CASE Held(u) = {}
  <2> DEFINE new == [url |-> u, id |-> h, receipt |-> NoReceipt]
  <2>1. table' = table \cup {new} /\ h \notin IdsOf(table)
    BY <1>1, <1>4 DEF InUse
  <2>2. \A r \in table : r.url # u /\ r.id # h
    BY <1>4, <2>1 DEF Held, IdsOf
  <2>3. new \in Rows /\ new.url = u /\ new.id = h
    BY DEF Rows
  <2>4. table' \subseteq Rows /\ OneRow'
    BY <1>2, <2>1, <2>2, <2>3 DEF RowTypes, OneRow
  <2>5. IdsOf(table') = IdsOf(table) \cup {h}
    BY <2>1, <2>3 DEF IdsOf
  <2> QED BY <1>1, <1>2, <2>4, <2>5, LatestOrders DEF RowTypes
<1> QED BY <1>3, <1>4

(* mark_uploaded changes receipts only.                                    *)
LEMMA MarkIs ==
  ASSUME TypeInv, NEW t \in Tasks, Mark(t)
  PROVE  RowTypes' /\ IdsOf(table)' = IdsOf(table)
<1> DEFINE new(r) == IF r \in Live /\ r.url = url[t]
                     THEN [r EXCEPT !.receipt = service[t]] ELSE r
<1>1. table' = {new(r) : r \in table} /\ UNCHANGED <<sooner, expired>>
  BY DEF Mark
<1>2. service[t] \in Services
  BY DEF Mark, TypeInv, TaskInv
<1>3. \A r \in table : new(r) \in Rows /\ new(r).id = r.id /\ new(r).url = r.url
  BY <1>2 DEF TypeInv, TypeOK, Rows
<1> HIDE DEF new
<1>4. table' \subseteq Rows /\ OneRow'
  BY <1>1, <1>3 DEF TypeInv, TypeOK, OneRow
<1>5. IdsOf(table)' = IdsOf(table)
  BY <1>1, <1>3 DEF IdsOf
<1> QED BY <1>1, <1>4, <1>5 DEF RowTypes, Ordered, TypeInv, TypeOK
-----------------------------------------------------------------------------
(* Types                                                                   *)

LEMMA InitTypes == Init => TypeInv
<1> SUFFICES ASSUME Init PROVE TypeInv
  OBVIOUS
<1>1. RowTypes
  BY DEF Init, RowTypes, OneRow, Ordered, IdsOf
<1>2. CallTypes /\ OtherTypes
  BY StagingAssumption DEF Init, CallTypes, OtherTypes, Stages, Tasks
<1>3. TaskInv
  BY DEF Init, TaskInv, Tasks
<1> QED BY <1>1, <1>2, <1>3, TypesAre DEF TypeInv

(* The steps of a task that leave the rows alone.                          *)
KeepsRows(t) ==
  \/ Write(t) \/ EnforceCap(t) \/ UnderCap(t) \/ Prune(t) \/ Discard(t)
  \/ Uploaded(t) \/ UploadFails(t) \/ Fail(t) \/ StartUnknown(t)
  \/ \E u \in Urls, s \in Services, named \in BOOLEAN : StartUpload(t, u, s, named)

LEMMA CondemnTypes ==
  ASSUME TypeInv, NEW t \in Tasks, NEW ids \in SUBSET Ids, NEW stuck \in SUBSET ids,
         Condemn(t, ids, stuck), files' \subseteq Ids, t = Boot => at[t] = "purging"
  PROVE  TypeInv'
<1>1. /\ at' = [at EXCEPT ![t] = "deleting"] /\ victims' = [victims EXCEPT ![t] = ids]
      /\ strays' \subseteq strays \cup ids
      /\ UNCHANGED <<table, sooner, expired, url, id, service, filed>>
  BY DEF Condemn, rows
<1>2. faults' \in 0..MaxFaults
  BY StagingAssumption DEF Condemn, TypeInv, TypeOK
<1>3. RowTypes' /\ CallTypes' /\ OtherTypes'
  BY <1>1, <1>2, TypesAre
     DEF TypeInv, RowTypes, OneRow, Ordered, CallTypes, OtherTypes, Stages
<1>4. TaskInv'
  BY <1>1, TypesAre DEF TypeInv, TaskInv, CallTypes, Tasks
<1> QED BY <1>3, <1>4, TypesAreNext DEF TypeInv

(* Who condemns what.                                                      *)
LEMMA CondemnedIs ==
  ASSUME TypeInv, NEW t \in Tasks, EnforceCap(t) \/ Prune(t) \/ Discard(t) \/ (t = Boot /\ Purge)
  PROVE  \E ids \in SUBSET IdsOf(table) : \E stuck \in SUBSET (ids \cap files) :
           /\ Condemn(t, ids, stuck) /\ files' = files \ (ids \ stuck)
           /\ t = Boot => at[t] = "purging" /\ ids = expired
           /\ at[t] = "capping" => Cardinality(table) > Cap
                                   /\ \E over \in SUBSET table : ids = IdsOf(over) /\ IsOverflow(over)
           /\ at[t] \in {"idle", "capping", "purging"}
<1>0. table \subseteq Rows /\ expired \subseteq IdsOf(table) /\ at[Boot] # "capping"
  BY DEF TypeInv, TypeOK, Ordered, TaskInv
<1>1. CASE EnforceCap(t)
  <2>1. PICK over \in SUBSET table : IsOverflow(over) /\ Removes(t, IdsOf(over))
    BY <1>1 DEF EnforceCap
  <2>2. IdsOf(over) \subseteq IdsOf(table)
    BY DEF IdsOf
  <2>3. PICK stuck \in SUBSET (IdsOf(over) \cap files) :
          Condemn(t, IdsOf(over), stuck) /\ files' = files \ (IdsOf(over) \ stuck)
    BY <2>1 DEF Removes, Unlink
  <2> QED BY <1>0, <1>1, <2>1, <2>2, <2>3 DEF EnforceCap
<1>2. CASE Prune(t)
  <2>1. PICK h \in IdsOf(Live) : Condemn(t, {h}, {h} \cap files)
    BY <1>2 DEF Prune
  <2>2. {h} \subseteq IdsOf(table) /\ files \ ({h} \ ({h} \cap files)) = files
    BY <2>1 DEF IdsOf, Live
  <2> QED BY <1>2, <2>1, <2>2 DEF Prune
<1>3. CASE Discard(t)
  <2>1. PICK h \in IdsOf(table) : Removes(t, {h})
    BY <1>3 DEF Discard
  <2> QED BY <1>3, <2>1 DEF Discard, Removes, Unlink
<1>4. CASE t = Boot /\ Purge
  BY <1>0, <1>4 DEF Purge, Removes, Unlink
<1> QED BY <1>1, <1>2, <1>3, <1>4

LEMMA RestTypes ==
  ASSUME TypeInv, NEW t \in Tasks, Rest(t), RowTypes', OtherTypes'
  PROVE  TypeInv'
<1>1. CallTypes'
  BY TypesAre DEF TypeInv, Rest, CallTypes, Stages
<1>2. TaskInv'
  BY TypesAre DEF TypeInv, Rest, TaskInv, CallTypes, Tasks
<1> QED BY <1>1, <1>2, TypesAreNext DEF TypeInv

LEMMA KeepsRowsTypes ==
  ASSUME TypeInv, NEW t \in Tasks, KeepsRows(t)
  PROVE  TypeInv'
<1>0. RowTypes /\ CallTypes /\ OtherTypes /\ TaskInv
  BY TypesAre DEF TypeInv
<1>1. ASSUME UNCHANGED rows PROVE RowTypes'
  BY <1>0, <1>1 DEF RowTypes, OneRow, Ordered, rows
<1>2. CASE EnforceCap(t) \/ Prune(t) \/ Discard(t)
  <2>1. PICK ids \in SUBSET IdsOf(table) :
          /\ \E stuck \in SUBSET ids : Condemn(t, ids, stuck)
          /\ files' \subseteq files /\ (t = Boot => at[t] = "purging")
    BY <1>2, CondemnedIs
  <2>2. ids \in SUBSET Ids
    BY <1>0, IdsAre DEF RowTypes
  <2> QED BY <1>0, <2>1, <2>2, CondemnTypes DEF OtherTypes
<1>3. CASE UnderCap(t) \/ UploadFails(t) \/ Fail(t)
  <2>1. Rest(t) /\ UNCHANGED rows
    BY <1>3 DEF UnderCap, UploadFails, Fail
  <2>2. OtherTypes'
    BY <1>0, <1>3, StagingAssumption DEF UnderCap, UploadFails, Fail, OtherTypes, ghosts
  <2> QED BY <1>1, <2>1, <2>2, RestTypes
<1>4. CASE Write(t)
  <2>1. /\ UNCHANGED <<rows, url, service, victims, filed, strays, faults>>
        /\ at' = [at EXCEPT ![t] = "capping"] /\ id' = [id EXCEPT ![t] = NoId]
        /\ files' = files \cup {id[t]} /\ id[t] \in Ids /\ t # Boot /\ at[t] = "writing"
    BY <1>0, <1>4 DEF Write, ghosts, TaskInv
  <2>2. CallTypes' /\ OtherTypes'
    BY <1>0, <2>1 DEF CallTypes, OtherTypes, Stages
  <2>3. TaskInv'
    BY <1>0, <2>1 DEF CallTypes, TaskInv, Tasks
  <2> QED BY <1>1, <2>1, <2>2, <2>3, TypesAreNext DEF TypeInv
<1>5. CASE Uploaded(t)
  <2>1. /\ UNCHANGED <<rows, files, url, id, service, victims, strays, faults>>
        /\ at' = [at EXCEPT ![t] = "marking"]
        /\ filed' = filed \/ (filed' = filed \cup {url[t]} /\ url[t] # NoUrl)
        /\ at[t] = "uploading" /\ t # Boot
    BY <1>0, <1>5 DEF Uploaded, TaskInv
  <2>2. url[t] \in Urls \cup {NoUrl}
    BY <1>0, <2>1 DEF TaskInv
  <2>3. CallTypes' /\ OtherTypes' /\ TaskInv'
    BY <1>0, <2>1, <2>2 DEF CallTypes, OtherTypes, TaskInv, Stages
  <2> QED BY <1>1, <2>1, <2>3, TypesAreNext DEF TypeInv
<1>6. ASSUME NEW u \in Urls, NEW s \in Services, NEW named \in BOOLEAN,
             StartUpload(t, u, s, named)
      PROVE  TypeInv'
  <2>1. /\ UNCHANGED <<rows, files, id, victims, strays, faults>>
        /\ at' = [at EXCEPT ![t] = "uploading"] /\ url' = [url EXCEPT ![t] = u]
        /\ service' = [service EXCEPT ![t] = s] /\ filed' \subseteq filed
        /\ at[t] = "idle" /\ t # Boot
    BY <1>6 DEF StartUpload
  <2>2. CallTypes' /\ OtherTypes' /\ TaskInv'
    BY <1>0, <2>1 DEF CallTypes, OtherTypes, TaskInv, Stages
  <2> QED BY <1>1, <2>1, <2>2, TypesAreNext DEF TypeInv
<1>7. CASE StartUnknown(t)
  <2>1. /\ UNCHANGED <<rows, files, id, victims, ghosts, faults>>
        /\ at' = [at EXCEPT ![t] = "uploading"] /\ url' = [url EXCEPT ![t] = NoUrl]
        /\ service' = [service EXCEPT ![t] = "storage"]
        /\ at[t] = "idle" /\ t # Boot /\ "storage" \in Services
    BY <1>7 DEF StartUnknown
  <2>2. CallTypes' /\ OtherTypes' /\ TaskInv'
    BY <1>0, <2>1 DEF CallTypes, OtherTypes, TaskInv, Stages, ghosts
  <2> QED BY <1>1, <2>1, <2>2, TypesAreNext DEF TypeInv
<1> QED BY <1>2, <1>3, <1>4, <1>5, <1>6, <1>7 DEF KeepsRows

LEMMA DeleteIs ==
  ASSUME TypeInv, NEW t \in Tasks, Delete(t),
         NEW gone, gone = IF t = Boot THEN victims[t] \cap expired ELSE victims[t]
  PROVE  IdsOf(table)' = IdsOf(table) \ gone /\ RowTypes'
<1>1. /\ table' = {r \in table : r.id \notin gone}
      /\ sooner' = Apart(gone) /\ expired' = expired \ gone
  BY DEF Delete
<1>2. IdsOf(table)' = IdsOf(table) \ gone /\ Ordered'
  BY <1>1, DeleteOrders DEF TypeInv, TypeOK
<1>3. table' \subseteq Rows /\ OneRow'
  BY <1>1 DEF TypeInv, TypeOK, OneRow
<1> QED BY <1>2, <1>3 DEF RowTypes

LEMMA NextTypes == TypeInv /\ [Next]_vars => TypeInv'
<1> SUFFICES ASSUME TypeInv, [Next]_vars PROVE TypeInv'
  OBVIOUS
<1>0. RowTypes /\ CallTypes /\ OtherTypes /\ TaskInv
  BY TypesAre DEF TypeInv
<1>1. ASSUME NEW t \in Tasks, NEW u \in Urls, Insert(t, u) PROVE TypeInv'
  <2>1. RowTypes'
    BY <1>1, InsertRows
  <2>2. PICK h \in Ids : /\ id' = [id EXCEPT ![t] = h]
                         /\ strays' \subseteq strays \cup {h}
    BY <1>1, InsertIs
  <2>3. /\ at' = [at EXCEPT ![t] = "writing"] /\ at[t] = "idle" /\ t # Boot
        /\ UNCHANGED <<files, url, service, victims, filed, faults>>
    BY <1>1 DEF Insert
  <2>4. CallTypes' /\ OtherTypes' /\ TaskInv'
    BY <1>0, <2>2, <2>3 DEF CallTypes, OtherTypes, TaskInv, Stages
  <2> QED BY <2>1, <2>4, TypesAreNext DEF TypeInv
<1>2. ASSUME NEW t \in Tasks, Delete(t) PROVE TypeInv'
  <2>1. RowTypes'
    BY <1>2, DeleteIs
  <2>2. OtherTypes' /\ Rest(t)
    BY <1>0, <1>2 DEF Delete, OtherTypes
  <2> QED BY <2>1, <2>2, RestTypes
<1>3. ASSUME NEW t \in Tasks, Mark(t) PROVE TypeInv'
  <2>1. RowTypes'
    BY <1>3, MarkIs
  <2>2. OtherTypes' /\ Rest(t)
    BY <1>0, <1>3 DEF Mark, OtherTypes
  <2> QED BY <2>1, <2>2, RestTypes
<1>4. ASSUME NEW h \in Ids, Touch(h) PROVE TypeInv'
  <2>1. /\ Latest(h) /\ h \in IdsOf(table) /\ table' = table
        /\ strays' \subseteq strays \cup {h}
        /\ UNCHANGED <<files, at, url, id, service, victims, filed, faults>>
    BY <1>4 DEF Touch, calls
  <2>2. IdsOf(table') = IdsOf(table) \cup {h}
    BY <2>1
  <2>3. RowTypes'
    BY <1>0, <2>1, <2>2, LatestOrders DEF RowTypes, OneRow
  <2>4. CallTypes' /\ OtherTypes' /\ TaskInv'
    BY <1>0, <2>1 DEF CallTypes, OtherTypes, TaskInv
  <2> QED BY <2>3, <2>4, TypesAreNext DEF TypeInv
<1>5. CASE Expire
  <2>1. PICK next \in Live :
          /\ \A r \in Live \ {next} : <<next.id, r.id>> \in sooner
          /\ expired' = expired \cup {next.id} /\ filed' = filed \ {next.url}
    BY <1>5 DEF Expire
  <2>2. UNCHANGED <<table, sooner, files, at, url, id, service, victims, strays, faults>>
    BY <1>5 DEF Expire, calls
  <2>3. next.id \in IdsOf(table) /\ next.id \notin expired /\ next \in table
    BY DEF IdsOf, Live
  <2>4. ASSUME NEW g \in IdsOf(table), NEW h \in IdsOf(table), <<g, h>> \in sooner, h \in expired'
        PROVE  g \in expired'
    <3>1. CASE h \in expired
      BY <1>0, <2>1, <2>4, <3>1 DEF RowTypes, Ordered
    <3>2. CASE h = next.id /\ g \notin expired
      <4>1. PICK r \in table : r.id = g
        BY <2>4 DEF IdsOf
      <4>2. r \in Live /\ (r # next => <<next.id, g>> \in sooner)
        BY <2>1, <3>2, <4>1 DEF Live
      <4>3. <<h, g>> \notin sooner
        BY <1>0, <2>4 DEF RowTypes, Ordered
      <4> QED BY <2>1, <3>2, <4>1, <4>2, <4>3
    <3> QED BY <2>1, <2>4, <3>1, <3>2
  <2>5. Ordered'
    BY <1>0, <2>1, <2>2, <2>3, <2>4 DEF RowTypes, Ordered
  <2>6. RowTypes' /\ CallTypes' /\ OtherTypes' /\ TaskInv'
    BY <1>0, <2>1, <2>2, <2>5 DEF RowTypes, OneRow, CallTypes, OtherTypes, TaskInv
  <2> QED BY <2>6, TypesAreNext DEF TypeInv
<1>6. CASE Purge
  <2>1. PICK ids \in SUBSET IdsOf(table) :
          /\ \E stuck \in SUBSET ids : Condemn(Boot, ids, stuck)
          /\ files' \subseteq files /\ (at[Boot] = "purging")
    BY <1>6, CondemnedIs DEF Tasks
  <2>2. ids \in SUBSET Ids
    BY <1>0, IdsAre DEF RowTypes
  <2> QED BY <1>0, <2>1, <2>2, CondemnTypes DEF OtherTypes, Tasks
<1>7. CASE Crash
  <2>1. RowTypes' /\ OtherTypes'
    BY <1>0, <1>7, StagingAssumption DEF Crash, RowTypes, OneRow, Ordered, OtherTypes, rows
  <2>2. CallTypes' /\ TaskInv'
    BY <1>7 DEF Crash, CallTypes, TaskInv, Stages, Tasks
  <2> QED BY <2>1, <2>2, TypesAreNext DEF TypeInv
<1>8. CASE UNCHANGED vars
  <2>1. RowTypes' /\ CallTypes' /\ OtherTypes' /\ TaskInv'
    BY <1>0, <1>8 DEF vars, rows, calls, ghosts, RowTypes, OneRow, Ordered, CallTypes,
       OtherTypes, TaskInv
  <2> QED BY <2>1, TypesAreNext DEF TypeInv
<1> QED BY <1>1, <1>2, <1>3, <1>4, <1>5, <1>6, <1>7, <1>8, KeepsRowsTypes DEF Next, KeepsRows

LEMMA TypeInvariant == Spec => []TypeInv
BY InitTypes, NextTypes, PTL DEF Spec

(* Variables have their types, a url has one row and a row a handle of its *)
(* own, and the rows stay in one order of expiry.                          *)
THEOREM TypeCorrect == Spec => []TypeOK
<1>1. TypeInv => TypeOK
  BY DEF TypeInv
<1> QED BY <1>1, TypeInvariant, PTL
-----------------------------------------------------------------------------
(* Rows and files                                                          *)

(* An entry that is staged has a row, and one that is being deleted has no *)
(* file and gets none, unless it strays: it was staged meanwhile, or its   *)
(* file could not be unlinked or read.                                     *)
FileInv ==
  /\ files \ IdsOf(table) \subseteq strays
  /\ \A t \in Tasks : at[t] = "writing" => id[t] \in IdsOf(table) \cup strays
  /\ \A t \in Tasks : \A h \in victims[t] :
       h \in files \/ BeingStaged(h, Tasks) => h \in strays

(* Without a failure a row has its file, or somebody is about to write the *)
(* file or to delete the row; what the purge condemned and is not expired  *)
(* any more was renewed.                                                   *)
RowInv ==
  faults = 0 =>
    /\ \A h \in IdsOf(table) \ (files \cup strays) :
         Doomed(h, Tasks) \/ BeingStaged(h, Tasks)
    /\ victims[Boot] \cap IdsOf(table) \subseteq strays \cup expired

(* When everyone who staged has enforced the cap, the rows that no call is *)
(* about to delete are within it.                                          *)
Condemned == UNION {victims[t] : t \in Calls}
CapInv ==
  faults = 0 /\ (\A t \in Tasks : at[t] \notin {"writing", "capping"}) =>
    Cardinality(IdsOf(table) \ Condemned) <= Cap

StageInv == FileInv /\ RowInv /\ CapInv

(* There are as many rows as handles.                                      *)
LEMMA RowsAndHandles ==
  ASSUME TypeInv, NEW some \in SUBSET table
  PROVE  /\ IsFiniteSet(some) /\ IsFiniteSet(IdsOf(some))
         /\ Cardinality(IdsOf(some)) = Cardinality(some)
<1>1. IsFiniteSet(Ids) /\ table \subseteq Rows /\ OneRow
  BY FS_Interval, StagingAssumption DEF Ids, TypeInv, TypeOK, OneRow
<1>2. IsFiniteSet(IdsOf(some))
  BY <1>1, IdsAre, FS_Subset
<1> DEFINE rowOf == [h \in IdsOf(some) |-> CHOOSE r \in some : r.id = h]
           idOf == [r \in some |-> r.id]
<1>3. rowOf \in Surjection(IdsOf(some), some)
  <2>1. \A h \in IdsOf(some) : rowOf[h] \in some /\ rowOf[h].id = h
    BY DEF IdsOf
  <2>2. \A r \in some : r.id \in IdsOf(some) /\ rowOf[r.id] = r
    BY <1>1, <2>1 DEF OneRow, IdsOf
  <2>3. rowOf \in [IdsOf(some) -> some]
    BY <2>1
  <2> HIDE DEF rowOf
  <2> QED BY <2>2, <2>3 DEF Surjection
<1>4. idOf \in Surjection(some, IdsOf(some))
  BY DEF Surjection, IdsOf
<1>5. IsFiniteSet(some) /\ Cardinality(some) <= Cardinality(IdsOf(some))
  BY <1>2, <1>3, FS_Surjection
<1>6. Cardinality(IdsOf(some)) <= Cardinality(some)
  BY <1>4, <1>5, FS_Surjection
<1> QED BY <1>2, <1>5, <1>6, FS_CardinalityType

(* Fewer handles are fewer.                                                *)
LEMMA FewerHandles ==
  ASSUME TypeInv, NEW S \in SUBSET IdsOf(table), NEW T \in SUBSET S
  PROVE  /\ Cardinality(S) \in Nat /\ Cardinality(T) \in Nat
         /\ Cardinality(T) <= Cardinality(S)
<1>1. IsFiniteSet(IdsOf(table))
  BY RowsAndHandles
<1>2. IsFiniteSet(S)
  BY <1>1, FS_Subset
<1> QED BY <1>2, FS_Subset, FS_CardinalityType

LEMMA InitStage == Init => StageInv
<1> SUFFICES ASSUME Init PROVE StageInv
  OBVIOUS
<1>1. IdsOf(table) = {} /\ IdsOf(table) \ Condemned = {}
  BY DEF Init, IdsOf
<1> QED BY <1>1, FS_EmptySet, StagingAssumption
        DEF Init, StageInv, FileInv, RowInv, CapInv, Tasks

(* Steps that stage, delete and unlink nothing.                            *)
LEMMA KeepsEntries ==
  ASSUME TypeInv, StageInv,
         IdsOf(table)' = IdsOf(table), UNCHANGED <<files, victims, faults>>,
         strays \subseteq strays',
         \A t \in Tasks : (at'[t] = "writing" <=> at[t] = "writing")
                          /\ (at[t] = "writing" => id'[t] = id[t]),
         victims[Boot] \cap expired \subseteq strays' \cup expired',
         \/ \A t \in Tasks : at[t] = "capping" => at'[t] = "capping"
         \/ Cardinality(table) <= Cap
  PROVE  StageInv'
<1>0. FileInv /\ RowInv /\ CapInv
  BY DEF StageInv
<1>1. \A h : BeingStaged(h, Tasks)' <=> BeingStaged(h, Tasks)
  BY DEF BeingStaged
<1>2. \A h : Doomed(h, Tasks)' <=> Doomed(h, Tasks)
  BY DEF Doomed
<1>3. FileInv'
  BY <1>0, <1>1 DEF FileInv
<1>4. RowInv'
  BY <1>0, <1>1, <1>2 DEF RowInv
<1>5. CapInv'
  <2> SUFFICES ASSUME faults' = 0, \A t \in Tasks : at'[t] \notin {"writing", "capping"}
               PROVE  Cardinality(IdsOf(table) \ Condemned) <= Cap
    BY DEF CapInv, Condemned
  <2>1. CASE \A t \in Tasks : at[t] = "capping" => at'[t] = "capping"
    BY <1>0, <2>1 DEF CapInv
  <2>2. CASE Cardinality(table) <= Cap
    <3>1. Cardinality(IdsOf(table)) <= Cap /\ Cardinality(IdsOf(table)) \in Nat
      BY <2>2, RowsAndHandles, FS_CardinalityType
    <3> QED BY <3>1, FewerHandles, StagingAssumption
  <2> QED BY <2>1, <2>2
<1> QED BY <1>3, <1>4, <1>5 DEF StageInv

LEMMA RestKeepsEntries ==
  ASSUME TypeInv, StageInv, NEW t \in Tasks, Rest(t), at[t] \notin {"writing", "deleting"},
         at[t] = "capping" => Cardinality(table) <= Cap,
         IdsOf(table)' = IdsOf(table), UNCHANGED <<files, faults, strays, expired>>
  PROVE  StageInv'
<1>1. /\ at' = [at EXCEPT ![t] = "idle"] /\ id' = [id EXCEPT ![t] = NoId]
      /\ victims' = [victims EXCEPT ![t] = {}] /\ CallTypes
  BY TypesAre DEF Rest, TypeInv
<1>2. victims' = victims
  BY <1>1 DEF TypeInv, TaskInv, CallTypes
<1>3. \A c \in Tasks : (at'[c] = "writing" <=> at[c] = "writing")
                       /\ (at[c] = "writing" => id'[c] = id[c])
  BY <1>1 DEF CallTypes
<1>4. \/ \A c \in Tasks : at[c] = "capping" => at'[c] = "capping"
      \/ Cardinality(table) <= Cap
  BY <1>1 DEF CallTypes
<1> QED BY <1>2, <1>3, <1>4, KeepsEntries

(* After a fault only files matter.                                        *)
LEMMA FaultsKeepFiles ==
  ASSUME TypeInv, StageInv, (\E t \in Tasks : Fail(t)) \/ Crash
  PROVE  StageInv'
<1>1. /\ faults' = faults + 1 /\ faults \in Nat /\ FileInv /\ CallTypes
      /\ UNCHANGED <<table, files, strays>>
  BY TypesAre, StagingAssumption
     DEF Fail, Crash, rows, StageInv, TypeInv, OtherTypes
<1>2. RowInv' /\ CapInv'
  BY <1>1 DEF RowInv, CapInv
<1>3. \A t \in Tasks : /\ at'[t] = "writing" => at[t] = "writing" /\ id'[t] = id[t]
                       /\ victims'[t] \subseteq victims[t]
  <2>1. CASE Crash
    BY <2>1 DEF Crash
  <2>2. CASE \E t \in Tasks : Fail(t)
    BY <1>1, <2>2 DEF Fail, Rest, CallTypes
  <2> QED BY <2>1, <2>2
<1>4. \A h : BeingStaged(h, Tasks)' => BeingStaged(h, Tasks)
  BY <1>3 DEF BeingStaged
<1>5. FileInv'
  BY <1>1, <1>3, <1>4 DEF FileInv, IdsOf
<1> QED BY <1>2, <1>5 DEF StageInv

LEMMA InsertStage ==
  ASSUME TypeInv, StageInv, NEW t \in Tasks, NEW u \in Urls, Insert(t, u)
  PROVE  StageInv'
<1>1. PICK h \in Ids :
        /\ IF Held(u) # {} THEN h \in IdsOf(table) /\ table' = table
           ELSE /\ h \notin InUse
                /\ table' = table \cup {[url |-> u, id |-> h, receipt |-> NoReceipt]}
        /\ Latest(h) /\ id' = [id EXCEPT ![t] = h]
        /\ strays' = IF Doomed(h, Tasks) THEN strays \cup {h}
                      ELSE IF Held(u) = {} THEN strays \ {h} ELSE strays
  BY InsertIs
<1>2. /\ at' = [at EXCEPT ![t] = "writing"] /\ at[t] = "idle"
      /\ UNCHANGED <<files, victims, faults>>
      /\ expired' = expired \ {h} /\ CallTypes
      /\ FileInv /\ RowInv
  BY <1>1, TypesAre DEF Insert, Latest, StageInv, TypeInv
<1>3. /\ \A c \in Tasks : at'[c] = "writing" <=> c = t \/ at[c] = "writing"
      /\ id'[t] = h /\ \A c \in Tasks \ {t} : id'[c] = id[c]
  BY <1>1, <1>2 DEF CallTypes
<1>4. \A g : BeingStaged(g, Tasks)' <=> g = h \/ BeingStaged(g, Tasks)
  BY <1>2, <1>3 DEF BeingStaged
<1>5. \A g : Doomed(g, Tasks)' <=> Doomed(g, Tasks)
  BY <1>2 DEF Doomed
<1>6. CapInv'
  BY <1>3 DEF CapInv
<1>7. CASE Held(u) # {}
  <2>1. /\ IdsOf(table)' = IdsOf(table) /\ h \in IdsOf(table) /\ strays \subseteq strays'
        /\ Doomed(h, Tasks) => h \in strays'
    BY <1>1, <1>7 DEF IdsOf
  <2>2. FileInv'
    BY <1>2, <1>3, <1>4, <2>1 DEF FileInv, Doomed
  <2>3. RowInv'
    BY <1>2, <1>4, <1>5, <2>1 DEF RowInv, Doomed, Tasks
  <2> QED BY <1>6, <2>2, <2>3 DEF StageInv
<1>8. CASE Held(u) = {}
  <2>1. /\ h \notin IdsOf(table) /\ h \notin files /\ \A c \in Tasks : id[c] # h /\ h \notin victims[c]
        /\ table' = table \cup {[url |-> u, id |-> h, receipt |-> NoReceipt]}
    BY <1>1, <1>8 DEF InUse
  <2>2. IdsOf(table)' = IdsOf(table) \cup {h}
    <3> DEFINE new == [url |-> u, id |-> h, receipt |-> NoReceipt]
    <3>1. new.id = h /\ table' = table \cup {new}
      BY <2>1
    <3> QED BY <3>1 DEF IdsOf
  <2>3. strays' = strays \ {h}
    BY <1>1, <1>8, <2>1 DEF Doomed
  <2>4. FileInv'
    BY <1>2, <1>3, <1>4, <2>1, <2>2, <2>3 DEF FileInv
  <2>5. RowInv'
    BY <1>2, <1>4, <1>5, <2>1, <2>2, <2>3 DEF RowInv, Tasks
  <2> QED BY <1>6, <2>4, <2>5 DEF StageInv
<1> QED BY <1>7, <1>8

LEMMA WriteStage ==
  ASSUME TypeInv, StageInv, NEW t \in Tasks, Write(t)
  PROVE  StageInv'
<1>1. /\ at' = [at EXCEPT ![t] = "capping"] /\ at[t] = "writing"
      /\ id' = [id EXCEPT ![t] = NoId] /\ files' = files \cup {id[t]}
      /\ UNCHANGED <<table, expired, victims, strays, faults>>
      /\ FileInv /\ RowInv /\ CallTypes
  BY TypesAre DEF Write, rows, ghosts, StageInv, TypeInv
<1>2. /\ at'[t] = "capping"
      /\ \A c \in Tasks \ {t} : at'[c] = at[c] /\ id'[c] = id[c]
  BY <1>1 DEF CallTypes
<1>3. \A h : /\ BeingStaged(h, Tasks)' => BeingStaged(h, Tasks)
             /\ BeingStaged(h, Tasks) => h = id[t] \/ BeingStaged(h, Tasks)'
  BY <1>1, <1>2 DEF BeingStaged
<1>4. BeingStaged(id[t], Tasks)
  BY <1>1 DEF BeingStaged
<1>5. FileInv'
  BY <1>1, <1>2, <1>3, <1>4 DEF FileInv, IdsOf
<1>6. RowInv'
  BY <1>1, <1>3 DEF RowInv, Doomed, IdsOf
<1>7. CapInv'
  BY <1>2 DEF CapInv
<1> QED BY <1>5, <1>6, <1>7 DEF StageInv

LEMMA CondemnStage ==
  ASSUME TypeInv, StageInv, NEW t \in Tasks,
         EnforceCap(t) \/ Prune(t) \/ Discard(t) \/ (t = Boot /\ Purge)
  PROVE  StageInv'
<1>1. PICK ids \in SUBSET IdsOf(table), stuck \in SUBSET files :
        /\ stuck \subseteq ids /\ Condemn(t, ids, stuck) /\ files' = files \ (ids \ stuck)
        /\ t = Boot => at[t] = "purging" /\ ids = expired
        /\ at[t] = "capping" => Cardinality(table) > Cap
                                /\ \E over \in SUBSET table : ids = IdsOf(over) /\ IsOverflow(over)
        /\ at[t] \in {"idle", "capping", "purging"}
  BY CondemnedIs
<1>2. /\ at' = [at EXCEPT ![t] = "deleting"] /\ victims' = [victims EXCEPT ![t] = ids]
      /\ strays' = strays \cup stuck \cup {h \in ids : BeingStaged(h, Tasks \ {t})}
      /\ UNCHANGED <<table, expired, id>>
      /\ faults \in Nat /\ faults' = IF stuck = {} THEN faults ELSE faults + 1
      /\ FileInv /\ RowInv /\ CapInv /\ CallTypes /\ TaskInv
  BY <1>1, TypesAre, StagingAssumption
     DEF Condemn, rows, StageInv, TypeInv, OtherTypes
<1>3. /\ at'[t] = "deleting" /\ victims'[t] = ids /\ victims[t] = {} /\ at[t] # "writing"
      /\ \A c \in Tasks \ {t} : at'[c] = at[c] /\ victims'[c] = victims[c]
  BY <1>1, <1>2 DEF CallTypes, TaskInv
<1>4. \A h : /\ BeingStaged(h, Tasks)' <=> BeingStaged(h, Tasks)
             /\ BeingStaged(h, Tasks) <=> BeingStaged(h, Tasks \ {t})
             /\ Doomed(h, Tasks)' <=> Doomed(h, Tasks) \/ h \in ids
  BY <1>2, <1>3 DEF BeingStaged, Doomed
<1>5. IdsOf(table)' = IdsOf(table)
  BY <1>2 DEF IdsOf
<1>6. FileInv'
  <2>1. files' \subseteq files /\ files' \cap ids \subseteq stuck
    BY <1>1
  <2> QED BY <1>2, <1>3, <1>4, <1>5, <2>1 DEF FileInv
<1>9. faults' = 0 => faults = 0
  BY <1>2
<1>7. RowInv'
  <2>1. files \ files' \subseteq ids
    BY <1>1
  <2>2. victims'[Boot] = victims[Boot] \/ victims'[Boot] = expired
    BY <1>1, <1>3 DEF Tasks
  <2> QED BY <1>2, <1>4, <1>5, <1>9, <2>1, <2>2 DEF RowInv
<1>8. CapInv'
  <2> SUFFICES ASSUME faults' = 0, \A c \in Tasks : at'[c] \notin {"writing", "capping"}
               PROVE  Cardinality(IdsOf(table) \ Condemned') <= Cap
    BY <1>5 DEF CapInv
  <2>1. Condemned \subseteq Condemned' /\ (t # Boot => ids \subseteq Condemned')
    BY <1>3 DEF Condemned, Tasks
  <2>2. CASE at[t] # "capping"
    <3>1. \A c \in Tasks : at[c] \notin {"writing", "capping"}
      BY <1>3, <2>2
    <3>2. Cardinality(IdsOf(table) \ Condemned) <= Cap
      BY <1>2, <1>9, <3>1 DEF CapInv
    <3> QED BY <2>1, <3>2, FewerHandles, StagingAssumption
  <2>3. CASE at[t] = "capping"
    <3>1. PICK over \in SUBSET table : ids = IdsOf(over) /\ IsOverflow(over)
      BY <1>1, <2>3
    <3>2. IsFiniteSet(table)
      BY RowsAndHandles
    <3>3. Cardinality(table \ over) = Cardinality(table) - Cardinality(over)
      <4>1. table \cap over = over
        OBVIOUS
      <4> QED BY <3>2, <4>1, FS_Difference
    <3>4. Cardinality(table \ over) = Cap
      BY <3>1, <3>2, <3>3, FS_Subset, FS_CardinalityType, StagingAssumption DEF IsOverflow
    <3>5. Cardinality(IdsOf(table \ over)) = Cap
      BY <3>4, RowsAndHandles
    <3>6. ids \subseteq Condemned'
      BY <1>1, <2>1, <2>3
    <3>7. IdsOf(table) \ Condemned' \subseteq IdsOf(table \ over)
      BY <3>1, <3>6 DEF IdsOf
    <3>8. IdsOf(table \ over) \subseteq IdsOf(table)
      BY DEF IdsOf
    <3> QED BY <3>5, <3>7, <3>8, FewerHandles
  <2> QED BY <2>2, <2>3
<1> QED BY <1>6, <1>7, <1>8 DEF StageInv

LEMMA DeleteStage ==
  ASSUME TypeInv, StageInv, NEW t \in Tasks, Delete(t)
  PROVE  StageInv'
<1> DEFINE gone == IF t = Boot THEN victims[t] \cap expired ELSE victims[t]
<1>1. IdsOf(table)' = IdsOf(table) \ gone
  BY DeleteIs
<1>2. /\ gone \subseteq victims[t] /\ gone = IF t = Boot THEN victims[t] \cap expired ELSE victims[t]
      /\ expired' = expired \ gone
      /\ strays' = {h \in strays : h \in gone => h \in files \/ BeingStaged(h, Tasks)}
      /\ at[t] = "deleting"
      /\ at' = [at EXCEPT ![t] = "idle"] /\ id' = [id EXCEPT ![t] = NoId]
      /\ victims' = [victims EXCEPT ![t] = {}]
      /\ UNCHANGED <<files, faults>>
      /\ FileInv /\ RowInv /\ CapInv /\ CallTypes
  BY TypesAre DEF Delete, Rest, StageInv, TypeInv
<1> HIDE DEF gone
<1>3. /\ at'[t] = "idle" /\ victims'[t] = {}
      /\ \A c \in Tasks \ {t} : at'[c] = at[c] /\ id'[c] = id[c] /\ victims'[c] = victims[c]
  BY <1>2 DEF CallTypes
<1>4. \A h : /\ BeingStaged(h, Tasks)' <=> BeingStaged(h, Tasks)
             /\ Doomed(h, Tasks) => h \in victims[t] \/ Doomed(h, Tasks)'
  BY <1>2, <1>3 DEF BeingStaged, Doomed
<1>5. \A h \in gone : h \in files \/ BeingStaged(h, Tasks) => h \in strays
  BY <1>2 DEF FileInv
<1>6. FileInv'
  <2>1. files' \ IdsOf(table)' \subseteq strays'
    BY <1>1, <1>2, <1>5 DEF FileInv
  <2>2. ASSUME NEW c \in Tasks, at'[c] = "writing" PROVE id'[c] \in IdsOf(table)' \cup strays'
    <3>1. at[c] = "writing" /\ id'[c] = id[c] /\ BeingStaged(id[c], Tasks)
      BY <1>3, <2>2 DEF BeingStaged
    <3>2. id[c] \in IdsOf(table) \cup strays
      BY <1>2, <3>1 DEF FileInv
    <3> QED BY <1>1, <1>2, <1>5, <3>1, <3>2
  <2>3. ASSUME NEW c \in Tasks, NEW h \in victims'[c], h \in files' \/ BeingStaged(h, Tasks)'
        PROVE  h \in strays'
    <3>1. h \in victims[c] /\ (h \in files \/ BeingStaged(h, Tasks))
      BY <1>2, <1>3, <1>4, <2>3
    <3> QED BY <1>2, <3>1 DEF FileInv
  <2> QED BY <2>1, <2>2, <2>3 DEF FileInv
<1>7. RowInv'
  <2> SUFFICES ASSUME faults = 0
               PROVE  /\ \A h \in IdsOf(table)' \ (files' \cup strays') :
                           Doomed(h, Tasks)' \/ BeingStaged(h, Tasks)'
                      /\ victims'[Boot] \cap IdsOf(table)' \subseteq strays' \cup expired'
    BY <1>2 DEF RowInv
  <2>1. /\ \A h \in IdsOf(table) \ (files \cup strays) :
             Doomed(h, Tasks) \/ BeingStaged(h, Tasks)
        /\ victims[Boot] \cap IdsOf(table) \subseteq strays \cup expired
    BY <1>2 DEF RowInv
  <2>2. \A h \in IdsOf(table)' : h \in strays => h \in strays'
    BY <1>1, <1>2
  <2>3. \A h \in IdsOf(table)' : h \in victims[t] => h \in strays'
    BY <1>1, <1>2, <2>1, <2>2
  <2>4. victims'[Boot] \subseteq victims[Boot]
    BY <1>3 DEF Tasks
  <2> QED BY <1>1, <1>2, <1>4, <2>1, <2>2, <2>3, <2>4
<1>8. CapInv'
  <2> SUFFICES ASSUME faults' = 0, \A c \in Tasks : at'[c] \notin {"writing", "capping"}
               PROVE  Cardinality(IdsOf(table)' \ Condemned') <= Cap
    BY DEF CapInv
  <2>1. \A c \in Tasks : at[c] \notin {"writing", "capping"}
    BY <1>2, <1>3
  <2>2. Cardinality(IdsOf(table) \ Condemned) <= Cap
    BY <1>2, <2>1 DEF CapInv
  <2>3. IdsOf(table)' \ Condemned' \subseteq IdsOf(table) \ Condemned
    <3>1. t # Boot => gone = victims[t]
      BY <1>2
    <3> QED BY <1>1, <1>3, <3>1, StagingAssumption DEF Condemned, Tasks
  <2> QED BY <2>2, <2>3, FewerHandles, StagingAssumption
<1> QED BY <1>6, <1>7, <1>8 DEF StageInv

LEMMA NextStage == TypeInv /\ StageInv /\ [Next]_vars => StageInv'
<1> SUFFICES ASSUME TypeInv, StageInv, [Next]_vars PROVE StageInv'
  OBVIOUS
<1>0. CallTypes /\ expired \subseteq IdsOf(table)
  BY TypesAre DEF TypeInv, RowTypes, Ordered
<1>1. ASSUME NEW t \in Tasks, UnderCap(t) \/ UploadFails(t) PROVE StageInv'
  <2>1. /\ Rest(t) /\ UNCHANGED <<table, files, faults, strays, expired>>
        /\ at[t] \notin {"writing", "deleting"}
        /\ at[t] = "capping" => Cardinality(table) <= Cap
    BY <1>1 DEF UnderCap, UploadFails, rows, ghosts
  <2>2. IdsOf(table)' = IdsOf(table)
    BY <2>1
  <2> QED BY <2>1, <2>2, RestKeepsEntries
<1>2. ASSUME NEW t \in Tasks, Mark(t) PROVE StageInv'
  <2>1. /\ Rest(t) /\ UNCHANGED <<files, faults, strays, expired>> /\ at[t] = "marking"
    BY <1>2 DEF Mark
  <2>2. IdsOf(table)' = IdsOf(table)
    BY <1>2, MarkIs
  <2> QED BY <2>1, <2>2, RestKeepsEntries
<1>3. ASSUME NEW t \in Tasks,
             Uploaded(t) \/ StartUnknown(t)
             \/ \E u \in Urls, s \in Services, named \in BOOLEAN : StartUpload(t, u, s, named)
      PROVE  StageInv'
  <2>1. /\ UNCHANGED <<table, expired, files, id, victims, strays, faults>>
        /\ at[t] \in {"idle", "uploading"}
        /\ at' = [at EXCEPT ![t] = "uploading"] \/ at' = [at EXCEPT ![t] = "marking"]
    BY <1>3 DEF Uploaded, StartUpload, StartUnknown, rows, ghosts
  <2>2. \A c \in Tasks : /\ at'[c] = "writing" <=> at[c] = "writing"
                         /\ at[c] = "capping" => at'[c] = "capping"
    BY <1>0, <2>1 DEF CallTypes
  <2> QED BY <2>1, <2>2, KeepsEntries
<1>4. ASSUME NEW h \in Ids, Touch(h) PROVE StageInv'
  <2>1. /\ UNCHANGED <<table, files, at, id, victims, faults>> /\ expired' = expired \ {h}
        /\ strays' = IF Doomed(h, Tasks) THEN strays \cup {h} ELSE strays
    BY <1>4 DEF Touch, calls, Latest
  <2>2. victims[Boot] \cap expired \subseteq strays' \cup expired'
    BY <2>1 DEF Doomed, Tasks
  <2> QED BY <2>1, <2>2, KeepsEntries
<1>5. CASE Expire
  <2>1. UNCHANGED <<table, files, at, id, victims, strays, faults>> /\ expired \subseteq expired'
    BY <1>5 DEF Expire, calls
  <2> QED BY <2>1, KeepsEntries
<1>6. CASE UNCHANGED vars
  <2>1. UNCHANGED <<table, expired, files, at, id, victims, strays, faults>>
    BY <1>6 DEF vars, rows, calls, ghosts
  <2> QED BY <2>1, KeepsEntries
<1>7. CASE Purge
  BY <1>7, CondemnStage DEF Tasks
<1> QED BY <1>1, <1>2, <1>3, <1>4, <1>5, <1>6, <1>7, InsertStage, WriteStage, CondemnStage,
        DeleteStage, FaultsKeepFiles DEF Next

LEMMA StageInvariant == Spec => [](TypeInv /\ StageInv)
<1>1. Init => TypeInv /\ StageInv
  BY InitTypes, InitStage
<1>2. TypeInv /\ StageInv /\ [Next]_vars => (TypeInv /\ StageInv)'
  BY NextTypes, NextStage
<1> QED BY <1>1, <1>2, PTL DEF Spec

(* A file has its row, also after failed transactions and crashes, unless  *)
(* it was staged while it was deleted or could not be unlinked or read;    *)
(* without a failure a row has its file, and the rows are within the cap   *)
(* when nobody stages or deletes.                                          *)
THEOREM StagingStaysConsistent == Spec => []StagingConsistent
<1>1. TypeInv /\ StageInv => StagingConsistent
  <2> SUFFICES ASSUME TypeInv, StageInv PROVE StagingConsistent
    OBVIOUS
  <2>1. ASSUME faults = 0, \A t \in Tasks : at[t] \notin {"writing", "capping", "deleting"}
        PROVE  Cardinality(table) <= Cap
    <3>1. Condemned = {}
      BY <2>1 DEF Condemned, TypeInv, TaskInv, Tasks
    <3>2. Cardinality(IdsOf(table)) <= Cap
      BY <2>1, <3>1 DEF StageInv, CapInv
    <3> QED BY <3>2, RowsAndHandles
  <2> QED BY <2>1 DEF StagingConsistent, StageInv, FileInv, RowInv
<1> QED BY <1>1, StageInvariant, PTL

-----------------------------------------------------------------------------
(* Copies on Drive                                                         *)

(* A copy on Drive has a receipt, or its receipt is about to be written,   *)
(* and no call uploads the photo again.                                    *)
FiledInv ==
  /\ \A u \in filed : \/ \E r \in Live : r.url = u /\ r.receipt = "storage"
                      \/ \E t \in Tasks : at[t] = "marking" /\ url[t] = u
  /\ \A t \in Tasks : at[t] = "uploading" => url[t] \notin filed

(* Steps that file nothing and keep the receipts of what stays filed.      *)
LEMMA KeepsFiled ==
  ASSUME FiledInv, filed' \subseteq filed,
         \A r \in Live : r.url \in filed' => r \in Live',
         \A t \in Tasks : at'[t] = "uploading" => at[t] = "uploading" /\ url'[t] = url[t],
         \A t \in Tasks : at[t] = "marking" /\ url[t] \in filed' =>
                            at'[t] = "marking" /\ url'[t] = url[t]
  PROVE  FiledInv'
BY DEF FiledInv

LEMMA RestFiles ==
  ASSUME TypeInv, NEW t \in Tasks, Rest(t)
  PROVE  /\ at'[t] = "idle"
         /\ \A c \in Tasks \ {t} : at'[c] = at[c] /\ url'[c] = url[c]
BY TypesAre DEF Rest, TypeInv, CallTypes

LEMMA NextFiled ==
  ASSUME Services \subseteq {"storage"}, TypeInv, FiledInv, [Next]_vars
  PROVE  FiledInv'
<1>0. CallTypes /\ TaskInv
  BY TypesAre DEF TypeInv
<1>1. ASSUME NEW t \in Tasks, NEW u \in Urls, Insert(t, u) PROVE FiledInv'
  <2>1. /\ at' = [at EXCEPT ![t] = "writing"] /\ at[t] = "idle" /\ UNCHANGED <<url, filed>>
    BY <1>1 DEF Insert
  <2>2. table \subseteq table' /\ expired' \subseteq expired
    BY <1>1, InsertIs DEF Latest
  <2>3. Live \subseteq Live'
    BY <2>2 DEF Live
  <2> QED BY <1>0, <2>1, <2>3, KeepsFiled DEF CallTypes
<1>2. ASSUME NEW t \in Tasks,
             Write(t) \/ EnforceCap(t) \/ Prune(t) \/ Discard(t) \/ (t = Boot /\ Purge)
      PROVE  FiledInv'
  <2>1. /\ at[t] \notin {"uploading", "marking"} /\ UNCHANGED <<table, expired, url, filed>>
        /\ at' = [at EXCEPT ![t] = "capping"] \/ at' = [at EXCEPT ![t] = "deleting"]
    BY <1>2 DEF Write, EnforceCap, Prune, Discard, Purge, Removes, Condemn, rows, ghosts
  <2>2. Live' = Live
    BY <2>1 DEF Live
  <2> QED BY <1>0, <2>1, <2>2, KeepsFiled DEF CallTypes
<1>3. ASSUME NEW t \in Tasks, UnderCap(t) \/ UploadFails(t) PROVE FiledInv'
  <2>1. at[t] # "marking" /\ Rest(t) /\ UNCHANGED <<table, expired, filed>>
    BY <1>3 DEF UnderCap, UploadFails, rows, ghosts
  <2>2. Live' = Live
    BY <2>1 DEF Live
  <2> QED BY <2>1, <2>2, RestFiles, KeepsFiled
<1>4. ASSUME NEW t \in Tasks, Fail(t) PROVE FiledInv'
  <2>1. /\ Rest(t) /\ filed' = filed \ Interrupted(t) /\ UNCHANGED <<table, expired>>
    BY <1>4 DEF Fail, rows
  <2>2. Live' = Live /\ (at[t] = "marking" => url[t] \notin filed')
    BY <2>1 DEF Live, Interrupted
  <2> QED BY <2>1, <2>2, RestFiles, KeepsFiled
<1>5. CASE Crash
  <2>1. /\ \A t \in Tasks : at'[t] \in {"purging", "idle"}
        /\ filed' = filed \ UNION {Interrupted(t) : t \in Tasks}
        /\ UNCHANGED <<table, expired>>
    BY <1>5 DEF Crash, rows
  <2>2. Live' = Live /\ \A t \in Tasks : at[t] = "marking" => url[t] \notin filed'
    BY <2>1 DEF Live, Interrupted
  <2> QED BY <2>1, <2>2, KeepsFiled
<1>6. ASSUME NEW t \in Tasks, Delete(t) PROVE FiledInv'
  <2> DEFINE gone == IF t = Boot THEN victims[t] \cap expired ELSE victims[t]
  <2>1. /\ at[t] = "deleting" /\ Rest(t)
        /\ table' = {r \in table : r.id \notin gone} /\ expired' = expired \ gone
        /\ filed' = {u \in filed : Held(u) \cap gone = {}}
    BY <1>6 DEF Delete
  <2> HIDE DEF gone
  <2>2. \A r \in Live : r.url \in filed' => r \in Live'
    BY <2>1 DEF Live, Held, IdsOf
  <2> QED BY <2>1, <2>2, RestFiles, KeepsFiled
<1>7. ASSUME NEW h \in Ids, Touch(h) PROVE FiledInv'
  <2>1. UNCHANGED <<table, at, url, filed>> /\ expired' \subseteq expired
    BY <1>7 DEF Touch, calls, Latest
  <2>2. Live \subseteq Live'
    BY <2>1 DEF Live
  <2> QED BY <2>1, <2>2, KeepsFiled
<1>8. CASE Expire
  <2>1. PICK next \in Live : expired' = expired \cup {next.id} /\ filed' = filed \ {next.url}
    BY <1>8 DEF Expire
  <2>2. UNCHANGED <<table, at, url>>
    BY <1>8 DEF Expire, calls
  <2>3. \A r \in Live : r.url \in filed' => r \in Live'
    BY <2>1, <2>2 DEF Live, TypeInv, TypeOK
  <2> QED BY <2>1, <2>2, <2>3, KeepsFiled
<1>9. ASSUME NEW t \in Tasks, NEW u \in Urls, NEW s \in Services, NEW named \in BOOLEAN,
             StartUpload(t, u, s, named)
      PROVE  FiledInv'
  <2>1. /\ at[t] = "idle" /\ UNCHANGED <<table, expired>>
        /\ IF named THEN s \notin Receipts(u) ELSE s = "storage"
        /\ at' = [at EXCEPT ![t] = "uploading"]
        /\ url' = [url EXCEPT ![t] = u] /\ service' = [service EXCEPT ![t] = s]
        /\ filed' = IF Others(t, u, s) # {} \/ ~named THEN filed \ {u} ELSE filed
        /\ s = "storage"
    BY <1>9 DEF StartUpload, rows
  <2>2. Live' = Live
    BY <2>1 DEF Live
  <2>3. u \notin filed'
    <3>1. CASE Others(t, u, s) # {} \/ ~named
      BY <2>1, <3>1
    <3>2. CASE Others(t, u, s) = {} /\ named
      <4>1. \A r \in Live : ~(r.url = u /\ r.receipt = "storage")
        BY <2>1, <3>2 DEF Receipts
      <4>2. \A c \in Tasks : ~(at[c] = "marking" /\ url[c] = u)
        BY <1>0, <2>1, <3>2 DEF Others, TaskInv
      <4> QED BY <2>1, <4>1, <4>2 DEF FiledInv
    <3> QED BY <3>1, <3>2
  <2>4. /\ at'[t] = "uploading" /\ url'[t] = u
        /\ \A c \in Tasks \ {t} : at'[c] = at[c] /\ url'[c] = url[c]
    BY <1>0, <2>1 DEF CallTypes
  <2>5. filed' \subseteq filed
    BY <2>1
  <2> QED BY <2>1, <2>2, <2>3, <2>4, <2>5 DEF FiledInv
<1>10. ASSUME NEW t \in Tasks, Uploaded(t) PROVE FiledInv'
  <2>1. /\ at[t] = "uploading" /\ at' = [at EXCEPT ![t] = "marking"]
        /\ UNCHANGED <<table, expired, url, service>> /\ service[t] = "storage"
        /\ filed' = IF url[t] # NoUrl /\ Others(t, url[t], "storage") = {}
                    THEN filed \cup {url[t]} ELSE filed
    BY <1>0, <1>10 DEF Uploaded, rows, TaskInv
  <2>2. Live' = Live
    BY <2>1 DEF Live
  <2>3. at'[t] = "marking" /\ \A c \in Tasks \ {t} : at'[c] = at[c]
    BY <1>0, <2>1 DEF CallTypes
  <2>4. ASSUME NEW c \in Tasks, at'[c] = "uploading" PROVE url'[c] \notin filed'
    <3>1. c # t /\ at[c] = "uploading" /\ url[c] \notin filed /\ service[c] = "storage"
      BY <1>0, <2>3, <2>4 DEF FiledInv, TaskInv
    <3>2. url[c] = url[t] => c \in Others(t, url[t], "storage")
      BY <3>1 DEF Others
    <3> QED BY <2>1, <3>1, <3>2
  <2> QED BY <2>1, <2>2, <2>3, <2>4 DEF FiledInv
<1>11. ASSUME NEW t \in Tasks, Mark(t) PROVE FiledInv'
  <2> DEFINE new(r) == IF r \in Live /\ r.url = url[t]
                       THEN [r EXCEPT !.receipt = service[t]] ELSE r
  <2>1. /\ at[t] = "marking" /\ Rest(t) /\ expired' = expired /\ service[t] = "storage"
        /\ table' = {new(r) : r \in table}
        /\ filed' = IF url[t] \in UrlsOf(Live) THEN filed ELSE filed \ {url[t]}
    BY <1>0, <1>11 DEF Mark, TaskInv
  <2>2. \A r \in Live : /\ new(r).id = r.id /\ new(r).url = r.url
                        /\ r.receipt = "storage" \/ r.url = url[t] => new(r).receipt = "storage"
    BY <2>1 DEF TypeInv, TypeOK, Rows, Live
  <2> HIDE DEF new
  <2>3. \A r \in Live : new(r) \in Live'
    BY <2>1, <2>2 DEF Live
  <2>4. \A u \in filed' : \/ \E r \in Live : r.url = u /\ (r.receipt = "storage" \/ u = url[t])
                          \/ \E c \in Tasks \ {t} : at[c] = "marking" /\ url[c] = u
    BY <2>1 DEF FiledInv, UrlsOf
  <2>5. /\ at'[t] = "idle" /\ \A c \in Tasks \ {t} : at'[c] = at[c] /\ url'[c] = url[c]
        /\ filed' \subseteq filed
    BY <2>1, RestFiles
  <2>6. \A u \in filed' : \/ \E r \in Live' : r.url = u /\ r.receipt = "storage"
                          \/ \E c \in Tasks : at'[c] = "marking" /\ url'[c] = u
    BY <2>2, <2>3, <2>4, <2>5
  <2> QED BY <2>5, <2>6 DEF FiledInv
<1>12. CASE UNCHANGED vars
  BY <1>12 DEF vars, rows, calls, ghosts, FiledInv, Live
<1>13. CASE Purge
  BY <1>2, <1>13 DEF Tasks
<1>14. ASSUME NEW t \in Tasks, StartUnknown(t) PROVE FiledInv'
  <2>1. /\ at[t] = "idle" /\ UNCHANGED <<table, expired, filed>>
        /\ at' = [at EXCEPT ![t] = "uploading"] /\ url' = [url EXCEPT ![t] = NoUrl]
    BY <1>14 DEF StartUnknown, rows, ghosts
  <2>2. Live' = Live /\ NoUrl \notin filed
    BY <2>1, StagingAssumption DEF Live, TypeInv, TypeOK
  <2>3. /\ at'[t] = "uploading" /\ url'[t] = NoUrl
        /\ \A c \in Tasks \ {t} : at'[c] = at[c] /\ url'[c] = url[c]
    BY <1>0, <2>1 DEF CallTypes
  <2> QED BY <2>1, <2>2, <2>3 DEF FiledInv
<1> QED BY <1>1, <1>2, <1>3, <1>4, <1>5, <1>6, <1>7, <1>8, <1>9, <1>10, <1>11, <1>12, <1>13,
           <1>14
        DEF Next

(* A photo on Drive whose receipt could stop another copy is not uploaded  *)
(* again, if photos go to Drive only: the receipt of another service       *)
(* replaces that of Drive.                                                 *)
THEOREM DriveCopiesOnce ==
  ASSUME Services \subseteq {"storage"}
  PROVE  Spec => OneDriveCopy
<1>1. Init => FiledInv
  BY DEF Init, FiledInv, Tasks
<1>2. TypeInv /\ FiledInv /\ [Next]_vars => FiledInv'
  BY NextFiled
<1>3. Spec => []FiledInv
  BY <1>1, <1>2, TypeInvariant, PTL DEF Spec
<1>4. FiledInv => \A t \in Tasks :
                    at[t] = "uploading" /\ at'[t] = "marking" /\ service[t] = "storage"
                      => url[t] \notin filed
  BY DEF FiledInv
<1> QED BY <1>3, <1>4, PTL DEF OneDriveCopy
================================================================================
