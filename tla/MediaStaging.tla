------------------------------ MODULE MediaStaging -----------------------------
(***************************************************************************)
(* The staging area of one user's media (backend/app/agent/media_staging.py*)
(* and the tools that use it): a row of staged_media and a file on disk    *)
(* for each photo, the cap, the expiry, and the receipt of an upload that  *)
(* keeps a retried tool from writing a second copy.                        *)
(*                                                                         *)
(*   staged_media     table; <<g, h>> \in sooner if g expires before h,    *)
(*                    expired are the handles of the rows past it          *)
(*   disk_path        files; a file has the name of its row's handle       *)
(*   a call           at[t], url[t], id[t], victims[t]                     *)
(*                                                                         *)
(* Turns of the user exclude one another, but the tools of a round run in  *)
(* parallel, and heartbeat runs and the purge at start-up beside them.  A  *)
(* step ends with the commit of a transaction or with work on the disk;    *)
(* looking a row up and reading its file are one step.  Re-staging finds   *)
(* the same bytes under the same url.                                      *)
(***************************************************************************)
EXTENDS Naturals, FiniteSets

CONSTANTS
  Urls,
  Calls,       (* calls by tools and by the turn pipeline                  *)
  Boot,        (* the purge at start-up                                    *)
  Services,    (* where photos are uploaded: "storage", "companycam"       *)
  Cap,         (* STAGING_MAX_PER_USER                                     *)
  MaxIds,      (* bound: handles in use                                    *)
  MaxFaults    (* bound: failed transactions, reads, unlinks, and crashes  *)

NoUrl == "none"

ASSUME StagingAssumption ==
  /\ Boot \notin Calls /\ NoUrl \notin Urls /\ Services \subseteq {"storage", "companycam"}
  /\ Cap \in Nat /\ MaxIds \in Nat /\ MaxFaults \in Nat

Tasks == Calls \cup {Boot}
Ids == 1..MaxIds
NoId == 0
NoReceipt == "none"
Rows == [url : Urls, id : Ids, receipt : Services \cup {NoReceipt}]

VARIABLES
  table, sooner, expired, files,
  at,        (* [task]                                                     *)
  url,       (* [task]: the url it stages or uploads                       *)
  id,        (* [task]: the handle its bytes go to                         *)
  service,   (* [task]: where it uploads                                   *)
  victims,   (* [task]: the handles it is about to delete                  *)
  filed,     (* urls with a copy on Drive whose receipt must stop another  *)
  strays,    (* handles staged while they were being deleted, or deleted   *)
             (* with a file that could not be unlinked or read             *)
  faults

calls == <<at, url, id, service, victims>>
ghosts == <<filed, strays>>
rows == <<table, sooner, expired>>
vars == <<rows, files, calls, ghosts, faults>>

IdsOf(some) == {r.id : r \in some}
UrlsOf(some) == {r.url : r \in some}
Held(u) == IdsOf({r \in table : r.url = u})
Live == {r \in table : r.id \notin expired}
InUse == IdsOf(table) \cup files \cup {id[t] : t \in Tasks}
           \cup UNION {victims[t] : t \in Tasks}
Apart(ids) == {p \in sooner : p[1] \notin ids /\ p[2] \notin ids}

(* Tasks that will delete an entry, or write its file.                     *)
Doomed(h, others) == \E t \in others : h \in victims[t]
BeingStaged(h, others) == \E t \in others : at[t] = "writing" /\ id[t] = h

Init ==
  /\ table = {} /\ sooner = {} /\ expired = {} /\ files = {}
  /\ at = [t \in Tasks |-> IF t = Boot THEN "purging" ELSE "idle"]
  /\ url = [t \in Tasks |-> NoUrl] /\ id = [t \in Tasks |-> NoId]
  /\ service = [t \in Tasks |-> NoReceipt] /\ victims = [t \in Tasks |-> {}]
  /\ filed = {} /\ strays = {}
  /\ faults = 0

-------------------------------------------------------------------------------
(* stage()                                                                 *)

(* Mutant: staging again resets the receipt.                               *)
RenewedBlank(row) == [row EXCEPT !.receipt = NoReceipt]

(* What staging again makes of the row.                                    *)
Renewed(row) == row

NewHandle == {h \in Ids \ InUse : \A g \in Ids : g < h => g \in InUse}

(* Mutant: a row of its own for each staging, without the unique index.    *)
HandleAfresh(u) == NewHandle

(* The handle of the row in conflict, or a new one.                        *)
HandleOf(u) == IF Held(u) # {} THEN Held(u) ELSE NewHandle

(* A row gets the latest expires_at.                                       *)
Latest(h) ==
  /\ sooner' = Apart({h}) \cup {<<g, h>> : g \in IdsOf(table) \ {h}}
  /\ expired' = expired \ {h}

(* INSERT ... ON CONFLICT DO UPDATE, committed before the bytes are there. *)
Insert(t, u) ==
  /\ at[t] = "idle" /\ t # Boot
  /\ \E h \in HandleOf(u) :
       /\ table' = IF h \in IdsOf(table)
                   THEN {IF r.id = h THEN Renewed(r) ELSE r : r \in table}
                   ELSE table \cup {[url |-> u, id |-> h, receipt |-> NoReceipt]}
       /\ Latest(h)
       /\ id' = [id EXCEPT ![t] = h]
       /\ strays' = IF Doomed(h, Tasks) THEN strays \cup {h}
                     ELSE IF Held(u) = {} THEN strays \ {h} ELSE strays
  /\ at' = [at EXCEPT ![t] = "writing"]
  /\ UNCHANGED <<files, url, service, victims, filed, faults>>

(* The bytes are written after the commit.                                 *)
Write(t) ==
  /\ at[t] = "writing"
  /\ files' = files \cup {id[t]}
  /\ at' = [at EXCEPT ![t] = "capping"] /\ id' = [id EXCEPT ![t] = NoId]
  /\ UNCHANGED <<rows, url, service, victims, ghosts, faults>>

(* Mutant: the rows are deleted, the files forgotten.                      *)
UnlinkNothing(ids, stuck) == UNCHANGED files

(* The files go before the transaction that deletes the rows commits; the  *)
(* error of a file that cannot be unlinked is swallowed.                   *)
Unlink(ids, stuck) == files' = files \ (ids \ stuck)

(* Rows are about to be deleted, for some of them although their file is   *)
(* still there.                                                            *)
Condemn(t, ids, stuck) ==
  /\ stuck # {} => faults < MaxFaults
  /\ faults' = IF stuck = {} THEN faults ELSE faults + 1
  /\ at' = [at EXCEPT ![t] = "deleting"] /\ victims' = [victims EXCEPT ![t] = ids]
  /\ strays' = strays \cup stuck \cup {h \in ids : BeingStaged(h, Tasks \ {t})}
  /\ UNCHANGED <<rows, url, id, service, filed>>

Removes(t, ids) ==
  \E stuck \in SUBSET (ids \cap files) : Unlink(ids, stuck) /\ Condemn(t, ids, stuck)

(* Receipts go first, then raw bytes, each soonest expiring first.         *)
GoesBefore(r, s) ==
  IF (r.receipt = NoReceipt) = (s.receipt = NoReceipt)
  THEN <<r.id, s.id>> \in sooner ELSE r.receipt # NoReceipt

(* The rows over the cap, in that order.                                   *)
IsOverflow(over) ==
  /\ Cardinality(over) + Cap = Cardinality(table)
  /\ \A r \in over, s \in table \ over : GoesBefore(r, s)

(* _enforce_per_user_cap: expired rows count.                              *)
EnforceCap(t) ==
  /\ at[t] = "capping" /\ Cardinality(table) > Cap
  /\ \E over \in {some \in SUBSET table : IsOverflow(some)} : Removes(t, IdsOf(over))

Rest(t) ==
  /\ at' = [at EXCEPT ![t] = "idle"] /\ url' = [url EXCEPT ![t] = NoUrl]
  /\ id' = [id EXCEPT ![t] = NoId] /\ service' = [service EXCEPT ![t] = NoReceipt]
  /\ victims' = [victims EXCEPT ![t] = {}]

UnderCap(t) ==
  /\ at[t] = "capping" /\ Cardinality(table) <= Cap /\ Rest(t)
  /\ UNCHANGED <<rows, files, ghosts, faults>>

(* The rows are deleted by their ids, also when they were staged again     *)
(* meanwhile; the purge deletes what is expired now.                       *)
Delete(t) ==
  /\ at[t] = "deleting"
  /\ LET gone == IF t = Boot THEN victims[t] \cap expired ELSE victims[t]
     IN /\ table' = {r \in table : r.id \notin gone}
        /\ sooner' = Apart(gone) /\ expired' = expired \ gone
        /\ filed' = {u \in filed : Held(u) \cap gone = {}}
        /\ strays' = {h \in strays : h \in gone => h \in files \/ BeingStaged(h, Tasks)}
  /\ Rest(t)
  /\ UNCHANGED <<files, faults>>

-------------------------------------------------------------------------------
(* The other callers.                                                      *)

(* get_by_handle, resolve_media_ref, get_all_for_user: a live row whose    *)
(* file is missing is pruned, or whose file is there and cannot be read.   *)
Prune(t) ==
  /\ at[t] = "idle" /\ t # Boot
  /\ \E h \in IdsOf(Live) : Condemn(t, {h}, {h} \cap files)
  /\ UNCHANGED files

(* discard_media                                                           *)
Discard(t) ==
  /\ at[t] = "idle" /\ t # Boot
  /\ \E h \in IdsOf(table) : Removes(t, {h})

(* purge_expired                                                           *)
Purge ==
  /\ at[Boot] = "purging"
  /\ Removes(Boot, expired)

(* analyze_photo renews the row it refers to.                              *)
Touch(h) ==
  /\ h \in IdsOf(table)
  /\ Latest(h)
  /\ strays' = IF Doomed(h, Tasks) THEN strays \cup {h} ELSE strays
  /\ UNCHANGED <<table, files, calls, filed, faults>>

(* The next row is past its time.                                          *)
Expire ==
  /\ \E next \in Live :
       /\ \A r \in Live \ {next} : <<next.id, r.id>> \in sooner
       /\ expired' = expired \cup {next.id}
       /\ filed' = filed \ {next.url}
  /\ UNCHANGED <<table, sooner, files, calls, strays, faults>>

(* get_uploaded: the receipt of the row, if it is live.                    *)
Receipts(u) == {r.receipt : r \in {x \in Live : x.url = u}}

(* Uploads of the same photo that run at the same time.                    *)
Others(t, u, s) == {c \in Tasks \ {t} : url[c] = u /\ service[c] = s}

(* upload_to_storage, companycam_upload_photo: not if the receipt is from  *)
(* this service, which is looked for only if the call names the photo.     *)
(* The bytes come from the staging area or the message.                    *)
StartUpload(t, u, s, named) ==
  /\ at[t] = "idle" /\ t # Boot
  /\ IF named THEN s \notin Receipts(u) ELSE s = "storage"
  /\ at' = [at EXCEPT ![t] = "uploading"]
  /\ url' = [url EXCEPT ![t] = u] /\ service' = [service EXCEPT ![t] = s]
  /\ filed' = IF Others(t, u, s) # {} \/ ~named THEN filed \ {u} ELSE filed
  /\ UNCHANGED <<rows, files, id, victims, strays, faults>>

(* upload_to_storage by a url or handle that nothing is staged under: the  *)
(* first photo of the message is uploaded in its name.                     *)
StartUnknown(t) ==
  /\ at[t] = "idle" /\ t # Boot /\ "storage" \in Services
  /\ at' = [at EXCEPT ![t] = "uploading"]
  /\ url' = [url EXCEPT ![t] = NoUrl] /\ service' = [service EXCEPT ![t] = "storage"]
  /\ UNCHANGED <<rows, files, id, victims, ghosts, faults>>

(* The service has the photo; Drive does not recognise a second copy.      *)
Uploaded(t) ==
  /\ at[t] = "uploading" /\ at' = [at EXCEPT ![t] = "marking"]
  /\ filed' = IF service[t] = "storage" /\ url[t] # NoUrl
                 /\ Others(t, url[t], service[t]) = {}
              THEN filed \cup {url[t]} ELSE filed
  /\ UNCHANGED <<rows, files, url, id, service, victims, strays, faults>>

UploadFails(t) ==
  /\ at[t] = "uploading" /\ Rest(t)
  /\ UNCHANGED <<rows, files, ghosts, faults>>

(* mark_uploaded: the receipt replaces the one the row had, if the row is  *)
(* there and live.                                                         *)
Mark(t) ==
  /\ at[t] = "marking"
  /\ table' = {IF r \in Live /\ r.url = url[t] THEN [r EXCEPT !.receipt = service[t]]
               ELSE r : r \in table}
  /\ filed' = IF url[t] \in UrlsOf(Live) THEN filed ELSE filed \ {url[t]}
  /\ Rest(t)
  /\ UNCHANGED <<sooner, expired, files, strays, faults>>

-------------------------------------------------------------------------------
(* A failed transaction or a cancelled turn ends a call where it is.       *)
Interrupted(t) == IF at[t] = "marking" THEN {url[t]} ELSE {}

Fail(t) ==
  /\ faults < MaxFaults /\ faults' = faults + 1
  /\ at[t] \in {"writing", "capping", "deleting", "marking"}
  /\ filed' = filed \ Interrupted(t) /\ Rest(t)
  /\ UNCHANGED <<rows, files, strays>>

(* The worker dies; the next one begins with the purge.                    *)
Crash ==
  /\ faults < MaxFaults /\ faults' = faults + 1
  /\ at' = [t \in Tasks |-> IF t = Boot THEN "purging" ELSE "idle"]
  /\ url' = [t \in Tasks |-> NoUrl] /\ id' = [t \in Tasks |-> NoId]
  /\ service' = [t \in Tasks |-> NoReceipt] /\ victims' = [t \in Tasks |-> {}]
  /\ filed' = filed \ UNION {Interrupted(t) : t \in Tasks}
  /\ UNCHANGED <<rows, files, strays>>

Next ==
  \/ \E t \in Tasks :
       \/ Write(t) \/ EnforceCap(t) \/ UnderCap(t) \/ Delete(t)
       \/ Prune(t) \/ Discard(t)
       \/ Uploaded(t) \/ UploadFails(t) \/ Mark(t) \/ Fail(t)
       \/ StartUnknown(t)
       \/ \E u \in Urls :
            \/ Insert(t, u)
            \/ \E s \in Services, named \in BOOLEAN : StartUpload(t, u, s, named)
  \/ \E h \in Ids : Touch(h)
  \/ Purge \/ Expire \/ Crash

Spec == Init /\ [][Next]_vars

-------------------------------------------------------------------------------
(* The rows are in one order, and the first of them are expired.           *)
Ordered ==
  /\ sooner \subseteq IdsOf(table) \X IdsOf(table) /\ expired \subseteq IdsOf(table)
  /\ \A g, h \in IdsOf(table) :
       <<g, h>> \in sooner <=> g # h /\ <<h, g>> \notin sooner
  /\ \A f, g, h \in IdsOf(table) :
       <<f, g>> \in sooner /\ <<g, h>> \in sooner => <<f, h>> \in sooner
  /\ \A g, h \in IdsOf(table) : <<g, h>> \in sooner /\ h \in expired => g \in expired

(* Types, and: a url has one row and a row a handle of its own.            *)
TypeOK ==
  /\ table \subseteq Rows /\ files \subseteq Ids
  /\ \A r, s \in table : r.url = s.url \/ r.id = s.id => r = s
  /\ Ordered
  /\ at \in [Tasks -> {"idle", "writing", "capping", "deleting", "purging",
                       "uploading", "marking"}]
  /\ url \in [Tasks -> Urls \cup {NoUrl}] /\ id \in [Tasks -> Ids \cup {NoId}]
  /\ service \in [Tasks -> Services \cup {NoReceipt}]
  /\ victims \in [Tasks -> SUBSET Ids]
  /\ filed \subseteq Urls /\ strays \subseteq Ids
  /\ faults \in 0..MaxFaults

(* Rows and files.  A file has its row at any time, also after a failed    *)
(* transaction or a crash, which is why the bytes are written last and     *)
(* unlinked first; and when nothing failed, every row has its file and     *)
(* there are not more rows than the cap once nobody stages or deletes.     *)
(* Excepted are the entries that were staged, for the first time or again, *)
(* or touched while they were being deleted, and those that were deleted   *)
(* although their file could not be unlinked or read: they can leave a     *)
(* file that no purge will ever find.                                      *)
StagingConsistent ==
  /\ files \ IdsOf(table) \subseteq strays
  /\ faults = 0 =>
       /\ \A h \in IdsOf(table) \ (files \cup strays) :
            Doomed(h, Tasks) \/ BeingStaged(h, Tasks)
       /\ (\A t \in Tasks : at[t] \notin {"writing", "capping", "deleting"})
            => Cardinality(table) <= Cap

(* A photo that was filed to Drive is not filed again: the receipt stops   *)
(* a call that names it, unless the row is gone or expired, the receipt    *)
(* could not be written, or two uploads ran at once (upload_to_storage).   *)
(* Violated when the photo is sent to CompanyCam in between, whose receipt *)
(* replaces that of Drive.                                                 *)
OneDriveCopy ==
  [][\A t \in Tasks :
        at[t] = "uploading" /\ at'[t] = "marking" /\ service[t] = "storage"
          => url[t] \notin filed]_vars
===============================================================================
