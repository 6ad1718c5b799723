---------------------------- MODULE ProfileEdits ----------------------------
(***************************************************************************)
(* The profile of an account: the updates of display name, bio and gender, *)
(* and the upload of an image, which the app posts to the object store     *)
(* with a credential of the server and then has the server confirm.        *)
(*                                                                         *)
(* A handler reads the row of the account, may wait for the network, and   *)
(* updates the row by its id.  Values are numbers, each used once: an      *)
(* image's is its object key.                                              *)
(***************************************************************************)
EXTENDS Integers, FiniteSets, ProfileConstants

VARIABLES active,   \* account.status is ACTIVE
          row,      \* the columns of the account
          values,   \* the number of values used
          keyOf,    \* keyOf[k]: the image that key k was issued for, or "none"
          objects,  \* the keys that hold an image in the object store
          handler,  \* requests at the server
          flow,     \* the app: guarded and executeUpload
          newest    \* newest[c]: the value last written to column c (history)

vars == <<active, row, values, keyOf, objects, handler, flow, newest>>

Columns == Texts \cup Images
Callers == Editors \cup Uploaders
Value == 0..MaxValues  \* 0 is null
Handler == [pc : {"none", "guard", "read", "probe", "update", "ok", "refused"},
            column : Columns \cup {"none"}, value : Value,
            seen : [Columns -> Value]]  \* the row as it was read
Flow == [pc : {"idle", "picking", "issuing", "posting", "confirming", "refetching"},
         busy : BOOLEAN, image : Images \cup {"none"}, key : Value]

TypeOK == /\ active \in BOOLEAN
          /\ row \in [Columns -> Value] /\ newest \in [Columns -> Value]
          /\ values \in Value
          /\ keyOf \in [Value -> Images \cup {"none"}]
          /\ objects \subseteq Value
          /\ handler \in [Callers -> Handler]
          /\ flow \in [Uploaders -> Flow]

NoHandler == [pc |-> "none", column |-> "none", value |-> 0, seen |-> [c \in Columns |-> 0]]
NoFlow == [pc |-> "idle", busy |-> FALSE, image |-> "none", key |-> 0]

Init == /\ active = TRUE
        /\ row = [c \in Columns |-> 0] /\ newest = row
        /\ values = 0 /\ objects = {}
        /\ keyOf = [k \in Value |-> "none"]
        /\ handler = [r \in Callers |-> NoHandler]
        /\ flow = [u \in Uploaders |-> NoFlow]

-----------------------------------------------------------------------------
(* The server.                                                             *)

server == <<active, row, values, keyOf, objects, handler, newest>>

Request(r, c, v) == handler' = [handler EXCEPT ![r] = [NoHandler EXCEPT !.pc = "guard", !.column = c, !.value = v]]
At(r, pc, next) == /\ handler[r].pc = pc
                   /\ handler' = [handler EXCEPT ![r] = next]

\* JwtAuthGuard reads the account, and so does the use case.
Guard(r) ==
    /\ At(r, "guard", [handler[r] EXCEPT !.pc = IF active THEN "read" ELSE "refused"])
    /\ UNCHANGED <<active, row, values, keyOf, objects, flow, newest>>

Read(r) ==
    /\ At(r, "read", [handler[r] EXCEPT
          !.seen = row,
          !.pc = IF ~active THEN "refused" ELSE IF handler[r].column \in Images THEN "probe" ELSE "update"])
    /\ UNCHANGED <<active, row, values, keyOf, objects, flow, newest>>

\* startsWith the prefix of the image, and the HEAD of the object: there, of an
\* image type.
ProbeFinds(r) == /\ keyOf[handler[r].value] = handler[r].column
                 /\ handler[r].value \in objects

\* The probe may also fail for the network.
Probe(r) ==
    /\ \/ ProbeFinds(r) /\ At(r, "probe", [handler[r] EXCEPT !.pc = "update"])
       \/ At(r, "probe", [handler[r] EXCEPT !.pc = "refused"])
    /\ UNCHANGED <<active, row, values, keyOf, objects, flow, newest>>

\* Mutant: the row that was read is saved as a whole.
SavedWhole(h) == [h.seen EXCEPT ![h.column] = h.value]

\* update by id, of one column.
Saved(h) == [row EXCEPT ![h.column] = h.value]

Update(r) ==
    /\ At(r, "update", [handler[r] EXCEPT !.pc = "ok"])
    /\ row' = Saved(handler[r])
    /\ newest' = [newest EXCEPT ![handler[r].column] = handler[r].value]
    /\ UNCHANGED <<active, values, keyOf, objects, flow>>

\* The edit of a text field, from any device; its form waits for the answer.
Edit(r) ==
    /\ r \in Editors /\ handler[r].pc \in {"none", "ok", "refused"}
    /\ values < MaxValues /\ values' = values + 1  \* bound
    /\ \E c \in Texts : Request(r, c, values')
    /\ UNCHANGED <<active, row, keyOf, objects, flow, newest>>

Freeze == /\ active' = ~active
          /\ UNCHANGED <<row, values, keyOf, objects, handler, flow, newest>>

-----------------------------------------------------------------------------
(* The app.                                                                *)

Go(u, pc) == flow' = [flow EXCEPT ![u].pc = pc]

\* Mutant: busyRef is reset only at the end of a successful upload.
FinishSuccessOnly(u) ==
    flow' = [flow EXCEPT ![u] = IF @.pc = "refetching" THEN NoFlow ELSE [@ EXCEPT !.pc = "idle"]]

\* The finally of guarded.
Finish(u) == flow' = [flow EXCEPT ![u] = NoFlow]

\* guarded: a second trigger while busy is ignored.
Pick(u) ==
    /\ flow[u].pc = "idle" /\ ~flow[u].busy
    /\ \E i \in Images : flow' = [flow EXCEPT ![u] = [NoFlow EXCEPT !.pc = "picking", !.busy = TRUE, !.image = i]]
    /\ UNCHANGED server

\* The user cancels, the permission is denied, or the file is refused: no request.
Picked(u) ==
    /\ flow[u].pc = "picking"
    /\ Go(u, "issuing") \/ Finish(u)
    /\ UNCHANGED server

\* issueCredential: a key of the account's own, for this image.  The account is read
\* twice, by the guard and by the use case; the answer may be lost.
IssueCredential(u) ==
    /\ flow[u].pc = "issuing"
    /\ \/ /\ active /\ values < MaxValues  \* bound
          /\ values' = values + 1
          /\ keyOf' = [keyOf EXCEPT ![values'] = flow[u].image]
          /\ \/ flow' = [flow EXCEPT ![u].pc = "posting", ![u].key = values']
             \/ Finish(u)
       \/ Finish(u) /\ UNCHANGED <<values, keyOf>>
    /\ UNCHANGED <<active, row, objects, handler, newest>>

\* The store checks policy, type and size, and answers or not.
PostObject(u) ==
    /\ flow[u].pc = "posting"
    /\ \/ objects' = objects \cup {flow[u].key} /\ (Go(u, "confirming") \/ Finish(u))
       \/ Finish(u) /\ UNCHANGED objects
    /\ UNCHANGED <<active, row, values, keyOf, handler, newest>>

Confirm(u) ==
    /\ flow[u].pc = "confirming" /\ handler[u].pc \in {"none", "ok", "refused"}
    /\ Go(u, "refetching") /\ Request(u, flow[u].image, flow[u].key)
    /\ UNCHANGED <<active, row, values, keyOf, objects, newest>>

\* The answer of confirm, and invalidateQueries; or none, and the handler goes on alone.
Answer(u) ==
    /\ flow[u].pc = "refetching"
    /\ Finish(u)
    /\ UNCHANGED server

\* Another client confirms any key with this account's token.
ConfirmAny(u) ==
    /\ flow[u].pc = "idle" /\ handler[u].pc \in {"none", "ok", "refused"}
    /\ \E i \in Images, k \in 1..values : Request(u, i, k)
    /\ UNCHANGED <<active, row, values, keyOf, objects, flow, newest>>

-----------------------------------------------------------------------------
Handle(r) == Guard(r) \/ Read(r) \/ Probe(r) \/ Update(r)
Upload(u) == Picked(u) \/ IssueCredential(u) \/ PostObject(u) \/ Confirm(u) \/ Answer(u)

Next == \/ \E r \in Callers : Handle(r)
        \/ \E r \in Editors : Edit(r)
        \/ \E u \in Uploaders : Pick(u) \/ Upload(u) \/ ConfirmAny(u)
        \/ Freeze

Spec == Init /\ [][Next]_vars

\* A picker is closed, and every request ends: with an answer or an error.
Fairness == /\ \A r \in Callers : WF_vars(Handle(r))
            /\ \A u \in Uploaders : WF_vars(Upload(u))
FairSpec == Spec /\ Fairness
-----------------------------------------------------------------------------
(* Properties.                                                             *)

\* The column of an edit or upload that was answered holds its value until a later
\* one of the same column: what runs beside it in another column does not undo it.
EditsDoNotUndoEachOther == row = newest

\* An image of the profile is an object that was uploaded as that image.
ImageWasUploaded ==
    \A i \in Images : row[i] # 0 => row[i] \in objects /\ keyOf[row[i]] = i

\* The profile is what its owner has sent: the newest value of every column, and in
\* the image columns what was uploaded as that image.
ProfileIsWhatWasSent == EditsDoNotUndoEachOther /\ ImageWasUploaded

\* However an upload ends, the next one can start.
UploadEnds == \A u \in Uploaders : flow[u].busy ~> ~flow[u].busy
=============================================================================
