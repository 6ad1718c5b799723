--------------------------- MODULE RefreshTokens ---------------------------
(***************************************************************************)
(* The refresh_token table of the server's security context and the        *)
(* requests that read and write it: sign-in (one INSERT), refresh          *)
(* (look-up, account gate, rotation), logout-all, removal of one device    *)
(* and the device list.                                                    *)
(*                                                                         *)
(* Every request is a process that talks to Postgres statement by          *)
(* statement at READ COMMITTED.  token holds the committed rows; a request *)
(* that has updated row t but not committed yet holds its row lock,        *)
(* lock[t].  Every UPDATE of this code writes only revokedAt, with the     *)
(* request's own now, so a locked row's uncommitted version need not be    *)
(* kept.  An inserted row is invisible until its transaction commits and   *)
(* appears with the commit.                                                *)
(***************************************************************************)
EXTENDS Integers, FiniteSets

CONSTANTS Proc,      \* concurrent requests
          Account,   \* accounts
          Device,    \* device ids (x-device-id)
          Tid,       \* primary keys of refresh_token (bounds the rows ever inserted)
          NULL,      \* SQL NULL
          TTL,       \* lifetime of a token, REFRESH_TTL_DAYS
          MaxClock   \* bound on the clock

ASSUME TimeAssumption == TTL \in Nat /\ MaxClock \in Nat

\* A table holds finitely many rows.
ASSUME TidAssumption == IsFiniteSet(Tid)

VARIABLES clock,     \* the server's clock, new Date()
          token,     \* token[t]: the committed row with primary key t, NULL if none
          lock,      \* lock[t]: the request whose open transaction updated row t
          req,       \* req[p]: the control state and local variables of request p
          revokedEvents \* revokedEvents[t]: committed auth.device.revoked outbox rows for t

vars == <<clock, token, lock, req, revokedEvents>>

(***************************************************************************)
(* root is no column: it names the row inserted by the login this row      *)
(* descends from, and plays the part of the device lineage                 *)
(* (deviceId, deviceName, deviceType, loginMethod) a rotation copies.      *)
(***************************************************************************)
Row == [acct : Account, dev : Device, root : Tid,
        expiresAt : Nat, revokedAt : Nat \cup {NULL}]

\* SQL NULL is no value of any column.
ASSUME NullAssumption == /\ NULL \notin Nat /\ NULL \notin Row
                         /\ NULL \notin Proc /\ NULL \notin Tid /\ NULL \notin Account

PC == {"idle",
       "found", "eligible", "rotated",       \* refresh
       "revoking", "loggedOut",              \* logout-all
       "guarded", "revokedOne",              \* removal of a device
       "rowsRead", "listed"}                 \* device list

Request == [pc : PC, acct : Account \cup {NULL}, tid : Tid \cup {NULL},
            now : Nat, todo : SUBSET Tid, seen : SUBSET Tid,
            rows : Nat, total : Nat]

Idle == [pc |-> "idle", acct |-> NULL, tid |-> NULL,
         now |-> 0, todo |-> {}, seen |-> {}, rows |-> 0, total |-> 0]

Present(t) == token[t] # NULL
Unrevoked(t) == Present(t) /\ token[t].revokedAt = NULL
ActiveRows(a) == {t \in Tid : Unrevoked(t) /\ token[t].acct = a}

TypeOK == /\ clock \in Nat
          /\ token \in [Tid -> Row \cup {NULL}]
          /\ lock \in [Tid -> Proc \cup {NULL}]
          /\ req \in [Proc -> Request]
          /\ revokedEvents \in [Tid -> Nat]

Init == /\ clock = 0
        /\ token = [t \in Tid |-> NULL]
        /\ lock = [t \in Tid |-> NULL]
        /\ req = [p \in Proc |-> Idle]
        /\ revokedEvents = [t \in Tid |-> 0]

-----------------------------------------------------------------------------
(* Statements and transactions.                                            *)

\* The rows with the uncommitted updates of p applied.
Updated(p) == [t \in Tid |-> IF lock[t] = p
                             THEN [token[t] EXCEPT !.revokedAt = req[p].now]
                             ELSE token[t]]
Released(p) == [t \in Tid |-> IF lock[t] = p THEN NULL ELSE lock[t]]

\* p stops at pc and keeps its local variables.
Goto(p, pc) == req' = [req EXCEPT ![p].pc = pc]
Done(p) == req' = [req EXCEPT ![p] = Idle]

\* Bound: a row is left for every rotation under way and one more.
Room == Cardinality({t \in Tid : ~Present(t)}) >
        Cardinality({p \in Proc : req[p].pc \in {"found", "eligible", "rotated"}})

NewRow(a, d, r) == [acct |-> a, dev |-> d, root |-> r,
                    expiresAt |-> clock + TTL, revokedAt |-> NULL]

\* isActive(record, now)
IsActive(t) == Unrevoked(t) /\ token[t].expiresAt > clock

-----------------------------------------------------------------------------
(* Sign-in: persist without a caller's transaction is one INSERT.          *)
Persist(a, d) ==
    /\ Room
    /\ \E n \in Tid : /\ ~Present(n)
                      /\ token' = [token EXCEPT ![n] = NewRow(a, d, n)]
    /\ UNCHANGED <<clock, lock, req, revokedEvents>>

-----------------------------------------------------------------------------
(* Refresh.  A token that is unknown, expired or revoked is answered 401   *)
(* by the look-up and changes nothing.                                     *)

RefreshFind(p, t) ==
    /\ req[p].pc = "idle"
    /\ Room
    /\ IsActive(t)
    /\ req' = [req EXCEPT ![p] = [Idle EXCEPT !.pc = "found", !.tid = t,
                                              !.acct = token[t].acct]]
    /\ UNCHANGED <<clock, token, lock, revokedEvents>>

\* The account context's answer; either is possible here.
RefreshEligible(p) ==
    /\ req[p].pc = "found"
    /\ Goto(p, "eligible")
    /\ UNCHANGED <<clock, token, lock, revokedEvents>>

RefreshNotEligible(p) ==
    /\ req[p].pc = "found"
    /\ Done(p)
    /\ UNCHANGED <<clock, token, lock, revokedEvents>>

\* Mutant: the UPDATE selects by id alone.
RotateRevokeBlind(p) ==
    LET t == req[p].tid IN
    /\ req[p].pc = "eligible"
    /\ lock[t] = NULL
    /\ lock' = [lock EXCEPT ![t] = p]
    /\ req' = [req EXCEPT ![p].pc = "rotated", ![p].now = clock]
    /\ UNCHANGED <<clock, token, revokedEvents>>

\* updateMany {id, revokedAt: null}: count 0 is answered 401 and rolls back;
\* a row another transaction has updated is waited for, then judged again.
RotateRevoke(p) ==
    LET t == req[p].tid IN
    /\ req[p].pc = "eligible"
    /\ \/ /\ ~Unrevoked(t)
          /\ Done(p)
          /\ UNCHANGED lock
       \/ /\ Unrevoked(t)
          /\ lock[t] = NULL
          /\ lock' = [lock EXCEPT ![t] = p]
          /\ req' = [req EXCEPT ![p].pc = "rotated", ![p].now = clock]
    /\ UNCHANGED <<clock, token, revokedEvents>>

\* Mutant: the successor does not take over the device.
RotateCommitNoDevice(p) ==
    /\ req[p].pc = "rotated"
    /\ \E n \in Tid :
          /\ ~Present(n)
          /\ token' = [Updated(p) EXCEPT
                          ![n] = NewRow(req[p].acct, NULL, token[req[p].tid].root)]
    /\ lock' = Released(p)
    /\ Done(p)
    /\ UNCHANGED <<clock, revokedEvents>>

\* create of the successor, which inherits the device, and COMMIT.
RotateCommit(p) ==
    LET old == token[req[p].tid] IN
    /\ req[p].pc = "rotated"
    /\ \E n \in Tid :
          /\ ~Present(n)
          /\ token' = [Updated(p) EXCEPT ![n] = NewRow(old.acct, old.dev, old.root)]
    /\ lock' = Released(p)
    /\ Done(p)
    /\ UNCHANGED <<clock, revokedEvents>>

-----------------------------------------------------------------------------
(* revokeAllForAccount: one UPDATE over the rows its snapshot matches,     *)
(* taken in any order; each is judged again once its lock is had.          *)

\* The request arrives and its UPDATE takes its snapshot (only the access
\* token is verified before).
LogoutAll(p, a) ==
    /\ req[p].pc = "idle"
    /\ req' = [req EXCEPT ![p] = [Idle EXCEPT !.pc = "revoking", !.acct = a, !.now = clock,
                                              !.todo = ActiveRows(a), !.seen = ActiveRows(a)]]
    /\ UNCHANGED <<clock, token, lock, revokedEvents>>

\* Mutant: the row is rewritten though it was revoked while waited for.
RevokeAllRowNoRecheck(p, t) ==
    /\ req[p].pc = "revoking"
    /\ t \in req[p].todo
    /\ lock[t] = NULL
    /\ lock' = [lock EXCEPT ![t] = p]
    /\ req' = [req EXCEPT ![p].todo = @ \ {t}]
    /\ UNCHANGED <<clock, token, revokedEvents>>

\* Mutant: rows another transaction holds are passed over (SKIP LOCKED).
RevokeAllRowSkipLocked(p, t) ==
    /\ req[p].pc = "revoking"
    /\ t \in req[p].todo
    /\ lock' = IF Unrevoked(t) /\ lock[t] = NULL THEN [lock EXCEPT ![t] = p] ELSE lock
    /\ req' = [req EXCEPT ![p].todo = @ \ {t}]
    /\ UNCHANGED <<clock, token, revokedEvents>>

\* Mutant: a row revoked meanwhile is waited for instead of passed over.
RevokeAllRowWaits(p, t) ==
    /\ req[p].pc = "revoking"
    /\ t \in req[p].todo
    /\ Unrevoked(t)
    /\ lock[t] = NULL
    /\ lock' = [lock EXCEPT ![t] = p]
    /\ req' = [req EXCEPT ![p].todo = @ \ {t}]
    /\ UNCHANGED <<clock, token, revokedEvents>>

RevokeAllRow(p, t) ==
    /\ req[p].pc = "revoking"
    /\ t \in req[p].todo
    /\ \/ ~Unrevoked(t) /\ UNCHANGED lock
       \/ Unrevoked(t) /\ lock[t] = NULL /\ lock' = [lock EXCEPT ![t] = p]
    /\ req' = [req EXCEPT ![p].todo = @ \ {t}]
    /\ UNCHANGED <<clock, token, revokedEvents>>

\* The statement is its own transaction; 204 whatever the count.
LogoutAllCommit(p) ==
    /\ req[p].pc = "revoking"
    /\ req[p].todo = {}
    /\ token' = Updated(p)
    /\ lock' = Released(p)
    /\ Goto(p, "loggedOut")
    /\ UNCHANGED <<clock, revokedEvents>>

-----------------------------------------------------------------------------
(* Removal of device row t by account a, from device d.  The 404 (no such  *)
(* row, other account) and 409 (own device) answers change nothing.        *)

RevokeDevice(p, a, d, t) ==
    /\ req[p].pc = "idle"
    /\ Present(t)
    /\ token[t].acct = a
    /\ token[t].dev # d
    /\ req' = [req EXCEPT ![p] = [Idle EXCEPT !.pc = "guarded", !.acct = a,
                                              !.tid = t, !.now = clock]]
    /\ UNCHANGED <<clock, token, lock, revokedEvents>>

\* Mutant: won is not taken from the affected count.
RevokeOneBlind(p) ==
    LET t == req[p].tid IN
    /\ req[p].pc = "guarded"
    /\ lock[t] = NULL
    /\ lock' = IF Unrevoked(t) THEN [lock EXCEPT ![t] = p] ELSE lock
    /\ Goto(p, "revokedOne")
    /\ UNCHANGED <<clock, token, revokedEvents>>

\* updateMany {id, accountId, revokedAt: null}: won iff count is 1; without
\* it the request is answered 200 and no event is published.
RevokeOne(p) ==
    LET t == req[p].tid IN
    /\ req[p].pc = "guarded"
    /\ \/ /\ ~(Unrevoked(t) /\ token[t].acct = req[p].acct)
          /\ Done(p)
          /\ UNCHANGED lock
       \/ /\ Unrevoked(t) /\ token[t].acct = req[p].acct
          /\ lock[t] = NULL
          /\ lock' = [lock EXCEPT ![t] = p]
          /\ Goto(p, "revokedOne")
    /\ UNCHANGED <<clock, token, revokedEvents>>

\* publish auth.device.revoked in the same transaction, and COMMIT.
RevokeOneCommit(p) ==
    /\ req[p].pc = "revokedOne"
    /\ token' = Updated(p)
    /\ lock' = Released(p)
    /\ revokedEvents' = [revokedEvents EXCEPT ![req[p].tid] = @ + 1]
    /\ Done(p)
    /\ UNCHANGED clock

-----------------------------------------------------------------------------
(* The device list: two SELECTs in one transaction, page 0 of a size no    *)
(* smaller than the table (the mobile client asks for 100 at once).        *)

ListRows(p, a) ==
    /\ req[p].pc = "idle"
    /\ req' = [req EXCEPT ![p] = [Idle EXCEPT !.pc = "rowsRead", !.acct = a,
                                              !.rows = Cardinality(ActiveRows(a))]]
    /\ UNCHANGED <<clock, token, lock, revokedEvents>>

ListCount(p) ==
    /\ req[p].pc = "rowsRead"
    /\ req' = [req EXCEPT ![p].pc = "listed",
                          ![p].total = Cardinality(ActiveRows(req[p].acct))]
    /\ UNCHANGED <<clock, token, lock, revokedEvents>>

-----------------------------------------------------------------------------
(* Answers, failures, deadlock detection, time.                            *)

Respond(p) ==
    /\ req[p].pc \in {"loggedOut", "listed"}
    /\ Done(p)
    /\ UNCHANGED <<clock, token, lock, revokedEvents>>

\* A lost connection, a failed statement or a crash of the server before the
\* commit: Postgres rolls the open transaction back.
RequestDies(p) ==
    /\ req[p].pc \notin {"idle", "loggedOut", "listed"}
    /\ lock' = Released(p)
    /\ Done(p)
    /\ UNCHANGED <<clock, token, revokedEvents>>

\* p has to wait for a row q has updated.
Waits(p, q) == \E t \in req[p].todo : Unrevoked(t) /\ lock[t] = q /\ q # p

\* p waits, through others, for itself: it is in every set that holds those
\* it waits for and is closed under waiting.
Deadlocked(p) ==
    \A C \in SUBSET Proc :
        (\A q \in C \cup {p}, r \in Proc : Waits(q, r) => r \in C) => p \in C

\* Postgres aborts one of them (40P01); the request fails.
DeadlockAbort(p) ==
    /\ Deadlocked(p)
    /\ lock' = Released(p)
    /\ Done(p)
    /\ UNCHANGED <<clock, token, revokedEvents>>

Tick == /\ clock < MaxClock
        /\ clock' = clock + 1
        /\ UNCHANGED <<token, lock, req, revokedEvents>>

-----------------------------------------------------------------------------
\* The arrival of a request.
Arrive(p) == \/ \E t \in Tid : RefreshFind(p, t)
             \/ \E a \in Account : LogoutAll(p, a) \/ ListRows(p, a)
             \/ \E a \in Account, d \in Device, t \in Tid : RevokeDevice(p, a, d, t)

\* The steps an accepted request takes on its own.
Step(p) == \/ RefreshEligible(p) \/ RefreshNotEligible(p)
           \/ RotateRevoke(p) \/ RotateCommit(p)
           \/ (\E t \in Tid : RevokeAllRow(p, t)) \/ LogoutAllCommit(p)
           \/ RevokeOne(p) \/ RevokeOneCommit(p)
           \/ ListCount(p) \/ Respond(p)
           \/ DeadlockAbort(p)

Next == \/ \E p \in Proc : Arrive(p) \/ Step(p) \/ RequestDies(p)
        \/ \E a \in Account, d \in Device : Persist(a, d)
        \/ Tick

Spec == Init /\ [][Next]_vars

\* Node runs every request to its end, and Postgres hands a row lock to its
\* waiters in the order they came: a step that is possible again and again
\* is taken.  Nothing makes requests arrive, fail or time pass.
Fairness == \A p \in Proc : SF_vars(Step(p))
FairSpec == Spec /\ Fairness

-----------------------------------------------------------------------------
(* Properties.                                                             *)

\* A login lives on in at most one usable refresh token: of several refreshes
\* of one token at most one gets a successor, also when they race with a
\* revocation or one of them dies half way (rotate's affected-count arbitration).
OneActivePerSession ==
    \A s, t \in Tid : (/\ Unrevoked(s) /\ Unrevoked(t)
                       /\ token[s].root = token[t].root) => s = t

\* auth.device.revoked is published at most once for a row, and only if the
\* removal ended the session: the row was not rotated before, and no refresh
\* that was under way gives the removed device a new token afterwards.
DeviceRevokedIsTruthful ==
    \A t \in Tid : revokedEvents[t] > 0 =>
        /\ revokedEvents[t] = 1
        /\ Present(t)
        /\ \A s \in Tid : Unrevoked(s) => token[s].root # token[t].root

\* What logout-all does guarantee: every row that was active when the request
\* arrived is revoked when the 204 goes out, whoever held or revoked it meanwhile.
LogoutAllRevokesWhatItSaw ==
    \A p \in Proc : req[p].pc = "loggedOut" =>
        \A t \in req[p].seen : ~Unrevoked(t)

\* A committed row only ever changes by getting its revokedAt, once: concurrent
\* or repeated revocations with other clocks never move the timestamp, and no
\* row is deleted or made active again.
RevokedAtIsWrittenOnce ==
    [][\A t \in Tid : Present(t) =>
          \/ token'[t] = token[t]
          \/ /\ Unrevoked(t)
             /\ Present(t)'
             /\ token'[t] = [token[t] EXCEPT !.revokedAt = token'[t].revokedAt]]_vars

\* Every request is answered or fails: nobody waits for a row lock for ever.
EveryRequestEnds == \A p \in Proc : req[p].pc # "idle" ~> req[p].pc = "idle"

-----------------------------------------------------------------------------
(* The committed rows implement Sessions: a session is named by the row its *)
(* login inserted.                                                          *)
SessionOwner == [s \in Tid |-> IF Present(s) /\ token[s].root = s
                               THEN token[s].acct ELSE NULL]
LiveSessions == {token[t].root : t \in {t \in Tid : Unrevoked(t)}}

S == INSTANCE Sessions WITH Session <- Tid, owner <- SessionOwner, live <- LiveSessions

\* Rotation never shows, a session starts once and, ended, stays ended, and a
\* transaction ends sessions of one account only.
ImplementsSessions == S!Spec

=============================================================================
