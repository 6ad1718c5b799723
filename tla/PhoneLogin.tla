----------------------------- MODULE PhoneLogin -----------------------------
(***************************************************************************)
(* Sign-in by phone and SMS code: the code and the failure lock in Redis,  *)
(* and the Serializable transaction that logs in or registers.             *)
(*                                                                         *)
(* Every Redis command is one atomic step; between two of them any other   *)
(* request may take its own.  A key with a time to live may expire at any  *)
(* later time.  In Postgres a transaction reads a snapshot: a row another  *)
(* transaction has committed since then makes its write fail (stale), and  *)
(* a row another one has written and not committed is waited for.          *)
(***************************************************************************)
EXTENDS Integers, FiniteSets

CONSTANTS Proc,          \* concurrent sign-in requests
          Phone,         \* phone numbers
          NULL,          \* no phone
          FailThreshold, \* FAIL_THRESHOLD
          MaxAttempts,   \* MAX_SERIALIZATION_RETRIES
          MaxCodes       \* bound on the codes ever sent

ASSUME BoundAssumption == /\ FailThreshold \in Nat \ {0, 1} /\ MaxAttempts \in Nat \ {0}
                          /\ MaxCodes \in Nat
ASSUME NullAssumption == NULL \notin Phone
ASSUME ProcAssumption == IsFiniteSet(Proc)

VARIABLES issued,   \* the number of codes drawn; codes are told apart by it
          smsCode,  \* sms_code:<phone>, the code that counts, 0 if there is none
          fail,     \* auth-fail:<phone>, 0 if there is none
          expires,  \* expires[ph]: does auth-fail:<phone> have a time to live
          locked,   \* auth-lock:<phone>
          row,      \* the account with that phone, as InspectAccountStatus sees it
          created,  \* created[ph]: the auth.account.created events in the outbox
          released, \* released[ph]: the accounts that lost this phone by anonymization
          tokens,   \* tokens[c]: the refresh tokens persisted for sign-ins with code c
          failures, \* failures[ph]: recorded since ph was last unlocked (history)
          req       \* req[p]: control state and local variables of request p

keys == <<issued, smsCode, fail, expires, locked>>
tables == <<row, created, released, tokens>>
vars == <<keys, tables, failures, req>>

Drawn == 0..MaxCodes \* 0 stands for digits that were never sent

PC == {"idle", "unlocked", "inspected", "verified",
       "cleared", "began", "written", "loggedIn",  \* the right code
       "failing", "expiring", "locking", "resetting"} \* a wrong one

Request == [pc : PC, phone : Phone \cup {NULL}, code : Drawn, attempt : 1..MaxAttempts,
            found : BOOLEAN, stale : BOOLEAN]
Idle == [pc |-> "idle", phone |-> NULL, code |-> 0, attempt |-> 1,
         found |-> FALSE, stale |-> FALSE]

TypeOK == /\ issued \in Drawn
          /\ smsCode \in [Phone -> Drawn]
          /\ fail \in [Phone -> 0..FailThreshold]
          /\ expires \in [Phone -> BOOLEAN] /\ locked \in [Phone -> BOOLEAN]
          /\ row \in [Phone -> {"NOT_FOUND", "ACTIVE", "FROZEN"}]
          /\ created \in [Phone -> Nat] /\ released \in [Phone -> Nat]
          /\ tokens \in [Drawn -> Nat]
          /\ failures \in [Phone -> Nat]
          /\ req \in [Proc -> Request]

Init == /\ issued = 0
        /\ smsCode = [ph \in Phone |-> 0]
        /\ fail = [ph \in Phone |-> 0]
        /\ expires = [ph \in Phone |-> FALSE]
        /\ locked = [ph \in Phone |-> FALSE]
        /\ row = [ph \in Phone |-> "NOT_FOUND"]
        /\ created = [ph \in Phone |-> 0]
        /\ released = [ph \in Phone |-> 0]
        /\ tokens = [c \in Drawn |-> 0]
        /\ failures = [ph \in Phone |-> 0]
        /\ req = [p \in Proc |-> Idle]

Goto(p, pc) == req' = [req EXCEPT ![p].pc = pc]
Done(p) == req' = [req EXCEPT ![p] = Idle]

-----------------------------------------------------------------------------
(* Codes.                                                                  *)

\* RequestSmsCode: SETEX replaces the code there was.  The SMS may fail later.
RequestSmsCode(ph) ==
    /\ issued < MaxCodes  \* bound
    /\ issued' = issued + 1
    /\ smsCode' = [smsCode EXCEPT ![ph] = issued + 1]
    /\ UNCHANGED <<fail, expires, locked, tables, failures, req>>

CodeExpires(ph) ==
    /\ smsCode[ph] # 0
    /\ smsCode' = [smsCode EXCEPT ![ph] = 0]
    /\ UNCHANGED <<issued, fail, expires, locked, tables, failures, req>>

-----------------------------------------------------------------------------
(* The sign-in up to the code.  Digits c are a code that was sent or a     *)
(* guess.  On a locked phone the request is answered 429 and is over.      *)

AssertNotLocked(p, ph, c) ==
    /\ req[p].pc = "idle"
    /\ ~locked[ph]
    /\ req' = [req EXCEPT ![p] = [Idle EXCEPT !.pc = "unlocked", !.phone = ph, !.code = c]]
    /\ UNCHANGED <<keys, tables, failures>>

\* FROZEN is answered 403 and counts as no failure.  An ANONYMIZED account has
\* no phone and is not found by one.
Inspect(p) ==
    /\ req[p].pc = "unlocked"
    /\ IF row[req[p].phone] = "FROZEN" THEN Done(p) ELSE Goto(p, "inspected")
    /\ UNCHANGED <<keys, tables, failures>>

Verify(p) ==
    LET c == req[p].code IN
    /\ req[p].pc = "inspected"
    /\ IF c # 0 /\ smsCode[req[p].phone] = c THEN Goto(p, "verified")
       ELSE req' = [req EXCEPT ![p].pc = "failing", ![p].code = 0]
    /\ UNCHANGED <<keys, tables, failures>>

\* Mutant: the code is left to expire.
ClearNothing(p) ==
    /\ req[p].pc = "verified"
    /\ Goto(p, "cleared")
    /\ UNCHANGED <<keys, tables, failures>>

\* DEL, whatever code is there by now.
Clear(p) ==
    /\ req[p].pc = "verified"
    /\ smsCode' = [smsCode EXCEPT ![req[p].phone] = 0]
    /\ Goto(p, "cleared")
    /\ UNCHANGED <<issued, fail, expires, locked, tables, failures>>

-----------------------------------------------------------------------------
(* commitPhoneLogin.                                                       *)

\* BEGIN and findUnique: the snapshot of the transaction.
Begin(p) ==
    /\ req[p].pc = "cleared"
    /\ req' = [req EXCEPT ![p].pc = "began", ![p].found = (row[req[p].phone] # "NOT_FOUND")]
    /\ UNCHANGED <<keys, tables, failures>>

\* The row, or its place in the unique index, is written and not committed.
Written(ph) == \E p \in Proc : req[p].pc = "written" /\ req[p].phone = ph

\* UPDATE of lastLoginAt, or INSERT of the account and of its event.
Write(p) ==
    /\ req[p].pc = "began"
    /\ ~req[p].stale /\ ~Written(req[p].phone)
    /\ Goto(p, "written")
    /\ UNCHANGED <<keys, tables, failures>>

\* A committed write of the account makes the open snapshots of it stale.
Outdated(r, ph) == IF r.phone = ph /\ r.pc = "began" THEN [r EXCEPT !.stale = TRUE] ELSE r

\* Mutant: the event is published for the account that was there as well.
CommitAnnouncesLogin(p) ==
    LET ph == req[p].phone IN
    /\ req[p].pc = "written"
    /\ row' = IF req[p].found THEN row ELSE [row EXCEPT ![ph] = "ACTIVE"]
    /\ created' = [created EXCEPT ![ph] = @ + 1]
    /\ req' = [q \in Proc |-> IF q # p THEN Outdated(req[q], ph)
                              ELSE [Idle EXCEPT !.pc = "loggedIn", !.phone = ph,
                                                !.code = req[p].code]]
    /\ UNCHANGED <<keys, released, tokens, failures>>

\* COMMIT: of the login, or of the account and its event.
Commit(p) ==
    LET ph == req[p].phone IN
    /\ req[p].pc = "written"
    /\ IF req[p].found THEN UNCHANGED <<row, created>>
       ELSE /\ row' = [row EXCEPT ![ph] = "ACTIVE"]
            /\ created' = [created EXCEPT ![ph] = @ + 1]
    /\ req' = [q \in Proc |-> IF q # p THEN Outdated(req[q], ph)
                              ELSE [Idle EXCEPT !.pc = "loggedIn", !.phone = ph,
                                                !.code = req[p].code]]
    /\ UNCHANGED <<keys, released, tokens, failures>>

\* Mutant: the loop does not count its attempts.
WriteConflictForEver(p) ==
    /\ req[p].pc = "written" \/ (req[p].pc = "began" /\ ~Written(req[p].phone))
    /\ \/ req' = [req EXCEPT ![p].pc = "cleared", ![p].found = FALSE, ![p].stale = FALSE]
       \/ Done(p)
    /\ UNCHANGED <<keys, tables, failures>>

\* Error 40001, for a row that changed or as Postgres suspects a cycle: tried
\* again if it is recognised as P2034 and attempts are left, else answered 500.
WriteConflict(p) ==
    /\ req[p].pc = "written" \/ (req[p].pc = "began" /\ ~Written(req[p].phone))
    /\ \/ /\ req[p].attempt < MaxAttempts
          /\ req' = [req EXCEPT ![p].pc = "cleared", ![p].attempt = @ + 1,
                                ![p].found = FALSE, ![p].stale = FALSE]
       \/ Done(p)
    /\ UNCHANGED <<keys, tables, failures>>

\* P2002: the INSERT meets a row that its snapshot does not have, and so does not
\* the look-up behind it: the error is thrown on and answered 500.
UniqueViolation(p) ==
    /\ req[p].pc = "began"
    /\ ~req[p].found /\ row[req[p].phone] # "NOT_FOUND" /\ ~Written(req[p].phone)
    /\ Done(p)
    /\ UNCHANGED <<keys, tables, failures>>

\* persist of the refresh token, the end of a sign-in.
Persist(p) ==
    /\ req[p].pc = "loggedIn"
    /\ tokens' = [tokens EXCEPT ![req[p].code] = @ + 1]
    /\ Done(p)
    /\ UNCHANGED <<keys, row, created, released, failures>>

\* Elsewhere the account is frozen, taken back or anonymized; the last sets its
\* phone to NULL.  A row that is being written is waited for.
AccountChanges(ph) ==
    /\ ~Written(ph)
    /\ \/ row[ph] = "ACTIVE" /\ row' = [row EXCEPT ![ph] = "FROZEN"] /\ UNCHANGED released
       \/ row[ph] = "FROZEN" /\ row' = [row EXCEPT ![ph] = "ACTIVE"] /\ UNCHANGED released
       \/ /\ row[ph] = "FROZEN"
          /\ row' = [row EXCEPT ![ph] = "NOT_FOUND"]
          /\ released' = [released EXCEPT ![ph] = @ + 1]
    /\ req' = [q \in Proc |-> Outdated(req[q], ph)]
    /\ UNCHANGED <<keys, created, tokens, failures>>

-----------------------------------------------------------------------------
(* recordFailure.  The counter is compared with 1 and with the threshold   *)
(* only: the values above the threshold are taken as one.                  *)

Recorded(ph) == failures' = [failures EXCEPT ![ph] = @ + 1]

\* Mutant: one failure more than the threshold is let through.
IncrOffByOne(p) ==
    LET ph == req[p].phone
        count == IF fail[ph] < FailThreshold THEN fail[ph] + 1 ELSE FailThreshold
    IN  /\ req[p].pc = "failing"
        /\ fail' = [fail EXCEPT ![ph] = count]
        /\ IF fail[ph] = FailThreshold THEN Goto(p, "locking") /\ UNCHANGED failures
           ELSE /\ Recorded(ph)
                /\ IF count = 1 THEN Goto(p, "expiring") ELSE Done(p)
        /\ UNCHANGED <<issued, smsCode, expires, locked, tables>>

\* Mutant: only the failure that makes the threshold sets the lock.
IncrExact(p) ==
    LET ph == req[p].phone IN
    /\ req[p].pc = "failing"
    /\ fail' = [fail EXCEPT ![ph] = @ + 1]
    /\ IF fail[ph] + 1 = FailThreshold THEN Goto(p, "locking") /\ UNCHANGED failures
       ELSE /\ Recorded(ph)
            /\ IF fail[ph] = 0 THEN Goto(p, "expiring") ELSE Done(p)
    /\ UNCHANGED <<issued, smsCode, expires, locked, tables>>

\* INCR: the first failure starts the window, the last one the lock.
Incr(p) ==
    LET ph == req[p].phone
        count == IF fail[ph] < FailThreshold THEN fail[ph] + 1 ELSE FailThreshold
    IN  /\ req[p].pc = "failing"
        /\ fail' = [fail EXCEPT ![ph] = count]
        /\ IF count = FailThreshold THEN Goto(p, "locking") /\ UNCHANGED failures
           ELSE /\ Recorded(ph)
                /\ IF count = 1 THEN Goto(p, "expiring") ELSE Done(p)
        /\ UNCHANGED <<issued, smsCode, expires, locked, tables>>

\* EXPIRE, which does nothing to a key that is gone.
Expire(p) ==
    LET ph == req[p].phone IN
    /\ req[p].pc = "expiring"
    /\ expires' = [expires EXCEPT ![ph] = (fail[ph] # 0)]
    /\ Done(p)
    /\ UNCHANGED <<issued, smsCode, fail, locked, tables, failures>>

\* SET EX: the lock and its time to live in one command.
SetLock(p) ==
    LET ph == req[p].phone IN
    /\ req[p].pc = "locking"
    /\ locked' = [locked EXCEPT ![ph] = TRUE]
    /\ Recorded(ph)
    /\ Goto(p, "resetting")
    /\ UNCHANGED <<issued, smsCode, fail, expires, tables>>

DropFail(ph) == /\ fail' = [fail EXCEPT ![ph] = 0]
                /\ expires' = [expires EXCEPT ![ph] = FALSE]

\* DEL of the counter.
Reset(p) ==
    /\ req[p].pc = "resetting"
    /\ DropFail(req[p].phone)
    /\ Done(p)
    /\ UNCHANGED <<issued, smsCode, locked, tables, failures>>

\* The window of 24 hours ends.
FailExpires(ph) ==
    /\ fail[ph] # 0 /\ expires[ph]
    /\ DropFail(ph)
    /\ failures' = [failures EXCEPT ![ph] = 0]
    /\ UNCHANGED <<issued, smsCode, locked, tables, req>>

\* The lock of 30 minutes ends; no request takes that long to set it and reset.
LockExpires(ph) ==
    /\ locked[ph]
    /\ ~\E p \in Proc : req[p].phone = ph /\ req[p].pc \in {"locking", "resetting"}
    /\ locked' = [locked EXCEPT ![ph] = FALSE]
    /\ failures' = [failures EXCEPT ![ph] = 0]
    /\ UNCHANGED <<issued, smsCode, fail, expires, tables, req>>

\* A command fails, or the server dies.
RequestDies(p) ==
    /\ req[p].pc # "idle"
    /\ Done(p)
    /\ UNCHANGED <<keys, tables, failures>>

-----------------------------------------------------------------------------
Step(p) == \/ Inspect(p) \/ Verify(p) \/ Clear(p)
           \/ Begin(p) \/ Write(p) \/ Commit(p) \/ WriteConflict(p) \/ UniqueViolation(p)
           \/ Persist(p)
           \/ Incr(p) \/ Expire(p) \/ SetLock(p) \/ Reset(p)

Next == \/ \E p \in Proc : \/ \E ph \in Phone, c \in 0..issued : AssertNotLocked(p, ph, c)
                           \/ Step(p) \/ RequestDies(p)
        \/ \E ph \in Phone : \/ RequestSmsCode(ph) \/ CodeExpires(ph) \/ AccountChanges(ph)
                             \/ FailExpires(ph) \/ LockExpires(ph)

Spec == Init /\ [][Next]_vars

\* A request that was let in goes on to its answer.
FairSpec == Spec /\ \A p \in Proc : SF_vars(Step(p))

-----------------------------------------------------------------------------
(* Properties.                                                             *)

\* The lock is read before the attempt and set after it, and three commands set
\* it: still, between two ends of a lock (or of the window) there are no more
\* failures than the threshold allows and one for each request that was let in
\* before the lock was there.
FailuresBounded ==
    \A ph \in Phone : failures[ph] <= FailThreshold - 1 + Cardinality(Proc)

\* Once a code has signed somebody in it is never accepted again, in whatever
\* order the requests that carry it, and those for new codes, take their steps.
UsedCodeIsDead ==
    [][\A p \in Proc : req[p].pc = "inspected" /\ req'[p].pc = "verified"
                       => tokens[req[p].code] = 0]_vars

\* Every account, the anonymized ones too, was announced by exactly one
\* auth.account.created: racing registrations of a phone create one account, and
\* an attempt that was rolled back leaves no event.
RegistrationIsAnnouncedOnce ==
    \A ph \in Phone : created[ph] = released[ph] + (IF row[ph] = "NOT_FOUND" THEN 0 ELSE 1)

\* Every request is answered: it does not try its transaction again for ever.
EveryRequestEnds == \A p \in Proc : req[p].pc # "idle" ~> req[p].pc = "idle"
=============================================================================
