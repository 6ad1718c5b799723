--------------------------- MODULE PhoneLoginProofs ---------------------------
(***************************************************************************)
(* PhoneLogin for any phones, any number of concurrent requests and any    *)
(* threshold: its types, the announcement of every account, the bound on   *)
(* the failures, and that a code that signed somebody in is dead.          *)
(*                                                                         *)
(* Four invariants are stacked on one another: Typed, what every request   *)
(* under way has; Snapshots, what a transaction that found nothing knows   *)
(* of the row; Locks, what the counter and the lock say of the failures;   *)
(* Codes, where the digits of a code may still be.                         *)
(***************************************************************************)
EXTENDS PhoneLogin, FiniteSetTheorems, TLAPS

Typed == TypeOK /\ \A p \in Proc : req[p].pc # "idle" => req[p].phone \in Phone

-----------------------------------------------------------------------------
(* What the steps do to the requests.                                      *)

LEMMA IdleIs ==
    /\ Idle \in Request
    /\ Idle.pc = "idle" /\ Idle.phone = NULL /\ Idle.code = 0 /\ Idle.attempt = 1
    /\ Idle.found = FALSE /\ Idle.stale = FALSE
  BY BoundAssumption DEF Idle, Request, PC, Drawn

\* The request of p alone changes.
Alone(p) == /\ req' \in [Proc -> Request]
            /\ \A q \in Proc \ {p} : req'[q] = req[q]

LEMMA AloneIs ==
    ASSUME Typed, NEW p \in Proc, NEW r \in Request, req' = [req EXCEPT ![p] = r]
    PROVE  Alone(p) /\ req'[p] = r
  BY DEF Typed, TypeOK, Alone

\* A step that only moves the control state of p.
LEMMA GotoIs ==
    ASSUME Typed, NEW p \in Proc, NEW pc \in PC, Goto(p, pc)
    PROVE  /\ Alone(p)
           /\ req'[p].pc = pc /\ req'[p].phone = req[p].phone /\ req'[p].code = req[p].code
           /\ req'[p].found = req[p].found /\ req'[p].stale = req[p].stale
<1> DEFINE r == [req[p] EXCEPT !.pc = pc]
<1>1. req[p] \in Request
  BY DEF Typed, TypeOK
<1>2. /\ r \in Request /\ r.pc = pc /\ r.phone = req[p].phone /\ r.code = req[p].code
      /\ r.found = req[p].found /\ r.stale = req[p].stale
  BY <1>1 DEF Request
<1>3. req' = [req EXCEPT ![p] = r]
  BY DEF Goto
<1> HIDE DEF r
<1> QED
  BY <1>2, <1>3, AloneIs

LEMMA DoneIs ==
    ASSUME Typed, NEW p \in Proc, Done(p)
    PROVE  Alone(p) /\ req'[p] = Idle
  BY IdleIs, AloneIs DEF Done

\* A request that is let in.
LEMMA ArriveIs ==
    ASSUME Typed, NEW p \in Proc, NEW ph \in Phone, NEW c \in 0..issued,
           AssertNotLocked(p, ph, c)
    PROVE  /\ Alone(p)
           /\ req'[p].pc = "unlocked" /\ req'[p].phone = ph
<1> DEFINE r == [Idle EXCEPT !.pc = "unlocked", !.phone = ph, !.code = c]
<1>1. c \in Drawn
  BY BoundAssumption DEF Typed, TypeOK, Drawn
<1>2. r \in Request /\ r.pc = "unlocked" /\ r.phone = ph
  BY <1>1, IdleIs DEF Request, PC
<1>3. req' = [req EXCEPT ![p] = r]
  BY DEF AssertNotLocked
<1> HIDE DEF r
<1> QED
  BY <1>2, <1>3, AloneIs

LEMMA InspectIs ==
    ASSUME Typed, NEW p \in Proc, Inspect(p)
    PROVE  /\ Alone(p)
           /\ \/ req'[p] = Idle
              \/ req'[p].pc = "inspected" /\ req'[p].phone = req[p].phone
<1>1. CASE Done(p)
  BY <1>1, DoneIs
<1>2. CASE Goto(p, "inspected")
  BY <1>2, GotoIs DEF PC
<1> QED
  BY <1>1, <1>2 DEF Inspect

LEMMA VerifyIs ==
    ASSUME Typed, NEW p \in Proc, Verify(p)
    PROVE  /\ Alone(p) /\ req'[p].phone = req[p].phone
           /\ \/ /\ req'[p].pc = "verified" /\ req'[p].code = req[p].code
                 /\ req[p].code # 0 /\ smsCode[req[p].phone] = req[p].code
              \/ req'[p].pc = "failing"
<1>1. CASE Goto(p, "verified") /\ req[p].code # 0 /\ smsCode[req[p].phone] = req[p].code
  BY <1>1, GotoIs DEF PC
<1>2. CASE req' = [req EXCEPT ![p].pc = "failing", ![p].code = 0]
  <2> DEFINE r == [req[p] EXCEPT !.pc = "failing", !.code = 0]
  <2>1. req[p] \in Request
    BY DEF Typed, TypeOK
  <2>2. 0 \in Drawn
    BY BoundAssumption DEF Drawn
  <2>3. r \in Request /\ r.pc = "failing" /\ r.phone = req[p].phone
    BY <2>1, <2>2 DEF Request, PC
  <2>4. req' = [req EXCEPT ![p] = r]
    BY <1>2
  <2> HIDE DEF r
  <2> QED
    BY <2>3, <2>4, AloneIs
<1> QED
  BY <1>1, <1>2 DEF Verify

LEMMA BeginIs ==
    ASSUME Typed, NEW p \in Proc, Begin(p)
    PROVE  /\ Alone(p)
           /\ req'[p].pc = "began" /\ req'[p].phone = req[p].phone
           /\ req'[p].code = req[p].code /\ req'[p].stale = req[p].stale
           /\ req'[p].found = (row[req[p].phone] # "NOT_FOUND")
<1> DEFINE f == row[req[p].phone] # "NOT_FOUND"
           r == [req[p] EXCEPT !.pc = "began", !.found = f]
<1>1. req[p] \in Request /\ f \in BOOLEAN
  BY DEF Typed, TypeOK
<1> HIDE DEF f
<1>2. /\ r \in Request /\ r.pc = "began" /\ r.phone = req[p].phone
      /\ r.code = req[p].code /\ r.stale = req[p].stale /\ r.found = f
  BY <1>1 DEF Request, PC
<1>3. req' = [req EXCEPT ![p] = r]
  BY DEF Begin, f
<1> HIDE DEF r
<1> QED
  BY <1>2, <1>3, AloneIs DEF f

\* A transaction that is tried again, or given up.
LEMMA ConflictIs ==
    ASSUME Typed, NEW p \in Proc, WriteConflict(p)
    PROVE  /\ Alone(p)
           /\ \/ req'[p] = Idle
              \/ /\ req'[p].pc = "cleared" /\ req'[p].phone = req[p].phone
                 /\ req'[p].code = req[p].code
<1>1. CASE Done(p)
  BY <1>1, DoneIs
<1>2. CASE /\ req[p].attempt < MaxAttempts
           /\ req' = [req EXCEPT ![p].pc = "cleared", ![p].attempt = @ + 1,
                                 ![p].found = FALSE, ![p].stale = FALSE]
  <2> DEFINE r == [req[p] EXCEPT !.pc = "cleared", !.attempt = @ + 1,
                                 !.found = FALSE, !.stale = FALSE]
  <2>1. req[p] \in Request
    BY DEF Typed, TypeOK
  <2>2. req[p].attempt + 1 \in 1..MaxAttempts
    BY <1>2, <2>1, BoundAssumption DEF Request
  <2>3. r \in Request /\ r.pc = "cleared" /\ r.phone = req[p].phone /\ r.code = req[p].code
    BY <2>1, <2>2 DEF Request, PC
  <2>4. req' = [req EXCEPT ![p] = r]
    BY <1>2
  <2> HIDE DEF r
  <2> QED
    BY <2>3, <2>4, AloneIs
<1> QED
  BY <1>1, <1>2 DEF WriteConflict

\* Outdated touches nothing but the snapshot.
LEMMA OutdatedIs ==
    ASSUME NEW r \in Request, NEW ph
    PROVE  LET s == Outdated(r, ph) IN
           /\ s \in Request
           /\ s.pc = r.pc /\ s.phone = r.phone /\ s.code = r.code /\ s.found = r.found
           /\ r.stale => s.stale
           /\ r.phone = ph /\ r.pc = "began" => s.stale
<1> DEFINE s == [r EXCEPT !.stale = TRUE]
<1>1. /\ s \in Request /\ s.pc = r.pc /\ s.phone = r.phone /\ s.code = r.code
      /\ s.found = r.found /\ s.stale
  BY DEF Request
<1> HIDE DEF s
<1>2. Outdated(r, ph) = IF r.phone = ph /\ r.pc = "began" THEN s ELSE r
  BY DEF Outdated, s
<1> QED
  BY <1>1, <1>2

\* Every request but p's keeps all but its snapshot.
Others(p, ph) ==
    /\ req' \in [Proc -> Request]
    /\ \A q \in Proc \ {p} :
          /\ req'[q].pc = req[q].pc /\ req'[q].phone = req[q].phone
          /\ req'[q].code = req[q].code /\ req'[q].found = req[q].found
          /\ req[q].stale => req'[q].stale
          /\ req[q].phone = ph /\ req[q].pc = "began" => req'[q].stale

LEMMA CommitIs ==
    ASSUME Typed, NEW p \in Proc, Commit(p)
    PROVE  /\ Others(p, req[p].phone)
           /\ req'[p].pc = "loggedIn" /\ req'[p].phone = req[p].phone
           /\ req'[p].code = req[p].code
<1> DEFINE ph == req[p].phone
           r == [Idle EXCEPT !.pc = "loggedIn", !.phone = ph, !.code = req[p].code]
<1>1. req \in [Proc -> Request]
  BY DEF Typed, TypeOK
<1>2. r \in Request /\ r.pc = "loggedIn" /\ r.phone = ph /\ r.code = req[p].code
  BY <1>1, IdleIs DEF Request, PC
<1>3. req' = [q \in Proc |-> IF q # p THEN Outdated(req[q], ph) ELSE r]
  BY DEF Commit
<1> HIDE DEF r, ph
<1>4. req'[p] = r /\ \A q \in Proc \ {p} : req'[q] = Outdated(req[q], ph)
  BY <1>3
<1>5. \A q \in Proc : req'[q] \in Request
  BY <1>1, <1>2, <1>3, OutdatedIs
<1>6. req' \in [Proc -> Request]
  BY <1>3, <1>5
<1> QED
  BY <1>1, <1>2, <1>4, <1>6, OutdatedIs DEF Others, ph

LEMMA ChangesIs ==
    ASSUME Typed, NEW ph \in Phone, AccountChanges(ph), NEW p
    PROVE  Others(p, ph)
           /\ \A q \in Proc : /\ req'[q].pc = req[q].pc /\ req'[q].phone = req[q].phone
                              /\ req'[q].code = req[q].code /\ req'[q].found = req[q].found
                              /\ req[q].stale => req'[q].stale
                              /\ req[q].phone = ph /\ req[q].pc = "began" => req'[q].stale
<1>1. req \in [Proc -> Request]
  BY DEF Typed, TypeOK
<1>2. req' = [q \in Proc |-> Outdated(req[q], ph)]
  BY DEF AccountChanges
<1>3. \A q \in Proc : req'[q] = Outdated(req[q], ph) /\ req'[q] \in Request
  BY <1>1, <1>2, OutdatedIs
<1>4. req' \in [Proc -> Request]
  BY <1>2, <1>3
<1> QED
  BY <1>1, <1>3, <1>4, OutdatedIs DEF Others

-----------------------------------------------------------------------------
(* Types.                                                                  *)

\* A command of Redis or Postgres that keeps the other variables in their types.
LEMMA Retyped ==
    ASSUME Typed,
           issued' \in Drawn, smsCode' \in [Phone -> Drawn], fail' \in [Phone -> 0..FailThreshold],
           expires' \in [Phone -> BOOLEAN], locked' \in [Phone -> BOOLEAN],
           row' \in [Phone -> {"NOT_FOUND", "ACTIVE", "FROZEN"}],
           created' \in [Phone -> Nat], released' \in [Phone -> Nat],
           tokens' \in [Drawn -> Nat], failures' \in [Phone -> Nat],
           req' \in [Proc -> Request],
           \A q \in Proc : req'[q].pc # "idle" => req'[q].phone \in Phone
    PROVE  Typed'
  BY DEF Typed, TypeOK

\* The request of p alone changes and the rest keeps its type.
LEMMA RetypedAlone ==
    ASSUME Typed, NEW p \in Proc, Alone(p),
           req'[p].pc # "idle" => req'[p].phone \in Phone,
           issued' \in Drawn, smsCode' \in [Phone -> Drawn], fail' \in [Phone -> 0..FailThreshold],
           expires' \in [Phone -> BOOLEAN], locked' \in [Phone -> BOOLEAN],
           tokens' \in [Drawn -> Nat], failures' \in [Phone -> Nat],
           UNCHANGED <<row, created, released>>
    PROVE  Typed'
<1>1. /\ row' \in [Phone -> {"NOT_FOUND", "ACTIVE", "FROZEN"}]
      /\ created' \in [Phone -> Nat] /\ released' \in [Phone -> Nat]
  BY DEF Typed, TypeOK
<1>2. \A q \in Proc : req'[q].pc # "idle" => req'[q].phone \in Phone
  BY DEF Typed, Alone
<1> QED
  BY <1>1, <1>2, Retyped DEF Alone

\* Nothing but the request of p changes.
LEMMA RetypedRequest ==
    ASSUME Typed, NEW p \in Proc, Alone(p),
           req'[p].pc # "idle" => req'[p].phone \in Phone,
           UNCHANGED <<keys, tables, failures>>
    PROVE  Typed'
<1>1. UNCHANGED <<issued, smsCode, fail, expires, locked, row, created, released, tokens, failures>>
  BY DEF keys, tables
<1> QED
  BY <1>1, RetypedAlone DEF Typed, TypeOK

\* No request changes.
LEMMA RetypedKeys ==
    ASSUME Typed, NEW ph \in Phone,
           \/ RequestSmsCode(ph) \/ CodeExpires(ph) \/ FailExpires(ph) \/ LockExpires(ph)
    PROVE  Typed'
<1>1. req' = req /\ UNCHANGED <<row, created, released, tokens>>
  BY DEF RequestSmsCode, CodeExpires, FailExpires, LockExpires, tables
<1>2. /\ issued' \in Drawn /\ smsCode' \in [Phone -> Drawn]
  <2>1. CASE RequestSmsCode(ph)
    <3>1. issued + 1 \in Drawn
      BY <2>1, BoundAssumption DEF RequestSmsCode, Typed, TypeOK, Drawn
    <3> QED
      BY <2>1, <3>1 DEF RequestSmsCode, Typed, TypeOK
  <2>2. CASE CodeExpires(ph)
    BY <2>2, BoundAssumption DEF CodeExpires, Typed, TypeOK, Drawn
  <2>3. CASE FailExpires(ph) \/ LockExpires(ph)
    BY <2>3 DEF FailExpires, LockExpires, Typed, TypeOK
  <2> QED
    BY <2>1, <2>2, <2>3
<1>3. fail' \in [Phone -> 0..FailThreshold] /\ expires' \in [Phone -> BOOLEAN]
  <2>1. 0 \in 0..FailThreshold
    BY BoundAssumption
  <2>2. CASE FailExpires(ph)
    BY <2>1, <2>2 DEF FailExpires, DropFail, Typed, TypeOK
  <2>3. CASE RequestSmsCode(ph) \/ CodeExpires(ph) \/ LockExpires(ph)
    BY <2>3 DEF RequestSmsCode, CodeExpires, LockExpires, Typed, TypeOK
  <2> QED
    BY <2>2, <2>3
<1>4. locked' \in [Phone -> BOOLEAN]
  BY DEF RequestSmsCode, CodeExpires, FailExpires, LockExpires, Typed, TypeOK
<1>5. failures' \in [Phone -> Nat]
  BY DEF RequestSmsCode, CodeExpires, FailExpires, LockExpires, Typed, TypeOK
<1> QED
  BY <1>1, <1>2, <1>3, <1>4, <1>5 DEF Typed, TypeOK

\* What INCR leaves.
LEMMA IncrIs ==
    ASSUME Typed, NEW p \in Proc, Incr(p)
    PROVE  LET ph == req[p].phone IN
           /\ Alone(p) /\ ph \in Phone /\ req[p].pc = "failing"
           /\ fail' \in [Phone -> 0..FailThreshold]
           /\ \A other \in Phone \ {ph} : fail'[other] = fail[other]
           /\ UNCHANGED <<issued, smsCode, expires, locked, row, created, released, tokens>>
           /\ \/ /\ req'[p].pc = "locking" /\ req'[p].phone = ph
                 /\ failures' = failures /\ fail'[ph] = FailThreshold
              \/ /\ failures' = [failures EXCEPT ![ph] = @ + 1]
                 /\ fail[ph] + 1 < FailThreshold /\ fail'[ph] = fail[ph] + 1
                 /\ \/ req'[p] = Idle
                    \/ req'[p].pc = "expiring" /\ req'[p].phone = ph
<1> DEFINE ph == req[p].phone
           count == IF fail[ph] < FailThreshold THEN fail[ph] + 1 ELSE FailThreshold
<1>1. ph \in Phone /\ req[p].pc = "failing"
  BY DEF Incr, Typed
<1>2. fail[ph] \in 0..FailThreshold /\ count \in 0..FailThreshold
  BY <1>1, BoundAssumption DEF Typed, TypeOK
<1>3. fail' = [fail EXCEPT ![ph] = count]
  BY DEF Incr
<1>4. count # FailThreshold => fail[ph] + 1 < FailThreshold /\ count = fail[ph] + 1
  BY <1>2, BoundAssumption
<1>5. UNCHANGED <<issued, smsCode, expires, locked, row, created, released, tokens>>
  BY DEF Incr, tables
<1>6. \/ /\ count = FailThreshold /\ Goto(p, "locking") /\ failures' = failures
      \/ /\ count # FailThreshold /\ failures' = [failures EXCEPT ![ph] = @ + 1]
         /\ Goto(p, "expiring") \/ Done(p)
  BY DEF Incr, Recorded
<1> HIDE DEF count
<1>7. /\ fail' \in [Phone -> 0..FailThreshold] /\ fail'[ph] = count
      /\ \A other \in Phone \ {ph} : fail'[other] = fail[other]
  BY <1>1, <1>2, <1>3 DEF Typed, TypeOK
<1>8. CASE count = FailThreshold /\ Goto(p, "locking") /\ failures' = failures
  <2>1. Alone(p) /\ req'[p].pc = "locking" /\ req'[p].phone = ph
    BY <1>8, GotoIs DEF PC
  <2> QED
    BY <1>1, <1>5, <1>7, <1>8, <2>1
<1>9. CASE /\ count # FailThreshold /\ failures' = [failures EXCEPT ![ph] = @ + 1]
           /\ Goto(p, "expiring") \/ Done(p)
  <2>1. Alone(p) /\ (req'[p] = Idle \/ (req'[p].pc = "expiring" /\ req'[p].phone = ph))
    BY <1>9, GotoIs, DoneIs DEF PC
  <2> QED
    BY <1>1, <1>4, <1>5, <1>7, <1>9, <2>1
<1> QED
  BY <1>6, <1>8, <1>9

LEMMA SetLockIs ==
    ASSUME Typed, NEW p \in Proc, SetLock(p)
    PROVE  LET ph == req[p].phone IN
           /\ Alone(p) /\ ph \in Phone /\ req[p].pc = "locking"
           /\ req'[p].pc = "resetting" /\ req'[p].phone = ph
           /\ locked' = [locked EXCEPT ![ph] = TRUE]
           /\ failures' = [failures EXCEPT ![ph] = @ + 1]
           /\ UNCHANGED <<issued, smsCode, fail, expires, row, created, released, tokens>>
  BY GotoIs DEF SetLock, Recorded, tables, Typed, PC

LEMMA TypedStep ==
    ASSUME Typed, [Next]_vars
    PROVE  Typed'
<1>1. ASSUME NEW p \in Proc, NEW ph \in Phone, NEW c \in 0..issued, AssertNotLocked(p, ph, c)
      PROVE  Typed'
  BY <1>1, ArriveIs, RetypedRequest DEF AssertNotLocked
<1>2. ASSUME NEW p \in Proc, Inspect(p) PROVE Typed'
  BY <1>2, InspectIs, IdleIs, RetypedRequest DEF Inspect, Typed
<1>3. ASSUME NEW p \in Proc, Verify(p) PROVE Typed'
  BY <1>3, VerifyIs, RetypedRequest DEF Verify, Typed
<1>4. ASSUME NEW p \in Proc, Clear(p) PROVE Typed'
  <2>1. Alone(p) /\ req'[p].phone \in Phone
    BY <1>4, GotoIs DEF Clear, PC, Typed
  <2>2. smsCode' \in [Phone -> Drawn]
    BY <1>4, BoundAssumption DEF Clear, Typed, TypeOK, Drawn
  <2> QED
    BY <1>4, <2>1, <2>2, RetypedAlone DEF Clear, tables, Typed, TypeOK
<1>5. ASSUME NEW p \in Proc, Begin(p) PROVE Typed'
  BY <1>5, BeginIs, RetypedRequest DEF Begin, Typed
<1>6. ASSUME NEW p \in Proc, Write(p) PROVE Typed'
  BY <1>6, GotoIs, RetypedRequest DEF Write, Typed, PC
<1>7. ASSUME NEW p \in Proc, Commit(p) PROVE Typed'
  <2> DEFINE ph == req[p].phone
  <2>1. ph \in Phone
    BY <1>7 DEF Commit, Typed
  <2>2. row' \in [Phone -> {"NOT_FOUND", "ACTIVE", "FROZEN"}] /\ created' \in [Phone -> Nat]
    BY <1>7, <2>1 DEF Commit, Typed, TypeOK
  <2>3. \A q \in Proc : req'[q].pc # "idle" => req'[q].phone \in Phone
    BY <1>7, <2>1, CommitIs DEF Others, Typed
  <2>4. UNCHANGED <<issued, smsCode, fail, expires, locked, released, tokens, failures>>
    BY <1>7 DEF Commit, keys
  <2> QED
    BY <1>7, <2>2, <2>3, <2>4, CommitIs, Retyped DEF Others, Typed, TypeOK
<1>8. ASSUME NEW p \in Proc, WriteConflict(p) PROVE Typed'
  BY <1>8, ConflictIs, IdleIs, RetypedRequest DEF WriteConflict, Typed
<1>9. ASSUME NEW p \in Proc, UniqueViolation(p) \/ RequestDies(p) PROVE Typed'
  BY <1>9, DoneIs, IdleIs, RetypedRequest DEF UniqueViolation, RequestDies
<1>10. ASSUME NEW p \in Proc, Persist(p) PROVE Typed'
  <2>1. tokens' \in [Drawn -> Nat]
    BY <1>10 DEF Persist, Typed, TypeOK, Request
  <2>2. Alone(p) /\ req'[p].pc = "idle"
    BY <1>10, DoneIs, IdleIs DEF Persist
  <2> QED
    BY <1>10, <2>1, <2>2, RetypedAlone DEF Persist, keys, Typed, TypeOK
<1>11. ASSUME NEW p \in Proc, Incr(p) PROVE Typed'
  <2>1. failures' \in [Phone -> Nat]
    BY <1>11, IncrIs DEF Typed, TypeOK
  <2> QED
    BY <1>11, <2>1, IncrIs, IdleIs, RetypedAlone DEF Typed, TypeOK
<1>12. ASSUME NEW p \in Proc, Expire(p) PROVE Typed'
  <2>1. Alone(p) /\ req'[p].pc = "idle"
    BY <1>12, DoneIs, IdleIs DEF Expire
  <2>2. expires' \in [Phone -> BOOLEAN]
    BY <1>12 DEF Expire, Typed, TypeOK
  <2> QED
    BY <1>12, <2>1, <2>2, RetypedAlone DEF Expire, tables, Typed, TypeOK
<1>13. ASSUME NEW p \in Proc, SetLock(p) PROVE Typed'
  <2>1. /\ req[p].phone \in Phone /\ locked' = [locked EXCEPT ![req[p].phone] = TRUE]
        /\ failures' = [failures EXCEPT ![req[p].phone] = @ + 1]
    BY <1>13, SetLockIs
  <2>2. failures' \in [Phone -> Nat]
    BY <2>1 DEF Typed, TypeOK
  <2>3. locked' \in [Phone -> BOOLEAN]
    BY <2>1 DEF Typed, TypeOK
  <2> QED
    BY <1>13, <2>2, <2>3, SetLockIs, RetypedAlone DEF Typed, TypeOK
<1>14. ASSUME NEW p \in Proc, Reset(p) PROVE Typed'
  <2>1. Alone(p) /\ req'[p].pc = "idle"
    BY <1>14, DoneIs, IdleIs DEF Reset
  <2>2. fail' \in [Phone -> 0..FailThreshold] /\ expires' \in [Phone -> BOOLEAN]
    <3>1. 0 \in 0..FailThreshold
      BY BoundAssumption
    <3> QED
      BY <1>14, <3>1 DEF Reset, DropFail, Typed, TypeOK
  <2> QED
    BY <1>14, <2>1, <2>2, RetypedAlone DEF Reset, tables, Typed, TypeOK
<1>15. ASSUME NEW ph \in Phone, AccountChanges(ph) PROVE Typed'
  <2>1. /\ row' \in [Phone -> {"NOT_FOUND", "ACTIVE", "FROZEN"}]
        /\ released' \in [Phone -> Nat]
    BY <1>15 DEF AccountChanges, Typed, TypeOK
  <2>2. /\ req' \in [Proc -> Request]
        /\ \A q \in Proc : req'[q].pc # "idle" => req'[q].phone \in Phone
    BY <1>15, ChangesIs DEF Others, Typed
  <2>3. UNCHANGED <<issued, smsCode, fail, expires, locked, created, tokens, failures>>
    BY <1>15 DEF AccountChanges, keys
  <2> QED
    BY <2>1, <2>2, <2>3, Retyped DEF Typed, TypeOK
<1>16. CASE UNCHANGED vars
  BY <1>16 DEF vars, keys, tables, Typed, TypeOK
<1> QED
  BY <1>1, <1>2, <1>3, <1>4, <1>5, <1>6, <1>7, <1>8, <1>9, <1>10, <1>11, <1>12, <1>13, <1>14,
     <1>15, <1>16, RetypedKeys DEF Next, Step

LEMMA TypedInit == Init => Typed
<1> SUFFICES ASSUME Init
             PROVE  Typed
  OBVIOUS
<1>1. 0 \in Drawn /\ 0 \in 0..FailThreshold
  BY BoundAssumption DEF Drawn
<1>2. TypeOK
  BY <1>1, IdleIs DEF Init, TypeOK
<1> QED
  BY <1>2, IdleIs DEF Init, Typed

LEMMA TypedHolds == Spec => []Typed
<1>1. Init => Typed
  BY TypedInit
<1>2. Typed /\ [Next]_vars => Typed'
  BY TypedStep
<1> QED
  BY <1>1, <1>2, PTL DEF Spec

\* Values stay in their types: the counter never passes the threshold, a request tries its
\* transaction no more often than it may, and the codes stay below the bound.
THEOREM SignInTypesHold == Spec => []TypeOK
<1>1. Typed => TypeOK
  BY DEF Typed
<1> QED
  BY <1>1, TypedHolds, PTL

-----------------------------------------------------------------------------
(* Every account is announced once.                                        *)

\* A transaction that found nothing and may still commit is right: a commit for that
\* phone makes its snapshot stale, and of two that have written one waits.
Snapshots ==
    /\ \A p \in Proc : /\ ~req[p].found
                       /\ \/ req[p].pc = "written"
                          \/ req[p].pc = "began" /\ ~req[p].stale
                       => row[req[p].phone] = "NOT_FOUND"
    /\ \A p, q \in Proc : req[p].pc = "written" /\ req[q].pc = "written" /\ p # q
                          => req[p].phone # req[q].phone

LEMMA SnapshotsAlone ==
    ASSUME Snapshots, NEW p \in Proc, Alone(p), req'[p].pc \notin {"began", "written"}, row' = row
    PROVE  Snapshots'
<1>1. \A q \in Proc : q # p => req'[q] = req[q]
  BY DEF Alone
<1> QED
  BY <1>1 DEF Snapshots

\* What the steps leave that are neither of a transaction nor of the account.
LEMMA OtherSteps ==
    ASSUME Typed, NEW p \in Proc,
           \/ \E ph \in Phone, c \in 0..issued : AssertNotLocked(p, ph, c)
           \/ Inspect(p) \/ Verify(p) \/ Clear(p) \/ WriteConflict(p) \/ UniqueViolation(p)
           \/ Persist(p) \/ Incr(p) \/ Expire(p) \/ SetLock(p) \/ Reset(p) \/ RequestDies(p)
    PROVE  /\ Alone(p) /\ req'[p].pc \notin {"began", "written"}
           /\ UNCHANGED <<row, created, released>>
<1>1. CASE \E ph \in Phone, c \in 0..issued : AssertNotLocked(p, ph, c)
  BY <1>1, ArriveIs DEF AssertNotLocked, tables
<1>2. CASE Inspect(p)
  BY <1>2, InspectIs, IdleIs DEF Inspect, tables
<1>3. CASE Verify(p)
  BY <1>3, VerifyIs DEF Verify, tables
<1>4. CASE Clear(p)
  BY <1>4, GotoIs DEF Clear, tables, PC
<1>5. CASE WriteConflict(p)
  BY <1>5, ConflictIs, IdleIs DEF WriteConflict, tables
<1>6. CASE UniqueViolation(p) \/ Persist(p) \/ Expire(p) \/ Reset(p) \/ RequestDies(p)
  BY <1>6, DoneIs, IdleIs DEF UniqueViolation, Persist, Expire, Reset, RequestDies, tables
<1>7. CASE Incr(p)
  BY <1>7, IncrIs, IdleIs
<1>8. CASE SetLock(p)
  BY <1>8, SetLockIs
<1> QED
  BY <1>1, <1>2, <1>3, <1>4, <1>5, <1>6, <1>7, <1>8

Announced == Snapshots /\ RegistrationIsAnnouncedOnce

LEMMA AnnouncedByCommit ==
    ASSUME Typed, Announced, NEW p \in Proc, Commit(p)
    PROVE  Announced'
<1> DEFINE ph == req[p].phone
<1>1. ph \in Phone /\ req[p].pc = "written"
  BY DEF Commit, Typed
<1>2. /\ Others(p, ph) /\ req'[p].pc = "loggedIn" /\ released' = released
      /\ \/ req[p].found /\ UNCHANGED <<row, created>>
         \/ /\ ~req[p].found /\ row' = [row EXCEPT ![ph] = "ACTIVE"]
            /\ created' = [created EXCEPT ![ph] = @ + 1]
  BY CommitIs DEF Commit
<1>3. Snapshots'
  <2>1. ASSUME NEW q \in Proc, ~req'[q].found,
               req'[q].pc = "written" \/ (req'[q].pc = "began" /\ ~req'[q].stale)
        PROVE  row'[req'[q].phone] = "NOT_FOUND"
    <3>1. q # p
      BY <1>2, <2>1
    <3>2. /\ req'[q].pc = req[q].pc /\ req'[q].phone = req[q].phone /\ ~req[q].found
          /\ ~req'[q].stale => ~req[q].stale /\ ~(req[q].phone = ph /\ req[q].pc = "began")
      BY <1>2, <2>1, <3>1 DEF Others
    <3>3. row[req[q].phone] = "NOT_FOUND"
      BY <2>1, <3>2 DEF Announced, Snapshots
    <3>4. req[q].phone # ph
      BY <1>1, <2>1, <3>1, <3>2 DEF Announced, Snapshots
    <3>5. req[q].phone \in Phone
      BY <2>1, <3>2 DEF Typed
    <3>6. row'[req[q].phone] = row[req[q].phone]
      BY <1>1, <1>2, <3>4, <3>5 DEF Typed, TypeOK
    <3> QED
      BY <3>2, <3>3, <3>6
  <2>2. ASSUME NEW q \in Proc, NEW s \in Proc, q # s, req'[q].pc = "written", req'[s].pc = "written"
        PROVE  req'[q].phone # req'[s].phone
    BY <1>2, <2>2 DEF Others, Announced, Snapshots
  <2> QED
    BY <2>1, <2>2 DEF Snapshots
<1>4. RegistrationIsAnnouncedOnce'
  <2>1. CASE UNCHANGED <<row, created>>
    BY <1>2, <2>1 DEF Announced, RegistrationIsAnnouncedOnce
  <2>2. CASE /\ ~req[p].found /\ row' = [row EXCEPT ![ph] = "ACTIVE"]
             /\ created' = [created EXCEPT ![ph] = @ + 1]
    <3>1. row[ph] = "NOT_FOUND"
      BY <1>1, <2>2 DEF Announced, Snapshots
    <3>2. \A other \in Phone : /\ row'[other] = IF other = ph THEN "ACTIVE" ELSE row[other]
                               /\ created'[other] = IF other = ph THEN created[ph] + 1 ELSE created[other]
      BY <1>1, <2>2 DEF Typed, TypeOK
    <3> HIDE DEF ph
    <3> QED
      BY <1>1, <1>2, <3>1, <3>2 DEF Announced, RegistrationIsAnnouncedOnce, Typed, TypeOK
  <2> QED
    BY <1>2, <2>1, <2>2
<1> QED
  BY <1>3, <1>4 DEF Announced

LEMMA AnnouncedByChange ==
    ASSUME Typed, Announced, NEW ph \in Phone, AccountChanges(ph)
    PROVE  Announced'
<1>1. /\ ~Written(ph) /\ created' = created
      /\ \/ row[ph] # "NOT_FOUND" /\ row' = [row EXCEPT ![ph] = "FROZEN"] /\ released' = released
         \/ row[ph] # "NOT_FOUND" /\ row' = [row EXCEPT ![ph] = "ACTIVE"] /\ released' = released
         \/ /\ row[ph] # "NOT_FOUND" /\ row' = [row EXCEPT ![ph] = "NOT_FOUND"]
            /\ released' = [released EXCEPT ![ph] = @ + 1]
  BY DEF AccountChanges
<1>2. \A q \in Proc : /\ req'[q].pc = req[q].pc /\ req'[q].phone = req[q].phone
                      /\ req'[q].found = req[q].found
                      /\ req[q].stale => req'[q].stale
                      /\ req[q].phone = ph /\ req[q].pc = "began" => req'[q].stale
  BY ChangesIs
<1>3. Snapshots'
  <2>1. ASSUME NEW q \in Proc, ~req'[q].found,
               req'[q].pc = "written" \/ (req'[q].pc = "began" /\ ~req'[q].stale)
        PROVE  row'[req'[q].phone] = "NOT_FOUND"
    <3>1. req'[q].phone = req[q].phone /\ row[req[q].phone] = "NOT_FOUND"
      BY <1>2, <2>1 DEF Announced, Snapshots
    <3>2. req[q].phone # ph
      BY <1>1, <1>2, <2>1 DEF Written
    <3>3. req[q].phone \in Phone
      BY <1>2, <2>1 DEF Typed
    <3>4. row'[req[q].phone] = row[req[q].phone]
      BY <1>1, <3>2, <3>3 DEF Typed, TypeOK
    <3> QED
      BY <3>1, <3>4
  <2>2. ASSUME NEW q \in Proc, NEW s \in Proc, q # s, req'[q].pc = "written", req'[s].pc = "written"
        PROVE  req'[q].phone # req'[s].phone
    BY <1>2, <2>2 DEF Announced, Snapshots
  <2> QED
    BY <2>1, <2>2 DEF Snapshots
<1>4. RegistrationIsAnnouncedOnce'
  <2>1. \A other \in Phone \ {ph} : row'[other] = row[other] /\ released'[other] = released[other]
    BY <1>1 DEF Typed, TypeOK
  <2>2. released'[ph] + (IF row'[ph] = "NOT_FOUND" THEN 0 ELSE 1) = released[ph] + 1
    <3>1. CASE row' = [row EXCEPT ![ph] = "NOT_FOUND"] /\ released' = [released EXCEPT ![ph] = @ + 1]
      BY <3>1 DEF Typed, TypeOK
    <3>2. CASE released' = released /\ row' = [row EXCEPT ![ph] = "FROZEN"]
      BY <3>2 DEF Typed, TypeOK
    <3>3. CASE released' = released /\ row' = [row EXCEPT ![ph] = "ACTIVE"]
      BY <3>3 DEF Typed, TypeOK
    <3> QED
      BY <1>1, <3>1, <3>2, <3>3
  <2>3. created[ph] = released[ph] + 1
    BY <1>1 DEF Announced, RegistrationIsAnnouncedOnce
  <2> QED
    BY <1>1, <2>1, <2>2, <2>3 DEF Announced, RegistrationIsAnnouncedOnce
<1> QED
  BY <1>3, <1>4 DEF Announced

LEMMA AnnouncedStep ==
    ASSUME Typed, Announced, [Next]_vars
    PROVE  Announced'
<1>1. ASSUME NEW p \in Proc,
             \/ \E ph \in Phone, c \in 0..issued : AssertNotLocked(p, ph, c)
             \/ Inspect(p) \/ Verify(p) \/ Clear(p) \/ WriteConflict(p) \/ UniqueViolation(p)
             \/ Persist(p) \/ Incr(p) \/ Expire(p) \/ SetLock(p) \/ Reset(p) \/ RequestDies(p)
      PROVE  Announced'
  <2>1. Alone(p) /\ req'[p].pc \notin {"began", "written"} /\ UNCHANGED <<row, created, released>>
    BY <1>1, OtherSteps
  <2> QED
    BY <2>1, SnapshotsAlone DEF Announced, RegistrationIsAnnouncedOnce
<1>2. ASSUME NEW p \in Proc, Begin(p) PROVE Announced'
  <2>1. UNCHANGED <<row, created, released>>
    BY <1>2 DEF Begin, tables
  <2>2. \A q \in Proc : q # p => req'[q] = req[q]
    BY <1>2, BeginIs DEF Alone
  <2>3. Snapshots'
    <3>1. ASSUME NEW q \in Proc, ~req'[q].found,
                 req'[q].pc = "written" \/ (req'[q].pc = "began" /\ ~req'[q].stale)
          PROVE  row'[req'[q].phone] = "NOT_FOUND"
      <4>1. CASE q = p
        BY <1>2, <2>1, <3>1, <4>1, BeginIs
      <4>2. CASE q # p
        BY <2>1, <2>2, <3>1, <4>2 DEF Announced, Snapshots
      <4> QED
        BY <4>1, <4>2
    <3>2. req'[p].pc = "began"
      BY <1>2, BeginIs
    <3>3. ASSUME NEW q \in Proc, NEW s \in Proc, q # s, req'[q].pc = "written", req'[s].pc = "written"
          PROVE  req'[q].phone # req'[s].phone
      <4>1. q # p /\ s # p
        BY <3>2, <3>3
      <4> QED
        BY <2>2, <3>3, <4>1 DEF Announced, Snapshots
    <3> QED
      BY <3>1, <3>3 DEF Snapshots
  <2> QED
    BY <2>1, <2>3 DEF Announced, RegistrationIsAnnouncedOnce
<1>3. ASSUME NEW p \in Proc, Write(p) PROVE Announced'
  <2>1. UNCHANGED <<row, created, released>> /\ req[p].pc = "began" /\ ~req[p].stale
    BY <1>3 DEF Write, tables
  <2>2. \A q \in Proc : q # p => req'[q] = req[q] /\ ~(req[q].pc = "written" /\ req[q].phone = req[p].phone)
    BY <1>3, GotoIs DEF Alone, Write, Written, PC
  <2>3. req'[p].pc = "written" /\ req'[p].phone = req[p].phone /\ req'[p].found = req[p].found
    BY <1>3, GotoIs DEF Write, PC
  <2>4. Snapshots'
    BY <2>1, <2>2, <2>3 DEF Announced, Snapshots
  <2> QED
    BY <2>1, <2>4 DEF Announced, RegistrationIsAnnouncedOnce
<1>4. ASSUME NEW ph \in Phone,
             RequestSmsCode(ph) \/ CodeExpires(ph) \/ FailExpires(ph) \/ LockExpires(ph)
      PROVE  Announced'
  BY <1>4 DEF RequestSmsCode, CodeExpires, FailExpires, LockExpires, tables,
              Announced, Snapshots, RegistrationIsAnnouncedOnce
<1>5. CASE UNCHANGED vars
  BY <1>5 DEF vars, tables, Announced, Snapshots, RegistrationIsAnnouncedOnce
<1> QED
  BY <1>1, <1>2, <1>3, <1>4, <1>5, AnnouncedByCommit, AnnouncedByChange DEF Next, Step

\* Every account was announced by one event, however many registrations of its phone
\* race, are rolled back and tried again.
THEOREM RegistrationsAnnounced == Spec => []RegistrationIsAnnouncedOnce
<1>1. Init => Announced
  BY IdleIs DEF Init, Announced, Snapshots, RegistrationIsAnnouncedOnce
<1>2. Typed /\ Announced /\ [Next]_vars => Announced'
  BY AnnouncedStep
<1>3. Announced => RegistrationIsAnnouncedOnce
  BY DEF Announced
<1> QED
  BY <1>1, <1>2, <1>3, TypedHolds, PTL DEF Spec

-----------------------------------------------------------------------------
(* A code that signed somebody in is dead.                                 *)

\* Where the digits of a code still are: the key of one phone at most, and no phone any
\* more once a request has cleared the code it verified.
Codes ==
    /\ \A ph \in Phone : smsCode[ph] <= issued
    /\ \A a, b \in Phone : smsCode[a] = smsCode[b] /\ smsCode[a] # 0 => a = b
    /\ \A ph \in Phone : smsCode[ph] # 0 => tokens[smsCode[ph]] = 0
    /\ \A c \in Drawn : c > issued => tokens[c] = 0
    /\ \A p \in Proc : req[p].pc \in {"verified", "cleared", "began", "written", "loggedIn"} =>
          /\ req[p].code \in 1..issued
          /\ \A ph \in Phone : smsCode[ph] = req[p].code => req[p].pc = "verified" /\ ph = req[p].phone

\* Only the request of p moves, and not with the right code.
LEMMA CodesAlone ==
    ASSUME Codes, NEW p \in Proc, Alone(p), UNCHANGED <<issued, smsCode, tokens>>,
           req'[p].pc \notin {"verified", "cleared", "began", "written", "loggedIn"}
    PROVE  Codes'
<1>1. \A q \in Proc : q # p => req'[q] = req[q]
  BY DEF Alone
<1> QED
  BY <1>1 DEF Codes

\* A request that has cleared its code moves on with it.
LEMMA CodesOn ==
    ASSUME Codes, NEW p \in Proc, Alone(p), UNCHANGED <<issued, smsCode, tokens>>,
           req[p].pc \in {"cleared", "began", "written", "loggedIn"},
           req'[p].pc \in {"cleared", "began", "written", "loggedIn"}, req'[p].code = req[p].code
    PROVE  Codes'
<1>1. \A q \in Proc : q # p => req'[q] = req[q]
  BY DEF Alone
<1>2. req[p].code \in 1..issued /\ \A ph \in Phone : smsCode[ph] # req[p].code
  BY DEF Codes
<1> QED
  BY <1>1, <1>2 DEF Codes

LEMMA CodesByVerify ==
    ASSUME Typed, Codes, NEW p \in Proc, Verify(p)
    PROVE  Codes'
<1>1. Alone(p) /\ req'[p].phone = req[p].phone /\ UNCHANGED <<issued, smsCode, tokens>>
  BY VerifyIs DEF Verify, keys, tables
<1>2. CASE req'[p].pc = "failing"
  BY <1>1, <1>2, CodesAlone
<1>3. CASE /\ req'[p].pc = "verified" /\ req'[p].code = req[p].code
           /\ req[p].code # 0 /\ smsCode[req[p].phone] = req[p].code
  <2>1. \A q \in Proc : q # p => req'[q] = req[q]
    BY <1>1 DEF Alone
  <2>2. req[p].phone \in Phone
    BY DEF Verify, Typed
  <2>3. req[p].code \in 1..issued
    <3>1. smsCode[req[p].phone] \in Nat /\ issued \in Nat
      BY <2>2, BoundAssumption DEF Typed, TypeOK, Drawn
    <3> QED
      BY <1>3, <2>2, <3>1 DEF Codes
  <2>4. \A ph \in Phone : smsCode[ph] = req[p].code => ph = req[p].phone
    BY <1>3, <2>2 DEF Codes
  <2> QED
    BY <1>1, <1>3, <2>1, <2>3, <2>4 DEF Codes
<1> QED
  BY <1>2, <1>3, VerifyIs

LEMMA CodesByClear ==
    ASSUME Typed, Codes, NEW p \in Proc, Clear(p)
    PROVE  Codes'
<1> DEFINE ph == req[p].phone
<1>1. /\ Alone(p) /\ req'[p].pc = "cleared" /\ req'[p].code = req[p].code
      /\ req[p].pc = "verified" /\ ph \in Phone
      /\ UNCHANGED <<issued, tokens>> /\ smsCode' = [smsCode EXCEPT ![ph] = 0]
  BY GotoIs DEF Clear, tables, PC, Typed
<1> HIDE DEF ph
<1>2. \A other \in Phone : smsCode'[other] = IF other = ph THEN 0 ELSE smsCode[other]
  BY <1>1 DEF Typed, TypeOK
<1>3. \A q \in Proc : q # p => req'[q] = req[q]
  BY <1>1 DEF Alone
<1>4. issued \in Nat
  BY BoundAssumption DEF Typed, TypeOK, Drawn
<1>5. /\ \A other \in Phone : smsCode'[other] <= issued'
      /\ \A a, b \in Phone : smsCode'[a] = smsCode'[b] /\ smsCode'[a] # 0 => a = b
      /\ \A other \in Phone : smsCode'[other] # 0 => tokens'[smsCode'[other]] = 0
      /\ \A c \in Drawn : c > issued' => tokens'[c] = 0
  BY <1>1, <1>2, <1>4 DEF Codes
<1>6. ASSUME NEW q \in Proc, req'[q].pc \in {"verified", "cleared", "began", "written", "loggedIn"}
      PROVE  /\ req'[q].code \in 1..issued'
             /\ \A other \in Phone : smsCode'[other] = req'[q].code
                                     => req'[q].pc = "verified" /\ other = req'[q].phone
  <2>1. CASE q = p
    <3>1. /\ req[p].code \in 1..issued
          /\ \A other \in Phone : smsCode[other] = req[p].code => other = ph
      BY <1>1 DEF Codes, ph
    <3> QED
      BY <1>1, <1>2, <2>1, <3>1
  <2>2. CASE q # p
    <3>1. req'[q] = req[q] /\ req[q].code \in 1..issued
      BY <1>3, <1>6, <2>2 DEF Codes
    <3>2. \A other \in Phone : smsCode'[other] = req[q].code => smsCode[other] = req[q].code
      BY <1>2, <3>1
    <3> QED
      BY <1>1, <1>6, <3>1, <3>2 DEF Codes
  <2> QED
    BY <2>1, <2>2
<1> QED
  BY <1>5, <1>6 DEF Codes

LEMMA CodesByPersist ==
    ASSUME Typed, Codes, NEW p \in Proc, Persist(p)
    PROVE  Codes'
<1> DEFINE c == req[p].code
<1>1. /\ Alone(p) /\ req'[p].pc = "idle" /\ UNCHANGED <<issued, smsCode>>
      /\ tokens' = [tokens EXCEPT ![c] = @ + 1]
  BY DoneIs, IdleIs DEF Persist, keys
<1>2. c \in 1..issued /\ \A ph \in Phone : smsCode[ph] # c
  BY DEF Persist, Codes
<1>3. issued \in Nat /\ c \in Drawn /\ \A ph \in Phone : smsCode[ph] \in Drawn
  BY BoundAssumption DEF Typed, TypeOK, Drawn, Request
<1> HIDE DEF c
<1>4. \A d \in Drawn : d # c => tokens'[d] = tokens[d]
  BY <1>1 DEF Typed, TypeOK
<1>5. /\ \A ph \in Phone : smsCode'[ph] # 0 => tokens'[smsCode'[ph]] = 0
      /\ \A d \in Drawn : d > issued' => tokens'[d] = 0
  BY <1>1, <1>2, <1>3, <1>4 DEF Codes, Drawn
<1>6. \A q \in Proc : q # p => req'[q] = req[q]
  BY <1>1 DEF Alone
<1> QED
  BY <1>1, <1>5, <1>6 DEF Codes

LEMMA CodesByRequest ==
    ASSUME Typed, Codes, NEW ph \in Phone, RequestSmsCode(ph)
    PROVE  Codes'
<1>1. /\ issued' = issued + 1 /\ UNCHANGED <<tokens, req>> /\ issued \in Nat
      /\ issued + 1 \in Drawn
  BY BoundAssumption DEF RequestSmsCode, tables, Typed, TypeOK, Drawn
<1>2. \A other \in Phone : smsCode'[other] = IF other = ph THEN issued + 1 ELSE smsCode[other]
  BY DEF RequestSmsCode, Typed, TypeOK
<1>3. \A other \in Phone : smsCode[other] \in Nat /\ smsCode[other] <= issued
  BY DEF Codes, Typed, TypeOK, Drawn
<1>4. \A c \in Drawn : c \in Nat
  BY DEF Drawn
<1>5. /\ \A other \in Phone : smsCode'[other] <= issued'
      /\ \A a, b \in Phone : smsCode'[a] = smsCode'[b] /\ smsCode'[a] # 0 => a = b
      /\ \A c \in Drawn : c > issued' => tokens'[c] = 0
  BY <1>1, <1>2, <1>3, <1>4 DEF Codes
<1>6. \A other \in Phone : smsCode'[other] # 0 => tokens'[smsCode'[other]] = 0
  BY <1>1, <1>2 DEF Codes
<1>7. ASSUME NEW q \in Proc, req'[q].pc \in {"verified", "cleared", "began", "written", "loggedIn"}
      PROVE  /\ req'[q].code \in 1..issued'
             /\ \A other \in Phone : smsCode'[other] = req'[q].code
                                     => req'[q].pc = "verified" /\ other = req'[q].phone
  <2>1. req[q].code \in 1..issued
    BY <1>1, <1>7 DEF Codes
  <2>2. \A other \in Phone : smsCode'[other] = req[q].code => smsCode[other] = req[q].code
    BY <1>1, <1>2, <2>1
  <2> QED
    BY <1>1, <1>7, <2>1, <2>2 DEF Codes
<1> QED
  BY <1>5, <1>6, <1>7 DEF Codes

LEMMA CodesStep ==
    ASSUME Typed, Codes, [Next]_vars
    PROVE  Codes'
<1>1. ASSUME NEW p \in Proc, NEW ph \in Phone, NEW c \in 0..issued, AssertNotLocked(p, ph, c)
      PROVE  Codes'
  BY <1>1, ArriveIs, CodesAlone DEF AssertNotLocked, keys, tables
<1>2. ASSUME NEW p \in Proc, Inspect(p) PROVE Codes'
  BY <1>2, InspectIs, IdleIs, CodesAlone DEF Inspect, keys, tables
<1>3. ASSUME NEW p \in Proc, Begin(p) PROVE Codes'
  BY <1>3, BeginIs, CodesOn DEF Begin, keys, tables
<1>4. ASSUME NEW p \in Proc, Write(p) PROVE Codes'
  BY <1>4, GotoIs, CodesOn DEF Write, keys, tables, PC
<1>5. ASSUME NEW p \in Proc, Commit(p) PROVE Codes'
  <2>1. /\ UNCHANGED <<issued, smsCode, tokens>> /\ req[p].pc = "written"
        /\ req'[p].pc = "loggedIn" /\ req'[p].code = req[p].code
    BY <1>5, CommitIs DEF Commit, keys
  <2>2. \A q \in Proc : q # p => /\ req'[q].pc = req[q].pc /\ req'[q].phone = req[q].phone
                                 /\ req'[q].code = req[q].code
    BY <1>5, CommitIs DEF Others
  <2>3. req[p].code \in 1..issued /\ \A ph \in Phone : smsCode[ph] # req[p].code
    BY <2>1 DEF Codes
  <2> QED
    BY <2>1, <2>2, <2>3 DEF Codes
<1>6. ASSUME NEW p \in Proc, WriteConflict(p) PROVE Codes'
  <2>1. UNCHANGED <<issued, smsCode, tokens>> /\ req[p].pc \in {"written", "began"}
    BY <1>6 DEF WriteConflict, keys, tables
  <2> QED
    BY <1>6, <2>1, ConflictIs, IdleIs, CodesAlone, CodesOn
<1>7. ASSUME NEW p \in Proc, UniqueViolation(p) \/ RequestDies(p) \/ Expire(p) \/ Reset(p) PROVE Codes'
  BY <1>7, DoneIs, IdleIs, CodesAlone DEF UniqueViolation, RequestDies, Expire, Reset, keys, tables
<1>8. ASSUME NEW p \in Proc, Incr(p) PROVE Codes'
  BY <1>8, IncrIs, IdleIs, CodesAlone
<1>9. ASSUME NEW p \in Proc, SetLock(p) PROVE Codes'
  BY <1>9, SetLockIs, CodesAlone
<1>10. ASSUME NEW ph \in Phone, AccountChanges(ph) PROVE Codes'
  <2>1. UNCHANGED <<issued, smsCode, tokens>>
    BY <1>10 DEF AccountChanges, keys
  <2>2. \A q \in Proc : /\ req'[q].pc = req[q].pc /\ req'[q].phone = req[q].phone
                        /\ req'[q].code = req[q].code
    BY <1>10, ChangesIs
  <2> QED
    BY <2>1, <2>2 DEF Codes
<1>11. ASSUME NEW ph \in Phone, CodeExpires(ph) PROVE Codes'
  <2>1. /\ UNCHANGED <<issued, tokens, req>> /\ issued \in Nat
        /\ \A other \in Phone : smsCode'[other] = IF other = ph THEN 0 ELSE smsCode[other]
    BY <1>11, BoundAssumption DEF CodeExpires, tables, Typed, TypeOK, Drawn
  <2> QED
    BY <2>1 DEF Codes
<1>12. ASSUME NEW ph \in Phone, FailExpires(ph) \/ LockExpires(ph) PROVE Codes'
  BY <1>12 DEF FailExpires, LockExpires, tables, Codes
<1>13. CASE UNCHANGED vars
  BY <1>13 DEF vars, keys, tables, Codes
<1> QED
  BY <1>1, <1>2, <1>3, <1>4, <1>5, <1>6, <1>7, <1>8, <1>9, <1>10, <1>11, <1>12, <1>13,
     CodesByVerify, CodesByClear, CodesByPersist, CodesByRequest DEF Next, Step

LEMMA CodesHold == Spec => []Codes
<1>1. Init => Codes
  <2> SUFFICES ASSUME Init
               PROVE  Codes
    OBVIOUS
  <2>1. /\ issued = 0 /\ \A ph \in Phone : smsCode[ph] = 0
        /\ \A c \in Drawn : tokens[c] = 0 /\ \A p \in Proc : req[p].pc = "idle"
    BY IdleIs DEF Init
  <2> QED
    BY <2>1, IdleIs DEF Init, Codes
<1>2. Typed /\ Codes /\ [Next]_vars => Codes'
  BY CodesStep
<1> QED
  BY <1>1, <1>2, TypedHolds, PTL DEF Spec

\* A request becomes verified by Verify alone.
LEMMA OnlyVerifyVerifies ==
    ASSUME Typed, [Next]_vars, NEW p \in Proc, req[p].pc = "inspected", req'[p].pc = "verified"
    PROVE  req[p].phone \in Phone /\ req[p].code # 0 /\ smsCode[req[p].phone] = req[p].code
<1>1. ASSUME NEW q \in Proc,
             \/ \E ph \in Phone, c \in 0..issued : AssertNotLocked(q, ph, c)
             \/ Inspect(q) \/ Clear(q) \/ WriteConflict(q) \/ UniqueViolation(q)
             \/ Persist(q) \/ Incr(q) \/ Expire(q) \/ SetLock(q) \/ Reset(q) \/ RequestDies(q)
             \/ Begin(q) \/ Write(q)
      PROVE  FALSE
  <2>1. Alone(q)
    BY <1>1, OtherSteps, BeginIs, GotoIs DEF Write, PC
  <2>2. p = q
    BY <2>1 DEF Alone
  <2>3. ~(Clear(q) \/ WriteConflict(q) \/ UniqueViolation(q) \/ Persist(q) \/ Incr(q) \/ Expire(q)
          \/ SetLock(q) \/ Reset(q) \/ Begin(q) \/ Write(q))
    BY <2>2 DEF Clear, WriteConflict, UniqueViolation, Persist, Incr, Expire, SetLock, Reset, Begin, Write
  <2> QED
    BY <1>1, <2>2, <2>3, ArriveIs, InspectIs, DoneIs, IdleIs DEF RequestDies
<1>2. ASSUME NEW q \in Proc, Commit(q) PROVE FALSE
  <2>1. p # q
    BY <1>2 DEF Commit
  <2> QED
    BY <1>2, <2>1, CommitIs DEF Others
<1>3. ASSUME NEW ph \in Phone, AccountChanges(ph) PROVE FALSE
  BY <1>3, ChangesIs
<1>4. req' # req
  OBVIOUS
<1>5. ~\E ph \in Phone : RequestSmsCode(ph) \/ CodeExpires(ph) \/ FailExpires(ph) \/ LockExpires(ph)
  BY <1>4 DEF RequestSmsCode, CodeExpires, FailExpires, LockExpires
<1>6. PICK q \in Proc : Verify(q)
  BY <1>1, <1>2, <1>3, <1>4, <1>5 DEF Next, Step, vars
<1>7. p = q
  BY <1>6, VerifyIs DEF Alone
<1> QED
  BY <1>6, <1>7, VerifyIs DEF Typed

\* A code that signed somebody in is never accepted again, in whatever order the requests
\* that carry it, and those for new codes, take their steps.
THEOREM UsedCodesAreDead == Spec => UsedCodeIsDead
<1>1. Typed /\ Codes /\ [Next]_vars =>
         \A p \in Proc : req[p].pc = "inspected" /\ req'[p].pc = "verified" => tokens[req[p].code] = 0
  <2> SUFFICES ASSUME Typed, Codes, [Next]_vars, NEW p \in Proc,
                      req[p].pc = "inspected", req'[p].pc = "verified"
               PROVE  tokens[req[p].code] = 0
    OBVIOUS
  <2> QED
    BY OnlyVerifyVerifies DEF Codes
<1>2. Typed /\ Codes /\ [Next]_vars =>
         [\A p \in Proc : req[p].pc = "inspected" /\ req'[p].pc = "verified" => tokens[req[p].code] = 0]_vars
  BY <1>1
<1> QED
  BY <1>2, TypedHolds, CodesHold, PTL DEF Spec, UsedCodeIsDead

-----------------------------------------------------------------------------
(* The failures are bounded.                                               *)

\* The requests for a phone that may still record a failure.
InFlight(ph) == {p \in Proc : /\ req[p].phone = ph
                              /\ req[p].pc \in {"unlocked", "inspected", "failing", "locking"}}

\* Without the lock the counter bounds the failures; under it, nobody joins those who may
\* still record one.  Who resets the counter has set the lock, and it is still there.
Locks ==
    /\ \A ph \in Phone : ~locked[ph] => failures[ph] <= fail[ph] /\ failures[ph] < FailThreshold
    /\ \A ph \in Phone : locked[ph] =>
          failures[ph] + Cardinality(InFlight(ph)) <= FailThreshold - 1 + Cardinality(Proc)
    /\ \A p \in Proc : req[p].pc = "resetting" => locked[req[p].phone]

LEMMA InFlightFinite ==
    ASSUME NEW ph
    PROVE  /\ IsFiniteSet(InFlight(ph))
           /\ Cardinality(InFlight(ph)) \in Nat /\ Cardinality(Proc) \in Nat
           /\ Cardinality(InFlight(ph)) <= Cardinality(Proc)
<1>1. InFlight(ph) \subseteq Proc
  BY DEF InFlight
<1> QED
  BY <1>1, ProcAssumption, FS_Subset, FS_CardinalityType

\* Fewer may record one.
LEMMA FewerInFlight ==
    ASSUME NEW ph, InFlight(ph)' \subseteq InFlight(ph)
    PROVE  /\ Cardinality(InFlight(ph)') \in Nat
           /\ Cardinality(InFlight(ph)') <= Cardinality(InFlight(ph))
  BY InFlightFinite, FS_Subset, FS_CardinalityType

\* One of those who may is through.
LEMMA OneLessInFlight ==
    ASSUME NEW ph, NEW p \in InFlight(ph), InFlight(ph)' \subseteq InFlight(ph) \ {p}
    PROVE  /\ Cardinality(InFlight(ph)') \in Nat
           /\ Cardinality(InFlight(ph)') + 1 <= Cardinality(InFlight(ph))
<1>1. /\ IsFiniteSet(InFlight(ph) \ {p})
      /\ Cardinality(InFlight(ph) \ {p}) = Cardinality(InFlight(ph)) - 1
  BY InFlightFinite, FS_RemoveElement
<1>2. /\ Cardinality(InFlight(ph)') \in Nat
      /\ Cardinality(InFlight(ph)') <= Cardinality(InFlight(ph) \ {p})
  BY <1>1, FS_Subset, FS_CardinalityType
<1> QED
  BY <1>1, <1>2, InFlightFinite

\* No failure is recorded and nobody comes in.
LEMMA LocksSame ==
    ASSUME Typed, Locks, UNCHANGED <<fail, locked, failures>>,
           \A ph \in Phone : locked[ph] => InFlight(ph)' \subseteq InFlight(ph),
           \A p \in Proc : req'[p].pc = "resetting" => locked[req'[p].phone]
    PROVE  Locks'
<1>1. ASSUME NEW ph \in Phone, locked[ph]
      PROVE  failures[ph] + Cardinality(InFlight(ph)') <= FailThreshold - 1 + Cardinality(Proc)
  <2>1. failures[ph] + Cardinality(InFlight(ph)) <= FailThreshold - 1 + Cardinality(Proc)
    BY <1>1 DEF Locks
  <2> QED
    BY <1>1, <2>1, FewerInFlight, InFlightFinite, BoundAssumption DEF Typed, TypeOK
<1> QED
  BY <1>1 DEF Locks

LEMMA LocksAlone ==
    ASSUME Typed, Locks, UNCHANGED <<fail, locked, failures>>, NEW p \in Proc, Alone(p),
           req'[p].pc \in {"unlocked", "inspected", "failing", "locking"} =>
              /\ req'[p].phone = req[p].phone
              /\ req[p].pc \in {"unlocked", "inspected", "failing", "locking"},
           req'[p].pc # "resetting"
    PROVE  Locks'
<1>1. \A q \in Proc : q # p => req'[q] = req[q]
  BY DEF Alone
<1>2. \A ph \in Phone : InFlight(ph)' \subseteq InFlight(ph)
  BY <1>1 DEF InFlight
<1>3. \A q \in Proc : req'[q].pc = "resetting" => locked[req'[q].phone]
  BY <1>1 DEF Locks
<1> QED
  BY <1>2, <1>3, LocksSame

LEMMA LocksByArrival ==
    ASSUME Typed, Locks, NEW p \in Proc, NEW ph \in Phone, NEW c \in 0..issued,
           AssertNotLocked(p, ph, c)
    PROVE  Locks'
<1>1. /\ ~locked[ph] /\ req'[p].pc = "unlocked" /\ req'[p].phone = ph
      /\ UNCHANGED <<fail, locked, failures>>
      /\ \A q \in Proc : q # p => req'[q] = req[q]
  BY ArriveIs DEF AssertNotLocked, keys, Alone
<1>2. \A other \in Phone : locked[other] => InFlight(other)' \subseteq InFlight(other)
  BY <1>1 DEF InFlight
<1>3. \A q \in Proc : req'[q].pc = "resetting" => locked[req'[q].phone]
  BY <1>1 DEF Locks
<1> QED
  BY <1>1, <1>2, <1>3, LocksSame

LEMMA LocksByIncr ==
    ASSUME Typed, Locks, NEW p \in Proc, Incr(p)
    PROVE  Locks'
<1> DEFINE ph == req[p].phone
<1>1. /\ Alone(p) /\ ph \in Phone /\ req[p].pc = "failing" /\ locked' = locked
      /\ \A other \in Phone \ {ph} : fail'[other] = fail[other]
      /\ fail' \in [Phone -> 0..FailThreshold]
  BY IncrIs
<1>2. \A q \in Proc : q # p => req'[q] = req[q]
  BY <1>1 DEF Alone
<1>3. \A q \in Proc : req'[q].pc = "resetting" => locked'[req'[q].phone]
  <2>1. req'[p].pc # "resetting"
    BY IncrIs, IdleIs
  <2> QED
    BY <1>1, <1>2, <2>1 DEF Locks
<1>4. \A other \in Phone : InFlight(other)' \subseteq InFlight(other)
  <2>1. req'[p].phone = ph \/ req'[p].pc = "idle"
    BY IncrIs, IdleIs
  <2> QED
    BY <1>1, <1>2, <2>1 DEF InFlight
<1> SUFFICES ASSUME NEW other \in Phone
             PROVE  /\ ~locked[other] => failures'[other] <= fail'[other] /\ failures'[other] < FailThreshold
                    /\ locked[other] => failures'[other] + Cardinality(InFlight(other)')
                                        <= FailThreshold - 1 + Cardinality(Proc)
  BY <1>1, <1>3 DEF Locks
<1>5. /\ ~locked[other] => failures[other] <= fail[other] /\ failures[other] < FailThreshold
      /\ locked[other] => failures[other] + Cardinality(InFlight(other))
                          <= FailThreshold - 1 + Cardinality(Proc)
  BY DEF Locks
<1>6. failures[other] \in Nat /\ fail[other] \in 0..FailThreshold /\ FailThreshold \in Nat
  BY BoundAssumption DEF Typed, TypeOK
<1>7. CASE failures'[other] = failures[other] /\ fail[other] <= fail'[other]
  <2>1. fail'[other] \in 0..FailThreshold
    BY <1>1
  <2> QED
    BY <1>4, <1>5, <1>6, <1>7, <2>1, FewerInFlight, InFlightFinite
<1>8. CASE /\ other = ph /\ failures'[other] = failures[other] + 1 /\ p \notin InFlight(other)'
           /\ fail[other] + 1 < FailThreshold /\ fail'[other] = fail[other] + 1
  <2>1. p \in InFlight(other)
    BY <1>1, <1>8 DEF InFlight
  <2>2. InFlight(other)' \subseteq InFlight(other) \ {p}
    BY <1>4, <1>8
  <2>3. /\ Cardinality(InFlight(other)') \in Nat
        /\ Cardinality(InFlight(other)') + 1 <= Cardinality(InFlight(other))
    BY <2>1, <2>2, OneLessInFlight
  <2> HIDE DEF ph
  <2> QED
    BY <1>5, <1>6, <1>8, <2>3, InFlightFinite
<1>9. CASE other # ph
  <2>1. fail'[other] = fail[other] /\ failures'[other] = failures[other]
    BY <1>1, <1>9, IncrIs DEF Typed, TypeOK
  <2> QED
    BY <1>6, <1>7, <2>1
<1>10. CASE other = ph
  <2>1. CASE failures' = failures /\ fail'[ph] = FailThreshold
    BY <1>6, <1>7, <1>10, <2>1
  <2>2. CASE /\ failures' = [failures EXCEPT ![ph] = @ + 1]
             /\ fail[ph] + 1 < FailThreshold /\ fail'[ph] = fail[ph] + 1
             /\ req'[p].pc \in {"idle", "expiring"}
    <3>1. failures'[ph] = failures[ph] + 1
      BY <1>1, <2>2 DEF Typed, TypeOK
    <3>2. p \notin InFlight(other)'
      BY <2>2 DEF InFlight
    <3> QED
      BY <1>8, <1>10, <2>2, <3>1, <3>2
  <2> QED
    BY <2>1, <2>2, IncrIs, IdleIs
<1> QED
  BY <1>9, <1>10

LEMMA LocksBySet ==
    ASSUME Typed, Locks, NEW p \in Proc, SetLock(p)
    PROVE  Locks'
<1> PICK ph \in Phone : ph = req[p].phone
  BY SetLockIs
<1>1. /\ Alone(p) /\ ph \in Phone /\ req[p].pc = "locking" /\ fail' = fail
      /\ req'[p].pc = "resetting" /\ req'[p].phone = ph
      /\ locked' = [locked EXCEPT ![ph] = TRUE]
      /\ failures' = [failures EXCEPT ![ph] = @ + 1]
  BY SetLockIs
<1>2. \A q \in Proc : q # p => req'[q] = req[q]
  BY <1>1 DEF Alone
<1>3. p \in InFlight(ph) /\ InFlight(ph)' \subseteq InFlight(ph) \ {p}
  BY <1>1, <1>2 DEF InFlight
<1>4. \A other \in Phone : InFlight(other)' \subseteq InFlight(other)
  BY <1>1, <1>2 DEF InFlight
<1>5. \A other \in Phone : /\ locked'[other] = IF other = ph THEN TRUE ELSE locked[other]
                           /\ failures'[other] = IF other = ph THEN failures[ph] + 1 ELSE failures[other]
  BY <1>1 DEF Typed, TypeOK
<1>6. \A q \in Proc : req'[q].pc = "resetting" => locked'[req'[q].phone]
  <2>1. ASSUME NEW q \in Proc, q # p, req[q].pc = "resetting"
        PROVE  locked'[req[q].phone]
    <3>1. req[q].phone \in Phone /\ locked[req[q].phone]
      BY <2>1 DEF Typed, Locks
    <3> QED
      BY <1>5, <3>1
  <2>2. locked'[req'[p].phone]
    BY <1>1, <1>5
  <2> TAKE q \in Proc
  <2>3. q # p => req'[q] = req[q]
    BY <1>2
  <2> QED
    BY <2>1, <2>2, <2>3
<1>7. \A other \in Phone : failures[other] \in Nat /\ fail[other] \in Nat /\ FailThreshold \in Nat
  BY BoundAssumption DEF Typed, TypeOK
<1>8. failures'[ph] + Cardinality(InFlight(ph)') <= FailThreshold - 1 + Cardinality(Proc)
  <2>1. /\ Cardinality(InFlight(ph)') \in Nat
        /\ Cardinality(InFlight(ph)') + 1 <= Cardinality(InFlight(ph))
    BY <1>3, OneLessInFlight
  <2>2. CASE locked[ph]
    <3>1. failures[ph] + Cardinality(InFlight(ph)) <= FailThreshold - 1 + Cardinality(Proc)
      BY <1>1, <2>2 DEF Locks
    <3> QED
      BY <1>1, <1>5, <1>7, <2>1, <3>1, InFlightFinite
  <2>3. CASE ~locked[ph]
    <3>1. failures[ph] < FailThreshold
      BY <1>1, <2>3 DEF Locks
    <3> QED
      BY <1>1, <1>5, <1>7, <2>1, <3>1, InFlightFinite
  <2> QED
    BY <2>2, <2>3
<1>9. ASSUME NEW other \in Phone, other # ph, locked[other]
      PROVE  failures[other] + Cardinality(InFlight(other)') <= FailThreshold - 1 + Cardinality(Proc)
  <2>1. failures[other] + Cardinality(InFlight(other)) <= FailThreshold - 1 + Cardinality(Proc)
    BY <1>9 DEF Locks
  <2> QED
    BY <1>4, <1>7, <1>9, <2>1, FewerInFlight, InFlightFinite
<1> QED
  BY <1>1, <1>5, <1>6, <1>8, <1>9 DEF Locks

LEMMA LocksByReset ==
    ASSUME Typed, Locks, NEW p \in Proc, Reset(p)
    PROVE  Locks'
<1> DEFINE ph == req[p].phone
<1>1. /\ Alone(p) /\ req'[p].pc = "idle" /\ ph \in Phone /\ locked[ph]
      /\ UNCHANGED <<locked, failures>> /\ fail' = [fail EXCEPT ![ph] = 0]
  BY DoneIs, IdleIs DEF Reset, DropFail, Typed, Locks
<1>2. \A q \in Proc : q # p => req'[q] = req[q]
  BY <1>1 DEF Alone
<1>3. \A other \in Phone : InFlight(other)' \subseteq InFlight(other)
  BY <1>1, <1>2 DEF InFlight
<1>4. \A q \in Proc : req'[q].pc = "resetting" => locked'[req'[q].phone]
  BY <1>1, <1>2 DEF Locks
<1>5. \A other \in Phone : ~locked[other] => fail'[other] = fail[other]
  BY <1>1 DEF Typed, TypeOK
<1>6. ASSUME NEW other \in Phone, locked[other]
      PROVE  failures[other] + Cardinality(InFlight(other)') <= FailThreshold - 1 + Cardinality(Proc)
  <2>1. failures[other] + Cardinality(InFlight(other)) <= FailThreshold - 1 + Cardinality(Proc)
    BY <1>6 DEF Locks
  <2> QED
    BY <1>3, <1>6, <2>1, FewerInFlight, InFlightFinite, BoundAssumption DEF Typed, TypeOK
<1> QED
  BY <1>1, <1>4, <1>5, <1>6 DEF Locks

LEMMA LocksByExpiry ==
    ASSUME Typed, Locks, NEW ph \in Phone, FailExpires(ph) \/ LockExpires(ph)
    PROVE  Locks'
<1>1. /\ req' = req /\ failures' = [failures EXCEPT ![ph] = 0]
      /\ \/ fail' = [fail EXCEPT ![ph] = 0] /\ locked' = locked
         \/ /\ fail' = fail /\ locked' = [locked EXCEPT ![ph] = FALSE]
            /\ ~\E p \in Proc : req[p].phone = ph /\ req[p].pc \in {"locking", "resetting"}
  BY DEF FailExpires, LockExpires, DropFail
<1>2. \A other \in Phone : InFlight(other)' = InFlight(other)
  BY <1>1 DEF InFlight
<1>3. \A p \in Proc : req'[p].pc = "resetting" => locked'[req'[p].phone]
  <2> SUFFICES ASSUME NEW p \in Proc, req[p].pc = "resetting"
               PROVE  locked'[req[p].phone]
    BY <1>1
  <2>1. req[p].phone \in Phone /\ locked[req[p].phone]
    BY DEF Typed, Locks
  <2> QED
    BY <1>1, <2>1 DEF Typed, TypeOK
<1> SUFFICES ASSUME NEW other \in Phone
             PROVE  /\ ~locked'[other] => failures'[other] <= fail'[other] /\ failures'[other] < FailThreshold
                    /\ locked'[other] => failures'[other] + Cardinality(InFlight(other)')
                                         <= FailThreshold - 1 + Cardinality(Proc)
  BY <1>3 DEF Locks
<1>4. CASE other # ph
  <2>1. /\ failures'[other] = failures[other] /\ fail'[other] = fail[other]
        /\ locked'[other] = locked[other]
    BY <1>1, <1>4 DEF Typed, TypeOK
  <2> QED
    BY <1>2, <2>1 DEF Locks
<1>5. CASE other = ph
  <2>1. failures'[ph] = 0 /\ fail'[ph] \in Nat
    BY <1>1 DEF Typed, TypeOK
  <2> QED
    BY <1>2, <1>5, <2>1, InFlightFinite, BoundAssumption
<1> QED
  BY <1>4, <1>5

LEMMA LocksStep ==
    ASSUME Typed, Locks, [Next]_vars
    PROVE  Locks'
<1>1. ASSUME NEW p \in Proc, Inspect(p) \/ Verify(p) \/ Clear(p) \/ Begin(p) \/ Write(p) PROVE Locks'
  <2>1. UNCHANGED <<fail, locked, failures>>
    BY <1>1 DEF Inspect, Verify, Clear, Begin, Write, keys
  <2>2. CASE Inspect(p)
    BY <2>1, <2>2, InspectIs, IdleIs, LocksAlone DEF Inspect
  <2>3. CASE Verify(p)
    BY <2>1, <2>3, VerifyIs, LocksAlone DEF Verify
  <2>4. CASE Clear(p)
    BY <2>1, <2>4, GotoIs, LocksAlone DEF Clear, PC
  <2>5. CASE Begin(p)
    BY <2>1, <2>5, BeginIs, LocksAlone
  <2>6. CASE Write(p)
    BY <2>1, <2>6, GotoIs, LocksAlone DEF Write, PC
  <2> QED
    BY <1>1, <2>2, <2>3, <2>4, <2>5, <2>6
<1>2. ASSUME NEW p \in Proc,
             WriteConflict(p) \/ UniqueViolation(p) \/ Persist(p) \/ Expire(p) \/ RequestDies(p)
      PROVE  Locks'
  <2>1. UNCHANGED <<fail, locked, failures>>
    BY <1>2 DEF WriteConflict, UniqueViolation, Persist, Expire, RequestDies, keys
  <2>2. CASE WriteConflict(p)
    BY <2>1, <2>2, ConflictIs, IdleIs, LocksAlone
  <2>3. CASE UniqueViolation(p) \/ Persist(p) \/ Expire(p) \/ RequestDies(p)
    BY <2>1, <2>3, DoneIs, IdleIs, LocksAlone DEF UniqueViolation, Persist, Expire, RequestDies
  <2> QED
    BY <1>2, <2>2, <2>3
<1>3. ASSUME NEW p \in Proc, Commit(p) PROVE Locks'
  <2>1. UNCHANGED <<fail, locked, failures>>
    BY <1>3 DEF Commit, keys
  <2>2. \A q \in Proc : \/ req'[q].pc = "loggedIn"
                        \/ req'[q].pc = req[q].pc /\ req'[q].phone = req[q].phone
    BY <1>3, CommitIs DEF Others
  <2>3. \A other \in Phone : InFlight(other)' \subseteq InFlight(other)
    BY <2>2 DEF InFlight
  <2>4. \A q \in Proc : req'[q].pc = "resetting" => locked[req'[q].phone]
    BY <2>2 DEF Locks
  <2> QED
    BY <2>1, <2>3, <2>4, LocksSame
<1>4. ASSUME NEW ph \in Phone, AccountChanges(ph) PROVE Locks'
  <2>1. UNCHANGED <<fail, locked, failures>>
    BY <1>4 DEF AccountChanges, keys
  <2>2. \A q \in Proc : req'[q].pc = req[q].pc /\ req'[q].phone = req[q].phone
    BY <1>4, ChangesIs
  <2>3. \A other \in Phone : InFlight(other)' \subseteq InFlight(other)
    BY <2>2 DEF InFlight
  <2>4. \A q \in Proc : req'[q].pc = "resetting" => locked[req'[q].phone]
    BY <2>2 DEF Locks
  <2> QED
    BY <2>1, <2>3, <2>4, LocksSame
<1>5. ASSUME NEW ph \in Phone, RequestSmsCode(ph) \/ CodeExpires(ph) PROVE Locks'
  BY <1>5 DEF RequestSmsCode, CodeExpires, Locks, InFlight
<1>6. CASE UNCHANGED vars
  BY <1>6 DEF vars, keys, Locks, InFlight
<1> QED
  BY <1>1, <1>2, <1>3, <1>4, <1>5, <1>6, LocksByArrival, LocksByIncr, LocksBySet, LocksByReset,
     LocksByExpiry DEF Next, Step

\* Between two ends of a lock there are no more failures than the threshold allows and one
\* for each request that was let in before the lock was there.
THEOREM FailuresStayBounded == Spec => []FailuresBounded
<1>1. Init => Locks
  <2> SUFFICES ASSUME Init
               PROVE  Locks
    OBVIOUS
  <2> QED
    BY IdleIs, BoundAssumption DEF Init, Locks
<1>2. Typed /\ Locks /\ [Next]_vars => Locks'
  BY LocksStep
<1>3. Typed /\ Locks => FailuresBounded
  <2> SUFFICES ASSUME Typed, Locks, NEW ph \in Phone
               PROVE  failures[ph] <= FailThreshold - 1 + Cardinality(Proc)
    BY DEF FailuresBounded
  <2>1. failures[ph] \in Nat /\ FailThreshold \in Nat
    BY BoundAssumption DEF Typed, TypeOK
  <2>2. CASE locked[ph]
    <3>1. failures[ph] + Cardinality(InFlight(ph)) <= FailThreshold - 1 + Cardinality(Proc)
      BY <2>2 DEF Locks
    <3> QED
      BY <2>1, <3>1, InFlightFinite
  <2>3. CASE ~locked[ph]
    <3>1. failures[ph] < FailThreshold
      BY <2>3 DEF Locks
    <3> QED
      BY <2>1, <3>1, InFlightFinite
  <2> QED
    BY <2>2, <2>3
<1> QED
  BY <1>1, <1>2, <1>3, TypedHolds, PTL DEF Spec
=============================================================================
