------------------------ MODULE RefreshTokensProofs ------------------------
(***************************************************************************)
(* Theorems about RefreshTokens for every set of requests, accounts,       *)
(* devices and rows.                                                       *)
(***************************************************************************)
EXTENDS RefreshTokens, FiniteSetTheorems, TLAPS

(***************************************************************************)
(* The inductive invariant.                                                *)
(***************************************************************************)

\* The control states in which a request may hold row locks.
Holding == {"rotated", "revoking", "revokedOne"}

\* A row that a transaction holds is active among the committed rows: that is
\* what lets a commit write revokedAt without looking again.
LockedRowsAreActive ==
    \A t \in Tid : lock[t] # NULL =>
        /\ Unrevoked(t)
        /\ req[lock[t]].pc \in Holding
        /\ req[lock[t]].pc \in {"rotated", "revokedOne"} => t = req[lock[t]].tid

\* The control states in which a request works on one row, tid.
Targeted == {"found", "eligible", "rotated", "guarded", "revokedOne"}

\* A transaction that won its conditional UPDATE holds the row it won.
WinnersHoldTheirRow ==
    \A p \in Proc :
        /\ req[p].pc \in Targeted =>
              req[p].tid \in Tid /\ Present(req[p].tid)
        /\ req[p].pc \in {"rotated", "revokedOne"} => lock[req[p].tid] = p

LockInv == TypeOK /\ LockedRowsAreActive /\ WinnersHoldTheirRow

\* The row a login inserted stays: no later login can take its key.
RootsArePresent == \A t \in Tid : Present(t) => Present(token[t].root)

Inv == LockInv /\ RootsArePresent /\ OneActivePerSession /\ DeviceRevokedIsTruthful

-----------------------------------------------------------------------------
\* What a commit of p makes of one row: the columns a revocation leaves alone
\* stay, and a row p had updated is revoked.
LEMMA UpdatedRow ==
    ASSUME LockInv, NEW p \in Proc
    PROVE  /\ Updated(p) \in [Tid -> Row \cup {NULL}]
           /\ \A t \in Tid :
                /\ lock[t] # p => Updated(p)[t] = token[t]
                /\ lock[t] = p => /\ Updated(p)[t] # NULL
                                  /\ Updated(p)[t].revokedAt # NULL
                                  /\ Updated(p)[t] =
                                       [token[t] EXCEPT !.revokedAt = Updated(p)[t].revokedAt]
                /\ Updated(p)[t] # NULL <=> Present(t)
                /\ Present(t) => Updated(p)[t].root = token[t].root
<1> USE NullAssumption
<1>1. req[p].now \in Nat /\ req[p].now # NULL
  BY DEF LockInv, TypeOK, Request
<1>2. ASSUME NEW t \in Tid, lock[t] = p
      PROVE  /\ Updated(p)[t] = [token[t] EXCEPT !.revokedAt = req[p].now]
             /\ token[t] \in Row /\ Present(t)
             /\ Updated(p)[t] \in Row
             /\ Updated(p)[t].revokedAt = req[p].now
             /\ Updated(p)[t].root = token[t].root
  <2>1. token[t] \in Row /\ Present(t)
    BY <1>2 DEF LockInv, TypeOK, LockedRowsAreActive, Unrevoked, Present
  <2>2. Updated(p)[t] = [token[t] EXCEPT !.revokedAt = req[p].now]
    BY <1>2 DEF Updated
  <2>3. [token[t] EXCEPT !.revokedAt = req[p].now] \in Row
    BY <1>1, <2>1 DEF Row
  <2>4. /\ [token[t] EXCEPT !.revokedAt = req[p].now].revokedAt = req[p].now
        /\ [token[t] EXCEPT !.revokedAt = req[p].now].root = token[t].root
    BY <2>1 DEF Row
  <2> QED
    BY <2>1, <2>2, <2>3, <2>4
<1>3. \A t \in Tid : lock[t] # p => Updated(p)[t] = token[t]
  BY DEF Updated
<1>4. \A t \in Tid : Updated(p)[t] \in Row \cup {NULL}
  BY <1>2, <1>3 DEF LockInv, TypeOK
<1>5. Updated(p) \in [Tid -> Row \cup {NULL}]
  BY <1>4 DEF Updated
<1> QED
  <2> SUFFICES ASSUME NEW t \in Tid
               PROVE  /\ lock[t] # p => Updated(p)[t] = token[t]
                      /\ lock[t] = p =>
                           /\ Updated(p)[t] # NULL
                           /\ Updated(p)[t].revokedAt # NULL
                           /\ Updated(p)[t] =
                                [token[t] EXCEPT !.revokedAt = Updated(p)[t].revokedAt]
                      /\ Updated(p)[t] # NULL <=> Present(t)
                      /\ Present(t) => Updated(p)[t].root = token[t].root
    BY <1>5
  <2>1. CASE lock[t] = p
    BY <2>1, <1>1, <1>2
  <2>2. CASE lock[t] # p
    BY <2>2, <1>3 DEF Present
  <2> QED
    BY <2>1, <2>2

\* What a release by p makes of the locks.
LEMMA ReleasedLock ==
    ASSUME LockInv, NEW p \in Proc
    PROVE  /\ Released(p) \in [Tid -> Proc \cup {NULL}]
           /\ \A t \in Tid : /\ Released(p)[t] # p
                             /\ lock[t] # p => Released(p)[t] = lock[t]
                             /\ lock[t] = p => Released(p)[t] = NULL
  BY NullAssumption DEF Released, LockInv, TypeOK

LEMMA InitInv == Init => Inv
  BY NullAssumption DEF Init, Inv, LockInv, TypeOK, LockedRowsAreActive, WinnersHoldTheirRow,
     RootsArePresent, OneActivePerSession, DeviceRevokedIsTruthful, Unrevoked, Present,
     Idle, Request, PC, Holding, Targeted

-----------------------------------------------------------------------------
\* A step of p that leaves the committed rows alone and touches, of the locks,
\* at most those p holds or takes, keeps the locks right if p's new control
\* state fits the rows it then holds.
LEMMA LocalStep ==
    ASSUME LockInv, NEW p \in Proc,
           req' \in [Proc -> Request], \A q \in Proc : q # p => req'[q] = req[q],
           clock' = clock, token' = token, revokedEvents' = revokedEvents,
           lock' \in [Tid -> Proc \cup {NULL}],
           \A t \in Tid : lock'[t] # p => lock'[t] = lock[t] \/ (lock[t] = p /\ lock'[t] = NULL),
           \A t \in Tid : lock'[t] = p =>
              /\ lock[t] \in {p, NULL}
              /\ Unrevoked(t)
              /\ req'[p].pc \in Holding
              /\ req'[p].pc \in {"rotated", "revokedOne"} => t = req'[p].tid,
           req'[p].pc \in Targeted => req'[p].tid \in Tid /\ Present(req'[p].tid),
           req'[p].pc \in {"rotated", "revokedOne"} => lock'[req'[p].tid] = p
    PROVE  LockInv'
<1>1. TypeOK'
  BY DEF LockInv, TypeOK
<1>2. \A t : Unrevoked(t)' = Unrevoked(t) /\ Present(t)' = Present(t)
  BY DEF Unrevoked, Present
<1>3. LockedRowsAreActive'
  <2> SUFFICES ASSUME NEW t \in Tid, lock'[t] # NULL
               PROVE  /\ Unrevoked(t)
                      /\ req'[lock'[t]].pc \in Holding
                      /\ req'[lock'[t]].pc \in {"rotated", "revokedOne"} =>
                            t = req'[lock'[t]].tid
    BY <1>2 DEF LockedRowsAreActive
  <2>1. CASE lock'[t] = p
    BY <2>1
  <2>2. CASE lock'[t] # p
    <3>1. lock'[t] = lock[t] /\ lock[t] \in Proc
      BY <2>2 DEF LockInv, TypeOK
    <3> QED
      BY <2>2, <3>1 DEF LockInv, LockedRowsAreActive
  <2> QED
    BY <2>1, <2>2
<1>4. WinnersHoldTheirRow'
  <2> SUFFICES ASSUME NEW q \in Proc
               PROVE  /\ req'[q].pc \in Targeted => req'[q].tid \in Tid /\ Present(req'[q].tid)
                      /\ req'[q].pc \in {"rotated", "revokedOne"} => lock'[req'[q].tid] = q
    BY <1>2 DEF WinnersHoldTheirRow
  <2>1. CASE q = p
    BY <2>1
  <2>2. CASE q # p
    <3>1. req'[q] = req[q]
      BY <2>2
    <3>2. req[q].pc \in {"rotated", "revokedOne"} => req[q].tid \in Tid /\ lock[req[q].tid] = q
      BY DEF LockInv, WinnersHoldTheirRow, Targeted
    <3> QED
      BY <2>2, <3>1, <3>2, NullAssumption DEF LockInv, WinnersHoldTheirRow
  <2> QED
    BY <2>1, <2>2
<1> QED
  BY <1>1, <1>3, <1>4 DEF LockInv

\* A step of p that writes only its own local variables.
LEMMA QuietStep ==
    ASSUME LockInv, NEW p \in Proc,
           req' \in [Proc -> Request], \A q \in Proc : q # p => req'[q] = req[q],
           UNCHANGED <<clock, token, lock, revokedEvents>>,
           req[p].pc \in Holding => req[p].pc = "revoking" /\ req'[p].pc = "revoking",
           req'[p].pc \notin {"rotated", "revokedOne"},
           req'[p].pc \in Targeted => req'[p].tid \in Tid /\ Present(req'[p].tid)
    PROVE  LockInv'
<1>1. lock' = lock /\ lock \in [Tid -> Proc \cup {NULL}]
  BY DEF LockInv, TypeOK
<1>2. \A t \in Tid : lock[t] = p => Unrevoked(t) /\ req'[p].pc = "revoking"
  BY NullAssumption DEF LockInv, LockedRowsAreActive
<1>3. "revoking" \in Holding
  BY DEF Holding
<1> QED
  BY <1>1, <1>2, <1>3, LocalStep

\* A step of p that updates row u.
LEMMA TakeStep ==
    ASSUME LockInv, NEW p \in Proc, NEW u \in Tid,
           req' \in [Proc -> Request], \A q \in Proc : q # p => req'[q] = req[q],
           UNCHANGED <<clock, token, revokedEvents>>,
           Unrevoked(u), lock[u] = NULL, lock' = [lock EXCEPT ![u] = p],
           \/ req[p].pc = "revoking" /\ req'[p].pc = "revoking"
           \/ /\ req[p].pc \notin Holding
              /\ req'[p].pc \in {"rotated", "revokedOne"}
              /\ req'[p].tid = u
    PROVE  LockInv'
<1>1. /\ lock' \in [Tid -> Proc \cup {NULL}] /\ lock'[u] = p
      /\ \A t \in Tid : t # u => lock'[t] = lock[t]
  BY DEF LockInv, TypeOK
<1>2. \A t \in Tid : lock[t] = p => Unrevoked(t) /\ req[p].pc \in Holding
  BY NullAssumption DEF LockInv, LockedRowsAreActive
<1>3. req'[p].pc \in Holding /\ Present(u)
  BY DEF Holding, Unrevoked
<1>4. req'[p].pc = "revoking" => req'[p].pc \notin Targeted
  BY DEF Targeted
<1> QED
  BY <1>1, <1>2, <1>3, <1>4, LocalStep

\* A step that rolls back the transaction of p.
LEMMA RollbackStep ==
    ASSUME LockInv, NEW p \in Proc,
           req' = [req EXCEPT ![p] = Idle],
           UNCHANGED <<clock, token, revokedEvents>>,
           lock' = Released(p)
    PROVE  LockInv'
<1>1. Idle \in Request /\ Idle.pc = "idle"
  BY DEF Idle, Request, PC
<1>2. req' \in [Proc -> Request] /\ req'[p] = Idle /\ \A q \in Proc : q # p => req'[q] = req[q]
  BY <1>1 DEF LockInv, TypeOK
<1>3. req'[p].pc \notin Holding \cup Targeted
  BY <1>1, <1>2 DEF Holding, Targeted
<1>4. /\ lock' \in [Tid -> Proc \cup {NULL}]
      /\ \A t \in Tid : /\ lock'[t] # p
                        /\ lock'[t] = lock[t] \/ (lock[t] = p /\ lock'[t] = NULL)
  BY ReleasedLock
<1>5. req'[p].pc \notin {"rotated", "revokedOne"}
  BY <1>1, <1>2
<1> QED
  BY <1>2, <1>3, <1>4, <1>5, LocalStep

\* A commit of p: its rows change, others may only be added, its locks go.
LEMMA CommitStep ==
    ASSUME LockInv, NEW p \in Proc,
           req' \in [Proc -> Request], \A q \in Proc : q # p => req'[q] = req[q],
           req'[p].pc \in {"idle", "loggedOut"},
           clock' = clock, revokedEvents' \in [Tid -> Nat],
           token' \in [Tid -> Row \cup {NULL}],
           lock' = Released(p),
           \A t \in Tid : Present(t) => token'[t] # NULL /\ (lock[t] # p => token'[t] = token[t])
    PROVE  LockInv'
<1> USE NullAssumption
<1>1. /\ lock' \in [Tid -> Proc \cup {NULL}]
      /\ \A t \in Tid : lock'[t] # NULL => lock'[t] = lock[t] /\ lock[t] # p
      /\ \A t \in Tid : lock[t] # p => lock'[t] = lock[t]
  BY ReleasedLock
<1>2. TypeOK'
  BY <1>1 DEF LockInv, TypeOK
<1>3. LockedRowsAreActive'
  <2> SUFFICES ASSUME NEW t \in Tid, lock'[t] # NULL
               PROVE  /\ Unrevoked(t)'
                      /\ req'[lock'[t]].pc \in Holding
                      /\ req'[lock'[t]].pc \in {"rotated", "revokedOne"} =>
                            t = req'[lock'[t]].tid
    BY DEF LockedRowsAreActive
  <2>1. lock'[t] = lock[t] /\ lock[t] # p /\ lock[t] \in Proc
    BY <1>1, <1>2 DEF TypeOK
  <2>2. Unrevoked(t) /\ token'[t] = token[t]
    BY <2>1 DEF LockInv, LockedRowsAreActive, Unrevoked
  <2> QED
    BY <2>1, <2>2 DEF LockInv, LockedRowsAreActive, Unrevoked, Present
<1>4. WinnersHoldTheirRow'
  <2> SUFFICES ASSUME NEW q \in Proc
               PROVE  /\ req'[q].pc \in Targeted => req'[q].tid \in Tid /\ token'[req'[q].tid] # NULL
                      /\ req'[q].pc \in {"rotated", "revokedOne"} => lock'[req'[q].tid] = q
    BY DEF WinnersHoldTheirRow, Present
  <2>1. CASE q = p
    BY <2>1 DEF Targeted
  <2>2. CASE q # p
    <3>1. req'[q] = req[q]
      BY <2>2
    <3>2. req[q].pc \in {"rotated", "revokedOne"} => lock'[req[q].tid] = q
      BY <2>2, <1>1 DEF LockInv, WinnersHoldTheirRow, Targeted
    <3> QED
      BY <3>1, <3>2 DEF LockInv, WinnersHoldTheirRow, Present
  <2> QED
    BY <2>1, <2>2
<1> QED
  BY <1>2, <1>3, <1>4 DEF LockInv

-----------------------------------------------------------------------------
LEMMA ActiveRowsFinite == \A a : Cardinality(ActiveRows(a)) \in Nat
<1> TAKE a
<1>1. IsFiniteSet(ActiveRows(a))
  BY TidAssumption, FS_Subset DEF ActiveRows
<1> QED
  BY <1>1, FS_CardinalityType

\* Every step keeps the locks right.
LEMMA LockInvStep == LockInv /\ [Next]_vars => LockInv'
<1> SUFFICES ASSUME LockInv, [Next]_vars PROVE LockInv'
  OBVIOUS
<1> USE NullAssumption
<1>1. ASSUME NEW a \in Account, NEW d \in Device, Persist(a, d) PROVE LockInv'
  <2>1. PICK n \in Tid : ~Present(n) /\ token' = [token EXCEPT ![n] = NewRow(a, d, n)]
    BY <1>1 DEF Persist
  <2>2. NewRow(a, d, n) \in Row /\ NewRow(a, d, n) # NULL
    BY TimeAssumption DEF NewRow, Row, LockInv, TypeOK
  <2> QED
    BY <1>1, <2>1, <2>2
    DEF Persist, LockInv, TypeOK, LockedRowsAreActive, WinnersHoldTheirRow, Unrevoked, Present
<1>2. ASSUME NEW p \in Proc, NEW t \in Tid, RefreshFind(p, t) PROVE LockInv'
  <2> DEFINE r == [Idle EXCEPT !.pc = "found", !.tid = t, !.acct = token[t].acct]
  <2>1. Present(t) /\ token[t] \in Row
    BY <1>2 DEF RefreshFind, IsActive, Unrevoked, Present, LockInv, TypeOK
  <2>2. r \in Request /\ r.pc = "found" /\ r.tid = t
    BY <2>1 DEF Idle, Request, PC, Row
  <2>3. /\ req' \in [Proc -> Request] /\ req'[p] = r
        /\ \A q \in Proc : q # p => req'[q] = req[q]
    BY <1>2, <2>2 DEF RefreshFind, LockInv, TypeOK
  <2>4. req[p].pc \notin Holding
    BY <1>2 DEF RefreshFind, Holding
  <2> QED
    BY <1>2, <2>1, <2>2, <2>3, <2>4, QuietStep DEF RefreshFind
<1>3. ASSUME NEW p \in Proc, RefreshEligible(p) PROVE LockInv'
  <2>1. /\ req' \in [Proc -> Request] /\ req'[p].pc = "eligible" /\ req'[p].tid = req[p].tid
        /\ \A q \in Proc : q # p => req'[q] = req[q]
    BY <1>3 DEF RefreshEligible, Goto, LockInv, TypeOK, Request, PC
  <2>2. req[p].pc = "found" /\ UNCHANGED <<clock, token, lock, revokedEvents>>
    BY <1>3 DEF RefreshEligible
  <2>3. req[p].tid \in Tid /\ Present(req[p].tid)
    BY <2>2 DEF LockInv, WinnersHoldTheirRow, Targeted
  <2>4. req[p].pc \notin Holding
    BY <2>2 DEF Holding
  <2> QED
    BY <2>1, <2>2, <2>3, <2>4, QuietStep
<1>4. ASSUME NEW p \in Proc, UNCHANGED <<clock, token, lock, revokedEvents>>, Done(p),
             req[p].pc \notin Holding
      PROVE  LockInv'
  <2>1. Idle \in Request /\ Idle.pc = "idle"
    BY DEF Idle, Request, PC
  <2>2. /\ req' \in [Proc -> Request] /\ req'[p] = Idle
        /\ \A q \in Proc : q # p => req'[q] = req[q]
    BY <1>4, <2>1 DEF Done, LockInv, TypeOK
  <2>3. req'[p].pc \notin {"rotated", "revokedOne"} \cup Targeted
    BY <2>1, <2>2 DEF Targeted
  <2> QED
    BY <1>4, <2>2, <2>3, QuietStep
<1>5. ASSUME NEW p \in Proc, RefreshNotEligible(p) PROVE LockInv'
  BY <1>4, <1>5 DEF RefreshNotEligible, Holding
<1>6. ASSUME NEW p \in Proc, RotateRevoke(p) PROVE LockInv'
  <2> DEFINE u == req[p].tid
  <2>1. req[p].pc = "eligible" /\ u \in Tid
    BY <1>6 DEF RotateRevoke, LockInv, WinnersHoldTheirRow, Targeted
  <2>2. req[p].pc \notin Holding
    BY <2>1 DEF Holding
  <2>3. CASE ~Unrevoked(u) /\ Done(p) /\ lock' = lock
    BY <1>4, <1>6, <2>2, <2>3 DEF RotateRevoke
  <2>4. CASE /\ Unrevoked(u) /\ lock[u] = NULL /\ lock' = [lock EXCEPT ![u] = p]
             /\ req' = [req EXCEPT ![p].pc = "rotated", ![p].now = clock]
    <3>1. /\ req' \in [Proc -> Request] /\ req'[p].pc = "rotated" /\ req'[p].tid = u
          /\ \A q \in Proc : q # p => req'[q] = req[q]
      <4> DEFINE r == [req[p] EXCEPT !.pc = "rotated", !.now = clock]
      <4>1. r \in Request /\ r.pc = "rotated" /\ r.tid = u
        BY DEF LockInv, TypeOK, Request, PC
      <4>2. req' = [req EXCEPT ![p] = r]
        BY <2>4 DEF LockInv, TypeOK
      <4> HIDE DEF r
      <4> QED
        BY <4>1, <4>2 DEF LockInv, TypeOK
    <3>2. UNCHANGED <<clock, token, revokedEvents>>
      BY <1>6 DEF RotateRevoke
    <3> QED
      BY <2>1, <2>2, <2>4, <3>1, <3>2, TakeStep
  <2> QED
    BY <1>6, <2>3, <2>4 DEF RotateRevoke
<1>7. ASSUME NEW p \in Proc, RotateCommit(p) PROVE LockInv'
  <2> DEFINE old == token[req[p].tid]
  <2>1. old \in Row /\ req[p].tid \in Tid
    BY <1>7 DEF RotateCommit, LockInv, TypeOK, WinnersHoldTheirRow, Targeted, Present
  <2>2. PICK n \in Tid :
           /\ ~Present(n)
           /\ token' = [Updated(p) EXCEPT ![n] = NewRow(old.acct, old.dev, old.root)]
    BY <1>7 DEF RotateCommit
  <2>3. NewRow(old.acct, old.dev, old.root) \in Row
    BY <2>1, TimeAssumption DEF NewRow, Row, LockInv, TypeOK
  <2>4. /\ token' \in [Tid -> Row \cup {NULL}]
        /\ \A t \in Tid : Present(t) => token'[t] # NULL /\ (lock[t] # p => token'[t] = token[t])
    BY <2>2, <2>3, UpdatedRow
  <2>5. req' \in [Proc -> Request] /\ req'[p].pc = "idle" /\ \A q \in Proc : q # p => req'[q] = req[q]
    BY <1>7 DEF RotateCommit, Done, LockInv, TypeOK, Idle, Request, PC
  <2>6. clock' = clock /\ revokedEvents' \in [Tid -> Nat] /\ lock' = Released(p)
    BY <1>7 DEF RotateCommit, LockInv, TypeOK
  <2> QED
    BY <2>4, <2>5, <2>6, CommitStep
<1>8. ASSUME NEW p \in Proc, NEW a \in Account, LogoutAll(p, a) PROVE LockInv'
  <2>1. ActiveRows(a) \in SUBSET Tid
    BY DEF ActiveRows
  <2>2. /\ req' \in [Proc -> Request] /\ req'[p].pc = "revoking"
        /\ \A q \in Proc : q # p => req'[q] = req[q]
    BY <1>8, <2>1 DEF LogoutAll, LockInv, TypeOK, Idle, Request, PC
  <2>3. req[p].pc \notin Holding /\ req'[p].pc \notin Targeted
    BY <1>8, <2>2 DEF LogoutAll, Holding, Targeted
  <2> QED
    BY <1>8, <2>2, <2>3, QuietStep DEF LogoutAll
<1>9. ASSUME NEW p \in Proc, NEW t \in Tid, RevokeAllRow(p, t) PROVE LockInv'
  <2>1. /\ req' \in [Proc -> Request] /\ req'[p].pc = "revoking" /\ req[p].pc = "revoking"
        /\ \A q \in Proc : q # p => req'[q] = req[q]
    BY <1>9 DEF RevokeAllRow, LockInv, TypeOK, Request, PC
  <2>2. UNCHANGED <<clock, token, revokedEvents>> /\ req'[p].pc \notin Targeted
    BY <1>9, <2>1 DEF RevokeAllRow, Targeted
  <2>3. CASE lock' = lock
    BY <2>1, <2>2, <2>3, QuietStep
  <2>4. CASE Unrevoked(t) /\ lock[t] = NULL /\ lock' = [lock EXCEPT ![t] = p]
    BY <2>1, <2>2, <2>4, TakeStep
  <2> QED
    BY <1>9, <2>3, <2>4 DEF RevokeAllRow
<1>10. ASSUME NEW p \in Proc, LogoutAllCommit(p) PROVE LockInv'
  <2>1. /\ req' \in [Proc -> Request] /\ req'[p].pc = "loggedOut"
        /\ \A q \in Proc : q # p => req'[q] = req[q]
    BY <1>10 DEF LogoutAllCommit, Goto, LockInv, TypeOK, Request, PC
  <2>2. /\ clock' = clock /\ revokedEvents' \in [Tid -> Nat] /\ lock' = Released(p)
        /\ token' = Updated(p)
    BY <1>10 DEF LogoutAllCommit, LockInv, TypeOK
  <2>3. /\ token' \in [Tid -> Row \cup {NULL}]
        /\ \A t \in Tid : Present(t) => token'[t] # NULL /\ (lock[t] # p => token'[t] = token[t])
    BY <2>2, UpdatedRow
  <2> QED
    BY <2>1, <2>2, <2>3, CommitStep
<1>11. ASSUME NEW p \in Proc, NEW a \in Account, NEW d \in Device, NEW t \in Tid,
              RevokeDevice(p, a, d, t)
       PROVE  LockInv'
  <2>1. /\ req' \in [Proc -> Request] /\ req'[p].pc = "guarded" /\ req'[p].tid = t
        /\ \A q \in Proc : q # p => req'[q] = req[q]
    BY <1>11 DEF RevokeDevice, LockInv, TypeOK, Idle, Request, PC
  <2>2. req[p].pc \notin Holding /\ Present(t)
    BY <1>11 DEF RevokeDevice, Holding
  <2> QED
    BY <1>11, <2>1, <2>2, QuietStep DEF RevokeDevice
<1>12. ASSUME NEW p \in Proc, RevokeOne(p) PROVE LockInv'
  <2> DEFINE u == req[p].tid
  <2>1. req[p].pc = "guarded" /\ u \in Tid
    BY <1>12 DEF RevokeOne, LockInv, WinnersHoldTheirRow, Targeted
  <2>2. req[p].pc \notin Holding
    BY <2>1 DEF Holding
  <2>3. CASE Done(p) /\ lock' = lock
    BY <1>4, <1>12, <2>2, <2>3 DEF RevokeOne
  <2>4. CASE /\ Unrevoked(u) /\ lock[u] = NULL /\ lock' = [lock EXCEPT ![u] = p]
             /\ Goto(p, "revokedOne")
    <3>1. /\ req' \in [Proc -> Request] /\ req'[p].pc = "revokedOne" /\ req'[p].tid = u
          /\ \A q \in Proc : q # p => req'[q] = req[q]
      BY <2>4 DEF Goto, LockInv, TypeOK, Request, PC
    <3>2. UNCHANGED <<clock, token, revokedEvents>>
      BY <1>12 DEF RevokeOne
    <3> QED
      BY <2>1, <2>2, <2>4, <3>1, <3>2, TakeStep
  <2> QED
    BY <1>12, <2>3, <2>4 DEF RevokeOne
<1>13. ASSUME NEW p \in Proc, RevokeOneCommit(p) PROVE LockInv'
  <2>1. /\ req' \in [Proc -> Request] /\ req'[p].pc = "idle"
        /\ \A q \in Proc : q # p => req'[q] = req[q]
    BY <1>13 DEF RevokeOneCommit, Done, LockInv, TypeOK, Idle, Request, PC
  <2>2. clock' = clock /\ lock' = Released(p) /\ token' = Updated(p)
    BY <1>13 DEF RevokeOneCommit
  <2>3. revokedEvents' \in [Tid -> Nat]
    <3>1. req[p].tid \in Tid
      BY <1>13 DEF RevokeOneCommit, LockInv, WinnersHoldTheirRow, Targeted
    <3> QED
      BY <1>13, <3>1 DEF RevokeOneCommit, LockInv, TypeOK
  <2>4. /\ token' \in [Tid -> Row \cup {NULL}]
        /\ \A t \in Tid : Present(t) => token'[t] # NULL /\ (lock[t] # p => token'[t] = token[t])
    BY <2>2, UpdatedRow
  <2> QED
    BY <2>1, <2>2, <2>3, <2>4, CommitStep
<1>14. ASSUME NEW p \in Proc, NEW a \in Account, ListRows(p, a) PROVE LockInv'
  <2>1. Cardinality(ActiveRows(a)) \in Nat
    BY ActiveRowsFinite
  <2>2. /\ req' \in [Proc -> Request] /\ req'[p].pc = "rowsRead"
        /\ \A q \in Proc : q # p => req'[q] = req[q]
    BY <1>14, <2>1 DEF ListRows, LockInv, TypeOK, Idle, Request, PC
  <2>3. req[p].pc \notin Holding /\ req'[p].pc \notin Targeted
    BY <1>14, <2>2 DEF ListRows, Holding, Targeted
  <2> QED
    BY <1>14, <2>2, <2>3, QuietStep DEF ListRows
<1>15. ASSUME NEW p \in Proc, ListCount(p) PROVE LockInv'
  <2>1. Cardinality(ActiveRows(req[p].acct)) \in Nat
    BY ActiveRowsFinite
  <2>2. /\ req' \in [Proc -> Request] /\ req'[p].pc = "listed"
        /\ \A q \in Proc : q # p => req'[q] = req[q]
    <3> DEFINE r == [req[p] EXCEPT !.pc = "listed",
                                   !.total = Cardinality(ActiveRows(req[p].acct))]
    <3>1. r \in Request /\ r.pc = "listed"
      BY <2>1 DEF LockInv, TypeOK, Request, PC
    <3>2. req' = [req EXCEPT ![p] = r]
      BY <1>15 DEF ListCount, LockInv, TypeOK
    <3> HIDE DEF r
    <3> QED
      BY <3>1, <3>2 DEF LockInv, TypeOK
  <2>3. req[p].pc \notin Holding /\ req'[p].pc \notin Targeted
    BY <1>15, <2>2 DEF ListCount, Holding, Targeted
  <2> QED
    BY <1>15, <2>2, <2>3, QuietStep DEF ListCount
<1>16. ASSUME NEW p \in Proc, Respond(p) PROVE LockInv'
  BY <1>4, <1>16 DEF Respond, Holding
<1>17. ASSUME NEW p \in Proc, RequestDies(p) \/ DeadlockAbort(p) PROVE LockInv'
  BY <1>17, RollbackStep DEF RequestDies, DeadlockAbort, Done
<1>18. CASE Tick
  BY <1>18 DEF Tick, LockInv, TypeOK, LockedRowsAreActive, WinnersHoldTheirRow,
               Unrevoked, Present
<1>19. CASE UNCHANGED vars
  BY <1>19 DEF vars, LockInv, TypeOK, LockedRowsAreActive, WinnersHoldTheirRow,
               Unrevoked, Present
<1> QED
  BY <1>1, <1>2, <1>3, <1>5, <1>6, <1>7, <1>8, <1>9, <1>10, <1>11, <1>12, <1>13, <1>14,
     <1>15, <1>16, <1>17, <1>18, <1>19 DEF Next, Arrive, Step

-----------------------------------------------------------------------------
\* The committed rows change in four actions only.
LEMMA RowSteps ==
    ASSUME [Next]_vars
    PROVE  \/ token' = token /\ revokedEvents' = revokedEvents
           \/ \E a \in Account, d \in Device : Persist(a, d)
           \/ \E p \in Proc : RotateCommit(p) \/ LogoutAllCommit(p) \/ RevokeOneCommit(p)
  BY DEF Next, vars, Arrive, Step, RefreshFind, RefreshEligible, RefreshNotEligible,
         RotateRevoke, LogoutAll, RevokeAllRow, RevokeDevice, RevokeOne, ListRows,
         ListCount, Respond, RequestDies, DeadlockAbort, Tick

\* What a login does to the rows.
LEMMA PersistRows ==
    ASSUME LockInv, NEW a \in Account, NEW d \in Device, Persist(a, d)
    PROVE  \E n \in Tid : /\ ~Present(n)
                          /\ token' \in [Tid -> Row \cup {NULL}]
                          /\ token'[n] = NewRow(a, d, n) /\ token'[n] # NULL
                          /\ token'[n].acct = a
                          /\ token'[n].root = n /\ token'[n].revokedAt = NULL
                          /\ \A t \in Tid : t # n => token'[t] = token[t]
<1>1. PICK n \in Tid : ~Present(n) /\ token' = [token EXCEPT ![n] = NewRow(a, d, n)]
  BY DEF Persist
<1>2. /\ NewRow(a, d, n) \in Row /\ NewRow(a, d, n) # NULL
      /\ NewRow(a, d, n).root = n /\ NewRow(a, d, n).revokedAt = NULL
      /\ NewRow(a, d, n).acct = a
  BY TimeAssumption, NullAssumption DEF NewRow, Row, LockInv, TypeOK
<1> QED
  BY <1>1, <1>2 DEF LockInv, TypeOK

\* What the commit of a rotation does to the rows: the old one is revoked,
\* its successor n takes over its session, and every other row stays.
LEMMA RotateRows ==
    ASSUME LockInv, NEW p \in Proc, RotateCommit(p)
    PROVE  LET u == req[p].tid IN
           /\ u \in Tid /\ Unrevoked(u) /\ lock[u] = p /\ token[u] \in Row
           /\ \A t \in Tid : lock[t] = p => t = u
           /\ \E n \in Tid : /\ ~Present(n)
                             /\ token'[n] # NULL
                             /\ token'[n].root = token[u].root
                             /\ token'[n].acct = token[u].acct
                             /\ token'[n].revokedAt = NULL
                             /\ \A t \in Tid : t # n => token'[t] = Updated(p)[t]
<1> DEFINE u == req[p].tid
           r == NewRow(token[u].acct, token[u].dev, token[u].root)
<1>1. u \in Tid /\ Unrevoked(u) /\ lock[u] = p /\ token[u] \in Row
  BY NullAssumption
  DEF RotateCommit, LockInv, TypeOK, WinnersHoldTheirRow, LockedRowsAreActive, Targeted,
      Unrevoked, Present
<1>2. \A t \in Tid : lock[t] = p => t = u
  BY NullAssumption DEF RotateCommit, LockInv, LockedRowsAreActive
<1>3. PICK n \in Tid : ~Present(n) /\ token' = [Updated(p) EXCEPT ![n] = r]
  BY DEF RotateCommit
<1>4. /\ r \in Row /\ r # NULL /\ r.root = token[u].root /\ r.acct = token[u].acct
      /\ r.revokedAt = NULL
  BY <1>1, TimeAssumption, NullAssumption DEF NewRow, Row, LockInv, TypeOK
<1>5. /\ token'[n] = r
      /\ \A t \in Tid : t # n => token'[t] = Updated(p)[t]
  BY <1>3, UpdatedRow
<1> QED
  BY <1>1, <1>2, <1>3, <1>4, <1>5

\* A row that is active after p's revocations was so before and is the same.
LEMMA StillActive ==
    ASSUME LockInv, NEW p \in Proc, NEW t \in Tid,
           token'[t] = Updated(p)[t], Unrevoked(t)'
    PROVE  Unrevoked(t) /\ lock[t] # p /\ token'[t] = token[t]
  BY UpdatedRow DEF Unrevoked, Present

-----------------------------------------------------------------------------
\* A session has at most one active row, and a published removal ended it.
LEMMA SessionStep == Inv /\ [Next]_vars => Inv'
<1> SUFFICES ASSUME Inv, [Next]_vars PROVE Inv'
  OBVIOUS
<1>1. LockInv /\ LockInv'
  BY LockInvStep DEF Inv
<1>2. CASE token' = token /\ revokedEvents' = revokedEvents
  BY <1>1, <1>2
  DEF Inv, RootsArePresent, OneActivePerSession, DeviceRevokedIsTruthful, Unrevoked, Present
<1>3. ASSUME NEW a \in Account, NEW d \in Device, Persist(a, d) PROVE Inv'
  <2>1. PICK n \in Tid : /\ ~Present(n) /\ token'[n] # NULL
                         /\ token'[n].root = n
                         /\ \A t \in Tid : t # n => token'[t] = token[t]
    BY <1>1, <1>3, PersistRows
  <2>2. revokedEvents' = revokedEvents
    BY <1>3 DEF Persist
  <2>3. \A t \in Tid : Present(t) => t # n /\ token[t].root # n /\ token'[t] = token[t]
    BY <2>1 DEF Inv, RootsArePresent
  <2>4. RootsArePresent'
    <3> SUFFICES ASSUME NEW t \in Tid, token'[t] # NULL PROVE token'[token'[t].root] # NULL
      BY DEF RootsArePresent, Present
    <3>1. CASE t = n
      BY <3>1, <2>1
    <3>2. CASE t # n
      <4>1. token'[t] = token[t] /\ Present(t)
        BY <3>2, <2>1 DEF Present
      <4>2. token[t].root \in Tid /\ Present(token[t].root)
        BY <1>1, <4>1 DEF Inv, RootsArePresent, LockInv, TypeOK, Row, Present
      <4> QED
        BY <4>1, <4>2, <2>3 DEF Present
    <3> QED
      BY <3>1, <3>2
  <2>5. OneActivePerSession'
    BY <2>1, <2>3 DEF Inv, OneActivePerSession, Unrevoked, Present
  <2>6. DeviceRevokedIsTruthful'
    BY <2>1, <2>2, <2>3 DEF Inv, DeviceRevokedIsTruthful, Unrevoked, Present
  <2> QED
    BY <1>1, <2>4, <2>5, <2>6 DEF Inv
<1>4. ASSUME NEW p \in Proc, RotateCommit(p) PROVE Inv'
  <2> DEFINE u == req[p].tid
  <2>1. u \in Tid /\ Unrevoked(u) /\ lock[u] = p
    BY <1>1, <1>4, RotateRows
  <2>2. PICK n \in Tid : /\ ~Present(n) /\ token'[n] # NULL
                         /\ token'[n].root = token[u].root
                         /\ \A t \in Tid : t # n => token'[t] = Updated(p)[t]
    BY <1>1, <1>4, RotateRows
  <2>3. revokedEvents' = revokedEvents
    BY <1>4 DEF RotateCommit
  <2>4. \A t \in Tid : Present(t) => /\ t # n /\ Present(t)'
                                     /\ token'[t].root = token[t].root
    <3> SUFFICES ASSUME NEW t \in Tid, Present(t)
                 PROVE  t # n /\ token'[t] # NULL /\ token'[t].root = token[t].root
      BY DEF Present
    <3>1. t # n /\ token'[t] = Updated(p)[t]
      BY <2>2
    <3>2. Updated(p)[t] # NULL /\ Updated(p)[t].root = token[t].root
      BY <1>1, UpdatedRow
    <3> QED
      BY <3>1, <3>2
  <2>5. ASSUME NEW t \in Tid, t # n, token'[t] # NULL PROVE Present(t)
    <3>1. Updated(p)[t] # NULL
      BY <2>2, <2>5
    <3> QED
      BY <1>1, <3>1, UpdatedRow
  <2>6. \A t \in Tid : Unrevoked(t)' /\ t # n => Unrevoked(t) /\ t # u
    BY <1>1, <2>1, <2>2, StillActive
  <2>7. RootsArePresent'
    <3> SUFFICES ASSUME NEW t \in Tid, token'[t] # NULL PROVE token'[token'[t].root] # NULL
      BY DEF RootsArePresent, Present
    <3>1. PICK s \in Tid : Present(s) /\ token'[t].root = token[s].root
      BY <2>1, <2>2, <2>4, <2>5 DEF Unrevoked
    <3>2. token[s].root \in Tid /\ Present(token[s].root)
      BY <1>1, <3>1 DEF Inv, RootsArePresent, LockInv, TypeOK, Row, Present
    <3> QED
      BY <2>4, <3>1, <3>2 DEF Present
  <2>8. \A t \in Tid : Unrevoked(t)' /\ t # n => token[t].root # token[u].root
    BY <2>1, <2>6 DEF Inv, OneActivePerSession
  <2>9. OneActivePerSession'
    <3> SUFFICES ASSUME NEW s \in Tid, NEW t \in Tid, Unrevoked(s)', Unrevoked(t)',
                        token'[s].root = token'[t].root, s # t
                 PROVE  FALSE
      BY DEF OneActivePerSession
    <3>1. CASE s = n
      BY <3>1, <2>2, <2>4, <2>6, <2>8 DEF Unrevoked
    <3>2. CASE t = n
      BY <3>2, <2>2, <2>4, <2>6, <2>8 DEF Unrevoked
    <3>3. CASE s # n /\ t # n
      BY <3>3, <2>4, <2>6 DEF Inv, OneActivePerSession, Unrevoked
    <3> QED
      BY <3>1, <3>2, <3>3
  <2>10. DeviceRevokedIsTruthful'
    <3> SUFFICES ASSUME NEW t \in Tid, revokedEvents[t] > 0
                 PROVE  /\ revokedEvents[t] = 1 /\ Present(t)'
                        /\ \A s \in Tid : Unrevoked(s)' => token'[s].root # token'[t].root
      BY <2>3 DEF DeviceRevokedIsTruthful
    <3>1. /\ revokedEvents[t] = 1 /\ Present(t)
          /\ \A s \in Tid : Unrevoked(s) => token[s].root # token[t].root
      BY DEF Inv, DeviceRevokedIsTruthful
    <3>2. ASSUME NEW s \in Tid, Unrevoked(s)' PROVE token'[s].root # token'[t].root
      <4>1. CASE s = n
        BY <4>1, <2>1, <2>2, <2>4, <3>1
      <4>2. CASE s # n
        BY <4>2, <2>4, <2>6, <3>1, <3>2 DEF Unrevoked
      <4> QED
        BY <4>1, <4>2
    <3> QED
      BY <2>4, <3>1, <3>2
  <2> QED
    BY <1>1, <2>7, <2>9, <2>10 DEF Inv
<1>5. ASSUME NEW p \in Proc, token' = Updated(p)
      PROVE  /\ RootsArePresent' /\ OneActivePerSession'
             /\ \A t \in Tid : Unrevoked(t)' => Unrevoked(t) /\ lock[t] # p
             /\ \A t \in Tid : Present(t) => Present(t)' /\ token'[t].root = token[t].root
  <2>1. \A t \in Tid : /\ Present(t)' <=> Present(t)
                       /\ Present(t) => token'[t].root = token[t].root
    BY <1>1, <1>5, UpdatedRow DEF Present
  <2>2. \A t \in Tid : Unrevoked(t)' => Unrevoked(t) /\ lock[t] # p /\ token'[t] = token[t]
    BY <1>1, <1>5, StillActive
  <2>3. RootsArePresent'
    <3> SUFFICES ASSUME NEW t \in Tid, Present(t)' PROVE Present(token[t].root)'
      BY <2>1 DEF RootsArePresent, Present
    <3>1. Present(t) /\ Present(token[t].root)
      BY <2>1 DEF Inv, RootsArePresent
    <3>2. token[t].root \in Tid
      BY <1>1, <3>1 DEF LockInv, TypeOK, Row, Present
    <3> QED
      BY <2>1, <3>1, <3>2
  <2>4. OneActivePerSession'
    BY <2>2 DEF Inv, OneActivePerSession
  <2> QED
    BY <2>1, <2>2, <2>3, <2>4
<1>6. ASSUME NEW p \in Proc, LogoutAllCommit(p) PROVE Inv'
  <2>1. token' = Updated(p) /\ revokedEvents' = revokedEvents
    BY <1>6 DEF LogoutAllCommit
  <2>2. DeviceRevokedIsTruthful'
    BY <1>5, <2>1 DEF Inv, DeviceRevokedIsTruthful, Unrevoked
  <2> QED
    BY <1>1, <1>5, <2>1, <2>2 DEF Inv
<1>7. ASSUME NEW p \in Proc, RevokeOneCommit(p) PROVE Inv'
  <2> DEFINE u == req[p].tid
  <2>1. token' = Updated(p) /\ revokedEvents' = [revokedEvents EXCEPT ![u] = @ + 1]
    BY <1>7 DEF RevokeOneCommit
  <2>2. u \in Tid /\ lock[u] = p /\ Unrevoked(u) /\ Present(u)
    BY <1>1, <1>7, NullAssumption
    DEF RevokeOneCommit, LockInv, WinnersHoldTheirRow, LockedRowsAreActive, Targeted, Unrevoked
  <2>3. revokedEvents[u] = 0
    <3>1. ~(revokedEvents[u] > 0) /\ revokedEvents[u] \in Nat
      BY <1>1, <2>2 DEF Inv, DeviceRevokedIsTruthful, LockInv, TypeOK
    <3> QED
      BY <3>1
  <2>4. revokedEvents'[u] = 1 /\ \A t \in Tid : t # u => revokedEvents'[t] = revokedEvents[t]
    BY <1>1, <2>1, <2>2, <2>3 DEF LockInv, TypeOK
  <2>5. DeviceRevokedIsTruthful'
    <3> SUFFICES ASSUME NEW t \in Tid, revokedEvents'[t] > 0
                 PROVE  /\ revokedEvents'[t] = 1 /\ Present(t)'
                        /\ \A s \in Tid : Unrevoked(s)' => token'[s].root # token'[t].root
      BY DEF DeviceRevokedIsTruthful
    <3>1. CASE t = u
      <4>1. \A s \in Tid : Unrevoked(s)' => token[s].root # token[u].root
        BY <1>5, <2>1, <2>2 DEF Inv, OneActivePerSession
      <4> QED
        BY <1>5, <2>1, <2>2, <2>4, <3>1, <4>1 DEF Unrevoked
    <3>2. CASE t # u
      BY <1>5, <2>1, <2>4, <3>2 DEF Inv, DeviceRevokedIsTruthful, Unrevoked
    <3> QED
      BY <3>1, <3>2
  <2> QED
    BY <1>1, <1>5, <2>1, <2>5 DEF Inv
<1> QED
  BY <1>2, <1>3, <1>4, <1>6, <1>7, RowSteps

-----------------------------------------------------------------------------
\* A step leaves a committed row as it is or writes its revokedAt, once.
LEMMA RowStep ==
    ASSUME LockInv, [Next]_vars, NEW t \in Tid, Present(t)
    PROVE  \/ token'[t] = token[t]
           \/ /\ Unrevoked(t) /\ token'[t] # NULL /\ token'[t].revokedAt # NULL
              /\ token'[t] = [token[t] EXCEPT !.revokedAt = token'[t].revokedAt]
<1>1. ASSUME NEW p \in Proc, token'[t] = Updated(p)[t]
      PROVE  \/ token'[t] = token[t]
             \/ /\ Unrevoked(t) /\ token'[t] # NULL /\ token'[t].revokedAt # NULL
                /\ token'[t] = [token[t] EXCEPT !.revokedAt = token'[t].revokedAt]
  <2>1. lock[t] = p => Unrevoked(t)
    BY NullAssumption DEF LockInv, LockedRowsAreActive
  <2> QED
    BY <1>1, <2>1, UpdatedRow
<1>2. ASSUME NEW p \in Proc, RotateCommit(p) PROVE token'[t] = Updated(p)[t]
  BY <1>2, RotateRows
<1>3. ASSUME NEW p \in Proc, LogoutAllCommit(p) \/ RevokeOneCommit(p)
      PROVE  token'[t] = Updated(p)[t]
  BY <1>3 DEF LogoutAllCommit, RevokeOneCommit
<1>4. ASSUME NEW a \in Account, NEW d \in Device, Persist(a, d) PROVE token'[t] = token[t]
  BY <1>4, PersistRows
<1> QED
  BY <1>1, <1>2, <1>3, <1>4, RowSteps

\* What a step of another request leaves q: its variables and its locks.
LEMMA OthersStep ==
    ASSUME LockInv, [Next]_vars
    PROVE  \E p \in Proc \cup {NULL} :
              /\ \A q \in Proc : q # p => req'[q] = req[q]
              /\ \A t \in Tid : lock[t] # NULL /\ lock[t] # p => lock'[t] = lock[t]
              /\ \A t \in Tid : lock'[t] \in {lock[t], p, NULL}
              /\ p \in Proc => Arrive(p) \/ Step(p) \/ RequestDies(p)
<1>1. ASSUME req' = req, lock' = lock
      PROVE  \E p \in Proc \cup {NULL} :
                /\ \A q \in Proc : q # p => req'[q] = req[q]
                /\ \A t \in Tid : lock[t] # NULL /\ lock[t] # p => lock'[t] = lock[t]
                /\ \A t \in Tid : lock'[t] \in {lock[t], p, NULL}
                /\ p \in Proc => Arrive(p) \/ Step(p) \/ RequestDies(p)
  BY <1>1, NullAssumption
<1>2. ASSUME NEW p \in Proc, Arrive(p) \/ Step(p) \/ RequestDies(p)
      PROVE  /\ \A q \in Proc : q # p => req'[q] = req[q]
             /\ \A t \in Tid : lock[t] # NULL /\ lock[t] # p => lock'[t] = lock[t]
             /\ \A t \in Tid : lock'[t] \in {lock[t], p, NULL}
  <2>1. \E r : req' = [req EXCEPT ![p] = r]
    BY <1>2
    DEF LockInv, TypeOK, Arrive, Step, RefreshFind, RefreshEligible, RefreshNotEligible,
        RotateRevoke, RotateCommit, LogoutAll, RevokeAllRow, LogoutAllCommit, RevokeDevice,
        RevokeOne, RevokeOneCommit, ListRows, ListCount, Respond, RequestDies, DeadlockAbort,
        Goto, Done
  <2>2. \/ lock' = lock \/ lock' = Released(p)
        \/ \E u : lock[u] = NULL /\ lock' = [lock EXCEPT ![u] = p]
    BY <1>2
    DEF Arrive, Step, RefreshFind, RefreshEligible, RefreshNotEligible, RotateRevoke,
        RotateCommit, LogoutAll, RevokeAllRow, LogoutAllCommit, RevokeDevice, RevokeOne,
        RevokeOneCommit, ListRows, ListCount, Respond, RequestDies, DeadlockAbort
  <2> QED
    BY <2>1, <2>2, ReleasedLock DEF LockInv, TypeOK
<1> QED
  BY <1>1, <1>2 DEF Next, vars, Persist, Tick

\* A logout-all that is under way has revoked, holds, or has yet to come to
\* every row it saw.
LogoutInv ==
    \A p \in Proc : req[p].pc \in {"revoking", "loggedOut"} =>
        \A t \in req[p].seen :
            /\ Present(t)
            /\ Unrevoked(t) => /\ req[p].pc = "revoking"
                               /\ t \in req[p].todo \/ lock[t] = p

\* Only logout-all's own steps bring a request into its control states.
LEMMA NoLogoutStep ==
    ASSUME LockInv, NEW p \in Proc, Arrive(p) \/ Step(p) \/ RequestDies(p),
           ~ (\/ \E a \in Account : LogoutAll(p, a)
              \/ \E u \in Tid : RevokeAllRow(p, u)
              \/ LogoutAllCommit(p))
    PROVE  req'[p].pc \notin {"revoking", "loggedOut"}
<1>1. ASSUME NEW u \in Tid, RefreshFind(p, u) PROVE req'[p].pc = "found"
  BY <1>1 DEF RefreshFind, Idle, LockInv, TypeOK
<1>2. ASSUME NEW a \in Account, ListRows(p, a) PROVE req'[p].pc = "rowsRead"
  BY <1>2 DEF ListRows, Idle, LockInv, TypeOK
<1>3. ASSUME NEW a \in Account, NEW d \in Device, NEW u \in Tid, RevokeDevice(p, a, d, u)
      PROVE  req'[p].pc = "guarded"
  BY <1>3 DEF RevokeDevice, Idle, LockInv, TypeOK
<1>4. CASE Done(p)
  BY <1>4 DEF Done, Idle, LockInv, TypeOK
<1>5. CASE RefreshEligible(p)
  BY <1>5 DEF RefreshEligible, Goto, LockInv, TypeOK, Request
<1>6. CASE RotateRevoke(p) /\ ~Done(p)
  BY <1>6 DEF RotateRevoke, LockInv, TypeOK, Request
<1>7. CASE RevokeOne(p) /\ ~Done(p)
  BY <1>7 DEF RevokeOne, Goto, LockInv, TypeOK, Request
<1>8. CASE ListCount(p)
  BY <1>8 DEF ListCount, LockInv, TypeOK, Request
<1> QED
  BY <1>1, <1>2, <1>3, <1>4, <1>5, <1>6, <1>7, <1>8
  DEF Arrive, Step, RefreshNotEligible, RotateCommit, RevokeOneCommit, Respond,
      RequestDies, DeadlockAbort

\* Every step keeps LogoutInv: the logout's own steps move a row from todo to
\* revoked or locked, nobody else takes its locks, and no row is revived.
LEMMA LogoutStep == LockInv /\ LogoutInv /\ [Next]_vars => LogoutInv'
<1> SUFFICES ASSUME LockInv, LogoutInv, [Next]_vars PROVE LogoutInv'
  OBVIOUS
<1> USE NullAssumption
<1>1. \A t \in Tid : Present(t) => Present(t)' /\ (Unrevoked(t)' => Unrevoked(t))
  BY RowStep DEF Present, Unrevoked
<1>2. LockInv'
  BY LockInvStep
<1> SUFFICES ASSUME NEW q \in Proc, req'[q].pc \in {"revoking", "loggedOut"},
                    NEW t \in Tid, t \in req'[q].seen
             PROVE  /\ Present(t)'
                    /\ Unrevoked(t)' => /\ req'[q].pc = "revoking"
                                        /\ t \in req'[q].todo \/ lock'[t] = q
  BY <1>2 DEF LogoutInv, LockInv, TypeOK, Request
<1>3. CASE req'[q] = req[q] /\ (lock[t] = q => lock'[t] = q)
  BY <1>1, <1>3 DEF LogoutInv
<1>4. ASSUME NEW a \in Account, LogoutAll(q, a)
      PROVE  /\ Present(t)'
             /\ req'[q].pc = "revoking" /\ t \in req'[q].todo
  <2>1. /\ req'[q].pc = "revoking" /\ req'[q].seen = ActiveRows(a)
        /\ req'[q].todo = ActiveRows(a) /\ token' = token
    BY <1>4 DEF LogoutAll, LockInv, TypeOK, Idle
  <2> QED
    BY <2>1 DEF ActiveRows, Unrevoked, Present
<1>5. ASSUME NEW u \in Tid, RevokeAllRow(q, u)
      PROVE  /\ Present(t)'
             /\ Unrevoked(t)' => /\ req'[q].pc = "revoking"
                                 /\ t \in req'[q].todo \/ lock'[t] = q
  <2>1. /\ req[q].pc = "revoking" /\ req'[q].pc = "revoking" /\ req'[q].seen = req[q].seen
        /\ req'[q].todo = req[q].todo \ {u}
    BY <1>5 DEF RevokeAllRow, LockInv, TypeOK, Request
  <2>2. /\ Unrevoked(u) => lock[u] = NULL /\ lock'[u] = q
        /\ \A s \in Tid : s # u => lock'[s] = lock[s]
    BY <1>5 DEF RevokeAllRow, LockInv, TypeOK
  <2>3. Present(t) /\ (Unrevoked(t) => t \in req[q].todo \/ lock[t] = q)
    BY <2>1 DEF LogoutInv
  <2> QED
    BY <1>1, <2>1, <2>2, <2>3
<1>6. ASSUME LogoutAllCommit(q) PROVE Present(t)' /\ ~Unrevoked(t)'
  <2>1. /\ req[q].pc = "revoking" /\ req[q].todo = {} /\ req'[q].seen = req[q].seen
        /\ token' = Updated(q)
    BY <1>6 DEF LogoutAllCommit, Goto, LockInv, TypeOK, Request
  <2>2. Present(t) /\ (Unrevoked(t) => lock[t] = q)
    BY <2>1 DEF LogoutInv
  <2>3. Unrevoked(t)' => Unrevoked(t) /\ lock[t] # q
    BY <2>1, StillActive
  <2> QED
    BY <1>1, <2>2, <2>3
<1>7. CASE \/ \E a \in Account : LogoutAll(q, a)
           \/ \E u \in Tid : RevokeAllRow(q, u)
           \/ LogoutAllCommit(q)
  BY <1>4, <1>5, <1>6, <1>7 DEF Unrevoked
<1>8. CASE /\ Arrive(q) \/ Step(q) \/ RequestDies(q)
           /\ ~ (\/ \E a \in Account : LogoutAll(q, a)
                 \/ \E u \in Tid : RevokeAllRow(q, u)
                 \/ LogoutAllCommit(q))
  BY <1>8, NoLogoutStep
<1>9. CASE ~(Arrive(q) \/ Step(q) \/ RequestDies(q))
  <2>1. PICK p \in Proc \cup {NULL} :
            /\ \A r \in Proc : r # p => req'[r] = req[r]
            /\ \A s \in Tid : lock[s] # NULL /\ lock[s] # p => lock'[s] = lock[s]
            /\ p \in Proc => Arrive(p) \/ Step(p) \/ RequestDies(p)
    BY OthersStep
  <2> QED
    BY <1>3, <1>9, <2>1
<1> QED
  BY <1>7, <1>8, <1>9

-----------------------------------------------------------------------------
(* The refinement.                                                         *)

\* A session is named by the row its login inserted, of the same account.
RootInv ==
    \A t \in Tid : Present(t) =>
        /\ Present(token[t].root)
        /\ token[token[t].root].root = token[t].root
        /\ token[token[t].root].acct = token[t].acct

\* Logout-all updates rows of its own account only.
AccountInv ==
    \A p \in Proc : req[p].pc = "revoking" =>
        \A t \in Tid : t \in req[p].todo \/ lock[t] = p =>
            Present(t) /\ token[t].acct = req[p].acct

RefInv == Inv /\ RootInv /\ AccountInv

\* The columns no statement writes.
LEMMA RowKeeps ==
    ASSUME LockInv, [Next]_vars, NEW t \in Tid, Present(t)
    PROVE  /\ token'[t] # NULL
           /\ token'[t].root = token[t].root
           /\ token'[t].acct = token[t].acct
<1>1. token[t] \in Row
  BY DEF LockInv, TypeOK, Present
<1> QED
  BY <1>1, RowStep DEF Row, Present

LEMMA RootStep == LockInv /\ RootInv /\ [Next]_vars => RootInv'
<1> SUFFICES ASSUME LockInv, RootInv, [Next]_vars PROVE RootInv'
  OBVIOUS
<1>1. \A t \in Tid : Present(t) => token[t].root \in Tid
  BY DEF LockInv, TypeOK, Row, Present
<1>2. \A t \in Tid : Present(t) => /\ token'[t] # NULL
                                   /\ token'[t].root = token[t].root
                                   /\ token'[t].acct = token[t].acct
  BY RowKeeps
<1> SUFFICES ASSUME NEW t \in Tid, token'[t] # NULL
             PROVE  /\ token'[token'[t].root] # NULL
                    /\ token'[token'[t].root].root = token'[t].root
                    /\ token'[token'[t].root].acct = token'[t].acct
  BY DEF RootInv, Present
<1>3. CASE Present(t)
  BY <1>1, <1>2, <1>3 DEF RootInv
<1>4. CASE \E s \in Tid : /\ Present(s) /\ token'[t].root = token[s].root
                          /\ token'[t].acct = token[s].acct
  BY <1>1, <1>2, <1>4 DEF RootInv
<1>5. CASE token'[t].root = t
  BY <1>5
<1>6. ASSUME NEW a \in Account, NEW d \in Device, Persist(a, d), ~Present(t)
      PROVE  token'[t].root = t
  BY <1>6, PersistRows DEF Present
<1>7. ASSUME NEW p \in Proc, RotateCommit(p), ~Present(t)
      PROVE  \E s \in Tid : /\ Present(s) /\ token'[t].root = token[s].root
                            /\ token'[t].acct = token[s].acct
  <2>1. ~(Updated(p)[t] # NULL)
    BY <1>7, UpdatedRow
  <2> QED
    BY <1>7, <2>1, RotateRows DEF Unrevoked
<1>8. ASSUME NEW p \in Proc, LogoutAllCommit(p) \/ RevokeOneCommit(p) PROVE Present(t)
  BY <1>8, UpdatedRow DEF LogoutAllCommit, RevokeOneCommit
<1>9. CASE token' = token
  BY <1>3, <1>9 DEF Present
<1> QED
  BY <1>3, <1>4, <1>5, <1>6, <1>7, <1>8, <1>9, RowSteps

LEMMA AccountStep == LockInv /\ AccountInv /\ [Next]_vars => AccountInv'
<1> SUFFICES ASSUME LockInv, AccountInv, [Next]_vars PROVE AccountInv'
  OBVIOUS
<1> USE NullAssumption
<1>1. \A t \in Tid : Present(t) => Present(t)' /\ token'[t].acct = token[t].acct
  BY RowKeeps DEF Present
<1> SUFFICES ASSUME NEW q \in Proc, req'[q].pc = "revoking",
                    NEW t \in Tid, t \in req'[q].todo \/ lock'[t] = q
             PROVE  Present(t)' /\ token'[t].acct = req'[q].acct
  BY DEF AccountInv
<1>2. CASE req'[q] = req[q] /\ (lock'[t] = q => lock[t] = q)
  BY <1>1, <1>2 DEF AccountInv
<1>3. ASSUME NEW a \in Account, LogoutAll(q, a) PROVE Present(t)' /\ token'[t].acct = req'[q].acct
  <2>1. /\ req'[q].acct = a /\ req'[q].todo = ActiveRows(a)
        /\ token' = token /\ lock' = lock /\ req[q].pc = "idle"
    BY <1>3 DEF LogoutAll, LockInv, TypeOK, Idle
  <2>2. lock[t] # q
    BY <2>1 DEF LockInv, LockedRowsAreActive, Holding
  <2> QED
    BY <2>1, <2>2 DEF ActiveRows, Unrevoked, Present
<1>4. ASSUME NEW u \in Tid, RevokeAllRow(q, u) PROVE Present(t)' /\ token'[t].acct = req'[q].acct
  <2>1. /\ req[q].pc = "revoking" /\ req'[q].acct = req[q].acct
        /\ req'[q].todo \subseteq req[q].todo /\ u \in req[q].todo
    BY <1>4 DEF RevokeAllRow, LockInv, TypeOK, Request
  <2>2. lock'[t] = q => lock[t] = q \/ t = u
    BY <1>4 DEF RevokeAllRow, LockInv, TypeOK
  <2> QED
    BY <1>1, <2>1, <2>2 DEF AccountInv
<1>5. CASE \/ \E a \in Account : LogoutAll(q, a)
           \/ \E u \in Tid : RevokeAllRow(q, u)
  BY <1>3, <1>4, <1>5
<1>6. CASE /\ Arrive(q) \/ Step(q) \/ RequestDies(q)
           /\ ~ (\/ \E a \in Account : LogoutAll(q, a)
                 \/ \E u \in Tid : RevokeAllRow(q, u))
  <2>1. LogoutAllCommit(q) => req'[q].pc = "loggedOut"
    BY DEF LogoutAllCommit, Goto, LockInv, TypeOK, Request
  <2> QED
    BY <1>6, <2>1, NoLogoutStep
<1>7. CASE ~(Arrive(q) \/ Step(q) \/ RequestDies(q))
  BY <1>2, <1>7, OthersStep DEF LockInv, TypeOK
<1> QED
  BY <1>5, <1>6, <1>7

\* A commit of p that only revokes rows of account a ends their sessions.
LEMMA CommitEnds ==
    ASSUME RefInv, NEW p \in Proc, NEW a \in Account, token' = Updated(p),
           \A t \in Tid : lock[t] = p => token[t].acct = a
    PROVE  S!End(a, {token[t].root : t \in {t \in Tid : lock[t] = p}})
           \/ UNCHANGED <<SessionOwner, LiveSessions>>
<1> USE NullAssumption
<1> DEFINE E == {token[t].root : t \in {t \in Tid : lock[t] = p}}
<1>1. LockInv /\ RootInv
  BY DEF RefInv, Inv
<1>2. \A t \in Tid : /\ Present(t)' <=> Present(t)
                     /\ Present(t) => /\ token'[t].root = token[t].root
                                      /\ token'[t].acct = token[t].acct
  <2> TAKE t \in Tid
  <2>1. Present(t)' <=> Present(t)
    BY <1>1, UpdatedRow DEF Present
  <2>2. Present(t) => token[t] \in Row
    BY <1>1 DEF LockInv, TypeOK, Present
  <2>3. CASE lock[t] = p
    <3>1. token'[t] = [token[t] EXCEPT !.revokedAt = Updated(p)[t].revokedAt]
      BY <1>1, <2>3, UpdatedRow
    <3> QED
      BY <2>1, <2>2, <3>1 DEF Row
  <2>4. CASE lock[t] # p
    BY <1>1, <2>1, <2>4, UpdatedRow
  <2> QED
    BY <2>3, <2>4
<1>3. \A t \in Tid : Unrevoked(t)' <=> Unrevoked(t) /\ lock[t] # p
  BY <1>1, UpdatedRow DEF Unrevoked, Present
<1>4. \A t \in Tid : lock[t] = p => Unrevoked(t)
  BY <1>1 DEF LockInv, LockedRowsAreActive
<1>5. SessionOwner' = SessionOwner
  BY <1>2 DEF SessionOwner
<1>6. LiveSessions' = LiveSessions \ E
  <2>1. ASSUME NEW s \in LiveSessions' PROVE s \in LiveSessions \ E
    <3>1. PICK t \in Tid : Unrevoked(t)' /\ s = token'[t].root
      BY <2>1 DEF LiveSessions
    <3>2. Unrevoked(t) /\ lock[t] # p /\ s = token[t].root
      BY <1>2, <1>3, <3>1 DEF Unrevoked
    <3>3. s \notin E
      BY <1>4, <3>2 DEF RefInv, Inv, OneActivePerSession
    <3> QED
      BY <3>2, <3>3 DEF LiveSessions
  <2>2. ASSUME NEW s \in LiveSessions, s \notin E PROVE s \in LiveSessions'
    <3>1. PICK t \in Tid : Unrevoked(t) /\ s = token[t].root
      BY DEF LiveSessions
    <3>2. lock[t] # p
      BY <2>2, <3>1
    <3>3. Unrevoked(t)' /\ token'[t].root = s
      BY <1>2, <1>3, <3>1, <3>2 DEF Unrevoked
    <3> QED
      BY <3>3 DEF LiveSessions
  <2> QED
    BY <2>1, <2>2
<1>7. \A s \in E : s \in LiveSessions /\ SessionOwner[s] = a
  <2> SUFFICES ASSUME NEW t \in Tid, lock[t] = p
               PROVE  token[t].root \in LiveSessions /\ SessionOwner[token[t].root] = a
    OBVIOUS
  <2>1. Unrevoked(t) /\ Present(t) /\ token[t].acct = a
    BY <1>4 DEF Unrevoked
  <2>2. token[t].root \in Tid
    BY <1>1, <2>1 DEF LockInv, TypeOK, Row, Present
  <2> QED
    BY <1>1, <2>1, <2>2 DEF LiveSessions, SessionOwner, RootInv
<1>8. CASE E = {}
  BY <1>5, <1>6, <1>8
<1>9. CASE E # {}
  BY <1>5, <1>6, <1>7, <1>9 DEF S!End
<1> QED
  BY <1>8, <1>9

\* A rotation does not show.
LEMMA RotationIsInvisible ==
    ASSUME RefInv, NEW p \in Proc, RotateCommit(p)
    PROVE  UNCHANGED <<SessionOwner, LiveSessions>>
<1> DEFINE u == req[p].tid
<1>1. LockInv /\ RootInv /\ [Next]_vars
  BY DEF RefInv, Inv, Next, Step
<1>2. /\ u \in Tid /\ Unrevoked(u) /\ Present(u) /\ lock[u] = p
      /\ \A t \in Tid : lock[t] = p => t = u
  BY <1>1, RotateRows DEF Unrevoked
<1>3. PICK n \in Tid : /\ ~Present(n) /\ token'[n] # NULL
                       /\ token'[n].root = token[u].root
                       /\ token'[n].revokedAt = NULL
                       /\ \A t \in Tid : t # n => token'[t] = Updated(p)[t]
  BY <1>1, RotateRows
<1>4. \A t \in Tid : Present(t) => /\ t # n /\ token'[t] # NULL
                                   /\ token'[t].root = token[t].root
                                   /\ token'[t].acct = token[t].acct
  BY <1>1, <1>3, RowKeeps
<1>5. \A t \in Tid : t # n /\ token'[t] # NULL => Present(t)
  <2> TAKE t \in Tid
  <2> HAVE t # n /\ token'[t] # NULL
  <2>1. Updated(p)[t] # NULL
    BY <1>3
  <2> QED
    BY <1>1, <2>1, UpdatedRow
<1>6. token[u].root \in Tid /\ Present(token[u].root)
  BY <1>1, <1>2 DEF LockInv, TypeOK, Row, Present, RootInv
<1>7. SessionOwner' = SessionOwner
  <2> SUFFICES ASSUME NEW s \in Tid
               PROVE  /\ token'[s] # NULL /\ token'[s].root = s <=>
                            Present(s) /\ token[s].root = s
                      /\ Present(s) => token'[s].acct = token[s].acct
    BY DEF SessionOwner, Present
  <2>1. CASE s = n
    BY <2>1, <1>3, <1>6
  <2>2. CASE s # n
    BY <2>2, <1>4, <1>5
  <2> QED
    BY <2>1, <2>2
<1>8. \A t \in Tid : Unrevoked(t) /\ t # u => Unrevoked(t)' /\ token'[t].root = token[t].root
  <2> TAKE t \in Tid
  <2> HAVE Unrevoked(t) /\ t # u
  <2>1. Present(t) /\ lock[t] # p
    BY <1>2 DEF Unrevoked
  <2>2. t # n
    BY <1>3, <2>1
  <2>3. token'[t] = Updated(p)[t]
    BY <1>3, <2>2
  <2>4. token'[t] = token[t]
    BY <1>1, <2>1, <2>3, UpdatedRow
  <2> QED
    BY <2>4 DEF Unrevoked, Present
<1>9. \A t \in Tid : Unrevoked(t)' /\ t # n => Unrevoked(t)
  BY <1>1, <1>3, StillActive
<1>10. Unrevoked(n)'
  BY <1>3 DEF Unrevoked, Present
<1>11. LiveSessions' = LiveSessions
  <2>1. ASSUME NEW s \in LiveSessions PROVE s \in LiveSessions'
    <3>1. PICK t \in Tid : Unrevoked(t) /\ s = token[t].root
      BY DEF LiveSessions
    <3>2. CASE t = u
      BY <1>3, <1>10, <3>1, <3>2 DEF LiveSessions
    <3>3. CASE t # u
      BY <1>8, <3>1, <3>3 DEF LiveSessions
    <3> QED
      BY <3>2, <3>3
  <2>2. ASSUME NEW s \in LiveSessions' PROVE s \in LiveSessions
    <3>1. PICK t \in Tid : Unrevoked(t)' /\ s = token'[t].root
      BY DEF LiveSessions
    <3>2. CASE t = n
      BY <1>2, <1>3, <3>1, <3>2 DEF LiveSessions
    <3>3. CASE t # n
      BY <1>4, <1>9, <3>1, <3>3 DEF LiveSessions, Unrevoked
    <3> QED
      BY <3>2, <3>3
  <2> QED
    BY <2>1, <2>2
<1> QED
  BY <1>7, <1>11

\* A login starts a session.
LEMMA LoginStarts ==
    ASSUME RefInv, NEW a \in Account, NEW d \in Device, Persist(a, d)
    PROVE  \E n \in Tid : S!Start(n, a)
<1>1. LockInv
  BY DEF RefInv, Inv
<1>2. PICK n \in Tid : /\ ~Present(n)
                       /\ token'[n] # NULL /\ token'[n].acct = a
                       /\ token'[n].root = n /\ token'[n].revokedAt = NULL
                       /\ \A t \in Tid : t # n => token'[t] = token[t]
  BY <1>1, PersistRows
<1>3. SessionOwner[n] = NULL
  BY <1>2 DEF SessionOwner
<1>4. SessionOwner' = [SessionOwner EXCEPT ![n] = a]
  BY <1>2 DEF SessionOwner, Present
<1>5. LiveSessions' = LiveSessions \cup {n}
  <2>1. Unrevoked(n)' /\ ~Unrevoked(n)
    BY <1>2 DEF Unrevoked, Present
  <2>2. \A t \in Tid : t # n => /\ Unrevoked(t)' <=> Unrevoked(t)
                                /\ token'[t].root = token[t].root
    BY <1>2 DEF Unrevoked, Present
  <2> QED
    BY <1>2, <2>1, <2>2 DEF LiveSessions
<1> QED
  BY <1>3, <1>4, <1>5 DEF S!Start

LEMMA RefStep == RefInv /\ [Next]_vars => RefInv' /\ [S!Next]_(S!svars)
<1> SUFFICES ASSUME RefInv, [Next]_vars PROVE RefInv' /\ [S!Next]_(S!svars)
  OBVIOUS
<1>1. LockInv /\ RootInv /\ AccountInv
  BY DEF RefInv, Inv
<1>2. RefInv'
  BY <1>1, SessionStep, RootStep, AccountStep DEF RefInv
<1>3. CASE token' = token
  <2>1. SessionOwner' = SessionOwner
    BY <1>3 DEF SessionOwner, Present
  <2>2. LiveSessions' = LiveSessions
    <3>1. \A t \in Tid : Unrevoked(t)' <=> Unrevoked(t)
      BY <1>3 DEF Unrevoked, Present
    <3> QED
      BY <1>3, <3>1 DEF LiveSessions
  <2> QED
    BY <1>2, <2>1, <2>2 DEF S!svars
<1>4. ASSUME NEW a \in Account, NEW d \in Device, Persist(a, d) PROVE S!Next
  BY <1>4, LoginStarts DEF S!Next
<1>5. ASSUME NEW p \in Proc, RotateCommit(p) PROVE UNCHANGED S!svars
  BY <1>5, RotationIsInvisible DEF S!svars
<1>6. ASSUME NEW p \in Proc, NEW a \in Account, token' = Updated(p),
             \A t \in Tid : lock[t] = p => token[t].acct = a
      PROVE  [S!Next]_(S!svars)
  <2>1. {token[t].root : t \in {t \in Tid : lock[t] = p}} \in SUBSET Tid
    BY <1>1, NullAssumption
    DEF LockInv, TypeOK, LockedRowsAreActive, Unrevoked, Present, Row
  <2> QED
    BY <1>6, <2>1, CommitEnds DEF S!Next, S!svars
<1>7. ASSUME NEW p \in Proc, LogoutAllCommit(p) PROVE [S!Next]_(S!svars)
  <2>1. /\ token' = Updated(p)
        /\ \A t \in Tid : lock[t] = p => Present(t) /\ token[t].acct = req[p].acct
    BY <1>1, <1>7 DEF LogoutAllCommit, AccountInv
  <2>2. CASE req[p].acct \in Account
    BY <1>6, <2>1, <2>2
  <2>3. CASE \A t \in Tid : lock[t] # p
    <3>1. token' = token
      BY <1>1, <2>1, <2>3 DEF Updated, LockInv, TypeOK
    <3> QED
      BY <1>3, <3>1
  <2>4. \A t \in Tid : Present(t) => token[t].acct \in Account
    BY <1>1 DEF LockInv, TypeOK, Row, Present
  <2> QED
    BY <2>1, <2>2, <2>3, <2>4
<1>8. ASSUME NEW p \in Proc, RevokeOneCommit(p) PROVE [S!Next]_(S!svars)
  <2> DEFINE u == req[p].tid
  <2>1. token' = Updated(p) /\ u \in Tid /\ Present(u)
    BY <1>1, <1>8 DEF RevokeOneCommit, LockInv, WinnersHoldTheirRow, Targeted
  <2>2. \A t \in Tid : lock[t] = p => t = u
    BY <1>1, <1>8, NullAssumption DEF RevokeOneCommit, LockInv, LockedRowsAreActive
  <2>3. token[u].acct \in Account
    BY <1>1, <2>1 DEF LockInv, TypeOK, Row, Present
  <2> QED
    BY <1>6, <2>1, <2>2, <2>3
<1> QED
  BY <1>2, <1>3, <1>4, <1>5, <1>7, <1>8, RowSteps

-----------------------------------------------------------------------------
\* The inductive invariant holds in every reachable state.
THEOREM Invariance == Spec => []Inv
  BY InitInv, SessionStep, PTL DEF Spec

\* Type correctness of the table, the locks and the requests.
THEOREM TypeCorrect == Spec => []TypeOK
<1>1. Inv => TypeOK
  BY DEF Inv, LockInv
<1> QED
  BY <1>1, Invariance, PTL

\* A login never has two usable refresh tokens, however refreshes, removals and
\* logouts race or die: rotation is exactly-once.
THEOREM RotationIsExactlyOnce == Spec => []OneActivePerSession
<1>1. Inv => OneActivePerSession
  BY DEF Inv
<1> QED
  BY <1>1, Invariance, PTL

\* A published removal of a device is unique and final.
THEOREM DeviceRemovalIsTruthful == Spec => []DeviceRevokedIsTruthful
<1>1. Inv => DeviceRevokedIsTruthful
  BY DEF Inv
<1> QED
  BY <1>1, Invariance, PTL

\* When logout-all answers 204, every row it found active is revoked.
THEOREM LogoutRevokesWhatItSaw == Spec => []LogoutAllRevokesWhatItSaw
<1>1. Init => LogoutInv
  BY DEF Init, LogoutInv, Idle
<1>2. Inv => LockInv
  BY DEF Inv
<1>3. LogoutInv => LogoutAllRevokesWhatItSaw
  BY DEF LogoutInv, LogoutAllRevokesWhatItSaw
<1> QED
  BY <1>1, <1>2, <1>3, LogoutStep, Invariance, PTL DEF Spec

\* Rows are never deleted or revived, and revokedAt is written once.
THEOREM RevocationIsFinal == Spec => RevokedAtIsWrittenOnce
<1>1. LockInv /\ [Next]_vars =>
        [\A t \in Tid : Present(t) =>
            \/ token'[t] = token[t]
            \/ /\ Unrevoked(t)
               /\ Present(t)'
               /\ token'[t] = [token[t] EXCEPT !.revokedAt = token'[t].revokedAt]]_vars
  BY RowStep DEF Present
<1>2. Inv => LockInv
  BY DEF Inv
<1> QED
  BY <1>1, <1>2, Invariance, PTL DEF Spec, RevokedAtIsWrittenOnce

\* The table implements Sessions: for the owner of a session rotation is
\* invisible, and a session that was ended stays ended.
THEOREM Refinement == Spec => ImplementsSessions
<1>1. Init => RefInv /\ S!Init
  <2>1. Init => RootInv /\ AccountInv
    BY NullAssumption DEF Init, RootInv, AccountInv, Present, Idle
  <2>2. Init => S!Init
    BY DEF Init, S!Init, SessionOwner, LiveSessions, Present, Unrevoked
  <2> QED
    BY <2>1, <2>2, InitInv DEF RefInv
<1> QED
  BY <1>1, RefStep, PTL DEF Spec, ImplementsSessions, S!Spec

=============================================================================
