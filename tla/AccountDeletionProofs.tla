----------------------- MODULE AccountDeletionProofs -----------------------
(***************************************************************************)
(* Theorems about AccountDeletion for every set of requests, servers and   *)
(* accounts, every lifetime and every bound.                               *)
(***************************************************************************)
EXTENDS AccountDeletion, FiniteSetTheorems, TLAPS

(***************************************************************************)
(* The inductive invariant.                                                *)
(***************************************************************************)

\* The control states in which a request has marked its code used, and those
\* in which it has updated its account, without a commit so far.
HoldsCode == {"claimed", "frozen", "unfrozen"}
HoldsAccount == {"frozen", "unfrozen"}

\* What a request knows: its code exists and is of its account and purpose, an
\* uncommitted update was made to a row that matched its WHERE and still does.
RequestOK(p) ==
    /\ req[p].pc # "idle" => req[p].acct \in Account
    /\ req[p].pc \in {"sending", "submitted", "checked"} \cup HoldsCode =>
          req[p].purpose \in Purpose
    /\ req[p].pc \in {"submitted", "checked"} \cup HoldsCode =>
          /\ req[p].code \in DOMAIN code
          /\ code[req[p].code].acct = req[p].acct
          /\ code[req[p].code].purpose = req[p].purpose
    /\ req[p].pc \in HoldsCode => ~code[req[p].code].used
    /\ req[p].pc = "frozen" => /\ req[p].purpose = "DELETE_ACCOUNT"
                               /\ account[req[p].acct].status = "ACTIVE"
                               /\ req[p].seen <= tokens[req[p].acct]
    /\ req[p].pc = "unfrozen" => /\ req[p].purpose = "CANCEL_DELETION"
                                 /\ account[req[p].acct].status = "FROZEN"

\* The same of a run of the job, whose now is never ahead of the clock.
SweepOK(s) ==
    /\ sweep[s].now <= clock
    /\ sweep[s].pc = "anonymizing" =>
          /\ sweep[s].acct \in Account
          /\ account[sweep[s].acct].status = "FROZEN"
          /\ account[sweep[s].acct].freezeUntil <= sweep[s].now
          /\ sweep[s].seen <= tokens[sweep[s].acct]

\* A row has one uncommitted update at most.
CodesExclusive ==
    \A p, q \in Proc : (/\ req[p].pc \in HoldsCode /\ req[q].pc \in HoldsCode
                        /\ req[p].code = req[q].code) => p = q
AccountsExclusive ==
    /\ \A p, q \in Proc : (/\ req[p].pc \in HoldsAccount /\ req[q].pc \in HoldsAccount
                           /\ req[p].acct = req[q].acct) => p = q
    /\ \A p \in Proc, s \in Server :
          req[p].pc \in HoldsAccount /\ sweep[s].pc = "anonymizing"
          => req[p].acct # sweep[s].acct
    /\ \A s, t \in Server : (/\ sweep[s].pc = "anonymizing" /\ sweep[t].pc = "anonymizing"
                             /\ sweep[s].acct = sweep[t].acct) => s = t

Inv == /\ TypeOK
       /\ \A p \in Proc : RequestOK(p)
       /\ \A s \in Server : SweepOK(s)
       /\ CodesExclusive
       /\ AccountsExclusive

-----------------------------------------------------------------------------
LEMMA InitInv == Init => Inv
<1> SUFFICES ASSUME Init PROVE Inv
  OBVIOUS
<1>1. TypeOK
  BY DEF Init, TypeOK, Idle, Asleep, Request, Sweep, PC, Row
<1>2. \A p \in Proc : RequestOK(p)
  BY DEF Init, RequestOK, Idle, HoldsCode
<1>3. \A s \in Server : SweepOK(s)
  BY DEF Init, SweepOK, Asleep
<1>4. CodesExclusive /\ AccountsExclusive
  BY DEF Init, CodesExclusive, AccountsExclusive, Idle, Asleep, HoldsCode, HoldsAccount
<1> QED
  BY <1>1, <1>2, <1>3, <1>4 DEF Inv

-----------------------------------------------------------------------------
\* A step that changes nothing but the control state and the local variables
\* of one request keeps the invariant if what that request knows afterwards is
\* true and it has not taken a row another transaction has updated.
LEMMA RequestStep ==
    ASSUME Inv, NEW p \in Proc,
           req' \in [Proc -> Request],
           \A q \in Proc \ {p} : req'[q] = req[q],
           UNCHANGED <<clock, account, code, tokens, outbox, sweep>>,
           RequestOK(p)',
           req'[p].pc \in HoldsCode =>
              \A q \in Proc \ {p} : ~(req[q].pc \in HoldsCode /\ req[q].code = req'[p].code),
           req'[p].pc \in HoldsAccount =>
              /\ \A q \in Proc \ {p} : ~(req[q].pc \in HoldsAccount /\ req[q].acct = req'[p].acct)
              /\ \A s \in Server : ~(sweep[s].pc = "anonymizing" /\ sweep[s].acct = req'[p].acct)
    PROVE  Inv'
<1>1. TypeOK'
  BY DEF Inv, TypeOK
<1>2. ASSUME NEW q \in Proc PROVE RequestOK(q)'
  <2>1. CASE q = p
    BY <2>1
  <2>2. CASE q # p
    BY <2>2 DEF Inv, RequestOK
  <2> QED
    BY <2>1, <2>2
<1>3. ASSUME NEW s \in Server PROVE SweepOK(s)'
  BY DEF Inv, SweepOK
<1>4. CodesExclusive'
  BY DEF Inv, CodesExclusive
<1>5. AccountsExclusive'
  BY DEF Inv, AccountsExclusive
<1> QED
  BY <1>1, <1>2, <1>3, <1>4, <1>5 DEF Inv

\* A request that ends, whatever its outcome, releases what it held.
LEMMA DoneStep ==
    ASSUME Inv, NEW p \in Proc, Done(p),
           UNCHANGED <<clock, account, code, tokens, outbox, sweep>>
    PROVE  Inv'
<1>1. Idle \in Request
  BY DEF Idle, Request, PC
<1>2. /\ req' \in [Proc -> Request]
      /\ \A q \in Proc \ {p} : req'[q] = req[q]
      /\ req'[p] = Idle
  BY <1>1 DEF Inv, TypeOK, Done
<1>3. req'[p].pc = "idle"
  BY <1>2 DEF Idle
<1>4. RequestOK(p)'
  BY <1>3 DEF RequestOK, HoldsCode
<1> QED
  BY <1>2, <1>3, <1>4, RequestStep DEF HoldsCode, HoldsAccount

\* A request that goes on to another control state and keeps its variables.
LEMMA GotoStep ==
    ASSUME Inv, NEW p \in Proc, NEW pc \in PC, Goto(p, pc),
           UNCHANGED <<clock, account, code, tokens, outbox, sweep>>,
           RequestOK(p)',
           pc \in HoldsCode => req[p].pc \in HoldsCode \/ ~CodeHeld(req[p].code),
           pc \in HoldsAccount => ~AccountHeld(req[p].acct)
    PROVE  Inv'
<1>1. req[p] \in Request
  BY DEF Inv, TypeOK
<1>2. [req[p] EXCEPT !.pc = pc] \in Request
  BY <1>1 DEF Request
<1>3. /\ req' \in [Proc -> Request]
      /\ \A q \in Proc \ {p} : req'[q] = req[q]
      /\ req'[p] = [req[p] EXCEPT !.pc = pc]
  BY <1>2 DEF Inv, TypeOK, Goto
<1>4. req'[p].pc = pc /\ req'[p].code = req[p].code /\ req'[p].acct = req[p].acct
  BY <1>1, <1>3 DEF Request
<1>5. req'[p].pc \in HoldsCode =>
        \A q \in Proc \ {p} : ~(req[q].pc \in HoldsCode /\ req[q].code = req'[p].code)
  BY <1>4 DEF Inv, CodesExclusive, CodeHeld, HoldsCode
<1>6. req'[p].pc \in HoldsAccount =>
        /\ \A q \in Proc \ {p} : ~(req[q].pc \in HoldsAccount /\ req[q].acct = req'[p].acct)
        /\ \A s \in Server : ~(sweep[s].pc = "anonymizing" /\ sweep[s].acct = req'[p].acct)
  BY <1>4 DEF AccountHeld, HoldsAccount
<1> QED
  BY <1>3, <1>5, <1>6, RequestStep

-----------------------------------------------------------------------------
\* The arrival of a request: what its first look at the account lets through.
LEMMA ArriveInv == ASSUME Inv, NEW p \in Proc, Arrive(p) PROVE Inv'
<1> DEFINE r == req'[p]
<1>1. PICK a \in Account :
          \/ SendDeletionCode(p, a) \/ SendCancelDeletionCode(p, a)
          \/ \E c \in DOMAIN code : DeleteAccount(p, a, c) \/ CancelDeletion(p, a, c)
          \/ SignIn(p, a)
  BY DEF Arrive
<1>2. /\ UNCHANGED <<clock, account, code, tokens, outbox, sweep>>
      /\ req' = [req EXCEPT ![p] = r]
  BY <1>1 DEF Inv, TypeOK, SendDeletionCode, SendCancelDeletionCode, DeleteAccount,
              CancelDeletion, Submit, SignIn
<1>3. /\ r \in Request
      /\ r.pc \in {"sending", "submitted", "inspected"}
      /\ r.acct \in Account
      /\ r.pc # "inspected" => r.purpose \in Purpose
      /\ r.pc = "submitted" => /\ r.code \in DOMAIN code
                               /\ code[r.code].acct = r.acct
                               /\ code[r.code].purpose = r.purpose
  <2> USE DEF Idle, Request, PC, Purpose, Inv, TypeOK
  <2>1. CASE SendDeletionCode(p, a)
    BY <2>1 DEF SendDeletionCode
  <2>2. CASE SendCancelDeletionCode(p, a)
    BY <2>2 DEF SendCancelDeletionCode
  <2>3. ASSUME NEW c \in DOMAIN code, DeleteAccount(p, a, c) \/ CancelDeletion(p, a, c)
        PROVE  /\ r \in Request /\ r.pc = "submitted" /\ r.acct = a
               /\ r.purpose \in Purpose /\ r.code = c
               /\ code[c].acct = a /\ code[c].purpose = r.purpose
    <3>1. c \in Nat /\ clock \in Nat /\ req \in [Proc -> Request]
      <4>1. code \in Seq(Code)
        OBVIOUS
      <4> QED
        BY <2>3, <4>1
    <3>2. PICK u \in Purpose : Submit(p, a, u, c)
      BY <2>3 DEF DeleteAccount, CancelDeletion
    <3>3. r = [Idle EXCEPT !.pc = "submitted", !.acct = a, !.code = c,
                           !.purpose = u, !.now = clock]
      BY <3>1, <3>2 DEF Submit
    <3>4. r = [pc |-> "submitted", acct |-> a, purpose |-> u, code |-> c, now |-> clock,
               seen |-> 0]
      BY <3>3
    <3> QED
      BY <3>1, <3>2, <3>4 DEF Submit
  <2>4. CASE SignIn(p, a)
    BY <2>4 DEF SignIn
  <2> QED
    BY <1>1, <2>1, <2>2, <2>3, <2>4
<1>4. RequestOK(p)'
  BY <1>2, <1>3 DEF RequestOK, HoldsCode
<1>5. /\ req' \in [Proc -> Request]
      /\ \A q \in Proc \ {p} : req'[q] = req[q]
  BY <1>2, <1>3 DEF Inv, TypeOK
<1> QED
  BY <1>2, <1>3, <1>4, <1>5, RequestStep DEF HoldsCode, HoldsAccount

\* A code is stored: the rows there were stay as they are.
LEMMA IssueCodeInv == ASSUME Inv, NEW p \in Proc, IssueCode(p) PROVE Inv'
<1> DEFINE issued == IF req[p].purpose = "DELETE_ACCOUNT" THEN clock ELSE req[p].now
           row == [acct |-> req[p].acct, purpose |-> req[p].purpose,
                   expiresAt |-> issued + CodeTTL, used |-> FALSE]
<1>1. row \in Code
  <2>1. req[p].acct \in Account /\ req[p].purpose \in Purpose
    BY DEF Inv, RequestOK, IssueCode
  <2>2. issued + CodeTTL \in Nat
    BY TimeAssumption DEF Inv, TypeOK, Request
  <2> QED
    BY <2>1, <2>2 DEF Code
<1>2. /\ code' \in Seq(Code)
      /\ DOMAIN code \subseteq DOMAIN code'
      /\ \A c \in DOMAIN code : code'[c] = code[c]
  <2> HIDE DEF row
  <2>1. code' = Append(code, row) \/ code' = code
    BY DEF IssueCode, row
  <2>2. code \in Seq(Code)
    BY DEF Inv, TypeOK
  <2>3. /\ Append(code, row) \in Seq(Code)
        /\ DOMAIN code \subseteq DOMAIN Append(code, row)
        /\ \A c \in DOMAIN code : Append(code, row)[c] = code[c]
    BY <1>1, <2>2
  <2> QED
    BY <2>1, <2>2, <2>3
<1>3. /\ req' = [req EXCEPT ![p] = Idle]
      /\ UNCHANGED <<clock, account, tokens, outbox, sweep>>
  BY DEF IssueCode, Done
<1>4. Idle \in Request /\ Idle.pc = "idle"
  BY DEF Idle, Request, PC
<1>5. TypeOK'
  BY <1>2, <1>3, <1>4 DEF Inv, TypeOK
<1>6. ASSUME NEW q \in Proc PROVE RequestOK(q)'
  <2>1. CASE q = p
    BY <2>1, <1>3, <1>4 DEF RequestOK, HoldsCode, Inv, TypeOK
  <2>2. CASE q # p
    <3>1. req'[q] = req[q]
      BY <2>2, <1>3 DEF Inv, TypeOK
    <3> QED
      BY <3>1, <1>2, <1>3 DEF Inv, RequestOK, HoldsCode
  <2> QED
    BY <2>1, <2>2
<1>7. \A s \in Server : SweepOK(s)'
  BY <1>3 DEF Inv, SweepOK
<1>8. CodesExclusive' /\ AccountsExclusive'
  BY <1>3, <1>4 DEF Inv, TypeOK, CodesExclusive, AccountsExclusive, HoldsCode, HoldsAccount
<1> QED
  BY <1>5, <1>6, <1>7, <1>8 DEF Inv

LEMMA CheckCodeInv == ASSUME Inv, NEW p \in Proc, CheckCode(p) PROVE Inv'
<1> DEFINE now == IF req[p].purpose = "DELETE_ACCOUNT" THEN clock ELSE req[p].now
<1>1. UNCHANGED <<clock, account, code, tokens, outbox, sweep>> /\ req[p].pc = "submitted"
  BY DEF CheckCode
<1>2. CASE Done(p)
  BY <1>1, <1>2, DoneStep
<1>3. CASE req' = [req EXCEPT ![p].pc = "checked", ![p].now = now]
  <2>1. now \in Nat /\ req[p] \in Request
    BY DEF Inv, TypeOK, Request
  <2> HIDE DEF now
  <2> DEFINE r == [[req[p] EXCEPT !.pc = "checked"] EXCEPT !.now = now]
  <2>2. /\ r \in Request /\ r.pc = "checked" /\ r.acct = req[p].acct
        /\ r.code = req[p].code /\ r.purpose = req[p].purpose
    BY <2>1 DEF Request, PC
  <2>3. req' = [req EXCEPT ![p] = r]
    BY <1>3, <2>1 DEF Inv, TypeOK
  <2> HIDE DEF r
  <2>4. /\ req' \in [Proc -> Request]
        /\ req'[p] = r
        /\ \A q \in Proc \ {p} : req'[q] = req[q]
    BY <2>2, <2>3 DEF Inv, TypeOK
  <2>5. RequestOK(p)'
    BY <1>1, <2>2, <2>4 DEF Inv, RequestOK, HoldsCode
  <2> QED
    BY <1>1, <2>2, <2>4, <2>5, RequestStep DEF HoldsCode, HoldsAccount
<1> QED
  BY <1>2, <1>3 DEF CheckCode

LEMMA MarkUsedInv == ASSUME Inv, NEW p \in Proc, MarkUsed(p) PROVE Inv'
<1>1. UNCHANGED <<clock, account, code, tokens, outbox, sweep>> /\ req[p].pc = "checked"
  BY DEF MarkUsed
<1>2. CASE Done(p)
  BY <1>1, <1>2, DoneStep
<1>3. CASE ~code[req[p].code].used /\ ~CodeHeld(req[p].code) /\ Goto(p, "claimed")
  <2>1. /\ req[p] \in Request
        /\ req'[p] = [req[p] EXCEPT !.pc = "claimed"]
    BY <1>3 DEF Inv, TypeOK, Goto
  <2>2. /\ req'[p].pc = "claimed" /\ req'[p].acct = req[p].acct
        /\ req'[p].code = req[p].code /\ req'[p].purpose = req[p].purpose
    BY <2>1 DEF Request
  <2>3. RequestOK(p)'
    BY <1>1, <1>3, <2>2 DEF Inv, RequestOK, HoldsCode
  <2> QED
    BY <1>1, <1>3, <2>3, GotoStep DEF PC, HoldsAccount
<1> QED
  BY <1>2, <1>3 DEF MarkUsed

LEMMA FreezeInv == ASSUME Inv, NEW p \in Proc, Freeze(p) PROVE Inv'
<1> DEFINE a == req[p].acct
<1>1. /\ UNCHANGED <<clock, account, code, tokens, outbox, sweep>>
      /\ req[p].pc = "claimed" /\ req[p].purpose = "DELETE_ACCOUNT"
  BY DEF Freeze
<1>2. CASE Done(p)
  BY <1>1, <1>2, DoneStep
<1>3. CASE /\ account[a].status = "ACTIVE" /\ ~AccountHeld(a)
           /\ req' = [req EXCEPT ![p].pc = "frozen", ![p].seen = tokens[a]]
  <2>1. req[p] \in Request /\ a \in Account /\ tokens[a] \in Nat
    BY <1>1 DEF Inv, TypeOK, RequestOK
  <2> DEFINE r == [[req[p] EXCEPT !.pc = "frozen"] EXCEPT !.seen = tokens[a]]
  <2>2. /\ r \in Request /\ r.pc = "frozen" /\ r.acct = a /\ r.seen = tokens[a]
        /\ r.code = req[p].code /\ r.purpose = req[p].purpose
    BY <2>1 DEF Request, PC
  <2>3. req' = [req EXCEPT ![p] = r]
    BY <1>3, <2>1 DEF Inv, TypeOK
  <2> HIDE DEF r
  <2>4. /\ req' \in [Proc -> Request]
        /\ req'[p] = r
        /\ \A q \in Proc \ {p} : req'[q] = req[q]
    BY <2>2, <2>3 DEF Inv, TypeOK
  <2>5. RequestOK(p)'
    BY <1>1, <1>3, <2>1, <2>2, <2>4 DEF Inv, RequestOK, HoldsCode
  <2>6. \A q \in Proc \ {p} : ~(req[q].pc \in HoldsCode /\ req[q].code = req'[p].code)
    BY <1>1, <2>2, <2>4 DEF Inv, CodesExclusive, HoldsCode
  <2>7. /\ \A q \in Proc \ {p} : ~(req[q].pc \in HoldsAccount /\ req[q].acct = req'[p].acct)
        /\ \A s \in Server : ~(sweep[s].pc = "anonymizing" /\ sweep[s].acct = req'[p].acct)
    BY <1>3, <2>2, <2>4 DEF AccountHeld, HoldsAccount
  <2> QED
    BY <1>1, <2>4, <2>5, <2>6, <2>7, RequestStep
<1> QED
  BY <1>2, <1>3 DEF Freeze

LEMMA UnfreezeInv == ASSUME Inv, NEW p \in Proc, Unfreeze(p) PROVE Inv'
<1>1. /\ UNCHANGED <<clock, account, code, tokens, outbox, sweep>>
      /\ req[p].pc = "claimed" /\ req[p].purpose = "CANCEL_DELETION"
  BY DEF Unfreeze
<1>2. CASE Done(p)
  BY <1>1, <1>2, DoneStep
<1>3. CASE CanCancel(req[p].acct, req[p].now) /\ ~AccountHeld(req[p].acct) /\ Goto(p, "unfrozen")
  <2>1. /\ req[p] \in Request
        /\ req'[p] = [req[p] EXCEPT !.pc = "unfrozen"]
    BY <1>3 DEF Inv, TypeOK, Goto
  <2>2. /\ req'[p].pc = "unfrozen" /\ req'[p].acct = req[p].acct
        /\ req'[p].code = req[p].code /\ req'[p].purpose = req[p].purpose
    BY <2>1 DEF Request
  <2>3. RequestOK(p)'
    BY <1>1, <1>3, <2>2 DEF Inv, RequestOK, HoldsCode, CanCancel
  <2> QED
    BY <1>1, <1>3, <2>3, GotoStep DEF PC, HoldsCode
<1> QED
  BY <1>2, <1>3 DEF Unfreeze

LEMMA CommitPhoneLoginInv == ASSUME Inv, NEW p \in Proc, CommitPhoneLogin(p) PROVE Inv'
<1>1. UNCHANGED <<clock, account, code, tokens, outbox, sweep>> /\ req[p].pc = "inspected"
  BY DEF CommitPhoneLogin
<1>2. CASE Done(p)
  BY <1>1, <1>2, DoneStep
<1>3. CASE Goto(p, "loggedIn")
  <2>1. /\ req[p] \in Request
        /\ req'[p] = [req[p] EXCEPT !.pc = "loggedIn"]
    BY <1>3 DEF Inv, TypeOK, Goto
  <2>2. req'[p].pc = "loggedIn" /\ req'[p].acct = req[p].acct
    BY <2>1 DEF Request
  <2>3. RequestOK(p)'
    BY <1>1, <2>2 DEF Inv, RequestOK, HoldsCode
  <2> QED
    BY <1>1, <1>3, <2>3, GotoStep DEF PC, HoldsCode, HoldsAccount
<1> QED
  BY <1>2, <1>3 DEF CommitPhoneLogin

LEMMA PersistTokenInv == ASSUME Inv, NEW p \in Proc, PersistToken(p) PROVE Inv'
<1> DEFINE a == req[p].acct
<1>1. /\ req' = [req EXCEPT ![p] = Idle]
      /\ tokens' = [tokens EXCEPT ![a] = @ + 1]
      /\ UNCHANGED <<clock, account, code, outbox, sweep>>
  BY DEF PersistToken, Done
<1>2. Idle \in Request /\ Idle.pc = "idle"
  BY DEF Idle, Request, PC
<1>3. tokens \in [Account -> Nat] /\ req \in [Proc -> Request] /\ a \in Account
  BY DEF Inv, TypeOK, RequestOK, PersistToken
<1>4. tokens' \in [Account -> Nat] /\ \A b \in Account : tokens[b] <= tokens'[b]
  BY <1>1, <1>3
<1>5. /\ req' \in [Proc -> Request] /\ req'[p].pc = "idle"
      /\ \A q \in Proc \ {p} : req'[q] = req[q]
  BY <1>1, <1>2, <1>3
<1>6. TypeOK'
  BY <1>1, <1>4, <1>5 DEF Inv, TypeOK
<1>7. ASSUME NEW q \in Proc PROVE RequestOK(q)'
  <2>1. CASE q = p
    BY <2>1, <1>5 DEF RequestOK, HoldsCode
  <2>2. CASE q # p
    <3>1. req'[q] = req[q] /\ req[q].seen \in Nat
      BY <2>2, <1>3, <1>5 DEF Request
    <3>2. RequestOK(q)
      BY DEF Inv
    <3>3. req[q].pc = "frozen" => req[q].seen <= tokens'[req[q].acct]
      BY <3>1, <3>2, <1>3, <1>4 DEF RequestOK
    <3> QED
      BY <3>1, <3>2, <3>3, <1>1 DEF RequestOK
  <2> QED
    BY <2>1, <2>2
<1>8. ASSUME NEW s \in Server PROVE SweepOK(s)'
  <2>1. SweepOK(s) /\ sweep[s].seen \in Nat
    BY DEF Inv, TypeOK, Sweep
  <2> QED
    BY <2>1, <1>1, <1>3, <1>4 DEF SweepOK
<1>9. CodesExclusive' /\ AccountsExclusive'
  BY <1>1, <1>5 DEF Inv, CodesExclusive, AccountsExclusive, HoldsCode, HoldsAccount
<1> QED
  BY <1>6, <1>7, <1>8, <1>9 DEF Inv

-----------------------------------------------------------------------------
\* The commit of a request that has updated its account.  No other transaction
\* has updated that account or spent that code, so what others know still holds.
LEMMA RequestCommit ==
    ASSUME Inv, NEW p \in Proc, req[p].pc \in HoldsAccount,
           NEW row \in Row, NEW n \in Nat, NEW event \in Event,
           account' = [account EXCEPT ![req[p].acct] = row],
           tokens' = [tokens EXCEPT ![req[p].acct] = n],
           SpendCode(req[p].code), Publish(req[p].acct, event), Done(p),
           UNCHANGED <<clock, sweep>>
    PROVE  Inv'
<1> DEFINE a == req[p].acct
           c == req[p].code
<1>1. /\ req \in [Proc -> Request] /\ account \in [Account -> Row]
      /\ tokens \in [Account -> Nat] /\ outbox \in [Account -> Seq(Event)]
      /\ code \in Seq(Code)
  BY DEF Inv, TypeOK
<1>2. a \in Account /\ c \in DOMAIN code
  BY DEF Inv, RequestOK, HoldsCode, HoldsAccount
<1>3. /\ account' \in [Account -> Row] /\ tokens' \in [Account -> Nat]
      /\ \A b \in Account \ {a} : account'[b] = account[b] /\ tokens'[b] = tokens[b]
  BY <1>1
<1>4. outbox' \in [Account -> Seq(Event)]
  <2>1. Append(outbox[a], event) \in Seq(Event)
    BY <1>1, <1>2
  <2> QED
    BY <1>1, <2>1 DEF Publish
<1>5. /\ code' \in Seq(Code) /\ DOMAIN code' = DOMAIN code
      /\ \A d \in DOMAIN code : /\ code'[d].acct = code[d].acct
                                /\ code'[d].purpose = code[d].purpose
                                /\ d # c => code'[d] = code[d]
  <2>1. code[c] \in Code
    BY <1>1, <1>2
  <2> DEFINE r == [code[c] EXCEPT !.used = TRUE]
  <2>2. r \in Code /\ r.acct = code[c].acct /\ r.purpose = code[c].purpose
    BY <2>1 DEF Code
  <2>3. code' = [code EXCEPT ![c] = r]
    BY DEF SpendCode
  <2> HIDE DEF r, c
  <2>4. [code EXCEPT ![c] = r] \in Seq(Code)
    BY <1>1, <1>2, <2>2
  <2> QED
    BY <1>1, <1>2, <2>2, <2>3, <2>4
<1>6. Idle \in Request /\ Idle.pc = "idle"
  BY DEF Idle, Request, PC
<1>7. /\ req' \in [Proc -> Request] /\ req'[p].pc = "idle"
      /\ \A q \in Proc \ {p} : req'[q] = req[q]
  BY <1>1, <1>6 DEF Done
<1>8. TypeOK'
  BY <1>3, <1>4, <1>5, <1>7 DEF Inv, TypeOK
<1>9. ASSUME NEW q \in Proc PROVE RequestOK(q)'
  <2>1. CASE q = p
    BY <2>1, <1>7 DEF RequestOK, HoldsCode
  <2>2. CASE q # p
    <3>1. req'[q] = req[q] /\ RequestOK(q)
      BY <2>2, <1>7 DEF Inv
    <3>2. req[q].pc \in HoldsCode => req[q].code # c
      BY <2>2 DEF Inv, CodesExclusive, HoldsCode, HoldsAccount
    <3>3. req[q].pc \in HoldsAccount => req[q].acct # a
      BY <2>2 DEF Inv, AccountsExclusive
    <3>4. /\ (req[q].pc # "idle" => req[q].acct \in Account)'
          /\ (req[q].pc \in {"sending", "submitted", "checked"} \cup HoldsCode =>
                req[q].purpose \in Purpose)'
          /\ (req[q].pc \in {"submitted", "checked"} \cup HoldsCode =>
                /\ req[q].code \in DOMAIN code
                /\ code[req[q].code].acct = req[q].acct
                /\ code[req[q].code].purpose = req[q].purpose)'
          /\ (req[q].pc \in HoldsCode => ~code[req[q].code].used)'
      <4> HIDE DEF a, c
      <4> QED
        BY <3>1, <3>2, <1>5 DEF RequestOK, HoldsCode
    <3>5. /\ req[q].pc = "frozen" => /\ req[q].purpose = "DELETE_ACCOUNT"
                                     /\ account'[req[q].acct].status = "ACTIVE"
                                     /\ req[q].seen <= tokens'[req[q].acct]
          /\ req[q].pc = "unfrozen" => /\ req[q].purpose = "CANCEL_DELETION"
                                       /\ account'[req[q].acct].status = "FROZEN"
      BY <3>1, <3>3, <1>3 DEF RequestOK, HoldsAccount
    <3> QED
      BY <3>1, <3>4, <3>5 DEF RequestOK
  <2> QED
    BY <2>1, <2>2
<1>10. ASSUME NEW s \in Server PROVE SweepOK(s)'
  <2>1. SweepOK(s)
    BY DEF Inv
  <2>2. sweep[s].pc = "anonymizing" => sweep[s].acct # a
    BY DEF Inv, AccountsExclusive
  <2> QED
    BY <2>1, <2>2, <1>3 DEF SweepOK
<1>11. CodesExclusive' /\ AccountsExclusive'
  BY <1>7 DEF Inv, CodesExclusive, AccountsExclusive, HoldsCode, HoldsAccount
<1> QED
  BY <1>8, <1>9, <1>10, <1>11 DEF Inv

LEMMA FreezeCommitInv == ASSUME Inv, NEW p \in Proc, FreezeCommit(p) PROVE Inv'
<1> DEFINE a == req[p].acct
           row == [status |-> "FROZEN", freezeUntil |-> req[p].now + FreezeDuration]
           n == tokens[a] - req[p].seen
<1>1. /\ req[p] \in Request /\ a \in Account /\ tokens[a] \in Nat /\ req[p].seen <= tokens[a]
  BY DEF FreezeCommit, Inv, TypeOK, RequestOK
<1>2. n \in Nat /\ row \in Row
  BY <1>1, TimeAssumption DEF Request, Row
<1>3. /\ account' = [account EXCEPT ![a] = row]
      /\ tokens' = [tokens EXCEPT ![a] = n]
      /\ SpendCode(req[p].code) /\ Publish(a, "deletion-requested") /\ Done(p)
      /\ UNCHANGED <<clock, sweep>>
      /\ req[p].pc \in HoldsAccount
  BY DEF FreezeCommit, SetAccount, HoldsAccount, Inv, TypeOK
<1>4. "deletion-requested" \in Event
  BY DEF Event
<1> HIDE DEF row, n
<1> QED
  BY <1>2, <1>3, <1>4, RequestCommit

LEMMA UnfreezeCommitInv == ASSUME Inv, NEW p \in Proc, UnfreezeCommit(p) PROVE Inv'
<1> DEFINE a == req[p].acct
           row == [status |-> "ACTIVE", freezeUntil |-> NULL]
           n == tokens[a] + 1
<1>1. a \in Account /\ tokens[a] \in Nat
  BY DEF UnfreezeCommit, Inv, TypeOK, RequestOK
<1>2. n \in Nat /\ row \in Row
  BY <1>1 DEF Row
<1>3. /\ account' = [account EXCEPT ![a] = row]
      /\ tokens' = [tokens EXCEPT ![a] = n]
      /\ SpendCode(req[p].code) /\ Publish(a, "deletion-cancelled") /\ Done(p)
      /\ UNCHANGED <<clock, sweep>>
      /\ req[p].pc \in HoldsAccount
  BY DEF UnfreezeCommit, SetAccount, HoldsAccount, Inv, TypeOK
<1>4. "deletion-cancelled" \in Event
  BY DEF Event
<1> HIDE DEF row, n
<1> QED
  BY <1>2, <1>3, <1>4, RequestCommit

-----------------------------------------------------------------------------
\* A step that changes nothing but the state of one run of the job.
LEMMA SweepStepInv ==
    ASSUME Inv, NEW s \in Server,
           sweep' \in [Server -> Sweep],
           \A t \in Server \ {s} : sweep'[t] = sweep[t],
           UNCHANGED <<clock, account, code, tokens, outbox, req>>,
           SweepOK(s)',
           sweep'[s].pc = "anonymizing" => ~AccountHeld(sweep'[s].acct)
    PROVE  Inv'
<1>1. TypeOK'
  BY DEF Inv, TypeOK
<1>2. \A p \in Proc : RequestOK(p)'
  BY DEF Inv, RequestOK
<1>3. ASSUME NEW t \in Server PROVE SweepOK(t)'
  <2>1. CASE t = s
    BY <2>1
  <2>2. CASE t # s
    BY <2>2 DEF Inv, SweepOK
  <2> QED
    BY <2>1, <2>2
<1>4. CodesExclusive'
  BY DEF Inv, CodesExclusive
<1>5. AccountsExclusive'
  BY DEF Inv, AccountsExclusive, AccountHeld, HoldsAccount
<1> QED
  BY <1>1, <1>2, <1>3, <1>4, <1>5 DEF Inv

LEMMA RunInv == ASSUME Inv, NEW s \in Server, Run(s) PROVE Inv'
<1>1. PICK due \in SUBSET Account :
        sweep' = [sweep EXCEPT ![s] = [Asleep EXCEPT !.pc = "sweeping", !.due = due, !.now = clock]]
  BY DEF Run
<1> DEFINE r == [Asleep EXCEPT !.pc = "sweeping", !.due = due, !.now = clock]
<1>2. sweep' = [sweep EXCEPT ![s] = r]
  BY <1>1
<1>3. r \in Sweep /\ r.pc = "sweeping" /\ r.now = clock
  BY DEF Asleep, Inv, TypeOK, Sweep
<1> HIDE DEF r
<1>4. /\ sweep' \in [Server -> Sweep] /\ sweep'[s] = r
      /\ \A t \in Server \ {s} : sweep'[t] = sweep[t]
  BY <1>2, <1>3 DEF Inv, TypeOK
<1>5. UNCHANGED <<clock, account, code, tokens, outbox, req>>
  BY DEF Run
<1>6. SweepOK(s)'
  BY <1>3, <1>4, <1>5 DEF Inv, TypeOK, SweepOK
<1> QED
  BY <1>3, <1>4, <1>5, <1>6, SweepStepInv

LEMMA AnonymizeInv ==
    ASSUME Inv, NEW s \in Server, NEW a \in Account, Anonymize(s, a) PROVE Inv'
<1>1. /\ UNCHANGED <<clock, account, code, tokens, outbox, req>>
      /\ sweep[s].pc = "sweeping"
  BY DEF Anonymize
<1>2. /\ sweep \in [Server -> Sweep] /\ sweep[s] \in Sweep
      /\ tokens[a] \in Nat /\ SweepOK(s)
  BY DEF Inv, TypeOK
<1>3. CASE sweep' = [sweep EXCEPT ![s].due = @ \ {a}]
  <2> DEFINE r == [sweep[s] EXCEPT !.due = @ \ {a}]
  <2>1. r \in Sweep /\ r.pc = "sweeping" /\ r.now = sweep[s].now
    BY <1>1, <1>2 DEF Sweep
  <2>2. sweep' = [sweep EXCEPT ![s] = r]
    BY <1>3
  <2> HIDE DEF r
  <2>3. /\ sweep' \in [Server -> Sweep] /\ sweep'[s] = r
        /\ \A t \in Server \ {s} : sweep'[t] = sweep[t]
    BY <1>2, <2>1, <2>2
  <2>4. SweepOK(s)'
    BY <1>1, <1>2, <2>1, <2>3 DEF SweepOK
  <2> QED
    BY <1>1, <2>1, <2>3, <2>4, SweepStepInv
<1>4. CASE /\ CanAnonymize(a, sweep[s].now) /\ ~AccountHeld(a)
           /\ sweep' = [sweep EXCEPT ![s].pc = "anonymizing", ![s].due = @ \ {a},
                                     ![s].acct = a, ![s].seen = tokens[a]]
  <2> DEFINE r == [[[[sweep[s] EXCEPT !.pc = "anonymizing"] EXCEPT !.due = @ \ {a}]
                       EXCEPT !.acct = a] EXCEPT !.seen = tokens[a]]
  <2>1. /\ r \in Sweep /\ r.pc = "anonymizing" /\ r.now = sweep[s].now
        /\ r.acct = a /\ r.seen = tokens[a]
    BY <1>2 DEF Sweep
  <2>2. sweep' = [sweep EXCEPT ![s] = r]
    BY <1>2, <1>4
  <2> HIDE DEF r
  <2>3. /\ sweep' \in [Server -> Sweep] /\ sweep'[s] = r
        /\ \A t \in Server \ {s} : sweep'[t] = sweep[t]
    BY <1>2, <2>1, <2>2
  <2>4. SweepOK(s)'
    BY <1>1, <1>2, <1>4, <2>1, <2>3 DEF SweepOK, CanAnonymize
  <2> QED
    BY <1>1, <1>4, <2>1, <2>3, <2>4, SweepStepInv
<1> QED
  BY <1>3, <1>4 DEF Anonymize

\* The commit of the job anonymizes an account nobody else has updated.
LEMMA AnonymizeCommitInv == ASSUME Inv, NEW s \in Server, AnonymizeCommit(s) PROVE Inv'
<1> DEFINE a == sweep[s].acct
           row == [status |-> "ANONYMIZED", freezeUntil |-> NULL]
           n == tokens[a] - sweep[s].seen
           r == [[[sweep[s] EXCEPT !.pc = "sweeping"] EXCEPT !.acct = NULL] EXCEPT !.seen = 0]
<1>1. /\ account \in [Account -> Row] /\ tokens \in [Account -> Nat]
      /\ outbox \in [Account -> Seq(Event)]
      /\ sweep \in [Server -> Sweep] /\ sweep[s] \in Sweep /\ SweepOK(s)
      /\ sweep[s].pc = "anonymizing"
  BY DEF Inv, TypeOK, AnonymizeCommit
<1>2. a \in Account /\ n \in Nat /\ row \in Row
  <2>1. a \in Account /\ sweep[s].seen <= tokens[a]
    BY <1>1 DEF SweepOK
  <2>2. sweep[s].seen \in Nat /\ tokens[a] \in Nat
    BY <1>1, <2>1 DEF Sweep
  <2> QED
    BY <2>1, <2>2 DEF Row
<1>3. /\ r \in Sweep /\ r.pc = "sweeping" /\ r.now = sweep[s].now
  BY <1>1 DEF Sweep
<1>4. /\ account' = [account EXCEPT ![a] = row]
      /\ tokens' = [tokens EXCEPT ![a] = n]
      /\ outbox' = [outbox EXCEPT ![a] = Append(@, "anonymized")]
      /\ UNCHANGED <<clock, code, req>>
  BY <1>1, <1>2 DEF AnonymizeCommit, SetAccount, Publish
<1>5. sweep' = [sweep EXCEPT ![s] = r]
  BY <1>1 DEF AnonymizeCommit
<1> HIDE DEF row, n, r
<1>6. /\ account' \in [Account -> Row] /\ tokens' \in [Account -> Nat]
      /\ \A b \in Account \ {a} : account'[b] = account[b] /\ tokens'[b] = tokens[b]
  BY <1>1, <1>2, <1>4
<1>7. outbox' \in [Account -> Seq(Event)]
  <2>1. Append(outbox[a], "anonymized") \in Seq(Event)
    BY <1>1, <1>2 DEF Event
  <2> QED
    BY <1>1, <1>4, <2>1
<1>8. /\ sweep' \in [Server -> Sweep] /\ sweep'[s] = r
      /\ \A t \in Server \ {s} : sweep'[t] = sweep[t]
  BY <1>1, <1>3, <1>5
<1>9. TypeOK'
  BY <1>4, <1>6, <1>7, <1>8 DEF Inv, TypeOK
<1>10. ASSUME NEW q \in Proc PROVE RequestOK(q)'
  <2>1. RequestOK(q) /\ (req[q].pc \in HoldsAccount => req[q].acct # a)
    BY <1>1 DEF Inv, AccountsExclusive
  <2> QED
    BY <2>1, <1>4, <1>6 DEF RequestOK, HoldsAccount
<1>11. ASSUME NEW t \in Server PROVE SweepOK(t)'
  <2>1. SweepOK(t)
    BY DEF Inv
  <2>2. CASE t = s
    BY <2>1, <2>2, <1>3, <1>4, <1>8 DEF SweepOK
  <2>3. CASE t # s
    <3>1. sweep'[t] = sweep[t] /\ (sweep[t].pc = "anonymizing" => sweep[t].acct # a)
      BY <2>3, <1>1, <1>8 DEF Inv, AccountsExclusive
    <3> QED
      BY <3>1, <2>1, <1>4, <1>6 DEF SweepOK
  <2> QED
    BY <2>2, <2>3
<1>12. CodesExclusive' /\ AccountsExclusive'
  BY <1>3, <1>4, <1>8 DEF Inv, CodesExclusive, AccountsExclusive
<1> QED
  BY <1>9, <1>10, <1>11, <1>12 DEF Inv

\* The transaction of one account fails.
LEMMA AnonymizeFailsInv == ASSUME Inv, NEW s \in Server, AnonymizeFails(s) PROVE Inv'
<1> DEFINE r == [[[sweep[s] EXCEPT !.pc = "sweeping"] EXCEPT !.acct = NULL] EXCEPT !.seen = 0]
<1>1. /\ sweep \in [Server -> Sweep] /\ sweep[s] \in Sweep /\ SweepOK(s)
      /\ UNCHANGED <<clock, account, code, tokens, outbox, req>>
  BY DEF Inv, TypeOK, AnonymizeFails
<1>2. r \in Sweep /\ r.pc = "sweeping" /\ r.now = sweep[s].now
  BY <1>1 DEF Sweep
<1>3. sweep' = [sweep EXCEPT ![s] = r]
  BY <1>1 DEF AnonymizeFails
<1> HIDE DEF r
<1>4. /\ sweep' \in [Server -> Sweep] /\ sweep'[s] = r
      /\ \A t \in Server \ {s} : sweep'[t] = sweep[t]
  BY <1>1, <1>2, <1>3
<1>5. SweepOK(s)'
  BY <1>1, <1>2, <1>4 DEF SweepOK
<1> QED
  BY <1>1, <1>2, <1>4, <1>5, SweepStepInv

\* A run that is over, or whose server died, knows nothing any more.
LEMMA AsleepInv ==
    ASSUME Inv, NEW s \in Server, RunEnds(s) \/ ServerDies(s) PROVE Inv'
<1>1. /\ sweep' = [sweep EXCEPT ![s] = Asleep]
      /\ UNCHANGED <<clock, account, code, tokens, outbox, req>>
  BY DEF RunEnds, ServerDies
<1>2. Asleep \in Sweep /\ Asleep.pc = "idle" /\ Asleep.now = 0
  BY DEF Asleep, Sweep
<1>3. /\ sweep' \in [Server -> Sweep] /\ sweep'[s] = Asleep
      /\ \A t \in Server \ {s} : sweep'[t] = sweep[t]
  BY <1>1, <1>2 DEF Inv, TypeOK
<1>4. SweepOK(s)'
  BY <1>1, <1>2, <1>3 DEF SweepOK, Inv, TypeOK
<1> QED
  BY <1>1, <1>2, <1>3, <1>4, SweepStepInv

\* Time passes: a now that was not ahead of the clock is not ahead of it later.
LEMMA TickInv == ASSUME Inv, Tick PROVE Inv'
<1>1. clock \in Nat /\ clock' = clock + 1 /\ UNCHANGED <<account, code, tokens, outbox, req, sweep>>
  BY DEF Inv, TypeOK, Tick
<1>2. TypeOK'
  BY <1>1 DEF Inv, TypeOK
<1>3. \A q \in Proc : RequestOK(q)'
  BY <1>1 DEF Inv, RequestOK
<1>4. ASSUME NEW s \in Server PROVE SweepOK(s)'
  <2>1. SweepOK(s) /\ sweep[s].now \in Nat
    BY DEF Inv, TypeOK, Sweep
  <2> QED
    BY <2>1, <1>1 DEF SweepOK
<1>5. CodesExclusive' /\ AccountsExclusive'
  BY <1>1 DEF Inv, CodesExclusive, AccountsExclusive
<1> QED
  BY <1>2, <1>3, <1>4, <1>5 DEF Inv

LEMMA StutterInv == ASSUME Inv, UNCHANGED vars PROVE Inv'
<1>1. UNCHANGED <<clock, account, code, tokens, outbox, req, sweep>>
  BY DEF vars
<1>2. TypeOK'
  BY <1>1 DEF Inv, TypeOK
<1>3. \A q \in Proc : RequestOK(q)'
  BY <1>1 DEF Inv, RequestOK
<1>4. \A s \in Server : SweepOK(s)'
  BY <1>1 DEF Inv, SweepOK
<1>5. CodesExclusive' /\ AccountsExclusive'
  BY <1>1 DEF Inv, CodesExclusive, AccountsExclusive
<1> QED
  BY <1>2, <1>3, <1>4, <1>5 DEF Inv

\* Every step, whoever takes it, keeps the invariant.
LEMMA NextInv == ASSUME Inv, [Next]_vars PROVE Inv'
<1>1. ASSUME NEW p \in Proc, Arrive(p) PROVE Inv'
  BY <1>1, ArriveInv
<1>2. ASSUME NEW p \in Proc, IssueCode(p) PROVE Inv'
  BY <1>2, IssueCodeInv
<1>3. ASSUME NEW p \in Proc, CheckCode(p) PROVE Inv'
  BY <1>3, CheckCodeInv
<1>4. ASSUME NEW p \in Proc, MarkUsed(p) PROVE Inv'
  BY <1>4, MarkUsedInv
<1>5. ASSUME NEW p \in Proc, Freeze(p) PROVE Inv'
  BY <1>5, FreezeInv
<1>6. ASSUME NEW p \in Proc, FreezeCommit(p) PROVE Inv'
  BY <1>6, FreezeCommitInv
<1>7. ASSUME NEW p \in Proc, Unfreeze(p) PROVE Inv'
  BY <1>7, UnfreezeInv
<1>8. ASSUME NEW p \in Proc, UnfreezeCommit(p) PROVE Inv'
  BY <1>8, UnfreezeCommitInv
<1>9. ASSUME NEW p \in Proc, CommitPhoneLogin(p) PROVE Inv'
  BY <1>9, CommitPhoneLoginInv
<1>10. ASSUME NEW p \in Proc, PersistToken(p) PROVE Inv'
  BY <1>10, PersistTokenInv
<1>11. ASSUME NEW p \in Proc, RequestDies(p) PROVE Inv'
  BY <1>11, DoneStep DEF RequestDies
<1>12. ASSUME NEW s \in Server, Run(s) PROVE Inv'
  BY <1>12, RunInv
<1>13. ASSUME NEW s \in Server, NEW a \in Account, Anonymize(s, a) PROVE Inv'
  BY <1>13, AnonymizeInv
<1>14. ASSUME NEW s \in Server, AnonymizeCommit(s) PROVE Inv'
  BY <1>14, AnonymizeCommitInv
<1>15. ASSUME NEW s \in Server, AnonymizeFails(s) PROVE Inv'
  BY <1>15, AnonymizeFailsInv
<1>16. ASSUME NEW s \in Server, RunEnds(s) \/ ServerDies(s) PROVE Inv'
  BY <1>16, AsleepInv
<1>17. CASE Tick
  BY <1>17, TickInv
<1>18. CASE UNCHANGED vars
  BY <1>18, StutterInv
<1> QED
  BY <1>1, <1>2, <1>3, <1>4, <1>5, <1>6, <1>7, <1>8, <1>9, <1>10, <1>11, <1>12, <1>13,
     <1>14, <1>15, <1>16, <1>17, <1>18 DEF Next, Step, SweepStep

(***************************************************************************)
(* The theorems.                                                           *)
(***************************************************************************)

\* What every transaction relies on is true in every reachable state: an
\* uncommitted freeze, cancellation or anonymization is of a row that matched
\* the WHERE of its UPDATE and still does, its code is unspent, and no row is in
\* two open transactions (the conditional updateMany calls and their row locks).
THEOREM Invariance == Spec => []Inv
<1>1. Init => Inv
  BY InitInv
<1>2. Inv /\ [Next]_vars => Inv'
  BY NextInv
<1> QED
  BY <1>1, <1>2, PTL DEF Spec

\* Every row has the columns of its table: in particular freezeUntil is set
\* exactly while the account is FROZEN, and the number of tokens that
\* revokeAllForAccount leaves behind is never negative.
THEOREM TypeCorrect == Spec => []TypeOK
<1>1. Inv => TypeOK
  BY DEF Inv
<1> QED
  BY <1>1, Invariance, PTL

-----------------------------------------------------------------------------
\* The initial states are initial states of the promise.
LEMMA InitRefines == Init => L!Init
BY DEF Init, L!Init

\* A step that commits nothing leaves the account as its owner sees it.
LEMMA StutterRefines ==
    ASSUME UNCHANGED <<clock, account, outbox>> PROVE UNCHANGED L!lvars
BY DEF L!lvars

\* One account's row and history: what a commit of account a changes.
LEMMA CommitRefines ==
    ASSUME Inv, NEW a \in Account, NEW to, NEW until, NEW event,
           SetAccount(a, to, until), Publish(a, event), UNCHANGED clock
    PROVE  /\ L!Become(a, account[a].status, to, event)
           /\ L!SetDeadline(a, until)
<1>1. account \in [Account -> Row] /\ outbox \in [Account -> Seq(Event)]
  BY DEF Inv, TypeOK
<1> DEFINE row == [status |-> to, freezeUntil |-> until]
<1>2. row.status = to /\ row.freezeUntil = until
  OBVIOUS
<1>3. account' = [account EXCEPT ![a] = row]
  BY DEF SetAccount
<1> HIDE DEF row
<1>4. \A b \in Account : account'[b] = IF b = a THEN row ELSE account[b]
  BY <1>1, <1>3
<1>5. /\ [b \in Account |-> account'[b].status]
            = [[b \in Account |-> account[b].status] EXCEPT ![a] = to]
      /\ [b \in Account |-> account'[b].freezeUntil]
            = [[b \in Account |-> account[b].freezeUntil] EXCEPT ![a] = until]
  BY <1>2, <1>4
<1>6. outbox' = [outbox EXCEPT ![a] = Append(@, event)]
  BY DEF Publish
<1> QED
  BY <1>5, <1>6 DEF L!Become, L!SetDeadline

LEMMA FreezeCommitRefines ==
    ASSUME Inv, NEW p \in Proc, FreezeCommit(p)
    PROVE  \E a \in Account : L!RequestDeletion(a)
<1>1. /\ req[p].acct \in Account /\ account[req[p].acct].status = "ACTIVE"
      /\ req[p].now + FreezeDuration \in Nat
  BY TimeAssumption DEF FreezeCommit, Inv, TypeOK, RequestOK, Request
<1>2. PICK a \in Account : a = req[p].acct
  BY <1>1
<1>3. PICK until \in Nat : until = req[p].now + FreezeDuration
  BY <1>1
<1>4. SetAccount(a, "FROZEN", until) /\ Publish(a, "deletion-requested") /\ UNCHANGED clock
  BY <1>2, <1>3 DEF FreezeCommit, SetAccount, Publish
<1>5. L!Become(a, "ACTIVE", "FROZEN", "deletion-requested") /\ L!SetDeadline(a, until)
  BY <1>1, <1>2, <1>4, CommitRefines DEF L!Become
<1>6. [b \in Account |-> account[b].freezeUntil]'[a] = until
  BY <1>5 DEF L!SetDeadline
<1>7. L!RequestDeletion(a)
  BY <1>3, <1>5, <1>6 DEF L!RequestDeletion, L!SetDeadline
<1> QED
  BY <1>7

LEMMA UnfreezeCommitRefines ==
    ASSUME Inv, NEW p \in Proc, UnfreezeCommit(p)
    PROVE  \E a \in Account : L!CancelDeletion(a)
<1>1. req[p].acct \in Account /\ account[req[p].acct].status = "FROZEN"
  BY DEF UnfreezeCommit, Inv, RequestOK
<1>2. PICK a \in Account : a = req[p].acct
  BY <1>1
<1>3. SetAccount(a, "ACTIVE", NULL) /\ Publish(a, "deletion-cancelled") /\ UNCHANGED clock
  BY <1>2 DEF UnfreezeCommit, SetAccount, Publish
<1>4. L!Become(a, "FROZEN", "ACTIVE", "deletion-cancelled") /\ L!SetDeadline(a, NULL)
  BY <1>1, <1>2, <1>3, CommitRefines DEF L!Become
<1> QED
  BY <1>4 DEF L!CancelDeletion

\* The deadline the job compared is the one in force at its commit, and the
\* clock has not gone back since.
LEMMA AnonymizeCommitRefines ==
    ASSUME Inv, NEW s \in Server, AnonymizeCommit(s)
    PROVE  \E a \in Account : L!Anonymize(a)
<1>1. /\ sweep[s].acct \in Account /\ account[sweep[s].acct].status = "FROZEN"
      /\ account[sweep[s].acct].freezeUntil <= sweep[s].now /\ sweep[s].now <= clock
  BY DEF AnonymizeCommit, Inv, SweepOK
<1>2. PICK a \in Account : a = sweep[s].acct
  BY <1>1
<1>3. account[a].freezeUntil \in Nat /\ sweep[s].now \in Nat /\ clock \in Nat
  BY <1>1, <1>2 DEF Inv, TypeOK, Row, Sweep
<1>4. SetAccount(a, "ANONYMIZED", NULL) /\ Publish(a, "anonymized") /\ UNCHANGED clock
  BY <1>2 DEF AnonymizeCommit, SetAccount, Publish
<1>5. L!Become(a, "FROZEN", "ANONYMIZED", "anonymized") /\ L!SetDeadline(a, NULL)
  BY <1>1, <1>2, <1>4, CommitRefines DEF L!Become
<1>6. [b \in Account |-> account[b].freezeUntil][a] <= clock
  BY <1>1, <1>2, <1>3
<1> QED
  BY <1>5, <1>6 DEF L!Anonymize

LEMMA NextRefines == ASSUME Inv, [Next]_vars PROVE [L!Next]_(L!lvars)
<1>1. ASSUME NEW p \in Proc, FreezeCommit(p) PROVE L!Next
  BY <1>1, FreezeCommitRefines DEF L!Next
<1>2. ASSUME NEW p \in Proc, UnfreezeCommit(p) PROVE L!Next
  BY <1>2, UnfreezeCommitRefines DEF L!Next
<1>3. ASSUME NEW s \in Server, AnonymizeCommit(s) PROVE L!Next
  BY <1>3, AnonymizeCommitRefines DEF L!Next
<1>4. ASSUME Tick PROVE L!Next
  BY <1>4 DEF Tick, L!Next, L!TimePasses
<1>5. ASSUME NEW p \in Proc, Arrive(p) PROVE UNCHANGED <<clock, account, outbox>>
  BY <1>5 DEF Arrive, SendDeletionCode, SendCancelDeletionCode, DeleteAccount, CancelDeletion,
              Submit, SignIn
<1>6. ASSUME NEW p \in Proc,
             \/ IssueCode(p) \/ CheckCode(p) \/ MarkUsed(p) \/ Freeze(p) \/ Unfreeze(p)
             \/ CommitPhoneLogin(p) \/ PersistToken(p) \/ RequestDies(p)
      PROVE  UNCHANGED <<clock, account, outbox>>
  BY <1>6 DEF IssueCode, CheckCode, MarkUsed, Freeze, Unfreeze, CommitPhoneLogin, PersistToken,
              RequestDies
<1>7. ASSUME NEW s \in Server,
             \/ Run(s) \/ (\E a \in Account : Anonymize(s, a)) \/ AnonymizeFails(s)
             \/ RunEnds(s) \/ ServerDies(s)
      PROVE  UNCHANGED <<clock, account, outbox>>
  BY <1>7 DEF Run, Anonymize, AnonymizeFails, RunEnds, ServerDies
<1>8. ASSUME UNCHANGED vars PROVE UNCHANGED <<clock, account, outbox>>
  BY <1>8 DEF vars
<1>9. CASE L!Next
  BY <1>9
<1>10. CASE UNCHANGED <<clock, account, outbox>>
  BY <1>10, StutterRefines
<1> QED
  BY <1>1, <1>2, <1>3, <1>4, <1>5, <1>6, <1>7, <1>8, <1>9, <1>10 DEF Next, Step, SweepStep

\* The account rows and the outbox implement the promise of AccountLifecycle:
\* a status is left only along its one transition, whose event is published in
\* the same commit and once, a second code or a second server's run repeats
\* nothing, and no account is anonymized before the grace period in force is over.
THEOREM LifecycleRefinement == Spec => ImplementsLifecycle
<1>1. Inv /\ [Next]_vars => [L!Next]_(L!lvars)
  BY NextRefines
<1>2. Init => L!Init
  BY InitRefines
<1> QED
  BY <1>1, <1>2, Invariance, PTL DEF Spec, ImplementsLifecycle, L!Spec

-----------------------------------------------------------------------------
(* Counting codes and events.                                              *)

\* The codes and the events that are counted.
SpentCodes(a, purpose) ==
    {c \in DOMAIN code : code[c].acct = a /\ code[c].used /\ code[c].purpose = purpose}
PublishedEvents(a, event) == {i \in DOMAIN outbox[a] : outbox[a][i] = event}

\* A part of the positions of a sequence is finite.
LEMMA PositionsFinite ==
    ASSUME NEW S, NEW seq \in Seq(S), NEW T \in SUBSET DOMAIN seq
    PROVE  IsFiniteSet(T)
<1>1. IsFiniteSet(1..Len(seq))
  BY FS_Interval
<1>2. DOMAIN seq = 1..Len(seq)
  OBVIOUS
<1> QED
  BY <1>1, <1>2, FS_Subset

\* Spending an unused code adds one to what its account spent for its purpose.
LEMMA SpendCounts ==
    ASSUME code \in Seq(Code), NEW c \in DOMAIN code, ~code[c].used, SpendCode(c),
           NEW a \in Account, NEW purpose \in Purpose
    PROVE  Spent(a, purpose)' = IF code[c].acct = a /\ code[c].purpose = purpose
                                THEN Spent(a, purpose) + 1 ELSE Spent(a, purpose)
<1> DEFINE S == SpentCodes(a, purpose)
<1>1. IsFiniteSet(S) /\ c \notin S
  <2>1. S \subseteq DOMAIN code /\ c \notin S
    BY DEF SpentCodes
  <2> QED
    BY <2>1, PositionsFinite
<1>2. /\ DOMAIN code' = DOMAIN code
      /\ \A d \in DOMAIN code : /\ code'[d].acct = code[d].acct
                                /\ code'[d].purpose = code[d].purpose
                                /\ d # c => code'[d].used = code[d].used
      /\ code'[c].used
  <2>1. code[c] \in Code
    OBVIOUS
  <2> DEFINE r == [code[c] EXCEPT !.used = TRUE]
  <2>2. r.acct = code[c].acct /\ r.purpose = code[c].purpose /\ r.used
    BY <2>1 DEF Code
  <2>3. code' = [code EXCEPT ![c] = r]
    BY DEF SpendCode
  <2> HIDE DEF r
  <2> QED
    BY <2>2, <2>3
<1>3. S' = IF code[c].acct = a /\ code[c].purpose = purpose THEN S \cup {c} ELSE S
  BY <1>2 DEF SpentCodes
<1>4. Spent(a, purpose) = Cardinality(S) /\ Spent(a, purpose)' = Cardinality(S')
  BY DEF Spent, SpentCodes
<1>5. Cardinality(S \cup {c}) = Cardinality(S) + 1
  BY <1>1, FS_AddElement
<1> QED
  BY <1>3, <1>4, <1>5

\* Publishing an event adds one to the events of its kind of its account.
LEMMA PublishCounts ==
    ASSUME outbox \in [Account -> Seq(Event)], NEW b \in Account, NEW event \in Event,
           Publish(b, event), NEW a \in Account, NEW e \in Event
    PROVE  Published(a, e)' = IF a = b /\ e = event THEN Published(a, e) + 1
                              ELSE Published(a, e)
<1> DEFINE S == PublishedEvents(a, e)
           n == Len(outbox[a]) + 1
<1>1. outbox[a] \in Seq(Event) /\ outbox[b] \in Seq(Event)
  OBVIOUS
<1>2. outbox' = [outbox EXCEPT ![b] = Append(outbox[b], event)]
  BY DEF Publish
<1>3. CASE a # b
  <2>1. outbox'[a] = outbox[a]
    BY <1>2, <1>3
  <2> QED
    BY <2>1, <1>3 DEF Published
<1>4. CASE a = b
  <2>1. outbox'[a] = Append(outbox[a], event)
    BY <1>2, <1>4
  <2>2. IsFiniteSet(S) /\ n \notin S
    <3>1. S \subseteq DOMAIN outbox[a] /\ n \notin S
      BY <1>1 DEF PublishedEvents
    <3> QED
      BY <1>1, <3>1, PositionsFinite
  <2>3. S' = IF e = event THEN S \cup {n} ELSE S
    <3>1. /\ DOMAIN Append(outbox[a], event) = DOMAIN outbox[a] \cup {n}
          /\ \A i \in DOMAIN outbox[a] : Append(outbox[a], event)[i] = outbox[a][i]
          /\ Append(outbox[a], event)[n] = event
          /\ n \notin DOMAIN outbox[a]
      BY <1>1
    <3>2. S' = {i \in DOMAIN outbox'[a] : outbox'[a][i] = e}
      BY DEF PublishedEvents
    <3> HIDE DEF n
    <3> QED
      BY <2>1, <3>1, <3>2 DEF PublishedEvents
  <2>4. Published(a, e) = Cardinality(S) /\ Published(a, e)' = Cardinality(S')
    BY DEF Published, PublishedEvents
  <2>5. Cardinality(S \cup {n}) = Cardinality(S) + 1
    BY <2>2, FS_AddElement
  <2> HIDE DEF n, S
  <2> QED
    BY <1>4, <2>3, <2>4, <2>5
<1> QED
  BY <1>3, <1>4

\* A code that is stored is not spent.
LEMMA IssueCounts ==
    ASSUME Inv, NEW p \in Proc, IssueCode(p), NEW a \in Account, NEW purpose \in Purpose
    PROVE  Spent(a, purpose)' = Spent(a, purpose)
<1> DEFINE issued == IF req[p].purpose = "DELETE_ACCOUNT" THEN clock ELSE req[p].now
           row == [acct |-> req[p].acct, purpose |-> req[p].purpose,
                   expiresAt |-> issued + CodeTTL, used |-> FALSE]
<1>1. row.used = FALSE
  OBVIOUS
<1>2. code' = Append(code, row) \/ code' = code
  BY DEF IssueCode
<1>3. code \in Seq(Code)
  BY DEF Inv, TypeOK
<1> HIDE DEF row
<1>4. CASE code' = Append(code, row)
  <2>1. /\ DOMAIN code' = DOMAIN code \cup {Len(code) + 1}
        /\ \A c \in DOMAIN code : code'[c] = code[c]
        /\ code'[Len(code) + 1] = row
    BY <1>3, <1>4
  <2> DEFINE n == Len(code) + 1
  <2> HIDE DEF n
  <2>2. SpentCodes(a, purpose)' = SpentCodes(a, purpose)
    BY <2>1, <1>1 DEF SpentCodes, n
  <2> QED
    BY <2>2 DEF Spent, SpentCodes
<1>5. CASE code' = code
  BY <1>5 DEF Spent
<1> QED
  BY <1>2, <1>4, <1>5

LEMMA OneCodeFreeze ==
    ASSUME Inv, OneCodePerTransition, NEW p \in Proc, FreezeCommit(p)
    PROVE  OneCodePerTransition'
<1>1. PICK c \in DOMAIN code : c = req[p].code
  BY DEF FreezeCommit, Inv, RequestOK, HoldsCode
<1>2. PICK b \in Account : b = req[p].acct
  BY DEF FreezeCommit, Inv, RequestOK
<1>3. /\ code[c].acct = b /\ code[c].purpose = "DELETE_ACCOUNT" /\ ~code[c].used
      /\ SpendCode(c) /\ Publish(b, "deletion-requested")
  BY <1>1, <1>2 DEF FreezeCommit, Inv, RequestOK, HoldsCode, SpendCode, Publish
<1>4. code \in Seq(Code) /\ outbox \in [Account -> Seq(Event)]
  BY DEF Inv, TypeOK
<1>5. ASSUME NEW a \in Account
      PROVE  /\ (Spent(a, "DELETE_ACCOUNT") = Published(a, "deletion-requested"))'
             /\ (Spent(a, "CANCEL_DELETION") = Published(a, "deletion-cancelled"))'
  <2>1. /\ Spent(a, "DELETE_ACCOUNT") = Published(a, "deletion-requested")
        /\ Spent(a, "CANCEL_DELETION") = Published(a, "deletion-cancelled")
    BY DEF OneCodePerTransition
  <2>2. /\ Spent(a, "DELETE_ACCOUNT")' = IF a = b THEN Spent(a, "DELETE_ACCOUNT") + 1
                                         ELSE Spent(a, "DELETE_ACCOUNT")
        /\ Spent(a, "CANCEL_DELETION")' = Spent(a, "CANCEL_DELETION")
    BY <1>3, <1>4, SpendCounts DEF Purpose
  <2>3. /\ Published(a, "deletion-requested")' =
              IF a = b THEN Published(a, "deletion-requested") + 1
              ELSE Published(a, "deletion-requested")
        /\ Published(a, "deletion-cancelled")' = Published(a, "deletion-cancelled")
    BY <1>3, <1>4, PublishCounts DEF Event
  <2> QED
    BY <2>1, <2>2, <2>3
<1> QED
  BY <1>5 DEF OneCodePerTransition

LEMMA OneCodeUnfreeze ==
    ASSUME Inv, OneCodePerTransition, NEW p \in Proc, UnfreezeCommit(p)
    PROVE  OneCodePerTransition'
<1>1. PICK c \in DOMAIN code : c = req[p].code
  BY DEF UnfreezeCommit, Inv, RequestOK, HoldsCode
<1>2. PICK b \in Account : b = req[p].acct
  BY DEF UnfreezeCommit, Inv, RequestOK
<1>3. /\ code[c].acct = b /\ code[c].purpose = "CANCEL_DELETION" /\ ~code[c].used
      /\ SpendCode(c) /\ Publish(b, "deletion-cancelled")
  BY <1>1, <1>2 DEF UnfreezeCommit, Inv, RequestOK, HoldsCode, SpendCode, Publish
<1>4. code \in Seq(Code) /\ outbox \in [Account -> Seq(Event)]
  BY DEF Inv, TypeOK
<1>5. ASSUME NEW a \in Account
      PROVE  /\ (Spent(a, "DELETE_ACCOUNT") = Published(a, "deletion-requested"))'
             /\ (Spent(a, "CANCEL_DELETION") = Published(a, "deletion-cancelled"))'
  <2>1. /\ Spent(a, "DELETE_ACCOUNT") = Published(a, "deletion-requested")
        /\ Spent(a, "CANCEL_DELETION") = Published(a, "deletion-cancelled")
    BY DEF OneCodePerTransition
  <2>2. /\ Spent(a, "CANCEL_DELETION")' = IF a = b THEN Spent(a, "CANCEL_DELETION") + 1
                                          ELSE Spent(a, "CANCEL_DELETION")
        /\ Spent(a, "DELETE_ACCOUNT")' = Spent(a, "DELETE_ACCOUNT")
    BY <1>3, <1>4, SpendCounts DEF Purpose
  <2>3. /\ Published(a, "deletion-cancelled")' =
              IF a = b THEN Published(a, "deletion-cancelled") + 1
              ELSE Published(a, "deletion-cancelled")
        /\ Published(a, "deletion-requested")' = Published(a, "deletion-requested")
    BY <1>3, <1>4, PublishCounts DEF Event
  <2> QED
    BY <2>1, <2>2, <2>3
<1> QED
  BY <1>5 DEF OneCodePerTransition

LEMMA OneCodeNext ==
    ASSUME Inv, OneCodePerTransition, [Next]_vars PROVE OneCodePerTransition'
<1>1. ASSUME NEW p \in Proc, FreezeCommit(p) PROVE OneCodePerTransition'
  BY <1>1, OneCodeFreeze
<1>2. ASSUME NEW p \in Proc, UnfreezeCommit(p) PROVE OneCodePerTransition'
  BY <1>2, OneCodeUnfreeze
<1>3. ASSUME NEW p \in Proc, IssueCode(p) PROVE OneCodePerTransition'
  <2>1. UNCHANGED outbox
    BY <1>3 DEF IssueCode
  <2>2. \A a \in Account : /\ Spent(a, "DELETE_ACCOUNT")' = Spent(a, "DELETE_ACCOUNT")
                           /\ Spent(a, "CANCEL_DELETION")' = Spent(a, "CANCEL_DELETION")
    BY <1>3, IssueCounts DEF Purpose
  <2> QED
    BY <2>1, <2>2 DEF OneCodePerTransition, Published
<1>4. ASSUME NEW s \in Server, AnonymizeCommit(s) PROVE OneCodePerTransition'
  <2>1. PICK b \in Account : b = sweep[s].acct
    BY <1>4 DEF AnonymizeCommit, Inv, SweepOK
  <2>2. Publish(b, "anonymized") /\ UNCHANGED code
    BY <1>4, <2>1 DEF AnonymizeCommit, Publish
  <2>3. outbox \in [Account -> Seq(Event)]
    BY DEF Inv, TypeOK
  <2>4. \A a \in Account :
           /\ Published(a, "deletion-requested")' = Published(a, "deletion-requested")
           /\ Published(a, "deletion-cancelled")' = Published(a, "deletion-cancelled")
    BY <2>2, <2>3, PublishCounts DEF Event
  <2> QED
    BY <2>2, <2>4 DEF OneCodePerTransition, Spent
<1>5. ASSUME UNCHANGED <<code, outbox>> PROVE OneCodePerTransition'
  BY <1>5 DEF OneCodePerTransition, Spent, Published
<1>6. ASSUME NEW p \in Proc, Arrive(p) PROVE UNCHANGED <<code, outbox>>
  BY <1>6 DEF Arrive, SendDeletionCode, SendCancelDeletionCode, DeleteAccount, CancelDeletion,
              Submit, SignIn
<1>7. ASSUME NEW p \in Proc,
             \/ CheckCode(p) \/ MarkUsed(p) \/ Freeze(p) \/ Unfreeze(p)
             \/ CommitPhoneLogin(p) \/ PersistToken(p) \/ RequestDies(p)
      PROVE  UNCHANGED <<code, outbox>>
  BY <1>7 DEF CheckCode, MarkUsed, Freeze, Unfreeze, CommitPhoneLogin, PersistToken, RequestDies
<1>8. ASSUME NEW s \in Server,
             \/ Run(s) \/ (\E a \in Account : Anonymize(s, a)) \/ AnonymizeFails(s)
             \/ RunEnds(s) \/ ServerDies(s)
      PROVE  UNCHANGED <<code, outbox>>
  BY <1>8 DEF Run, Anonymize, AnonymizeFails, RunEnds, ServerDies
<1>9. ASSUME Tick \/ UNCHANGED vars PROVE UNCHANGED <<code, outbox>>
  BY <1>9 DEF Tick, vars
<1> QED
  BY <1>1, <1>2, <1>3, <1>4, <1>5, <1>6, <1>7, <1>8, <1>9 DEF Next, Step, SweepStep

\* Every freeze and every cancellation costs exactly one code of its purpose: a
\* code is never spent twice, nor spent by a request that was turned away,
\* rolled back or died (markUsed in the transaction of the transition).
THEOREM OneCodePerTransitionHolds == Spec => []OneCodePerTransition
<1>1. Init => OneCodePerTransition
  BY FS_EmptySet DEF Init, OneCodePerTransition, Spent, Published
<1>2. Inv /\ OneCodePerTransition /\ [Next]_vars => OneCodePerTransition'
  BY OneCodeNext
<1> QED
  BY <1>1, <1>2, Invariance, PTL DEF Spec

=============================================================================
