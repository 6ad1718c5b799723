-------------------------- MODULE AccountDeletion --------------------------
(***************************************************************************)
(* Deletion of an account: the codes sent for it, its request (freeze),    *)
(* its cancellation, the nightly job that anonymizes accounts whose grace  *)
(* period is over, and the sign-in that races with all of them.            *)
(*                                                                         *)
(* Requests (Proc) and the cron job of each server instance (Server) talk  *)
(* to Postgres statement by statement at READ COMMITTED.  account, code,   *)
(* tokens and outbox are the committed rows; what an open transaction has  *)
(* written is in the local variables of its process and becomes visible    *)
(* with its commit.  A row it has updated is locked until then (CodeHeld,  *)
(* AccountHeld): an UPDATE whose WHERE matches a locked row waits and      *)
(* judges the row again.                                                   *)
(***************************************************************************)
EXTENDS Integers, Sequences, FiniteSetsExt

CONSTANTS Proc,           \* concurrent requests
          Server,         \* server instances, each with its cron
          Account,        \* accounts
          NULL,           \* SQL NULL
          CodeTTL,        \* lifetime of a code, DELETION_CODE_TTL_MIN
          FreezeDuration, \* the grace period, FREEZE_DURATION_DAYS
          BatchSize,      \* accounts one sweep takes at most, BATCH_SIZE
          MaxCodes,       \* bound on the codes ever issued
          MaxTokens,      \* bound on the tokens sign-ins leave on an account
          MaxClock        \* bound on the clock

ASSUME TimeAssumption == /\ CodeTTL \in Nat /\ FreezeDuration \in Nat \ {0}
                         /\ BatchSize \in Nat \ {0} /\ MaxClock \in Nat
                         /\ MaxCodes \in Nat /\ MaxTokens \in Nat

VARIABLES clock,     \* the server's clock, new Date()
          account,   \* account[a]: the columns status and freezeUntil
          code,      \* the rows of account_sms_code, oldest first (createdAt)
          tokens,    \* tokens[a]: the number of active refresh tokens of a
          outbox,    \* outbox[a]: the lifecycle events of a, oldest first
          req,       \* req[p]: control state and local variables of request p
          sweep      \* sweep[s]: the same of the anonymization job of server s

vars == <<clock, account, code, tokens, outbox, req, sweep>>

Purpose == {"DELETE_ACCOUNT", "CANCEL_DELETION"}
Event == {"deletion-requested", "deletion-cancelled", "anonymized"}

\* phone is no field: anonymization, which is final, is what sets it to NULL.
\* freezeUntil is set exactly while the account is frozen.
Row == [status : {"FROZEN"}, freezeUntil : Nat]
       \cup [status : {"ACTIVE", "ANONYMIZED"}, freezeUntil : {NULL}]
Code == [acct : Account, purpose : Purpose, expiresAt : Nat, used : BOOLEAN]

PC == {"idle",
       "sending",                        \* a code is about to be stored
       "submitted", "checked", "claimed", \* a code: sent in, compared, marked used
       "frozen", "unfrozen",             \* the account is updated, not committed
       "inspected", "loggedIn"}          \* sign-in

Request == [pc : PC, acct : Account \cup {NULL}, purpose : Purpose \cup {NULL},
            code : Nat, now : Nat, seen : Nat]
Sweep == [pc : {"idle", "sweeping", "anonymizing"}, due : SUBSET Account,
          acct : Account \cup {NULL}, now : Nat, seen : Nat]

Idle == [pc |-> "idle", acct |-> NULL, purpose |-> NULL, code |-> 0, now |-> 0, seen |-> 0]
Asleep == [pc |-> "idle", due |-> {}, acct |-> NULL, now |-> 0, seen |-> 0]

\* SQL NULL is no value of any column.
ASSUME NullAssumption == NULL \notin Nat /\ NULL \notin Account /\ NULL \notin Purpose

TypeOK == /\ clock \in Nat
          /\ account \in [Account -> Row]
          /\ code \in Seq(Code)
          /\ tokens \in [Account -> Nat]
          /\ outbox \in [Account -> Seq(Event)]
          /\ req \in [Proc -> Request]
          /\ sweep \in [Server -> Sweep]

Init == /\ clock = 0
        /\ account = [a \in Account |-> [status |-> "ACTIVE", freezeUntil |-> NULL]]
        /\ code = <<>>
        /\ tokens = [a \in Account |-> 0]
        /\ outbox = [a \in Account |-> <<>>]
        /\ req = [p \in Proc |-> Idle]
        /\ sweep = [s \in Server |-> Asleep]

-----------------------------------------------------------------------------
(* Rows, locks and control.                                                *)

\* Row locks of open transactions.
CodeHeld(c) == \E p \in Proc : req[p].pc \in {"claimed", "frozen", "unfrozen"} /\ req[p].code = c
AccountHeld(a) == \/ \E p \in Proc : req[p].pc \in {"frozen", "unfrozen"} /\ req[p].acct = a
                  \/ \E s \in Server : sweep[s].pc = "anonymizing" /\ sweep[s].acct = a

Goto(p, pc) == req' = [req EXCEPT ![p].pc = pc]
Done(p) == req' = [req EXCEPT ![p] = Idle]

\* isWithinGrace: at freezeUntil itself the grace period is over.
IsWithinGrace(a, now) == account[a].freezeUntil # NULL /\ account[a].freezeUntil > now
CanCancel(a, now) == account[a].status = "FROZEN" /\ IsWithinGrace(a, now)
CanAnonymize(a, now) == /\ account[a].status = "FROZEN"
                        /\ account[a].freezeUntil # NULL
                        /\ account[a].freezeUntil <= now

\* findActive: the rows it selects, and the most recent of them.
ActiveCodes(a, purpose, now) ==
    {c \in DOMAIN code : /\ code[c].acct = a /\ code[c].purpose = purpose
                         /\ ~code[c].used /\ code[c].expiresAt > now}
FindActive(a, purpose, now) ==
    LET found == ActiveCodes(a, purpose, now) IN IF found = {} THEN 0 ELSE Max(found)

\* Commits.
SetAccount(a, status, until) ==
    account' = [account EXCEPT ![a] = [status |-> status, freezeUntil |-> until]]
Publish(a, event) == outbox' = [outbox EXCEPT ![a] = Append(@, event)]
SpendCode(c) == code' = [code EXCEPT ![c].used = TRUE]

-----------------------------------------------------------------------------
(* Codes are sent: look at the account, then one INSERT.  Whether the SMS  *)
(* goes out changes nothing here.                                          *)

SendDeletionCode(p, a) ==
    /\ req[p].pc = "idle"
    /\ account[a].status = "ACTIVE"
    /\ req' = [req EXCEPT ![p] = [Idle EXCEPT !.pc = "sending", !.acct = a,
                                              !.purpose = "DELETE_ACCOUNT"]]
    /\ UNCHANGED <<clock, account, code, tokens, outbox, sweep>>

SendCancelDeletionCode(p, a) ==
    /\ req[p].pc = "idle"
    /\ CanCancel(a, clock)
    /\ req' = [req EXCEPT ![p] = [Idle EXCEPT !.pc = "sending", !.acct = a, !.now = clock,
                                              !.purpose = "CANCEL_DELETION"]]
    /\ UNCHANGED <<clock, account, code, tokens, outbox, sweep>>

\* Only the cancellation counts the lifetime from the arrival of the request.
IssueCode(p) ==
    LET issued == IF req[p].purpose = "DELETE_ACCOUNT" THEN clock ELSE req[p].now
    IN  /\ req[p].pc = "sending"
        /\ code' = IF Len(code) < MaxCodes    \* bound
                   THEN Append(code, [acct |-> req[p].acct, purpose |-> req[p].purpose,
                                      expiresAt |-> issued + CodeTTL, used |-> FALSE])
                   ELSE code
        /\ Done(p)
        /\ UNCHANGED <<clock, account, tokens, outbox, sweep>>

-----------------------------------------------------------------------------
(* A code is sent in.  c is a code the account was sent for this purpose;  *)
(* every other one is answered 401 and changes nothing.                    *)

Submit(p, a, purpose, c) ==
    /\ req[p].pc = "idle"
    /\ code[c].acct = a /\ code[c].purpose = purpose
    /\ req' = [req EXCEPT ![p] = [Idle EXCEPT !.pc = "submitted", !.acct = a, !.code = c,
                                              !.purpose = purpose, !.now = clock]]
    /\ UNCHANGED <<clock, account, code, tokens, outbox, sweep>>

\* JwtAuthGuard lets only an ACTIVE account through.
DeleteAccount(p, a, c) ==
    /\ account[a].status = "ACTIVE"
    /\ Submit(p, a, "DELETE_ACCOUNT", c)

CancelDeletion(p, a, c) ==
    /\ CanCancel(a, clock)
    /\ Submit(p, a, "CANCEL_DELETION", c)

\* findActive and verifyDeletionCode, outside the transaction.  The deletion
\* takes its now here, after the guard; the cancellation took it on arrival.
CheckCode(p) ==
    LET deletion == req[p].purpose = "DELETE_ACCOUNT"
        now == IF deletion THEN clock ELSE req[p].now
    IN  /\ req[p].pc = "submitted"
        /\ IF /\ FindActive(req[p].acct, req[p].purpose, now) = req[p].code
              /\ deletion => clock + FreezeDuration <= MaxClock  \* bound: the grace period ends
           THEN req' = [req EXCEPT ![p].pc = "checked", ![p].now = now]
           ELSE Done(p)
        /\ UNCHANGED <<clock, account, code, tokens, outbox, sweep>>

\* Mutant: markUsed does not look at usedAt.
MarkUsedBlind(p) ==
    /\ req[p].pc = "checked"
    /\ ~CodeHeld(req[p].code)
    /\ Goto(p, "claimed")
    /\ UNCHANGED <<clock, account, code, tokens, outbox, sweep>>

\* BEGIN; updateMany {id, usedAt: null}: count 0 is answered 401.
MarkUsed(p) ==
    /\ req[p].pc = "checked"
    /\ \/ code[req[p].code].used /\ Done(p)
       \/ ~code[req[p].code].used /\ ~CodeHeld(req[p].code) /\ Goto(p, "claimed")
    /\ UNCHANGED <<clock, account, code, tokens, outbox, sweep>>

\* updateMany {id, status: ACTIVE}, then revokeAllForAccount; count 0 rolls back.
Freeze(p) ==
    LET a == req[p].acct IN
    /\ req[p].pc = "claimed" /\ req[p].purpose = "DELETE_ACCOUNT"
    /\ \/ account[a].status # "ACTIVE" /\ Done(p)
       \/ /\ account[a].status = "ACTIVE" /\ ~AccountHeld(a)
          /\ req' = [req EXCEPT ![p].pc = "frozen", ![p].seen = tokens[a]]
    /\ UNCHANGED <<clock, account, code, tokens, outbox, sweep>>

\* publish and COMMIT; a token persisted after revokeAllForAccount stays.
FreezeCommit(p) ==
    LET a == req[p].acct IN
    /\ req[p].pc = "frozen"
    /\ SetAccount(a, "FROZEN", req[p].now + FreezeDuration)
    /\ SpendCode(req[p].code)
    /\ tokens' = [tokens EXCEPT ![a] = @ - req[p].seen]
    /\ Publish(a, "deletion-requested")
    /\ Done(p)
    /\ UNCHANGED <<clock, sweep>>

\* updateMany {id, status: FROZEN, freezeUntil > now}; count 0 rolls back.
Unfreeze(p) ==
    LET a == req[p].acct IN
    /\ req[p].pc = "claimed" /\ req[p].purpose = "CANCEL_DELETION"
    /\ \/ ~CanCancel(a, req[p].now) /\ Done(p)
       \/ CanCancel(a, req[p].now) /\ ~AccountHeld(a) /\ Goto(p, "unfrozen")
    /\ UNCHANGED <<clock, account, code, tokens, outbox, sweep>>

\* Mutant: freezeUntil is not cleared.
UnfreezeCommitKeepsDate(p) ==
    LET a == req[p].acct IN
    /\ req[p].pc = "unfrozen"
    /\ SetAccount(a, "ACTIVE", account[a].freezeUntil)
    /\ SpendCode(req[p].code)
    /\ tokens' = [tokens EXCEPT ![a] = @ + 1]
    /\ Publish(a, "deletion-cancelled")
    /\ Done(p)
    /\ UNCHANGED <<clock, sweep>>

\* persist of the new refresh token, publish and COMMIT.
UnfreezeCommit(p) ==
    LET a == req[p].acct IN
    /\ req[p].pc = "unfrozen"
    /\ SetAccount(a, "ACTIVE", NULL)
    /\ SpendCode(req[p].code)
    /\ tokens' = [tokens EXCEPT ![a] = @ + 1]
    /\ Publish(a, "deletion-cancelled")
    /\ Done(p)
    /\ UNCHANGED <<clock, sweep>>

-----------------------------------------------------------------------------
(* Sign-in by phone, as far as it touches the account: the code it checks  *)
(* is another one, and an account without a phone is not found by it.      *)

SignIn(p, a) ==
    /\ req[p].pc = "idle"
    /\ account[a].status = "ACTIVE"
    /\ tokens[a] < MaxTokens                  \* bound
    /\ req' = [req EXCEPT ![p] = [Idle EXCEPT !.pc = "inspected", !.acct = a]]
    /\ UNCHANGED <<clock, account, code, tokens, outbox, sweep>>

\* The update of lastLoginAt by phone, which waits for the row (and is tried
\* again after a write conflict); without a phone another account is created.
CommitPhoneLogin(p) ==
    LET a == req[p].acct IN
    /\ req[p].pc = "inspected"
    /\ ~AccountHeld(a)
    /\ IF account[a].status = "ANONYMIZED" THEN Done(p) ELSE Goto(p, "loggedIn")
    /\ UNCHANGED <<clock, account, code, tokens, outbox, sweep>>

PersistToken(p) ==
    /\ req[p].pc = "loggedIn"
    /\ tokens' = [tokens EXCEPT ![req[p].acct] = @ + 1]
    /\ Done(p)
    /\ UNCHANGED <<clock, account, code, outbox, sweep>>

\* A lost connection, a failed statement or a crash before the commit.
RequestDies(p) ==
    /\ req[p].pc # "idle"
    /\ Done(p)
    /\ UNCHANGED <<clock, account, code, tokens, outbox, sweep>>

-----------------------------------------------------------------------------
(* The anonymization job: one SELECT of at most BatchSize accounts, in no  *)
(* order, then one transaction for each of them.                           *)

\* Mutant: only the accounts whose grace period ends now are looked for.
RunOnTheDay(s) ==
    LET candidates == {a \in Account : account[a].status = "FROZEN"
                                       /\ account[a].freezeUntil = clock} IN
    /\ sweep[s].pc = "idle"
    /\ \E due \in SUBSET candidates :
          /\ due # {}
          /\ \/ due = candidates /\ Cardinality(due) <= BatchSize
             \/ Cardinality(due) = BatchSize
          /\ sweep' = [sweep EXCEPT ![s] = [Asleep EXCEPT !.pc = "sweeping", !.due = due,
                                                          !.now = clock]]
    /\ UNCHANGED <<clock, account, code, tokens, outbox, req>>

Run(s) ==
    LET candidates == {a \in Account : CanAnonymize(a, clock)} IN
    /\ sweep[s].pc = "idle"
    /\ \E due \in SUBSET candidates :
          /\ due # {}
          /\ \/ due = candidates /\ Cardinality(due) <= BatchSize
             \/ Cardinality(due) = BatchSize
          /\ sweep' = [sweep EXCEPT ![s] = [Asleep EXCEPT !.pc = "sweeping", !.due = due,
                                                          !.now = clock]]
    /\ UNCHANGED <<clock, account, code, tokens, outbox, req>>

\* Mutant: the UPDATE trusts the SELECT and does not look at freezeUntil again.
AnonymizeStale(s, a) ==
    /\ sweep[s].pc = "sweeping" /\ a \in sweep[s].due
    /\ \/ /\ account[a].status # "FROZEN"
          /\ sweep' = [sweep EXCEPT ![s].due = @ \ {a}]
       \/ /\ account[a].status = "FROZEN" /\ ~AccountHeld(a)
          /\ sweep' = [sweep EXCEPT ![s].pc = "anonymizing", ![s].due = @ \ {a},
                                    ![s].acct = a, ![s].seen = tokens[a]]
    /\ UNCHANGED <<clock, account, code, tokens, outbox, req>>

\* BEGIN; an account without a phone or that does not match the UPDATE {id,
\* status: FROZEN, freezeUntil <= now} is skipped; then revokeAllForAccount.
Anonymize(s, a) ==
    /\ sweep[s].pc = "sweeping" /\ a \in sweep[s].due
    /\ \/ /\ ~CanAnonymize(a, sweep[s].now)
          /\ sweep' = [sweep EXCEPT ![s].due = @ \ {a}]
       \/ /\ CanAnonymize(a, sweep[s].now) /\ ~AccountHeld(a)
          /\ sweep' = [sweep EXCEPT ![s].pc = "anonymizing", ![s].due = @ \ {a},
                                    ![s].acct = a, ![s].seen = tokens[a]]
    /\ UNCHANGED <<clock, account, code, tokens, outbox, req>>

\* publish and COMMIT of one account; the next one is taken.
AnonymizeCommit(s) ==
    LET a == sweep[s].acct IN
    /\ sweep[s].pc = "anonymizing"
    /\ SetAccount(a, "ANONYMIZED", NULL)
    /\ tokens' = [tokens EXCEPT ![a] = @ - sweep[s].seen]
    /\ Publish(a, "anonymized")
    /\ sweep' = [sweep EXCEPT ![s].pc = "sweeping", ![s].acct = NULL, ![s].seen = 0]
    /\ UNCHANGED <<clock, code, req>>

\* The transaction of one account fails: its siblings are not affected.
AnonymizeFails(s) ==
    /\ sweep[s].pc = "anonymizing"
    /\ sweep' = [sweep EXCEPT ![s].pc = "sweeping", ![s].acct = NULL, ![s].seen = 0]
    /\ UNCHANGED <<clock, account, code, tokens, outbox, req>>

RunEnds(s) ==
    /\ sweep[s].pc = "sweeping" /\ sweep[s].due = {}
    /\ sweep' = [sweep EXCEPT ![s] = Asleep]
    /\ UNCHANGED <<clock, account, code, tokens, outbox, req>>

\* The server dies in the middle of a run.
ServerDies(s) ==
    /\ sweep[s].pc # "idle"
    /\ sweep' = [sweep EXCEPT ![s] = Asleep]
    /\ UNCHANGED <<clock, account, code, tokens, outbox, req>>

Tick == /\ clock < MaxClock
        /\ clock' = clock + 1
        /\ UNCHANGED <<account, code, tokens, outbox, req, sweep>>

-----------------------------------------------------------------------------
\* The arrival of a request.
Arrive(p) == \E a \in Account :
                \/ SendDeletionCode(p, a) \/ SendCancelDeletionCode(p, a)
                \/ \E c \in DOMAIN code : DeleteAccount(p, a, c) \/ CancelDeletion(p, a, c)
                \/ SignIn(p, a)

\* The steps an accepted request takes on its own.
Step(p) == \/ IssueCode(p)
           \/ CheckCode(p) \/ MarkUsed(p)
           \/ Freeze(p) \/ FreezeCommit(p)
           \/ Unfreeze(p) \/ UnfreezeCommit(p)
           \/ CommitPhoneLogin(p) \/ PersistToken(p)

SweepStep(s) == \/ \E a \in Account : Anonymize(s, a)
                \/ AnonymizeCommit(s) \/ RunEnds(s)

Next == \/ \E p \in Proc : Arrive(p) \/ Step(p) \/ RequestDies(p)
        \/ \E s \in Server : Run(s) \/ SweepStep(s) \/ AnonymizeFails(s) \/ ServerDies(s)
        \/ Tick

Spec == Init /\ [][Next]_vars

\* Requests and runs go on to their end; the cron fires every night; time
\* passes; and an account is not failed by the database in every run for ever.
Fairness == /\ \A p \in Proc : SF_vars(Step(p))
            /\ \A s \in Server : /\ SF_vars(Run(s)) /\ SF_vars(SweepStep(s))
                                 /\ SF_vars(AnonymizeCommit(s))
            /\ WF_vars(Tick)
FairSpec == Spec /\ Fairness

-----------------------------------------------------------------------------
(* Properties.                                                             *)

\* The account rows and the outbox implement AccountLifecycle: every status
\* change starts from the one status it may start from, publishes its event in
\* the same commit, once, is never repeated by a second code or a second
\* server's run, and anonymization waits for the grace period in force, also
\* when the account was cancelled and frozen again since it was found due.
L == INSTANCE AccountLifecycle
       WITH time <- clock, history <- outbox,
            status <- [a \in Account |-> account[a].status],
            deadline <- [a \in Account |-> account[a].freezeUntil]
ImplementsLifecycle == L!Spec

\* Every freeze and every cancellation costs exactly one code of its purpose:
\* a code is never spent twice, nor spent by a request that was turned away,
\* rolled back or died.
Spent(a, purpose) == Cardinality({c \in DOMAIN code : /\ code[c].acct = a /\ code[c].used
                                                      /\ code[c].purpose = purpose})
Published(a, event) == Cardinality({i \in DOMAIN outbox[a] : outbox[a][i] = event})
OneCodePerTransition ==
    \A a \in Account :
        /\ Spent(a, "DELETE_ACCOUNT") = Published(a, "deletion-requested")
        /\ Spent(a, "CANCEL_DELETION") = Published(a, "deletion-cancelled")

\* A frozen account does not stay frozen: it is taken back or anonymized, though
\* runs and requests fail and the batch is smaller than the accounts that are due.
FrozenIsResolved ==
    \A a \in Account : account[a].status = "FROZEN" ~> account[a].status # "FROZEN"

\* Every request is answered or fails: nobody waits for a row lock for ever.
EveryRequestEnds == \A p \in Proc : req[p].pc # "idle" ~> req[p].pc = "idle"

\* Nobody is left waiting, neither the owner of a frozen account for its fate nor a
\* request for a lock.
NobodyWaitsForEver == FrozenIsResolved /\ EveryRequestEnds
=============================================================================
