---------------------------- MODULE WechatBinding ----------------------------
(***************************************************************************)
(* Binding a WeChat identity to an account and removing it with a texted   *)
(* code: bind-wechat, send-unbind-wechat-code and unbind-wechat, and the   *)
(* two tables they write.                                                  *)
(*                                                                         *)
(* A request is the sequence of its awaits; requests of one account and of *)
(* several interleave at them.  A statement of the database is one step,   *)
(* and so is the transaction of an unbind: both of its statements lock the *)
(* row they change until the commit.                                       *)
(***************************************************************************)
EXTENDS Integers, Sequences, FiniteSets, WechatConstants

VARIABLES status,   \* account.status; what an anonymized account may do here, a frozen one may
          binding,  \* binding[a]: the openid of the row (a, WECHAT) of wechat_binding
          codes,    \* the UNBIND_WECHAT rows of account_sms_code, in the order of createdAt
          request,
          removed   \* removed[a]: bindings of a that were deleted (history)

vars == <<status, binding, codes, request, removed>>

Code == [account : Accounts, used : BOOLEAN, expired : BOOLEAN]
Request == [op : {"none", "bind", "send", "unbind"},
            pc : {"idle", "inspect", "isBound", "create", "find", "issue", "transaction"},
            account : Accounts \cup {None},
            openid : Openids \cup {None},        \* a bind: the resolved identity
            code : 0..MaxCodes,                  \* an unbind: the row that was verified
            answer : {"none", "bound", "different"}, \* of a bind; no other is told apart
            held : SUBSET (Openids \cup {None})] \* what the account was bound to since (history)

TypeOK == /\ status \in [Accounts -> {"ACTIVE", "FROZEN"}]
          /\ binding \in [Accounts -> Openids \cup {None}]
          /\ \A a, b \in Accounts : binding[a] = binding[b] /\ a # b => binding[a] = None
          /\ codes \in Seq(Code) /\ Len(codes) <= MaxCodes
          /\ request \in [Requests -> Request]
          /\ \A r \in Requests : request[r].pc = "transaction" => request[r].code \in DOMAIN codes
          /\ removed \in [Accounts -> Nat]

Idle == [op |-> "none", pc |-> "idle", account |-> None, openid |-> None,
         code |-> 0, answer |-> "none", held |-> {}]

Init == /\ status = [a \in Accounts |-> "ACTIVE"]
        /\ binding = [a \in Accounts |-> None]
        /\ codes = <<>>
        /\ request = [r \in Requests |-> Idle]
        /\ removed = [a \in Accounts |-> 0]

-----------------------------------------------------------------------------
Goto(r, pc) == [request EXCEPT ![r].pc = pc]
Answered(r, answer) == [request EXCEPT ![r].pc = "idle", ![r].answer = answer]
Ended(r) == [request EXCEPT ![r] = Idle]

\* The binding of account a has become o: requests under way have seen it.
Witness(requests, a, o) ==
    [r \in Requests |-> IF requests[r].account = a /\ (requests[r].pc # "idle" \/ request[r].pc # "idle")
                        THEN [requests[r] EXCEPT !.held = @ \cup {o}] ELSE requests[r]]

\* JwtAuthGuard lets the request of an ACTIVE account pass.
Arrive(r, new) ==
    /\ request[r].pc = "idle"
    /\ status[new.account] = "ACTIVE"
    /\ request' = [request EXCEPT ![r] = [new EXCEPT !.held = {binding[new.account]}]]
    /\ UNCHANGED <<status, binding, codes, removed>>

\* resolveIdentity has turned the authCode into an openid, of any user of WeChat.
Bind(r) ==
    \E a \in Accounts, o \in Openids :
       Arrive(r, [Idle EXCEPT !.op = "bind", !.pc = "inspect", !.account = a, !.openid = o])

SendUnbindCode(r) ==
    \E a \in Accounts : Arrive(r, [Idle EXCEPT !.op = "send", !.pc = "inspect", !.account = a])

\* inspectAccountStatusById.  A send that is to be refused makes its other inspection
\* first, for the time it takes.
Inspect(r) ==
    /\ request[r].pc = "inspect"
    /\ request' = IF status[request[r].account] # "ACTIVE" THEN Ended(r)
                  ELSE Goto(r, IF request[r].op = "send" THEN "isBound" ELSE "create")
    /\ UNCHANGED <<status, binding, codes, removed>>

-----------------------------------------------------------------------------
(* Bind.                                                                   *)

\* Mutant: the unique index on openid is missing.
TakenNever(o) == FALSE

Taken(o) == \E a \in Accounts : binding[a] = o

\* The insert, and the two unique constraints of the table.
Create(r) ==
    LET a == request[r].account  o == request[r].openid IN
    /\ request[r].pc = "create"
    /\ IF binding[a] = None /\ ~Taken(o)
       THEN /\ binding' = [binding EXCEPT ![a] = o]
            /\ request' = Witness(Answered(r, "bound"), a, o)
       ELSE /\ request' = Goto(r, "find")
            /\ UNCHANGED binding
    /\ UNCHANGED <<status, codes, removed>>

\* Mutant: whatever binding the account has is taken for the one it asked for.
VerdictOfAny(found, o) == IF found = None THEN "none" ELSE "bound"

Verdict(found, o) == IF found = o THEN "bound"
                     ELSE IF found # None THEN "different" ELSE "none"

\* After P2002 the binding of the account itself decides, and none is the conflict
\* with another account.  It may have gone since.
Find(r) ==
    LET verdict == Verdict(binding[request[r].account], request[r].openid) IN
    /\ request[r].pc = "find"
    /\ request' = IF verdict = "none" THEN Ended(r) ELSE Answered(r, verdict)
    /\ UNCHANGED <<status, binding, codes, removed>>

-----------------------------------------------------------------------------
(* Unbind.                                                                 *)

Active(k) == ~codes[k].used /\ ~codes[k].expired

\* findActive: the latest code of the account that is neither used nor expired, if any.
FindActive(a) ==
    LET K == {k \in DOMAIN codes : codes[k].account = a /\ Active(k)}
    IN {k \in K : \A j \in K : j <= k}

IsBound(r) ==
    /\ request[r].pc = "isBound"
    /\ request' = IF binding[request[r].account] # None THEN Goto(r, "issue") ELSE Ended(r)
    /\ UNCHANGED <<status, binding, codes, removed>>

\* The code stays when the gateway then fails: the user may have got the message.
Issue(r) ==
    /\ request[r].pc = "issue"
    /\ Len(codes) < MaxCodes  \* bound
    /\ codes' = Append(codes, [account |-> request[r].account, used |-> FALSE, expired |-> FALSE])
    /\ request' = Ended(r)
    /\ UNCHANGED <<status, binding, removed>>

\* The code is compared with the latest one, before the transaction; any other is refused.
Unbind(r) ==
    \E a \in Accounts : \E k \in FindActive(a) :
       Arrive(r, [Idle EXCEPT !.op = "unbind", !.pc = "transaction", !.account = a, !.code = k])

\* Mutant: the row is marked whether or not it was used in the meantime.
MarkAlways(k) == TRUE

\* markUsed: the condition of its UPDATE.
MarkUsed(k) == ~codes[k].used

\* deleteMany counts the row of the account, if there is one.
Transaction(r) ==
    LET a == request[r].account  k == request[r].code IN
    /\ request[r].pc = "transaction"
    /\ IF MarkUsed(k) /\ binding[a] # None
       THEN /\ codes' = [codes EXCEPT ![k].used = TRUE]
            /\ binding' = [binding EXCEPT ![a] = None]
            /\ removed' = [removed EXCEPT ![a] = @ + 1]
            /\ request' = Witness(Ended(r), a, None)
       ELSE /\ request' = Ended(r)  \* rolled back
            /\ UNCHANGED <<codes, binding, removed>>
    /\ UNCHANGED status

-----------------------------------------------------------------------------
(* The environment.                                                        *)

\* The account is frozen, or its deletion is cancelled.  Binding and codes stay.
StatusChanges(a) ==
    /\ status' = [status EXCEPT ![a] = IF @ = "ACTIVE" THEN "FROZEN" ELSE "ACTIVE"]
    /\ UNCHANGED <<binding, codes, request, removed>>

Expire(k) ==
    /\ Active(k)
    /\ codes' = [codes EXCEPT ![k].expired = TRUE]
    /\ UNCHANGED <<status, binding, request, removed>>

\* The server dies, or the connection to the database does.
Die(r) ==
    /\ request[r].pc # "idle"
    /\ request' = Ended(r)
    /\ UNCHANGED <<status, binding, codes, removed>>

Step(r) == \/ Bind(r) \/ SendUnbindCode(r) \/ Unbind(r)
           \/ Inspect(r) \/ Create(r) \/ Find(r) \/ IsBound(r) \/ Issue(r)
           \/ Transaction(r) \/ Die(r)

Next == \/ \E r \in Requests : Step(r)
        \/ \E a \in Accounts : StatusChanges(a)
        \/ \E k \in DOMAIN codes : Expire(k)

Spec == Init /\ [][Next]_vars
-----------------------------------------------------------------------------
(* Properties.                                                             *)

\* A code removes one binding: a second submit of the same code, verified before the
\* first was committed, does not remove what the user has bound again since.
SpentCodeUnbinds ==
    \A a \in Accounts :
       removed[a] = Cardinality({k \in DOMAIN codes : codes[k].account = a /\ codes[k].used})

\* The answer of a bind was true at some time during the request: 201 of the openid
\* that was asked for, 409 of another one of the account's own.
BindAnswerWasTrue ==
    \A r \in Requests :
       /\ request[r].answer = "bound" => request[r].openid \in request[r].held
       /\ request[r].answer = "different" => request[r].held \ {None, request[r].openid} # {}
=============================================================================
