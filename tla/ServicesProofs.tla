---------------------------- MODULE ServicesProofs ----------------------------
(***************************************************************************)
(* The three services of MCServices for any value of their constants.      *)
(* Each part is a behaviour of its module, so what is proved of a module   *)
(* holds of the part: W!Spec of WechatBinding, P!Spec of ProfileEdits and  *)
(* Spec of Throttling.                                                     *)
(*                                                                         *)
(* WechatBinding needs Known: what a request that is under way has read is *)
(* among what its account was bound to since it arrived, and the code it   *)
(* holds is a row of that account.  ProfileEdits needs Probed: a handler   *)
(* on its way to the update of an image column holds a key that was        *)
(* probed, and what the probe has found stays true, since keys are not     *)
(* issued again and no object is removed.  Throttling needs that what a    *)
(* route does not skip is its own, route by route.                         *)
(***************************************************************************)
EXTENDS MCServices, FiniteSetTheorems, WellFoundedInduction, TLAPS

-----------------------------------------------------------------------------
(* WeChat binding.                                                         *)

Known(r) ==
    request[r].pc # "idle" =>
       /\ request[r].account \in Accounts
       /\ binding[request[r].account] \in request[r].held
       /\ request[r].op = "bind" => request[r].openid \in Openids
       /\ request[r].pc = "inspect" => request[r].op \in {"bind", "send"}
       /\ request[r].pc \in {"create", "find"} => request[r].op = "bind"
       /\ request[r].pc = "transaction" => codes[request[r].code].account = request[r].account

AnswerTrue(r) ==
    /\ request[r].answer = "bound" => request[r].openid \in request[r].held
    /\ request[r].answer = "different" => request[r].held \ {None, request[r].openid} # {}

BindingInv == /\ W!TypeOK
              /\ \A r \in Requests : Known(r)
              /\ W!BindAnswerWasTrue

-----------------------------------------------------------------------------
(* A request that arrives, and the steps that only move one on.            *)

\* A slot without a request.
LEMMA IdleIsRequest ==
    /\ W!Idle \in W!Request
    /\ W!Idle.op = "none" /\ W!Idle.pc = "idle" /\ W!Idle.account = None /\ W!Idle.openid = None
    /\ W!Idle.code = 0 /\ W!Idle.answer = "none" /\ W!Idle.held = {}
  BY CodesAssumption DEF W!Idle, W!Request

LEMMA BindingInit == W!Init => BindingInv
<1> SUFFICES ASSUME W!Init
             PROVE  BindingInv
  OBVIOUS
<1>1. W!TypeOK
  BY IdleIsRequest, CodesAssumption DEF W!Init, W!TypeOK
<1>2. \A r \in Requests : Known(r) /\ AnswerTrue(r)
  BY IdleIsRequest DEF W!Init, Known, AnswerTrue
<1> QED
  BY <1>1, <1>2 DEF BindingInv, W!BindAnswerWasTrue, AnswerTrue

\* Only the record of one request changes, to one that keeps the invariant.
LEMMA OneRequest ==
    ASSUME BindingInv, NEW r \in Requests, NEW q \in W!Request,
           request' = [request EXCEPT ![r] = q],
           UNCHANGED <<status, binding, codes, removed>>,
           q.pc # "idle" =>
              /\ q.account \in Accounts
              /\ binding[q.account] \in q.held
              /\ q.op = "bind" => q.openid \in Openids
              /\ q.pc = "inspect" => q.op \in {"bind", "send"}
              /\ q.pc \in {"create", "find"} => q.op = "bind"
              /\ q.pc = "transaction" =>
                    q.code \in DOMAIN codes /\ codes[q.code].account = q.account,
           q.answer = "bound" => q.openid \in q.held,
           q.answer = "different" => q.held \ {None, q.openid} # {}
    PROVE  BindingInv'
<1>1. request' \in [Requests -> W!Request]
  BY DEF BindingInv, W!TypeOK
<1>2. request'[r] = q /\ \A s \in Requests \ {r} : request'[s] = request[s]
  BY DEF BindingInv, W!TypeOK
<1>3. W!TypeOK'
  BY <1>1, <1>2 DEF BindingInv, W!TypeOK
<1>4. \A s \in Requests : Known(s)' /\ AnswerTrue(s)'
  <2> TAKE s \in Requests
  <2>1. CASE s = r
    BY <1>2, <2>1 DEF Known, AnswerTrue
  <2>2. CASE s # r
    BY <1>2, <2>2 DEF BindingInv, Known, AnswerTrue, W!BindAnswerWasTrue
  <2> QED
    BY <2>1, <2>2
<1> QED
  BY <1>3, <1>4 DEF BindingInv, W!BindAnswerWasTrue, AnswerTrue

\* A request is refused, or its answer tells nothing apart.
LEMMA EndedKeeps ==
    ASSUME BindingInv, NEW r \in Requests, request' = W!Ended(r),
           UNCHANGED <<status, binding, codes, removed>>
    PROVE  BindingInv'
<1>1. request' = [request EXCEPT ![r] = W!Idle]
  BY DEF W!Ended
<1> QED
  BY <1>1, IdleIsRequest, OneRequest

\* A request moves on to another await.
LEMMA GotoKeeps ==
    ASSUME BindingInv, NEW r \in Requests, NEW pc \in {"isBound", "create", "find", "issue"},
           request[r].pc # "idle", request' = W!Goto(r, pc),
           pc \in {"create", "find"} => request[r].op = "bind",
           UNCHANGED <<status, binding, codes, removed>>
    PROVE  BindingInv'
<1> DEFINE q == [request[r] EXCEPT !.pc = pc]
<1>1. request[r] \in W!Request
  BY DEF BindingInv, W!TypeOK
<1>2. q \in W!Request
  BY <1>1 DEF W!Request
<1>3. /\ q.pc = pc /\ q.op = request[r].op /\ q.account = request[r].account
      /\ q.openid = request[r].openid /\ q.held = request[r].held
      /\ q.answer = request[r].answer
  BY <1>1 DEF W!Request
<1>4. request' = [request EXCEPT ![r] = q]
  BY DEF W!Goto
<1>5. Known(r) /\ AnswerTrue(r)
  BY DEF BindingInv, W!BindAnswerWasTrue, AnswerTrue
<1> HIDE DEF q
<1> QED
  BY <1>2, <1>3, <1>4, <1>5, OneRequest DEF Known, AnswerTrue

\* A request of an account that is ACTIVE starts to watch its binding.
LEMMA ArriveKeeps ==
    ASSUME BindingInv, NEW r \in Requests, NEW new \in W!Request, W!Arrive(r, new),
           new.account \in Accounts, new.answer = "none",
           new.op = "bind" => new.openid \in Openids,
           new.pc = "inspect" => new.op \in {"bind", "send"},
           new.pc \notin {"create", "find"},
           new.pc = "transaction" =>
              new.code \in DOMAIN codes /\ codes[new.code].account = new.account
    PROVE  BindingInv'
<1> DEFINE q == [new EXCEPT !.held = {binding[new.account]}]
<1>1. q \in W!Request
  BY DEF W!Request, BindingInv, W!TypeOK
<1>2. /\ q.pc = new.pc /\ q.op = new.op /\ q.account = new.account /\ q.code = new.code
      /\ q.openid = new.openid /\ q.answer = new.answer /\ q.held = {binding[new.account]}
  BY DEF W!Request
<1>3. request' = [request EXCEPT ![r] = q] /\ UNCHANGED <<status, binding, codes, removed>>
  BY DEF W!Arrive
<1> HIDE DEF q
<1> QED
  BY <1>1, <1>2, <1>3, OneRequest

LEMMA BindKeeps ==
    ASSUME BindingInv, NEW r \in Requests, W!Bind(r)
    PROVE  BindingInv'
<1> PICK a \in Accounts, o \in Openids :
       W!Arrive(r, [W!Idle EXCEPT !.op = "bind", !.pc = "inspect", !.account = a, !.openid = o])
  BY DEF W!Bind
<1> DEFINE new == [W!Idle EXCEPT !.op = "bind", !.pc = "inspect", !.account = a, !.openid = o]
<1>1. /\ new \in W!Request /\ new.account = a /\ new.answer = "none" /\ new.op = "bind"
      /\ new.openid = o /\ new.pc = "inspect"
  BY IdleIsRequest DEF W!Request
<1>2. W!Arrive(r, new)
  OBVIOUS
<1> HIDE DEF new
<1> QED
  BY <1>1, <1>2, ArriveKeeps

LEMMA SendKeeps ==
    ASSUME BindingInv, NEW r \in Requests, W!SendUnbindCode(r)
    PROVE  BindingInv'
<1> PICK a \in Accounts :
       W!Arrive(r, [W!Idle EXCEPT !.op = "send", !.pc = "inspect", !.account = a])
  BY DEF W!SendUnbindCode
<1> DEFINE new == [W!Idle EXCEPT !.op = "send", !.pc = "inspect", !.account = a]
<1>1. /\ new \in W!Request /\ new.account = a /\ new.answer = "none" /\ new.op = "send"
      /\ new.pc = "inspect"
  BY IdleIsRequest DEF W!Request
<1>2. W!Arrive(r, new)
  OBVIOUS
<1> HIDE DEF new
<1> QED
  BY <1>1, <1>2, ArriveKeeps

LEMMA UnbindKeeps ==
    ASSUME BindingInv, NEW r \in Requests, W!Unbind(r)
    PROVE  BindingInv'
<1> PICK a \in Accounts : \E k \in W!FindActive(a) :
       W!Arrive(r, [W!Idle EXCEPT !.op = "unbind", !.pc = "transaction", !.account = a, !.code = k])
  BY DEF W!Unbind
<1> PICK k \in W!FindActive(a) :
       W!Arrive(r, [W!Idle EXCEPT !.op = "unbind", !.pc = "transaction", !.account = a, !.code = k])
  OBVIOUS
<1> DEFINE new == [W!Idle EXCEPT !.op = "unbind", !.pc = "transaction", !.account = a, !.code = k]
<1>1. k \in DOMAIN codes /\ codes[k].account = a
  BY DEF W!FindActive
<1>2. k \in 0..MaxCodes
  <2>1. k \in 1..Len(codes) /\ Len(codes) \in Nat /\ Len(codes) <= MaxCodes
    BY <1>1 DEF BindingInv, W!TypeOK
  <2> QED
    BY <2>1, CodesAssumption
<1>3. /\ new \in W!Request /\ new.account = a /\ new.answer = "none" /\ new.op = "unbind"
      /\ new.pc = "transaction" /\ new.code = k
  BY <1>2, IdleIsRequest DEF W!Request
<1>4. W!Arrive(r, new)
  OBVIOUS
<1> HIDE DEF new
<1> QED
  BY <1>1, <1>3, <1>4, ArriveKeeps

LEMMA InspectKeeps ==
    ASSUME BindingInv, NEW r \in Requests, W!Inspect(r)
    PROVE  BindingInv'
<1>1. CASE status[request[r].account] # "ACTIVE"
  BY <1>1, EndedKeeps DEF W!Inspect
<1>2. CASE status[request[r].account] = "ACTIVE" /\ request[r].op = "send"
  BY <1>2, GotoKeeps DEF W!Inspect
<1>3. CASE status[request[r].account] = "ACTIVE" /\ request[r].op # "send"
  <2>1. request[r].op = "bind"
    BY <1>3 DEF W!Inspect, BindingInv, Known
  <2> QED
    BY <1>3, <2>1, GotoKeeps DEF W!Inspect
<1> QED
  BY <1>1, <1>2, <1>3

LEMMA IsBoundKeeps ==
    ASSUME BindingInv, NEW r \in Requests, W!IsBound(r)
    PROVE  BindingInv'
<1>1. CASE binding[request[r].account] # None
  BY <1>1, GotoKeeps DEF W!IsBound
<1>2. CASE binding[request[r].account] = None
  BY <1>2, EndedKeeps DEF W!IsBound
<1> QED
  BY <1>1, <1>2

\* After P2002: the row that is found is among what the request has seen.
LEMMA FindKeeps ==
    ASSUME BindingInv, NEW r \in Requests, W!Find(r)
    PROVE  BindingInv'
<1> DEFINE a == request[r].account
           verdict == W!Verdict(binding[a], request[r].openid)
           q == [request[r] EXCEPT !.pc = "idle", !.answer = verdict]
<1>1. CASE verdict = "none"
  BY <1>1, EndedKeeps DEF W!Find
<1>2. CASE verdict # "none"
  <2>1. request[r] \in W!Request /\ verdict \in {"bound", "different"}
    BY <1>2 DEF BindingInv, W!TypeOK, W!Verdict
  <2>2. q \in W!Request
    BY <2>1 DEF W!Request
  <2>3. q.pc = "idle" /\ q.answer = verdict /\ q.openid = request[r].openid /\ q.held = request[r].held
    BY <2>1 DEF W!Request
  <2>4. binding[a] \in request[r].held
    BY DEF W!Find, BindingInv, Known
  <2>5. verdict = "bound" => request[r].openid \in request[r].held
    BY <2>4 DEF W!Verdict
  <2>6. verdict = "different" => binding[a] \in request[r].held \ {None, request[r].openid}
    BY <2>4 DEF W!Verdict
  <2>7. request' = [request EXCEPT ![r] = q] /\ UNCHANGED <<status, binding, codes, removed>>
    BY <1>2 DEF W!Find, W!Answered
  <2> HIDE DEF q, verdict, a
  <2> QED
    BY <2>2, <2>3, <2>5, <2>6, <2>7, OneRequest
<1> QED
  BY <1>1, <1>2

-----------------------------------------------------------------------------
(* The steps that change a table.                                          *)

\* What Witness does to a request: it adds the new binding to what was seen, of every
\* request of the account that is or was under way.
LEMMA WitnessIs ==
    ASSUME NEW requests \in [Requests -> W!Request], NEW a \in Accounts,
           NEW o \in Openids \cup {None}, request \in [Requests -> W!Request]
    PROVE  /\ W!Witness(requests, a, o) \in [Requests -> W!Request]
           /\ \A r \in Requests :
                 LET q == W!Witness(requests, a, o)[r] IN
                 /\ q.op = requests[r].op /\ q.pc = requests[r].pc
                 /\ q.account = requests[r].account /\ q.openid = requests[r].openid
                 /\ q.code = requests[r].code /\ q.answer = requests[r].answer
                 /\ requests[r].held \subseteq q.held
                 /\ requests[r].account = a /\ (requests[r].pc # "idle" \/ request[r].pc # "idle")
                       => o \in q.held
<1> SUFFICES ASSUME NEW r \in Requests
             PROVE  LET q == W!Witness(requests, a, o)[r] IN
                    /\ q \in W!Request
                    /\ q.op = requests[r].op /\ q.pc = requests[r].pc
                    /\ q.account = requests[r].account /\ q.openid = requests[r].openid
                    /\ q.code = requests[r].code /\ q.answer = requests[r].answer
                    /\ requests[r].held \subseteq q.held
                    /\ requests[r].account = a /\ (requests[r].pc # "idle" \/ request[r].pc # "idle")
                          => o \in q.held
  BY DEF W!Witness
<1> DEFINE seen == [requests[r] EXCEPT !.held = @ \cup {o}]
<1>1. requests[r] \in W!Request
  OBVIOUS
<1>2. /\ seen \in W!Request
      /\ seen.op = requests[r].op /\ seen.pc = requests[r].pc
      /\ seen.account = requests[r].account /\ seen.openid = requests[r].openid
      /\ seen.code = requests[r].code /\ seen.answer = requests[r].answer
      /\ seen.held = requests[r].held \cup {o}
  BY <1>1 DEF W!Request
<1>3. W!Witness(requests, a, o)[r] =
         IF requests[r].account = a /\ (requests[r].pc # "idle" \/ request[r].pc # "idle")
         THEN seen ELSE requests[r]
  BY DEF W!Witness
<1> HIDE DEF seen
<1> QED
  BY <1>1, <1>2, <1>3

LEMMA CreateKeeps ==
    ASSUME BindingInv, NEW r \in Requests, W!Create(r)
    PROVE  BindingInv'
<1> DEFINE a == request[r].account
           o == request[r].openid
           mid == W!Answered(r, "bound")
<1>1. CASE binding[a] = None /\ ~W!Taken(o)
  <2>1. request[r] \in W!Request /\ Known(r) /\ request[r].pc = "create"
    BY DEF W!Create, BindingInv, W!TypeOK
  <2>2. a \in Accounts /\ o \in Openids
    BY <2>1 DEF Known
  <2>3. /\ mid \in [Requests -> W!Request]
        /\ mid[r].pc = "idle" /\ mid[r].answer = "bound"
        /\ mid[r].account = a /\ mid[r].openid = o /\ mid[r].held = request[r].held
        /\ \A s \in Requests \ {r} : mid[s] = request[s]
    <3> DEFINE q == [request[r] EXCEPT !.pc = "idle", !.answer = "bound"]
    <3>1. /\ q \in W!Request /\ q.pc = "idle" /\ q.answer = "bound"
          /\ q.account = a /\ q.openid = o /\ q.held = request[r].held
      BY <2>1 DEF W!Request
    <3>2. mid = [request EXCEPT ![r] = q]
      BY DEF W!Answered
    <3> HIDE DEF q, mid
    <3> QED
      BY <3>1, <3>2 DEF BindingInv, W!TypeOK
  <2>4. /\ binding' = [binding EXCEPT ![a] = o] /\ request' = W!Witness(mid, a, o)
        /\ UNCHANGED <<status, codes, removed>>
    BY <1>1 DEF W!Create
  <2> HIDE DEF mid
  <2>5. /\ request' \in [Requests -> W!Request]
        /\ \A s \in Requests :
              /\ request'[s].op = mid[s].op /\ request'[s].pc = mid[s].pc
              /\ request'[s].account = mid[s].account /\ request'[s].openid = mid[s].openid
              /\ request'[s].code = mid[s].code /\ request'[s].answer = mid[s].answer
              /\ mid[s].held \subseteq request'[s].held
              /\ mid[s].account = a /\ (mid[s].pc # "idle" \/ request[s].pc # "idle")
                    => o \in request'[s].held
    BY <2>2, <2>3, <2>4, WitnessIs DEF BindingInv, W!TypeOK
  <2>6. W!TypeOK'
    <3>1. binding' \in [Accounts -> Openids \cup {None}]
      BY <2>2, <2>4 DEF BindingInv, W!TypeOK
    <3>2. \A b, c \in Accounts : binding'[b] = binding'[c] /\ b # c => binding'[b] = None
      BY <1>1, <2>2, <2>4 DEF BindingInv, W!TypeOK, W!Taken
    <3>3. \A s \in Requests : request'[s].pc = "transaction" => request'[s].code \in DOMAIN codes'
      <4> TAKE s \in Requests
      <4>1. s # r => mid[s] = request[s]
        BY <2>3
      <4>2. request'[s].pc = mid[s].pc /\ request'[s].code = mid[s].code /\ mid[r].pc = "idle"
        BY <2>3, <2>5
      <4>3. request[s].pc = "transaction" => request[s].code \in DOMAIN codes
        BY DEF BindingInv, W!TypeOK
      <4> QED
        BY <2>4, <4>1, <4>2, <4>3
    <3> QED
      BY <2>4, <2>5, <3>1, <3>2, <3>3 DEF BindingInv, W!TypeOK
  <2>7. \A s \in Requests : Known(s)' /\ AnswerTrue(s)'
    <3> TAKE s \in Requests
    <3>1. CASE s = r
      BY <2>1, <2>3, <2>5, <3>1 DEF Known, AnswerTrue
    <3>2. CASE s # r
      <4>1. mid[s] = request[s] /\ Known(s) /\ AnswerTrue(s)
        BY <2>3, <3>2 DEF BindingInv, W!BindAnswerWasTrue, AnswerTrue
      <4>2. \A b \in Accounts : binding'[b] = IF b = a THEN o ELSE binding[b]
        BY <2>4 DEF BindingInv, W!TypeOK
      <4>3. AnswerTrue(s)'
        BY <2>5, <4>1 DEF AnswerTrue
      <4> HIDE DEF a, o
      <4>4. Known(s)'
        BY <2>4, <2>5, <4>1, <4>2 DEF Known
      <4> QED
        BY <4>3, <4>4
    <3> QED
      BY <3>1, <3>2
  <2> QED
    BY <2>6, <2>7 DEF BindingInv, W!BindAnswerWasTrue, AnswerTrue
<1>2. CASE ~(binding[a] = None /\ ~W!Taken(o))
  <2>1. /\ request[r].pc = "create" /\ request[r].op = "bind"
        /\ request' = W!Goto(r, "find") /\ UNCHANGED <<status, binding, codes, removed>>
    BY <1>2 DEF W!Create, BindingInv, Known
  <2> QED
    BY <2>1, GotoKeeps
<1> QED
  BY <1>1, <1>2

LEMMA IssueKeeps ==
    ASSUME BindingInv, NEW r \in Requests, W!Issue(r)
    PROVE  BindingInv'
<1> DEFINE entry == [account |-> request[r].account, used |-> FALSE, expired |-> FALSE]
<1>1. entry \in W!Code
  BY DEF W!Issue, BindingInv, Known, W!Code
<1>2. codes' = Append(codes, entry) /\ codes \in Seq(W!Code) /\ Len(codes) < MaxCodes
  BY DEF W!Issue, BindingInv, W!TypeOK
<1> HIDE DEF entry
<1>3. /\ codes' \in Seq(W!Code) /\ Len(codes') <= MaxCodes
      /\ DOMAIN codes \subseteq DOMAIN codes'
      /\ \A k \in DOMAIN codes : codes'[k] = codes[k]
  BY <1>1, <1>2, CodesAssumption
<1>4. /\ request' = [request EXCEPT ![r] = W!Idle] /\ request' \in [Requests -> W!Request]
      /\ UNCHANGED <<status, binding, removed>>
  BY IdleIsRequest DEF W!Issue, W!Ended, BindingInv, W!TypeOK
<1>5. W!TypeOK'
  <2>1. \A s \in Requests : request'[s].pc = "transaction" => request'[s].code \in DOMAIN codes'
    BY <1>3, <1>4, IdleIsRequest DEF BindingInv, W!TypeOK
  <2> QED
    BY <1>3, <1>4, <2>1 DEF BindingInv, W!TypeOK
<1>6. \A s \in Requests : Known(s)' /\ AnswerTrue(s)'
  <2> TAKE s \in Requests
  <2>1. CASE s = r
    BY <1>4, <2>1, IdleIsRequest DEF Known, AnswerTrue, BindingInv, W!TypeOK
  <2>2. CASE s # r
    <3>1. request'[s] = request[s] /\ Known(s) /\ AnswerTrue(s)
      BY <1>4, <2>2 DEF BindingInv, W!BindAnswerWasTrue, AnswerTrue
    <3>2. request[s].pc = "transaction" => codes'[request[s].code] = codes[request[s].code]
      BY <1>3 DEF BindingInv, W!TypeOK
    <3> QED
      BY <1>4, <3>1, <3>2 DEF Known, AnswerTrue
  <2> QED
    BY <2>1, <2>2
<1> QED
  BY <1>5, <1>6 DEF BindingInv, W!BindAnswerWasTrue, AnswerTrue

\* The effect of a commit of an unbind on the rows of the codes.
Marked(k) == /\ codes' \in Seq(W!Code) /\ Len(codes') = Len(codes)
             /\ DOMAIN codes' = DOMAIN codes
             /\ \A j \in DOMAIN codes : /\ codes'[j].account = codes[j].account
                                        /\ j # k => codes'[j] = codes[j]
             /\ codes'[k].used

LEMMA RowReplaced ==
    ASSUME NEW S, NEW seq \in Seq(S), NEW k \in DOMAIN seq, NEW entry \in S
    PROVE  LET new == [seq EXCEPT ![k] = entry] IN
           new \in Seq(S) /\ Len(new) = Len(seq) /\ DOMAIN new = DOMAIN seq
  OBVIOUS

LEMMA MarkingMarks ==
    ASSUME codes \in Seq(W!Code), NEW k \in DOMAIN codes
    PROVE  codes' = [codes EXCEPT ![k].used = TRUE] => Marked(k)
<1> DEFINE entry == [codes[k] EXCEPT !.used = TRUE]
<1>1. codes[k] \in W!Code
  OBVIOUS
<1>2. entry \in W!Code /\ entry.account = codes[k].account /\ entry.used
  BY <1>1 DEF W!Code
<1>3. codes' = [codes EXCEPT ![k].used = TRUE] => codes' = [codes EXCEPT ![k] = entry]
  OBVIOUS
<1> HIDE DEF entry
<1>4. ASSUME codes' = [codes EXCEPT ![k] = entry]
      PROVE  Marked(k)
  <2>1. codes' \in Seq(W!Code) /\ Len(codes') = Len(codes) /\ DOMAIN codes' = DOMAIN codes
    BY <1>2, <1>4, RowReplaced
  <2> QED
    BY <1>2, <1>4, <2>1 DEF Marked
<1> QED
  BY <1>3, <1>4

LEMMA TransactionKeeps ==
    ASSUME BindingInv, NEW r \in Requests, W!Transaction(r)
    PROVE  BindingInv'
<1> DEFINE a == request[r].account
           k == request[r].code
           mid == W!Ended(r)
<1>1. CASE W!MarkUsed(k) /\ binding[a] # None
  <2>1. a \in Accounts /\ k \in DOMAIN codes
    BY DEF W!Transaction, BindingInv, W!TypeOK, Known
  <2>2. /\ mid \in [Requests -> W!Request] /\ mid[r] = W!Idle
        /\ \A s \in Requests \ {r} : mid[s] = request[s]
    BY IdleIsRequest DEF W!Ended, BindingInv, W!TypeOK
  <2>3. /\ binding' = [binding EXCEPT ![a] = None] /\ request' = W!Witness(mid, a, None)
        /\ codes' = [codes EXCEPT ![k].used = TRUE]
        /\ removed' = [removed EXCEPT ![a] = @ + 1] /\ UNCHANGED status
    BY <1>1 DEF W!Transaction
  <2>4. Marked(k)
    BY <2>1, <2>3, MarkingMarks DEF BindingInv, W!TypeOK
  <2> HIDE DEF mid, a, k
  <2>5. /\ request' \in [Requests -> W!Request]
        /\ \A s \in Requests :
              /\ request'[s].op = mid[s].op /\ request'[s].pc = mid[s].pc
              /\ request'[s].account = mid[s].account /\ request'[s].openid = mid[s].openid
              /\ request'[s].code = mid[s].code /\ request'[s].answer = mid[s].answer
              /\ mid[s].held \subseteq request'[s].held
              /\ mid[s].account = a /\ (mid[s].pc # "idle" \/ request[s].pc # "idle")
                    => None \in request'[s].held
    BY <2>1, <2>2, <2>3, WitnessIs DEF BindingInv, W!TypeOK
  <2>6. \A b \in Accounts : binding'[b] = IF b = a THEN None ELSE binding[b]
    BY <2>3 DEF BindingInv, W!TypeOK
  <2>7. W!TypeOK'
    <3>1. binding' \in [Accounts -> Openids \cup {None}]
      BY <2>3 DEF BindingInv, W!TypeOK
    <3>2. \A b, c \in Accounts : binding'[b] = binding'[c] /\ b # c => binding'[b] = None
      BY <2>6 DEF BindingInv, W!TypeOK
    <3>3. \A s \in Requests : request'[s].pc = "transaction" => request'[s].code \in DOMAIN codes'
      <4> TAKE s \in Requests
      <4>1. s # r => mid[s] = request[s]
        BY <2>2
      <4>2. request'[s].pc = mid[s].pc /\ request'[s].code = mid[s].code /\ mid[r].pc = "idle"
        BY <2>2, <2>5, IdleIsRequest
      <4>3. request[s].pc = "transaction" => request[s].code \in DOMAIN codes
        BY DEF BindingInv, W!TypeOK
      <4> QED
        BY <2>4, <4>1, <4>2, <4>3 DEF Marked
    <3>4. removed' \in [Accounts -> Nat]
      BY <2>1, <2>3 DEF BindingInv, W!TypeOK
    <3> QED
      BY <2>3, <2>4, <2>5, <3>1, <3>2, <3>3, <3>4 DEF BindingInv, W!TypeOK, Marked
  <2>8. \A s \in Requests : Known(s)' /\ AnswerTrue(s)'
    <3> TAKE s \in Requests
    <3>1. CASE s = r
      BY <2>2, <2>5, <3>1, IdleIsRequest DEF Known, AnswerTrue
    <3>2. CASE s # r
      <4>1. mid[s] = request[s] /\ Known(s) /\ AnswerTrue(s)
        BY <2>2, <3>2 DEF BindingInv, W!BindAnswerWasTrue, AnswerTrue
      <4>2. AnswerTrue(s)'
        BY <2>5, <4>1 DEF AnswerTrue
      <4>3. request[s].pc = "transaction" => codes'[request[s].code].account = request[s].account
        BY <2>4, <4>1 DEF Marked, Known, BindingInv, W!TypeOK
      <4>4. Known(s)'
        BY <2>5, <2>6, <4>1, <4>3 DEF Known
      <4> QED
        BY <4>2, <4>4
    <3> QED
      BY <3>1, <3>2
  <2> QED
    BY <2>7, <2>8 DEF BindingInv, W!BindAnswerWasTrue, AnswerTrue
<1>2. CASE ~(W!MarkUsed(k) /\ binding[a] # None)
  BY <1>2, EndedKeeps DEF W!Transaction
<1> QED
  BY <1>1, <1>2

-----------------------------------------------------------------------------
(* The environment.                                                        *)

LEMMA StatusKeeps ==
    ASSUME BindingInv, NEW a \in Accounts, W!StatusChanges(a)
    PROVE  BindingInv'
<1>1. status' \in [Accounts -> {"ACTIVE", "FROZEN"}] /\ UNCHANGED <<binding, codes, request, removed>>
  BY DEF W!StatusChanges, BindingInv, W!TypeOK
<1>2. W!TypeOK'
  BY <1>1 DEF BindingInv, W!TypeOK
<1>3. \A r \in Requests : Known(r)'
  BY <1>1 DEF BindingInv, Known
<1>4. W!BindAnswerWasTrue'
  BY <1>1 DEF BindingInv, W!BindAnswerWasTrue
<1> QED
  BY <1>2, <1>3, <1>4 DEF BindingInv

LEMMA ExpireIs ==
    ASSUME codes \in Seq(W!Code), NEW k \in DOMAIN codes, W!Expire(k)
    PROVE  /\ codes' \in Seq(W!Code) /\ Len(codes') = Len(codes) /\ DOMAIN codes' = DOMAIN codes
           /\ \A j \in DOMAIN codes : codes'[j].account = codes[j].account /\ codes'[j].used = codes[j].used
<1> DEFINE entry == [codes[k] EXCEPT !.expired = TRUE]
<1>1. codes[k] \in W!Code
  OBVIOUS
<1>2. entry \in W!Code /\ entry.account = codes[k].account /\ entry.used = codes[k].used
  BY <1>1 DEF W!Code
<1>3. codes' = [codes EXCEPT ![k] = entry]
  BY DEF W!Expire
<1> HIDE DEF entry
<1>4. codes' \in Seq(W!Code) /\ Len(codes') = Len(codes) /\ DOMAIN codes' = DOMAIN codes
  BY <1>2, <1>3, RowReplaced
<1> QED
  BY <1>2, <1>3, <1>4

LEMMA ExpireKeeps ==
    ASSUME BindingInv, NEW k \in DOMAIN codes, W!Expire(k)
    PROVE  BindingInv'
<1>1. /\ codes' \in Seq(W!Code) /\ Len(codes') = Len(codes) /\ DOMAIN codes' = DOMAIN codes
      /\ \A j \in DOMAIN codes : codes'[j].account = codes[j].account
      /\ UNCHANGED <<status, binding, request, removed>>
  BY ExpireIs DEF BindingInv, W!TypeOK, W!Expire
<1>2. W!TypeOK'
  BY <1>1 DEF BindingInv, W!TypeOK
<1>3. \A r \in Requests : Known(r)'
  <2> TAKE r \in Requests
  <2>1. Known(r) /\ (request[r].pc = "transaction" => request[r].code \in DOMAIN codes)
    BY DEF BindingInv, W!TypeOK
  <2> QED
    BY <1>1, <2>1 DEF Known
<1>4. W!BindAnswerWasTrue'
  BY <1>1 DEF BindingInv, W!BindAnswerWasTrue
<1> QED
  BY <1>2, <1>3, <1>4 DEF BindingInv

LEMMA BindingKeeps ==
    ASSUME BindingInv, [W!Next]_W!vars
    PROVE  BindingInv'
<1>1. CASE \E r \in Requests : W!Step(r)
  <2> PICK r \in Requests : W!Step(r)
    BY <1>1
  <2>1. CASE W!Die(r)
    BY <2>1, EndedKeeps DEF W!Die
  <2> QED
    BY <2>1, BindKeeps, SendKeeps, UnbindKeeps, InspectKeeps, CreateKeeps, FindKeeps,
       IsBoundKeeps, IssueKeeps, TransactionKeeps DEF W!Step
<1>2. CASE \E a \in Accounts : W!StatusChanges(a)
  BY <1>2, StatusKeeps
<1>3. CASE \E k \in DOMAIN codes : W!Expire(k)
  BY <1>3, ExpireKeeps
<1>4. CASE UNCHANGED W!vars
  <2>1. UNCHANGED <<status, binding, codes, request, removed>>
    BY <1>4 DEF W!vars
  <2>2. W!TypeOK'
    BY <2>1 DEF BindingInv, W!TypeOK
  <2>3. \A r \in Requests : Known(r)'
    BY <2>1 DEF BindingInv, Known
  <2>4. W!BindAnswerWasTrue'
    BY <2>1 DEF BindingInv, W!BindAnswerWasTrue
  <2> QED
    BY <2>2, <2>3, <2>4 DEF BindingInv
<1> QED
  BY <1>1, <1>2, <1>3, <1>4 DEF W!Next

\* Of the module alone: the strengthening is an invariant.
LEMMA BindingInvHolds == W!Spec => []BindingInv
<1>1. W!Init => BindingInv
  BY BindingInit
<1>2. BindingInv /\ [W!Next]_W!vars => BindingInv'
  BY BindingKeeps
<1> QED
  BY <1>1, <1>2, PTL DEF W!Spec

-----------------------------------------------------------------------------
(* A code removes one binding.                                             *)

\* The instance's operator is the library's.
LEMMA CardinalityIs == \A S : W!Cardinality(S) = Cardinality(S)
  BY DEF W!Cardinality, Cardinality, W!IsFiniteSet, IsFiniteSet

Spent(a) == {k \in DOMAIN codes : codes[k].account = a /\ codes[k].used}

\* What an account spent is a finite set.
LEMMA SpentFinite ==
    ASSUME codes \in Seq(W!Code), NEW a
    PROVE  IsFiniteSet(Spent(a))
<1>1. IsFiniteSet(1..Len(codes))
  BY FS_Interval
<1>2. Spent(a) \subseteq 1..Len(codes)
  BY DEF Spent
<1> QED
  BY <1>1, <1>2, FS_Subset

\* The same codes are spent.
LEMMA SameSpent ==
    ASSUME W!SpentCodeUnbinds, UNCHANGED removed,
           \A a \in Accounts : Spent(a)' = Spent(a)
    PROVE  W!SpentCodeUnbinds'
  BY DEF W!SpentCodeUnbinds, Spent

LEMMA SpentByTransaction ==
    ASSUME BindingInv, W!SpentCodeUnbinds, NEW r \in Requests, W!Transaction(r)
    PROVE  W!SpentCodeUnbinds'
<1> DEFINE a == request[r].account
           k == request[r].code
<1>1. CASE W!MarkUsed(k) /\ binding[a] # None
  <2>1. a \in Accounts /\ k \in DOMAIN codes /\ codes[k].account = a /\ ~codes[k].used
    BY <1>1 DEF W!Transaction, BindingInv, W!TypeOK, Known, W!MarkUsed
  <2>2. Marked(k)
    BY <1>1, <2>1, MarkingMarks DEF W!Transaction, BindingInv, W!TypeOK
  <2>3. removed' = [removed EXCEPT ![a] = removed[a] + 1]
    BY <1>1 DEF W!Transaction
  <2> HIDE DEF a, k
  <2> SUFFICES ASSUME NEW b \in Accounts
               PROVE  removed'[b] = Cardinality(Spent(b)')
    BY CardinalityIs DEF W!SpentCodeUnbinds, Spent
  <2>4. removed[b] = Cardinality(Spent(b)) /\ IsFiniteSet(Spent(b))
    BY SpentFinite, CardinalityIs DEF W!SpentCodeUnbinds, Spent, BindingInv, W!TypeOK
  <2>5. CASE b = a
    <3>1. Spent(b)' = Spent(b) \cup {k} /\ k \notin Spent(b)
      BY <2>1, <2>2, <2>5 DEF Marked, Spent
    <3>2. Cardinality(Spent(b) \cup {k}) = Cardinality(Spent(b)) + 1
      BY <2>4, <3>1, FS_AddElement
    <3> QED
      BY <2>1, <2>3, <2>4, <2>5, <3>1, <3>2 DEF BindingInv, W!TypeOK
  <2>6. CASE b # a
    <3>1. Spent(b)' = Spent(b)
      BY <2>1, <2>2, <2>6 DEF Marked, Spent
    <3> QED
      BY <2>3, <2>4, <2>6, <3>1 DEF BindingInv, W!TypeOK
  <2> QED
    BY <2>5, <2>6
<1>2. CASE ~(W!MarkUsed(k) /\ binding[a] # None)
  BY <1>2, SameSpent DEF W!Transaction, Spent
<1> QED
  BY <1>1, <1>2

LEMMA SpentByNext ==
    ASSUME BindingInv, W!SpentCodeUnbinds, [W!Next]_W!vars
    PROVE  W!SpentCodeUnbinds'
<1>1. CASE UNCHANGED <<codes, removed>>
  BY <1>1, SameSpent DEF Spent
<1>2. ASSUME NEW r \in Requests, W!Issue(r)
      PROVE  W!SpentCodeUnbinds'
  <2> DEFINE entry == [account |-> request[r].account, used |-> FALSE, expired |-> FALSE]
             n == Len(codes) + 1
  <2>1. codes' = Append(codes, entry) /\ codes \in Seq(W!Code) /\ ~entry.used /\ UNCHANGED removed
    BY <1>2 DEF W!Issue, BindingInv, W!TypeOK
  <2> HIDE DEF entry
  <2>2. /\ DOMAIN codes' = DOMAIN codes \cup {n} /\ codes'[n] = entry
        /\ \A k \in DOMAIN codes : codes'[k] = codes[k]
    BY <2>1
  <2> HIDE DEF n
  <2>3. \A a \in Accounts : Spent(a)' = Spent(a)
    BY <2>1, <2>2 DEF Spent
  <2> QED
    BY <2>1, <2>3, SameSpent
<1>3. ASSUME NEW k \in DOMAIN codes, W!Expire(k)
      PROVE  W!SpentCodeUnbinds'
  <2>1. /\ DOMAIN codes' = DOMAIN codes /\ UNCHANGED removed
        /\ \A j \in DOMAIN codes : codes'[j].account = codes[j].account /\ codes'[j].used = codes[j].used
    BY <1>3, ExpireIs DEF BindingInv, W!TypeOK, W!Expire
  <2>2. \A a \in Accounts : Spent(a)' = Spent(a)
    BY <2>1 DEF Spent
  <2> QED
    BY <2>1, <2>2, SameSpent
<1>4. ASSUME NEW r \in Requests, W!Step(r)
      PROVE  W!SpentCodeUnbinds'
  <2>1. CASE W!Bind(r) \/ W!SendUnbindCode(r) \/ W!Unbind(r)
    BY <1>1, <2>1 DEF W!Bind, W!SendUnbindCode, W!Unbind, W!Arrive
  <2>2. CASE W!Inspect(r) \/ W!Create(r) \/ W!Find(r) \/ W!IsBound(r) \/ W!Die(r)
    BY <1>1, <2>2 DEF W!Inspect, W!Create, W!Find, W!IsBound, W!Die
  <2> QED
    BY <1>2, <1>4, <2>1, <2>2, SpentByTransaction DEF W!Step
<1>5. CASE \E a \in Accounts : W!StatusChanges(a)
  BY <1>1, <1>5 DEF W!StatusChanges
<1>6. CASE UNCHANGED W!vars
  BY <1>1, <1>6 DEF W!vars
<1> QED
  BY <1>3, <1>4, <1>5, <1>6 DEF W!Next

\* Every binding that was removed was paid with a code of its account, and no code
\* pays twice.
LEMMA SpentHolds == W!Spec => []W!SpentCodeUnbinds
<1>1. W!Init => W!SpentCodeUnbinds
  <2> SUFFICES ASSUME W!Init, NEW a \in Accounts
               PROVE  removed[a] = Cardinality({k \in DOMAIN codes : codes[k].account = a /\ codes[k].used})
    BY CardinalityIs DEF W!SpentCodeUnbinds
  <2>1. {k \in DOMAIN codes : codes[k].account = a /\ codes[k].used} = {}
    BY DEF W!Init
  <2> QED
    BY <2>1, FS_EmptySet DEF W!Init
<1>2. BindingInv /\ W!SpentCodeUnbinds /\ [W!Next]_W!vars => W!SpentCodeUnbinds'
  BY SpentByNext
<1> QED
  BY <1>1, <1>2, BindingInvHolds, PTL DEF W!Spec

-----------------------------------------------------------------------------
(* Profile edits.                                                          *)

Probed ==
    /\ \A k \in objects : k <= values
    /\ \A u \in Uploaders : flow[u].key <= values
    /\ \A r \in P!Callers : handler[r].pc = "update" /\ handler[r].column \in Images =>
          handler[r].value \in objects /\ keyOf[handler[r].value] = handler[r].column

ProfileInv == P!TypeOK /\ P!ProfileIsWhatWasSent /\ Probed

\* A slot without a request, and a hook without an upload.
LEMMA EmptyIs ==
    /\ P!NoHandler \in P!Handler /\ P!NoHandler.pc = "none" /\ P!NoHandler.seen \in [P!Columns -> P!Value]
    /\ P!NoFlow \in P!Flow /\ P!NoFlow.pc = "idle" /\ P!NoFlow.key = 0
    /\ 0 \in P!Value
  BY ValuesAssumption DEF P!NoHandler, P!NoFlow, P!Handler, P!Flow, P!Value

LEMMA ProfileInit == P!Init => ProfileInv
<1> SUFFICES ASSUME P!Init
             PROVE  ProfileInv
  OBVIOUS
<1>1. P!TypeOK
  BY EmptyIs DEF P!Init, P!TypeOK
<1>2. P!ProfileIsWhatWasSent
  BY DEF P!Init, P!ProfileIsWhatWasSent, P!EditsDoNotUndoEachOther, P!ImageWasUploaded, P!Columns
<1>3. Probed
  BY EmptyIs DEF P!Init, Probed
<1> QED
  BY <1>1, <1>2, <1>3 DEF ProfileInv

-----------------------------------------------------------------------------
(* The server.                                                             *)

\* The handler of r moves on, and nothing else changes.
LEMMA HandlerMoves ==
    ASSUME ProfileInv, NEW r \in P!Callers, NEW h \in P!Handler, handler' = [handler EXCEPT ![r] = h],
           UNCHANGED <<active, row, values, keyOf, objects, flow, newest>>,
           h.pc = "update" /\ h.column \in Images => h.value \in objects /\ keyOf[h.value] = h.column
    PROVE  ProfileInv'
<1>1. handler' \in [P!Callers -> P!Handler] /\ handler'[r] = h /\ \A s \in P!Callers \ {r} : handler'[s] = handler[s]
  BY DEF ProfileInv, P!TypeOK
<1>2. P!TypeOK'
  BY <1>1 DEF ProfileInv, P!TypeOK
<1>3. P!ProfileIsWhatWasSent'
  BY DEF ProfileInv, P!ProfileIsWhatWasSent, P!EditsDoNotUndoEachOther, P!ImageWasUploaded
<1>4. Probed'
  BY <1>1 DEF ProfileInv, Probed
<1> QED
  BY <1>2, <1>3, <1>4 DEF ProfileInv

\* A request arrives.
LEMMA RequestIs ==
    ASSUME NEW c \in P!Columns \cup {"none"}, NEW v \in P!Value
    PROVE  LET h == [P!NoHandler EXCEPT !.pc = "guard", !.column = c, !.value = v] IN
           h \in P!Handler /\ h.pc = "guard" /\ h.column = c
  BY EmptyIs DEF P!Handler

LEMMA GuardKeeps ==
    ASSUME ProfileInv, NEW r \in P!Callers, P!Guard(r)
    PROVE  ProfileInv'
<1> DEFINE h == [handler[r] EXCEPT !.pc = IF active THEN "read" ELSE "refused"]
<1>1. handler[r] \in P!Handler
  BY DEF P!Guard, P!At, ProfileInv, P!TypeOK, Probed
<1>2. h \in P!Handler /\ h.pc # "update" /\ h.column = handler[r].column
  BY <1>1 DEF P!Handler
<1>3. /\ handler' = [handler EXCEPT ![r] = h]
      /\ UNCHANGED <<active, row, values, keyOf, objects, flow, newest>>
  BY DEF P!Guard, P!At
<1> HIDE DEF h
<1> QED
  BY <1>1, <1>2, <1>3, HandlerMoves

LEMMA ReadKeeps ==
    ASSUME ProfileInv, NEW r \in P!Callers, P!Read(r)
    PROVE  ProfileInv'
<1> DEFINE next == IF ~active THEN "refused" ELSE IF handler[r].column \in Images THEN "probe" ELSE "update"
           h == [handler[r] EXCEPT !.seen = row, !.pc = next]
<1>1. handler[r] \in P!Handler /\ row \in [P!Columns -> P!Value]
  BY DEF P!Read, P!At, ProfileInv, P!TypeOK, Probed
<1>2. next \in {"refused", "probe", "update"} /\ (next = "update" => handler[r].column \notin Images)
  OBVIOUS
<1>3. /\ handler' = [handler EXCEPT ![r] = h]
      /\ UNCHANGED <<active, row, values, keyOf, objects, flow, newest>>
  BY DEF P!Read, P!At
<1> HIDE DEF next
<1>4. h \in P!Handler /\ h.pc = next /\ h.column = handler[r].column
  BY <1>1, <1>2 DEF P!Handler
<1> HIDE DEF h
<1> QED
  BY <1>1, <1>2, <1>3, <1>4, HandlerMoves

LEMMA ProbeKeeps ==
    ASSUME ProfileInv, NEW r \in P!Callers, P!Probe(r)
    PROVE  ProfileInv'
<1> PICK pc \in {"update", "refused"} :
       /\ pc = "update" => P!ProbeFinds(r)
       /\ P!At(r, "probe", [handler[r] EXCEPT !.pc = pc])
  BY DEF P!Probe
<1> DEFINE h == [handler[r] EXCEPT !.pc = pc]
<1>1. handler[r] \in P!Handler
  BY DEF P!At, ProfileInv, P!TypeOK, Probed
<1>2. h \in P!Handler /\ h.pc = pc /\ h.column = handler[r].column /\ h.value = handler[r].value
  BY <1>1 DEF P!Handler
<1>3. /\ handler' = [handler EXCEPT ![r] = h]
      /\ UNCHANGED <<active, row, values, keyOf, objects, flow, newest>>
  BY DEF P!Probe, P!At
<1> HIDE DEF h
<1> QED
  BY <1>1, <1>2, <1>3, HandlerMoves DEF P!ProbeFinds

\* One column is written: with the value its handler has probed, if it is an image's.
LEMMA UpdateKeeps ==
    ASSUME ProfileInv, NEW r \in P!Callers, P!Update(r)
    PROVE  ProfileInv'
<1> DEFINE h == handler[r]
           done == [handler[r] EXCEPT !.pc = "ok"]
<1>1. h \in P!Handler /\ h.value \in P!Value /\ h.pc = "update"
  BY DEF P!Update, P!At, ProfileInv, P!TypeOK, Probed, P!Handler
<1>2. done \in P!Handler /\ done.pc = "ok"
  BY <1>1 DEF P!Handler
<1>3. /\ handler' = [handler EXCEPT ![r] = done] /\ row' = [row EXCEPT ![h.column] = h.value]
      /\ newest' = [newest EXCEPT ![h.column] = h.value]
      /\ UNCHANGED <<active, values, keyOf, objects, flow>>
  BY DEF P!Update, P!At, P!Saved
<1>4. h.column \in Images => h.value \in objects /\ keyOf[h.value] = h.column
  BY <1>1 DEF ProfileInv, Probed
<1> HIDE DEF h, done
<1>5. /\ row' \in [P!Columns -> P!Value] /\ newest' \in [P!Columns -> P!Value] /\ row' = newest'
      /\ \A c \in P!Columns : row'[c] = IF c = h.column THEN h.value ELSE row[c]
  BY <1>1, <1>3 DEF ProfileInv, P!TypeOK, P!ProfileIsWhatWasSent, P!EditsDoNotUndoEachOther
<1>6. handler' \in [P!Callers -> P!Handler] /\ handler'[r] = done /\ \A s \in P!Callers \ {r} : handler'[s] = handler[s]
  BY <1>2, <1>3 DEF ProfileInv, P!TypeOK
<1>7. P!TypeOK'
  BY <1>3, <1>5, <1>6 DEF ProfileInv, P!TypeOK
<1>8. P!ProfileIsWhatWasSent'
  BY <1>3, <1>4, <1>5 DEF ProfileInv, P!ProfileIsWhatWasSent, P!EditsDoNotUndoEachOther, P!ImageWasUploaded, P!Columns
<1>9. Probed'
  BY <1>2, <1>3, <1>6 DEF ProfileInv, Probed
<1> QED
  BY <1>7, <1>8, <1>9 DEF ProfileInv

\* A value is used up, for a text field.
LEMMA EditKeeps ==
    ASSUME ProfileInv, NEW r \in Editors, P!Edit(r)
    PROVE  ProfileInv'
<1> PICK c \in Texts : P!Request(r, c, values')
  BY DEF P!Edit
<1> DEFINE h == [P!NoHandler EXCEPT !.pc = "guard", !.column = c, !.value = values']
<1>1. values' = values + 1 /\ values \in Nat /\ values' \in P!Value
  BY ValuesAssumption DEF P!Edit, ProfileInv, P!TypeOK, P!Value
<1>2. h \in P!Handler /\ h.pc = "guard" /\ h.column = c
  BY <1>1, RequestIs DEF P!Columns
<1>3. handler' = [handler EXCEPT ![r] = h] /\ UNCHANGED <<active, row, keyOf, objects, flow, newest>>
  BY DEF P!Edit, P!Request
<1> HIDE DEF h
<1>4. handler' \in [P!Callers -> P!Handler] /\ handler'[r] = h /\ \A s \in P!Callers \ {r} : handler'[s] = handler[s]
  BY <1>2, <1>3 DEF ProfileInv, P!TypeOK, P!Callers
<1>5. P!TypeOK'
  BY <1>1, <1>3, <1>4 DEF ProfileInv, P!TypeOK
<1>6. P!ProfileIsWhatWasSent'
  BY <1>3 DEF ProfileInv, P!ProfileIsWhatWasSent, P!EditsDoNotUndoEachOther, P!ImageWasUploaded
<1>7. Probed'
  <2>1. \A k \in objects' : k <= values'
    BY <1>1, <1>3 DEF ProfileInv, P!TypeOK, Probed, P!Value
  <2>2. \A u \in Uploaders : flow'[u].key <= values'
    BY <1>1, <1>3 DEF ProfileInv, P!TypeOK, Probed, P!Value, P!Flow
  <2> QED
    BY <1>2, <1>3, <1>4, <2>1, <2>2 DEF ProfileInv, Probed, P!Columns
<1> QED
  BY <1>5, <1>6, <1>7 DEF ProfileInv

-----------------------------------------------------------------------------
(* The app.                                                                *)

\* An upload moves on with the key it has, and the server does not.
LEMMA FlowMoves ==
    ASSUME ProfileInv, NEW u \in Uploaders, NEW f \in P!Flow, flow' = [flow EXCEPT ![u] = f],
           f.key <= values, UNCHANGED <<active, row, values, keyOf, handler, newest>>,
           objects \subseteq objects', objects' \subseteq P!Value, \A k \in objects' : k <= values
    PROVE  ProfileInv'
<1>1. flow' \in [Uploaders -> P!Flow] /\ flow'[u] = f /\ \A v \in Uploaders \ {u} : flow'[v] = flow[v]
  BY DEF ProfileInv, P!TypeOK
<1>2. P!TypeOK'
  BY <1>1 DEF ProfileInv, P!TypeOK
<1>3. P!ProfileIsWhatWasSent'
  BY DEF ProfileInv, P!ProfileIsWhatWasSent, P!EditsDoNotUndoEachOther, P!ImageWasUploaded
<1>4. Probed'
  BY <1>1 DEF ProfileInv, Probed
<1> QED
  BY <1>2, <1>3, <1>4 DEF ProfileInv

LEMMA FlowIs ==
    ASSUME ProfileInv, NEW u \in Uploaders
    PROVE  flow[u] \in P!Flow /\ flow[u].key \in Nat /\ flow[u].key <= values /\ values \in Nat
  BY ValuesAssumption DEF ProfileInv, P!TypeOK, Probed, P!Flow, P!Value

\* An upload ends, or goes on to the next await.
LEMMA FinishKeeps ==
    ASSUME ProfileInv, NEW u \in Uploaders, P!Finish(u), UNCHANGED <<active, row, values, keyOf, handler, newest>>,
           objects \subseteq objects', objects' \subseteq P!Value, \A k \in objects' : k <= values
    PROVE  ProfileInv'
<1>1. P!NoFlow.key <= values
  BY EmptyIs, FlowIs
<1>2. flow' = [flow EXCEPT ![u] = P!NoFlow]
  BY DEF P!Finish
<1> QED
  BY <1>1, <1>2, EmptyIs, FlowMoves

LEMMA GoKeeps ==
    ASSUME ProfileInv, NEW u \in Uploaders, NEW pc \in {"issuing", "confirming"}, P!Go(u, pc),
           UNCHANGED <<active, row, values, keyOf, handler, newest>>,
           objects \subseteq objects', objects' \subseteq P!Value, \A k \in objects' : k <= values
    PROVE  ProfileInv'
<1> DEFINE f == [flow[u] EXCEPT !.pc = pc]
<1>1. f \in P!Flow /\ f.key <= values
  BY FlowIs DEF P!Flow
<1>2. flow' = [flow EXCEPT ![u] = f]
  BY DEF P!Go
<1> HIDE DEF f
<1> QED
  BY <1>1, <1>2, FlowMoves

LEMMA PickKeeps ==
    ASSUME ProfileInv, NEW u \in Uploaders, P!Pick(u)
    PROVE  ProfileInv'
<1> PICK i \in Images : flow' = [flow EXCEPT ![u] = [P!NoFlow EXCEPT !.pc = "picking", !.busy = TRUE, !.image = i]]
  BY DEF P!Pick
<1> DEFINE f == [P!NoFlow EXCEPT !.pc = "picking", !.busy = TRUE, !.image = i]
<1>1. f \in P!Flow /\ f.key = 0
  BY EmptyIs DEF P!Flow
<1>2. f.key <= values
  BY <1>1, FlowIs
<1>3. flow' = [flow EXCEPT ![u] = f] /\ UNCHANGED <<active, row, values, keyOf, objects, handler, newest>>
  BY DEF P!Pick, P!server
<1> HIDE DEF f
<1> QED
  BY <1>1, <1>2, <1>3, FlowMoves DEF ProfileInv, P!TypeOK, Probed

\* A key is issued: it is new, so that what was probed of the others stays true.
LEMMA IssueCredentialKeeps ==
    ASSUME ProfileInv, NEW u \in Uploaders, P!IssueCredential(u)
    PROVE  ProfileInv'
<1>1. CASE P!Finish(u) /\ UNCHANGED <<values, keyOf>>
  BY <1>1, FinishKeeps DEF P!IssueCredential, ProfileInv, P!TypeOK, Probed
<1>2. CASE /\ values < MaxValues /\ values' = values + 1
           /\ keyOf' = [keyOf EXCEPT ![values'] = flow[u].image]
           /\ \/ flow' = [flow EXCEPT ![u].pc = "posting", ![u].key = values']
              \/ P!Finish(u)
  <2> DEFINE f == [flow[u] EXCEPT !.pc = "posting", !.key = values']
  <2>1. values \in Nat /\ values' \in P!Value /\ values' = values + 1 /\ values' \notin objects
    BY <1>2, ValuesAssumption DEF ProfileInv, P!TypeOK, P!Value, Probed
  <2>2. f \in P!Flow /\ f.key = values'
    BY <2>1, FlowIs DEF P!Flow
  <2>3. flow' = [flow EXCEPT ![u] = f] \/ flow' = [flow EXCEPT ![u] = P!NoFlow]
    BY <1>2 DEF P!Finish
  <2> HIDE DEF f
  <2>4. /\ flow' \in [Uploaders -> P!Flow]
        /\ \A v \in Uploaders : flow'[v].key = values' \/ flow'[v].key = 0 \/ flow'[v] = flow[v]
    BY <2>2, <2>3, EmptyIs DEF ProfileInv, P!TypeOK
  <2>5. UNCHANGED <<active, row, objects, handler, newest>>
    BY DEF P!IssueCredential
  <2>6. /\ keyOf' \in [P!Value -> Images \cup {"none"}]
        /\ \A k \in P!Value : k # values' => keyOf'[k] = keyOf[k]
    BY <1>2, <2>1, FlowIs DEF ProfileInv, P!TypeOK, P!Flow
  <2>7. P!TypeOK'
    BY <2>1, <2>4, <2>5, <2>6 DEF ProfileInv, P!TypeOK
  <2>8. P!ProfileIsWhatWasSent'
    BY <2>1, <2>5, <2>6 DEF ProfileInv, P!TypeOK, P!ProfileIsWhatWasSent, P!EditsDoNotUndoEachOther, P!ImageWasUploaded, P!Columns
  <2>9. Probed'
    <3>1. \A k \in objects' : k <= values'
      BY <2>1, <2>5 DEF ProfileInv, P!TypeOK, Probed, P!Value
    <3>2. \A v \in Uploaders : flow'[v].key <= values'
      BY <2>1, <2>4, FlowIs
    <3>3. \A r \in P!Callers : handler[r].value \in objects => keyOf'[handler[r].value] = keyOf[handler[r].value]
      BY <2>1, <2>6 DEF ProfileInv, P!TypeOK
    <3> QED
      BY <2>5, <3>1, <3>2, <3>3 DEF ProfileInv, Probed
  <2> QED
    BY <2>7, <2>8, <2>9 DEF ProfileInv
<1> QED
  BY <1>1, <1>2 DEF P!IssueCredential

LEMMA PostKeeps ==
    ASSUME ProfileInv, NEW u \in Uploaders, P!PostObject(u)
    PROVE  ProfileInv'
<1>1. /\ objects \subseteq objects' /\ objects' \subseteq P!Value /\ \A k \in objects' : k <= values
      /\ UNCHANGED <<active, row, values, keyOf, handler, newest>>
  <2>1. flow[u].key \in P!Value
    BY FlowIs DEF P!Flow
  <2> QED
    BY <2>1, FlowIs DEF P!PostObject, ProfileInv, P!TypeOK, Probed
<1> QED
  BY <1>1, GoKeeps, FinishKeeps DEF P!PostObject

LEMMA ConfirmKeeps ==
    ASSUME ProfileInv, NEW u \in Uploaders, P!Confirm(u)
    PROVE  ProfileInv'
<1> DEFINE f == [flow[u] EXCEPT !.pc = "refetching"]
           h == [P!NoHandler EXCEPT !.pc = "guard", !.column = flow[u].image, !.value = flow[u].key]
<1>1. /\ flow' = [flow EXCEPT ![u] = f] /\ handler' = [handler EXCEPT ![u] = h]
      /\ UNCHANGED <<active, row, values, keyOf, objects, newest>>
  BY DEF P!Confirm, P!Go, P!Request
<1>2. f \in P!Flow /\ f.key = flow[u].key
  BY FlowIs DEF P!Flow
<1>3. h \in P!Handler /\ h.pc = "guard"
  <2>1. flow[u].image \in P!Columns \cup {"none"} /\ flow[u].key \in P!Value
    BY FlowIs DEF P!Flow, P!Columns
  <2> QED
    BY <2>1, RequestIs
<1> HIDE DEF f, h
<1>4. P!TypeOK'
  BY <1>1, <1>2, <1>3 DEF ProfileInv, P!TypeOK
<1>5. P!ProfileIsWhatWasSent'
  BY <1>1 DEF ProfileInv, P!ProfileIsWhatWasSent, P!EditsDoNotUndoEachOther, P!ImageWasUploaded
<1>6. /\ \A v \in Uploaders : flow'[v].key = flow[v].key
      /\ \A r \in P!Callers : handler'[r] = handler[r] \/ handler'[r] = h
  BY <1>1, <1>2 DEF ProfileInv, P!TypeOK
<1>7. Probed'
  BY <1>1, <1>3, <1>6 DEF ProfileInv, Probed
<1> QED
  BY <1>4, <1>5, <1>7 DEF ProfileInv

LEMMA ConfirmAnyKeeps ==
    ASSUME ProfileInv, NEW u \in Uploaders, P!ConfirmAny(u)
    PROVE  ProfileInv'
<1> PICK i \in Images, k \in 1..values : P!Request(u, i, k)
  BY DEF P!ConfirmAny
<1> DEFINE h == [P!NoHandler EXCEPT !.pc = "guard", !.column = i, !.value = k]
<1>1. k \in P!Value
  BY ValuesAssumption DEF ProfileInv, P!TypeOK, P!Value
<1>2. h \in P!Handler /\ h.pc = "guard"
  BY <1>1, RequestIs DEF P!Columns
<1>3. /\ handler' = [handler EXCEPT ![u] = h]
      /\ UNCHANGED <<active, row, values, keyOf, objects, flow, newest>>
  BY DEF P!ConfirmAny, P!Request
<1> HIDE DEF h
<1> QED
  BY <1>2, <1>3, HandlerMoves DEF P!Callers

LEMMA ProfileKeeps ==
    ASSUME ProfileInv, [P!Next]_P!vars
    PROVE  ProfileInv'
<1>1. ASSUME NEW u \in Uploaders, P!Picked(u) \/ P!Answer(u)
      PROVE  ProfileInv'
  <2>1. UNCHANGED <<active, row, values, keyOf, objects, handler, newest>>
    BY <1>1 DEF P!Picked, P!Answer, P!server
  <2>2. P!Go(u, "issuing") \/ P!Finish(u)
    BY <1>1 DEF P!Picked, P!Answer
  <2> QED
    BY <2>1, <2>2, GoKeeps, FinishKeeps DEF ProfileInv, P!TypeOK, Probed
<1>2. CASE P!Freeze \/ UNCHANGED P!vars
  <2>1. active' \in BOOLEAN /\ UNCHANGED <<row, values, keyOf, objects, handler, flow, newest>>
    BY <1>2 DEF P!Freeze, P!vars, ProfileInv, P!TypeOK
  <2>2. P!TypeOK'
    BY <2>1 DEF ProfileInv, P!TypeOK
  <2>3. P!ProfileIsWhatWasSent'
    BY <2>1 DEF ProfileInv, P!ProfileIsWhatWasSent, P!EditsDoNotUndoEachOther, P!ImageWasUploaded
  <2>4. Probed'
    BY <2>1 DEF ProfileInv, Probed
  <2> QED
    BY <2>2, <2>3, <2>4 DEF ProfileInv
<1> QED
  BY <1>1, <1>2, GuardKeeps, ReadKeeps, ProbeKeeps, UpdateKeeps, EditKeeps, PickKeeps, IssueCredentialKeeps,
     PostKeeps, ConfirmKeeps, ConfirmAnyKeeps DEF P!Next, P!Handle, P!Upload

\* Of the module alone: the strengthening is an invariant.
LEMMA ProfileInvHolds == P!Spec => []ProfileInv
<1>1. P!Init => ProfileInv
  BY ProfileInit
<1>2. ProfileInv /\ [P!Next]_P!vars => ProfileInv'
  BY ProfileKeeps
<1> QED
  BY <1>1, <1>2, PTL DEF P!Spec

-----------------------------------------------------------------------------
(* Throttling.                                                             *)

\* The names of the buckets, by the groups of throttler-skip-buckets.ts.
Names == DEFAULT_BUCKET \cup SMS_CODE_BUCKETS \cup ME_BUCKETS \cup TOKEN_BUCKETS
         \cup ALL_DELETION_BUCKETS \cup DEVICE_BUCKETS \cup WECHAT_BUCKETS

BucketSet == [name : Names, limit : Nat, tracker : {"guard", "ip", "user", "body"}]

\* Bucket(n, l, t) is in BucketSet.
LEMMA BucketIs ==
    ASSUME NEW n \in Names, NEW l \in Nat, NEW t \in {"guard", "ip", "user", "body"}
    PROVE  Bucket(n, l, t) \in BucketSet
  BY DEF Bucket, BucketSet

\* The groups name these buckets.
LEMMA NamesAre ==
    Names = {"default", "sms-phone-24h", "sms-ip-24h", "me-get", "me-patch",
       "refresh-ip", "refresh-token", "logout-all-ip", "logout-all-account",
       "del-code-account", "del-code-ip", "del-submit-account", "del-submit-ip",
       "cancel-code", "cancel-code-ip", "cancel-submit", "cancel-submit-ip",
       "dev-list-account", "dev-list-ip", "dev-revoke-account", "dev-revoke-ip",
       "wx-bind", "wx-bind-ip", "wx-unbind-code", "wx-unbind-code-ip", "wx-unbind", "wx-unbind-ip"}
  BY DEF Names, DEFAULT_BUCKET, SMS_CODE_BUCKETS, ME_BUCKETS, TOKEN_BUCKETS,
         ALL_DELETION_BUCKETS, DEL_CODE_BUCKETS, DEL_SUBMIT_BUCKETS, CANCEL_CODE_BUCKETS, CANCEL_SUBMIT_BUCKETS,
         DEVICE_BUCKETS, DEVICE_LIST_BUCKETS, DEVICE_REVOKE_BUCKETS,
         WECHAT_BUCKETS, WECHAT_BIND_BUCKETS, WECHAT_UNBIND_CODE_BUCKETS, WECHAT_UNBIND_BUCKETS

\* Every bucket of the configuration is in one of the groups.
LEMMA ThrottlersAre == Throttlers \in Seq(BucketSet)
<1>1. DEVICE_THROTTLERS \in Seq(BucketSet)
  BY NamesAre, BucketIs DEF DEVICE_THROTTLERS
<1>2. WECHAT_THROTTLERS \in Seq(BucketSet)
  BY NamesAre, BucketIs DEF WECHAT_THROTTLERS
<1> DEFINE first ==
    <<Bucket("default", 1, "guard"), Bucket("sms-phone-24h", 10, "guard"), Bucket("sms-ip-24h", 50, "ip"),
      Bucket("me-get", 60, "user"), Bucket("me-patch", 10, "user"),
      Bucket("refresh-ip", 100, "ip"), Bucket("refresh-token", 5, "body"),
      Bucket("logout-all-ip", 50, "ip"), Bucket("logout-all-account", 5, "user"),
      Bucket("del-code-account", 1, "user"), Bucket("del-code-ip", 5, "ip"),
      Bucket("del-submit-account", 5, "user"), Bucket("del-submit-ip", 10, "ip"),
      Bucket("cancel-code", 1, "guard"), Bucket("cancel-code-ip", 5, "ip"),
      Bucket("cancel-submit", 5, "guard"), Bucket("cancel-submit-ip", 10, "ip")>>
<1>3. first \in Seq(BucketSet)
  BY NamesAre, BucketIs
<1> HIDE DEF first
<1>4. (first \o DEVICE_THROTTLERS) \in Seq(BucketSet)
  BY <1>1, <1>3
<1>5. (first \o DEVICE_THROTTLERS) \o WECHAT_THROTTLERS \in Seq(BucketSet)
  BY <1>2, <1>4
<1>6. Throttlers = (first \o DEVICE_THROTTLERS) \o WECHAT_THROTTLERS
  BY DEF Throttlers, first
<1> QED
  BY <1>5, <1>6

\* The routes that buckets of other features limit as well.
Shared == {"issueUploadCredential", "confirmProfileImage", "request"}

\* The routes one by one.
LEMMA RoutesAre ==
    /\ DOMAIN AllRoutes \ Shared =
          {"getProfile", "updateDisplayName", "updateBio", "updateGender", "sendDeletionCodeForMe",
           "submitDeletionForMe", "sendCancelCode", "cancelDeletion", "refresh", "logoutAll", "list",
           "revoke", "bindWechatForMe", "sendUnbindCodeForMe", "unbindWechatForMe"}
    /\ Shared \subseteq DOMAIN AllRoutes
    /\ \A r \in {"updateDisplayName", "updateBio", "updateGender"} : AllRoutes[r] = Me({"me-patch"})
    /\ AllRoutes["getProfile"] = Me({"me-get"})
    /\ AllRoutes["sendDeletionCodeForMe"] = Deletion(DEL_CODE_BUCKETS)
    /\ AllRoutes["submitDeletionForMe"] = Deletion(DEL_SUBMIT_BUCKETS)
    /\ AllRoutes["sendCancelCode"] = CancelDeletion(CANCEL_CODE_BUCKETS)
    /\ AllRoutes["cancelDeletion"] = CancelDeletion(CANCEL_SUBMIT_BUCKETS)
    /\ AllRoutes["refresh"] = Token({"refresh-ip", "refresh-token"}, FALSE)
    /\ AllRoutes["logoutAll"] = Token({"logout-all-ip", "logout-all-account"}, TRUE)
    /\ AllRoutes["list"] = Devices(DEVICE_LIST_BUCKETS)
    /\ AllRoutes["revoke"] = Devices(DEVICE_REVOKE_BUCKETS)
    /\ AllRoutes["bindWechatForMe"] = Wechat(WECHAT_BIND_BUCKETS)
    /\ AllRoutes["sendUnbindCodeForMe"] = Wechat(WECHAT_UNBIND_CODE_BUCKETS)
    /\ AllRoutes["unbindWechatForMe"] = Wechat(WECHAT_UNBIND_BUCKETS)
    /\ \A r \in {"issueUploadCredential", "confirmProfileImage"} : AllRoutes[r] = MeImage
    /\ AllRoutes["request"] = SmsCode
  BY DEF AllRoutes, Shared

\* What is not skipped is own.
LEMMA OwnOrSkipped ==
    ASSUME NEW r \in DOMAIN AllRoutes \ Shared
    PROVE  Names \subseteq AllRoutes[r].skips \cup AllRoutes[r].own
<1>1. \A own : Names \subseteq Me(own).skips \cup Me(own).own
  BY DEF Me, Route, Others, Names
<1>2. \A own : Names \subseteq Deletion(own).skips \cup Deletion(own).own
  BY DEF Deletion, Route, Others, Names
<1>3. \A own : Names \subseteq CancelDeletion(own).skips \cup CancelDeletion(own).own
  BY DEF CancelDeletion, Deletion, Route, Others, Names
<1>4. \A own, authenticated : Names \subseteq Token(own, authenticated).skips \cup Token(own, authenticated).own
  BY DEF Token, Route, Others, Names
<1>5. \A own : Names \subseteq Devices(own).skips \cup Devices(own).own
  BY DEF Devices, Route, Others, Names
<1>6. \A own : Names \subseteq Wechat(own).skips \cup Wechat(own).own
  BY DEF Wechat, Route, Others, Names
<1>7. CASE r \in {"getProfile", "updateDisplayName", "updateBio", "updateGender"}
  BY <1>1, <1>7, RoutesAre
<1>8. CASE r \in {"sendDeletionCodeForMe", "submitDeletionForMe", "sendCancelCode", "cancelDeletion"}
  BY <1>2, <1>3, <1>8, RoutesAre
<1>9. CASE r \in {"refresh", "logoutAll", "list", "revoke"}
  BY <1>4, <1>5, <1>9, RoutesAre
<1>10. CASE r \in {"bindWechatForMe", "sendUnbindCodeForMe", "unbindWechatForMe"}
  BY <1>6, <1>10, RoutesAre
<1> QED
  BY <1>7, <1>8, <1>9, <1>10, RoutesAre

\* The guard of a route tracks by account, body or address.
LEMMA RouteTracker ==
    ASSUME NEW r \in DOMAIN AllRoutes
    PROVE  AllRoutes[r].tracker \in {"user", "body", "ip"}
<1>1. CASE r \in {"getProfile", "updateDisplayName", "updateBio", "updateGender",
                  "issueUploadCredential", "confirmProfileImage", "request"}
  BY <1>1, RoutesAre DEF Me, MeImage, SmsCode, Route
<1>2. CASE r \in {"sendDeletionCodeForMe", "submitDeletionForMe", "sendCancelCode", "cancelDeletion"}
  <2>1. \A own : Deletion(own).tracker = "user" /\ CancelDeletion(own).tracker = "body"
    BY DEF CancelDeletion, Deletion, Route
  <2> QED
    BY <1>2, <2>1, RoutesAre
<1>3. CASE r \in {"refresh", "logoutAll", "list", "revoke"}
  BY <1>3, RoutesAre DEF Token, Devices, Route
<1>4. CASE r \in {"bindWechatForMe", "sendUnbindCodeForMe", "unbindWechatForMe"}
  BY <1>4, RoutesAre DEF Wechat, Route
<1> QED
  BY <1>1, <1>2, <1>3, <1>4, RoutesAre DEF Shared

\* A request has a tracker for every bucket.
LEMMA TrackerIs ==
    ASSUME route \in Routes, NEW b \in BucketSet, NEW user \in Users, NEW address \in Addresses
    PROVE  Tracker(b, user, address) \in Trackers
  BY RoutesAssumption, RouteTracker DEF Tracker, Trackers, BucketSet

\* Of the buckets that refuse one is asked first.
LEMMA FirstIs ==
    ASSUME NEW S, S \subseteq DOMAIN Throttlers, S # {}
    PROVE  (CHOOSE i \in S : \A j \in S : i <= j) \in S
<1> DEFINE R == OpToRel(<, Nat)
<1>1. S \subseteq Nat
  BY ThrottlersAre
<1>2. IsWellFoundedOn(R, Nat)
  BY NatLessThanWellFounded
<1>3. PICK i \in S : \A j \in S : <<j, i>> \notin R
  <2> HIDE DEF R
  <2> QED
    BY <1>1, <1>2, WFMin
<1>4. ASSUME NEW j \in S
      PROVE  i <= j
  <2>1. ~(j < i)
    BY <1>1, <1>3 DEF OpToRel
  <2>2. i \in Nat /\ j \in Nat
    BY <1>1
  <2> HIDE DEF R
  <2> QED
    BY <2>1, <2>2
<1> QED
  BY <1>4

-----------------------------------------------------------------------------
\* The strengthening: route by route, own buckets refuse.
Counts == /\ TypeOK
          /\ route \notin Shared => OnlyOwnBucketsRefuse

\* The buckets that count a route: of a route that is not shared, its own.
LEMMA AppliesIs ==
    ASSUME route \in Routes
    PROVE  /\ Applied \subseteq DOMAIN Throttlers
           /\ \A i \in Applied : Throttlers[i] \in Applies /\ Throttlers[i] \in BucketSet
           /\ Applies \subseteq BucketSet
           /\ \A b \in Applies : route \notin Shared => b.name \in AllRoutes[route].own
<1>1. /\ Applied \subseteq DOMAIN Throttlers
      /\ \A i \in Applied : Throttlers[i] \in Applies /\ Throttlers[i] \in BucketSet
  BY ThrottlersAre DEF Applied, Applies
<1>2. Applies \subseteq BucketSet
  BY <1>1 DEF Applies
<1>3. ASSUME route \notin Shared, NEW b \in Applies
      PROVE  b.name \in AllRoutes[route].own
  <2>1. b.name \in Names
    BY <1>2 DEF BucketSet
  <2>2. b.name \notin AllRoutes[route].skips
    BY DEF Applies, Applied
  <2>3. route \in DOMAIN AllRoutes \ Shared
    BY <1>3, RoutesAssumption
  <2> QED
    BY <2>1, <2>2, <2>3, OwnOrSkipped
<1> QED
  BY <1>1, <1>2, <1>3

\* A request counts, and the first bucket that is over refuses it.
LEMMA RequestKeeps ==
    ASSUME Counts, NEW user \in Users, NEW address \in Addresses, Request(user, address)
    PROVE  Counts'
<1> DEFINE key == [i \in Applied |-> <<Throttlers[i], Tracker(Throttlers[i], user, address)>>]
           over == {i \in Applied : Refuses(key[i])}
           first == CHOOSE i \in over : \A j \in over : i <= j
           counted == {key[i] : i \in {j \in Applied : over = {} \/ j <= first}}
<1>1. /\ hits' = [k \in DOMAIN hits |-> IF k \in counted /\ hits[k] <= k[1].limit THEN hits[k] + 1 ELSE hits[k]]
      /\ blocked' = IF over = {} THEN blocked ELSE blocked \cup {key[first]}
      /\ refusedBy' = IF over = {} THEN "none" ELSE key[first][1].name
      /\ UNCHANGED route
  BY DEF Request
<1>2. \A i \in Applied : key[i] \in Applies \X Trackers /\ key[i][1] = Throttlers[i]
  BY AppliesIs, TrackerIs DEF Counts, TypeOK
<1>3. over # {} => first \in Applied
  BY FirstIs, AppliesIs DEF Counts, TypeOK
<1> HIDE DEF key, over, counted, first
<1>4. Applies' = Applies
  BY <1>1 DEF Applies, Applied
<1>5. hits' \in [Applies \X Trackers -> Nat]
  BY <1>1 DEF Counts, TypeOK
<1>6. blocked' \subseteq Applies \X Trackers
  BY <1>1, <1>2, <1>3 DEF Counts, TypeOK
<1>7. refusedBy' = "none" \/ \E b \in Applies : refusedBy' = b.name
  BY <1>1, <1>2, <1>3, AppliesIs DEF Counts, TypeOK
<1>8. TypeOK'
  BY <1>1, <1>4, <1>5, <1>6, <1>7 DEF Counts, TypeOK
<1>9. route \notin Shared => OnlyOwnBucketsRefuse'
  BY <1>1, <1>7, AppliesIs DEF Counts, TypeOK, OnlyOwnBucketsRefuse
<1> QED
  BY <1>1, <1>8, <1>9 DEF Counts

LEMMA ThrottleKeeps ==
    ASSUME Counts, [Next]_vars
    PROVE  Counts'
<1>1. ASSUME UNCHANGED <<route, refusedBy>>, blocked' \subseteq blocked,
             hits' = hits \/ \E k \in DOMAIN hits : hits' = [hits EXCEPT ![k] = 0]
      PROVE  Counts'
  <2>1. Applies' = Applies
    BY <1>1 DEF Applies, Applied
  <2>2. hits' \in [Applies \X Trackers -> Nat]
    BY <1>1 DEF Counts, TypeOK
  <2> QED
    BY <1>1, <2>1, <2>2 DEF Counts, TypeOK, OnlyOwnBucketsRefuse
<1>2. ASSUME NEW k \in DOMAIN hits, WindowEnds(k) \/ BlockEnds(k)
      PROVE  Counts'
  BY <1>1, <1>2 DEF WindowEnds, BlockEnds
<1>3. CASE UNCHANGED vars
  BY <1>1, <1>3 DEF vars
<1> QED
  BY <1>2, <1>3, RequestKeeps DEF Next

LEMMA ThrottleInit == Init => Counts
  BY DEF Init, Counts, TypeOK, OnlyOwnBucketsRefuse

\* Of the module alone: the strengthening is an invariant.
LEMMA CountsHolds == Spec => []Counts
<1>1. Init => Counts
  BY ThrottleInit
<1>2. Counts /\ [Next]_vars => Counts'
  BY ThrottleKeeps
<1> QED
  BY <1>1, <1>2, PTL DEF Spec

-----------------------------------------------------------------------------
(* The three side by side.                                                 *)

\* A step of one part leaves the others alone: each part behaves as its module says.
THEOREM PartsImplement == ServicesSpec => W!Spec /\ P!Spec /\ Spec
<1>1. ServicesInit => W!Init /\ P!Init /\ Init
  BY DEF ServicesInit
<1>2. [ServicesNext]_services => [W!Next]_W!vars /\ [P!Next]_P!vars /\ [Next]_vars
  BY DEF ServicesNext, services, wechat, profile, vars, W!vars, P!vars
<1>3. ServicesSpec => ServicesInit /\ [][ServicesNext]_services
  BY PTL DEF ServicesSpec
<1> QED
  BY <1>1, <1>2, <1>3, PTL DEF W!Spec, P!Spec, Spec

\* Values stay in their types; the two unique indexes of wechat_binding hold, and a
\* request that verified a code keeps a row of the table.
THEOREM ServicesTypesHold == ServicesSpec => []ServicesTypeOK
<1>1. ServicesSpec => [](part \in {"wechat", "profile", "throttle"})
  <2>1. ServicesInit => part \in {"wechat", "profile", "throttle"}
    BY DEF ServicesInit
  <2>2. /\ part \in {"wechat", "profile", "throttle"} /\ [ServicesNext]_services
        => (part \in {"wechat", "profile", "throttle"})'
    BY DEF ServicesNext, services
  <2>3. ServicesSpec => ServicesInit /\ [][ServicesNext]_services
    BY PTL DEF ServicesSpec
  <2> QED
    BY <2>1, <2>2, <2>3, PTL
<1>2. part \in {"wechat", "profile", "throttle"} /\ BindingInv /\ ProfileInv /\ Counts => ServicesTypeOK
  BY DEF BindingInv, ProfileInv, Counts, ServicesTypeOK
<1> QED
  BY <1>1, <1>2, PartsImplement, BindingInvHolds, ProfileInvHolds, CountsHolds, PTL

\* The answer of a bind was true at some time during the request, however the requests
\* of the account interleave with it.
THEOREM BindAnswersWereTrue == ServicesSpec => []BindAnswerWasTrue
<1>1. BindingInv => BindAnswerWasTrue
  BY DEF BindingInv, BindAnswerWasTrue
<1> QED
  BY <1>1, PartsImplement, BindingInvHolds, PTL

\* Every binding that was removed was paid with a code of its account, and no code
\* pays twice.
THEOREM CodeUnbindsOnce == ServicesSpec => []SpentCodeUnbinds
<1>1. W!SpentCodeUnbinds => SpentCodeUnbinds
  BY DEF SpentCodeUnbinds
<1> QED
  BY <1>1, PartsImplement, SpentHolds, PTL

\* The profile is what its owner has sent: the newest value of every column, whatever
\* runs beside it, and in the image columns what was uploaded as that image.
THEOREM ProfilesAreWhatWasSent == ServicesSpec => []ProfileIsWhatWasSent
<1>1. ProfileInv => ProfileIsWhatWasSent
  BY DEF ProfileInv, ProfileIsWhatWasSent
<1> QED
  BY <1>1, PartsImplement, ProfileInvHolds, PTL

\* No route but the three of the throttle run (the image routes and the SMS code route)
\* is ever refused by a bucket that is not its own.
THEOREM OwnBucketsRefuse ==
    ASSUME Routes \cap Shared = {}
    PROVE  ServicesSpec => []OnlyOwnBucketsRefuse
<1>1. Counts => OnlyOwnBucketsRefuse
  BY DEF Counts, TypeOK
<1> QED
  BY <1>1, PartsImplement, CountsHolds, PTL
=============================================================================
