--------------------------- MODULE ClientSession ---------------------------
(***************************************************************************)
(* The session of the mobile app: the persisted store, the axios           *)
(* interceptors that attach and renew the access token, the single-flight  *)
(* refresh, and the /me cache that is keyed by the account in the store.   *)
(*                                                                         *)
(* JavaScript runs one callback at a time, so everything between two       *)
(* awaits is one step.  What interleaves is: requests on their way, their  *)
(* answers, the writes to secure storage, React's effects, and the user.   *)
(* The access and the refresh token of one answer have the same number.    *)
(***************************************************************************)
EXTENDS Integers, Sequences, FiniteSets

CONSTANTS Accounts,   \* accounts a user signs in to
          Mutations,  \* requests of the screens that are in flight at a time
          None,       \* null
          MaxTokens,  \* bound on the token pairs ever issued
          MaxUses,    \* bound on the requests of the screens
          MaxCrashes  \* bound on the kills of the app

ASSUME NoneAssumption == None \notin Accounts /\ None \notin Mutations
ASSUME MeAssumption == "me" \notin Mutations
ASSUME BoundAssumption == MaxTokens \in Nat /\ MaxUses \in Nat /\ MaxCrashes \in Nat

VARIABLES owner,   \* owner[t]: the account of token pair t (server)
          live,    \* the refresh tokens the server accepts
          named,   \* the accounts with a display name (server)
          store,   \* useAuthStore
          disk,    \* what secure storage holds of it
          booted,  \* has the store been hydrated in this process?
          cache,   \* cache[a]: data of the query meQueryKey(a)
          settled, \* the slots whose query isFetched
          synced,  \* the data useMe's effect last ran for
          call,    \* call[c]: the request /me or a mutation has in flight
          flight,  \* inflightRefresh; a set only so that a mutant can start two
          shown,   \* shown[t]: times this process presented refresh token t (history)
          late,    \* has an answer, or a retry, met another account than its request? (history)
          uses, crashes  \* counted for the bounds

server == <<owner, live, named>>
client == <<store, disk, booted, cache, settled, synced, call, flight, late>>
vars == <<server, client, shown, uses, crashes>>

Token == 1..MaxTokens
Slots == Accounts \cup {None}
Calls == Mutations \cup {"me"}
Profile == [id : Accounts, hasName : BOOLEAN]
Store == [account : Slots, access : Token \cup {0}, refresh : Token \cup {0},
          seed : Slots, \* whose displayName it is
          isAuthenticated : BOOLEAN]
Request == [kind : {"none", "me", "signIn", "restore", "edit", "logout", "delete"},
            pc : {"idle", "sent", "ok", "unauthorized", "failed", "waiting"},
            as : Slots,           \* a sign-in: the account; else unused
            by : Slots,           \* store.accountId when the request was made
            token : Token \cup {0}, \* the access token it carries
            retried : BOOLEAN,    \* x-nvy-retry
            data : Profile \cup {None}, got : Token \cup {0}]
Flight == [token : Token, by : Slots, pc : {"sent", "ok", "failed"}, got : Token \cup {0}]

TypeOK == /\ owner \in Seq(Accounts) /\ Len(owner) <= MaxTokens
          /\ live \subseteq DOMAIN owner
          /\ named \subseteq Accounts
          /\ store \in Store
          /\ disk \in [account : Slots, refresh : Token \cup {0}, seed : Slots]
          /\ booted \in BOOLEAN /\ late \in BOOLEAN
          /\ cache \in [Slots -> Profile \cup {None}]
          /\ settled \subseteq Slots
          /\ synced \in Profile \cup {None}
          /\ call \in [Calls -> Request]
          /\ flight \subseteq Flight
          /\ shown \in [Token -> Nat]
          /\ uses \in 0..MaxUses /\ crashes \in 0..MaxCrashes

Idle == [kind |-> "none", pc |-> "idle", as |-> None, by |-> None, token |-> 0,
         retried |-> FALSE, data |-> None, got |-> 0]

SignedOut == [account |-> None, access |-> 0, refresh |-> 0, seed |-> None,
              isAuthenticated |-> FALSE]
Empty == [a \in Slots |-> None]

\* Mutant: the access token is stored with the rest.
PersistedWhole(s) == [account |-> s.account, access |-> s.access, refresh |-> s.refresh,
                      seed |-> s.seed]

\* partialize: the access token stays in memory.
Persisted(s) == [account |-> s.account, refresh |-> s.refresh, seed |-> s.seed]

Init == /\ owner = <<>> /\ live = {}
        /\ named \in SUBSET Accounts
        /\ store = SignedOut /\ disk = Persisted(SignedOut)
        /\ booted = FALSE /\ late = FALSE
        /\ cache = Empty /\ settled = {} /\ synced = None
        /\ call = [c \in Calls |-> Idle]
        /\ flight = {}
        /\ shown = [t \in Token |-> 0]
        /\ uses = 0 /\ crashes = 0

-----------------------------------------------------------------------------
(* The store and the cache.                                                *)

\* Mutant: the rotation keeps the refresh token it presented.
SetAccessToken(s, a, t) == [s EXCEPT !.access = t]

SetSession(s, a, t) == [s EXCEPT !.account = a, !.access = t, !.refresh = t,
                                 !.isAuthenticated = TRUE]

\* useMe observes the slot of the account in the store.  A slot without data is
\* filled from the persisted snapshot, if that has a name.
Data == IF cache[store.account] # None THEN cache[store.account]
        ELSE IF store.account # None /\ store.seed # None
        THEN [id |-> store.account, hasName |-> TRUE]
        ELSE None

\* A new account is a new query key: the /me of the old one is cancelled.
SetStore(s, calls) ==
    /\ store' = s
    /\ call' = IF s.account = store.account THEN calls ELSE [calls EXCEPT !["me"] = Idle]

\* clearSession and queryClient.clear, after which /me has nowhere to answer to.
Clear(calls) ==
    /\ store' = SignedOut
    /\ call' = [calls EXCEPT !["me"] = Idle]
    /\ cache' = Empty /\ settled' = {}

\* The effect of useMe copies the identity it is shown into the store.
SyncProfile ==
    /\ booted /\ Data # synced
    /\ synced' = Data
    /\ IF Data = None THEN UNCHANGED <<store, call>>
       ELSE SetStore([store EXCEPT !.account = Data.id,
                                   !.seed = IF Data.hasName THEN Data.id ELSE None], call)
    /\ UNCHANGED <<server, disk, booted, cache, settled, flight, late, shown, uses, crashes>>

\* Writes to secure storage are asynchronous and land in order.
Land ==
    /\ booted /\ disk # Persisted(store)
    /\ disk' = Persisted(store)
    /\ UNCHANGED <<server, store, booted, cache, settled, synced, call, flight, late, shown, uses, crashes>>

-----------------------------------------------------------------------------
(* Refresh.                                                                *)

\* Mutant: every 401 starts a refresh of its own.
RefreshEach(t, by) ==
    /\ flight' = flight \cup {[token |-> t, by |-> by, pc |-> "sent", got |-> 0]}
    /\ shown' = [shown EXCEPT ![t] = @ + 1]

\* refreshOnce, from a process that holds refresh token t.
RefreshOnce(t, by) ==
    IF flight = {} THEN /\ flight' = {[token |-> t, by |-> by, pc |-> "sent", got |-> 0]}
                        /\ shown' = [shown EXCEPT ![t] = @ + 1]
    ELSE UNCHANGED <<flight, shown>>

\* The server rotates a live token, and refuses any other.
Rotate(f) ==
    /\ f.pc = "sent"
    /\ IF f.token \in live /\ Len(owner) < MaxTokens  \* bound
       THEN LET t == Len(owner) + 1 IN
            /\ owner' = Append(owner, owner[f.token])
            /\ live' = (live \ {f.token}) \cup {t}
            /\ flight' = (flight \ {f}) \cup {[f EXCEPT !.pc = "ok", !.got = t]}
       ELSE /\ flight' = (flight \ {f}) \cup {[f EXCEPT !.pc = "failed"]}
            /\ UNCHANGED <<owner, live>>
    /\ UNCHANGED <<named, store, disk, booted, cache, settled, synced, call, late, shown, uses, crashes>>

\* The request or its answer is lost, or the token is refused: revoked from another
\* device, expired, of a frozen account.
LoseRefresh(f) ==
    /\ f.pc \in {"sent", "ok"}
    /\ flight' = (flight \ {f}) \cup {[f EXCEPT !.pc = "failed"]}
    /\ UNCHANGED <<server, store, disk, booted, cache, settled, synced, call, late, shown, uses, crashes>>

\* Mutant: the interceptor gives up on them without an answer.
ResendNone(t) == call

\* The requests that waited are sent again, once, with the token now in the store.
Resend(t) == [c \in Calls |-> IF call[c].pc = "waiting"
                              THEN [call[c] EXCEPT !.pc = "sent", !.retried = TRUE, !.token = t]
                              ELSE call[c]]

RefreshAnswered(f) ==
    /\ f.pc = "ok"
    /\ flight' = flight \ {f}
    /\ SetStore(SetSession(store, owner[f.got], f.got), Resend(f.got))
    /\ late' = (late \/ f.by # store.account
                     \/ \E c \in Calls : call[c].pc = "waiting" /\ call[c].by # store.account)
    /\ UNCHANGED <<server, disk, booted, cache, settled, synced, shown, uses, crashes>>

\* Every error signs the user out; the requests that waited fail with their 401.
RefreshFailed(f) ==
    /\ f.pc = "failed"
    /\ flight' = flight \ {f}
    /\ Clear([c \in Calls |-> IF call[c].pc = "waiting" THEN Idle ELSE call[c]])
    /\ UNCHANGED <<server, disk, booted, synced, late, shown, uses, crashes>>

-----------------------------------------------------------------------------
(* Start and end of the process.                                           *)

\* Hydration, then rehydrateSession, which finds no access token.
Boot ==
    /\ ~booted
    /\ booted' = TRUE
    /\ store' = [account |-> disk.account, access |-> 0, refresh |-> disk.refresh,
                 seed |-> disk.seed,
                 isAuthenticated |-> disk.refresh # 0 /\ disk.account # None]
    /\ IF disk.refresh # 0 THEN RefreshOnce(disk.refresh, disk.account)
       ELSE UNCHANGED <<flight, shown>>
    /\ UNCHANGED <<server, disk, cache, settled, synced, call, late, uses, crashes>>

\* The process is killed.  Its requests may have reached the server or not.
Crash ==
    /\ booted /\ crashes < MaxCrashes  \* bound
    /\ crashes' = crashes + 1
    /\ booted' = FALSE
    /\ store' = SignedOut
    /\ cache' = Empty /\ settled' = {} /\ synced' = None
    /\ call' = [c \in Calls |-> Idle]
    /\ flight' = {}
    /\ shown' = [t \in Token |-> 0]
    /\ UNCHANGED <<server, disk, late, uses>>

-----------------------------------------------------------------------------
(* Requests.  The request interceptor attaches the access token there is.  *)

Send(c, kind, a) ==
    call' = [call EXCEPT ![c] = [Idle EXCEPT !.kind = kind, !.pc = "sent", !.as = a,
                                             !.by = store.account, !.token = store.access]]

Splash == \/ ~booted
          \/ /\ store.isAuthenticated
             /\ Data = None \/ ~Data.hasName
             /\ store.account \notin settled

\* phone-sms-auth of the login screen, or cancel-deletion: they differ in what
\* they do with the answer.  The form is disabled while it is submitting.
SignIn(c, a, kind) ==
    /\ booted /\ call[c].pc = "idle"
    /\ ~store.isAuthenticated
    /\ \A d \in Calls : call[d].kind \notin {"signIn", "restore"}
    /\ Send(c, kind, a)
    /\ uses < MaxUses /\ uses' = uses + 1  \* bound
    /\ UNCHANGED <<server, store, disk, booted, cache, settled, synced, flight, late, shown, crashes>>

\* The display name is set, every device logged out, the account deleted.
Use(c, kind) ==
    /\ booted /\ call[c].pc = "idle"
    /\ store.isAuthenticated /\ ~Splash
    /\ Send(c, kind, None)
    /\ uses < MaxUses /\ uses' = uses + 1  \* bound
    /\ UNCHANGED <<server, store, disk, booted, cache, settled, synced, flight, late, shown, crashes>>

\* useMe is enabled by an access token; it fetches when mounted, stale or invalidated.
FetchMe ==
    /\ booted /\ call["me"].pc = "idle"
    /\ store.isAuthenticated /\ store.access # 0
    /\ Send("me", "me", None)
    /\ UNCHANGED <<server, store, disk, booted, cache, settled, synced, flight, late, shown, uses, crashes>>

Issue(c) ==
    LET t == Len(owner) + 1 IN
    /\ owner' = Append(owner, call[c].as)
    /\ live' = live \cup {t}
    /\ call' = [call EXCEPT ![c].pc = "ok", ![c].got = t]
    /\ UNCHANGED named

\* The server handles request c.  Its access token may have expired by then, and
\* the code of a sign-in may be wrong: any request may be answered 401.
Serve(c) ==
    LET r == call[c]  a == owner[r.token] IN
    /\ r.pc = "sent"
    /\ \/ /\ r.kind \in {"signIn", "restore"} /\ Len(owner) < MaxTokens  \* bound
          /\ Issue(c)
       \/ /\ r.kind \in {"me", "edit"} /\ r.token # 0
          /\ named' = IF r.kind = "edit" THEN named \cup {a} ELSE named
          /\ call' = [call EXCEPT ![c].pc = "ok", ![c].token = 0,
                                  ![c].data = [id |-> a, hasName |-> a \in named']]
          /\ UNCHANGED <<owner, live>>
       \/ /\ r.kind \in {"logout", "delete"} /\ r.token # 0
          /\ live' = {t \in live : owner[t] # a}
          /\ call' = [call EXCEPT ![c].pc = "ok", ![c].token = 0]
          /\ UNCHANGED <<owner, named>>
       \/ /\ call' = [call EXCEPT ![c].pc = "unauthorized", ![c].token = 0]
          /\ UNCHANGED server
    /\ UNCHANGED <<store, disk, booted, cache, settled, synced, flight, late, shown, uses, crashes>>

\* No answer: the request is lost, or its answer.
Lose(c) ==
    /\ call[c].pc \in {"sent", "ok"}
    /\ call' = [call EXCEPT ![c].pc = "failed", ![c].token = 0, ![c].data = None, ![c].got = 0]
    /\ UNCHANGED <<server, store, disk, booted, cache, settled, synced, flight, late, shown, uses, crashes>>

-----------------------------------------------------------------------------
(* Answers.                                                                *)

Finished(c) == [call EXCEPT ![c] = Idle]

Receive(c) == /\ call[c].pc = "ok"
              /\ late' = (late \/ call[c].by # store.account)
              /\ UNCHANGED <<server, booted, synced, flight, shown, uses, crashes>>

\* usePhoneSmsAuth writes the store twice; the process may die with the first
\* write on disk.  useCancelDeletion leaves the seed as it is.
SignedIn(c) ==
    LET s == SetSession(store, call[c].as, call[c].got) IN
    /\ call[c].kind \in {"signIn", "restore"}
    /\ Receive(c)
    /\ IF call[c].kind = "signIn"
       THEN /\ SetStore([s EXCEPT !.seed = None], Finished(c))
            /\ disk' \in {disk, Persisted(s)}
       ELSE SetStore(s, Finished(c)) /\ UNCHANGED disk
    /\ UNCHANGED <<cache, settled>>

\* Mutant: one slot for every account, as the generated query key has it.
SharedSlot(c) == CHOOSE a \in Accounts : TRUE

\* The slot is that of the account in the store now.
SlotOf(c) == store.account

ProfileReceived(c) ==
    /\ call[c].kind \in {"me", "edit"}
    /\ Receive(c)
    /\ cache' = [cache EXCEPT ![SlotOf(c)] = call[c].data]
    /\ settled' = settled \cup {SlotOf(c)}
    /\ call' = Finished(c)
    /\ UNCHANGED <<store, disk>>

SessionEnded(c) ==
    /\ call[c].kind \in {"logout", "delete"}
    /\ Receive(c)
    /\ Clear(Finished(c))
    /\ UNCHANGED disk

\* The response interceptor: one refresh, one retry, and only with a token to spend.
Renew(c) ==
    /\ call[c].pc = "unauthorized"
    /\ ~call[c].retried /\ store.refresh # 0
    /\ RefreshOnce(store.refresh, store.account)
    /\ call' = [call EXCEPT ![c].pc = "waiting"]
    /\ UNCHANGED <<server, store, disk, booted, cache, settled, synced, late, uses, crashes>>

\* logoutAll signs out whatever the answer; a failed /me has settled.
Fail(c) ==
    /\ \/ call[c].pc = "failed"
       \/ call[c].pc = "unauthorized" /\ (call[c].retried \/ store.refresh = 0)
    /\ IF call[c].kind = "logout" THEN Clear(Finished(c))
       ELSE /\ settled' = IF c = "me" THEN settled \cup {store.account} ELSE settled
            /\ call' = Finished(c)
            /\ UNCHANGED <<store, cache>>
    /\ UNCHANGED <<server, disk, booted, synced, flight, late, shown, uses, crashes>>

-----------------------------------------------------------------------------
Refreshing == \E f \in flight : Rotate(f) \/ LoseRefresh(f) \/ RefreshAnswered(f) \/ RefreshFailed(f)
Handled(c) == \/ Serve(c) \/ Lose(c)
              \/ SignedIn(c) \/ ProfileReceived(c) \/ SessionEnded(c)
              \/ Renew(c) \/ Fail(c)

Next == \/ Boot \/ Crash \/ Land \/ SyncProfile \/ FetchMe
        \/ Refreshing
        \/ \E c \in Calls : Handled(c)
        \/ \E c \in Mutations : \/ \E a \in Accounts, k \in {"signIn", "restore"} : SignIn(c, a, k)
                                \/ \E k \in {"edit", "logout", "delete"} : Use(c, k)

Spec == Init /\ [][Next]_vars

\* A request is answered or given up by the network (the app sets no timeout itself),
\* an effect runs after its render, storage writes land, and the query of an enabled
\* observer that has never settled is fetched.
Fairness == /\ WF_vars(Boot) /\ WF_vars(Land) /\ WF_vars(SyncProfile)
            /\ WF_vars(FetchMe /\ store.account \notin settled)
            /\ WF_vars(Refreshing)
            /\ \A c \in Calls : WF_vars(Handled(c))

FairSpec == Spec /\ Fairness

-----------------------------------------------------------------------------
(* Properties.                                                             *)

\* However many requests meet a 401 at once, a refresh token is presented once:
\* the server would answer a second time with 401 and the user would be signed out.
TokenPresentedOnce == \A t \in Token : shown[t] <= 1

\* The access token in the store is that of the refresh token next to it, and the
\* store is authenticated exactly when it holds a refresh token.
StoreIsOneSession == /\ store.access \in {0, store.refresh}
                     /\ store.isAuthenticated = (store.refresh # 0)

\* No account sees, or keeps on disk to show at the next start, what belongs to
\* another -- as long as no answer has arrived, and no request was made again, under
\* another account than the one it was made by.
OwnDataUntilALateAnswer ==
    ~late => /\ \A a \in Slots : cache[a] # None => cache[a].id = a
             /\ store.seed \in {None, store.account}
             /\ store.refresh # 0 => owner[store.refresh] = store.account

\* me-query-key.ts: the slot of an account holds the profile of that account.
MeCacheIsPerAccount == \A a \in Accounts : cache[a] # None => cache[a].id = a

\* A request ends, with the answer of a retry or with its own 401.
EveryCallEnds == \A c \in Calls : call[c].pc # "idle" ~> call[c].pc = "idle"

\* The splash of AuthGate is always left: for the app, onboarding or login.
SplashEnds == Splash ~> ~Splash

\* Nothing on the phone waits for ever: no request, and no splash.
NothingWaitsForEver == EveryCallEnds /\ SplashEnds
=============================================================================
