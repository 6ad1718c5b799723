------------------------- MODULE ClientSessionProofs -------------------------
(***************************************************************************)
(* ClientSession for any accounts, requests and bounds: its types, that a  *)
(* refresh token is presented once, and that no account meets the data of  *)
(* another before a late answer.                                           *)
(*                                                                         *)
(* Three invariants are stacked: Typed, that every token the app holds is  *)
(* one the server issued; Single, that the token in the store was not      *)
(* presented when no refresh is under way, and that those of the answers   *)
(* on their way were never presented; Own, whose token every request       *)
(* carries.                                                                *)
(***************************************************************************)
EXTENDS ClientSession, TLAPS

Known == DOMAIN owner \cup {0}
SignIns == {"signIn", "restore"}

\* T: the tokens there are, and 0.
StoreOK(s, T) ==
    /\ s \in Store /\ s.access \in T /\ s.refresh \in T
    /\ s.access \in {0, s.refresh} /\ s.isAuthenticated = (s.refresh # 0)
    /\ s.refresh # 0 => s.account # None
DiskOK(d, T) ==
    /\ d \in [account : Slots, refresh : Token \cup {0}, seed : Slots]
    /\ d.refresh \in T /\ (d.refresh # 0 => d.account # None)
CallOK(r, T) ==
    /\ r \in Request /\ r.token \in T /\ r.got \in T
    /\ r.kind \in SignIns => r.as \in Accounts
    /\ r.kind \in SignIns /\ r.pc = "ok" => r.got # 0
FlightOK(f, T) ==
    /\ f \in Flight /\ f.token \in T /\ f.got \in T
    /\ f.pc = "ok" => f.got # 0

ServerOK == /\ owner \in Seq(Accounts) /\ Len(owner) <= MaxTokens
            /\ live \subseteq DOMAIN owner /\ named \subseteq Accounts
CallsOK == /\ call \in [Calls -> Request]
           /\ \A c \in Calls : CallOK(call[c], Known)
CacheOK == /\ cache \in [Slots -> Profile \cup {None}] /\ settled \subseteq Slots
           /\ synced \in Profile \cup {None}
CountsOK == /\ booted \in BOOLEAN /\ late \in BOOLEAN /\ shown \in [Token -> Nat]
            /\ uses \in 0..MaxUses /\ crashes \in 0..MaxCrashes

Typed == /\ ServerOK /\ StoreOK(store, Known) /\ DiskOK(disk, Known) /\ CallsOK
         /\ \A f \in flight : FlightOK(f, Known)
         /\ CacheOK /\ CountsOK

-----------------------------------------------------------------------------
(* Values.                                                                 *)

LEMMA EmptyIs ==
    /\ Idle \in Request /\ Idle.kind = "none" /\ Idle.pc = "idle" /\ Idle.as = None
    /\ Idle.by = None /\ Idle.token = 0 /\ Idle.retried = FALSE /\ Idle.data = None /\ Idle.got = 0
    /\ \A T : 0 \in T => CallOK(Idle, T) /\ StoreOK(SignedOut, T) /\ DiskOK(Persisted(SignedOut), T)
    /\ SignedOut.account = None /\ SignedOut.refresh = 0 /\ SignedOut.access = 0 /\ SignedOut.seed = None
    /\ Empty \in [Slots -> Profile \cup {None}] /\ \A a \in Slots : Empty[a] = None
<1>1. /\ Idle \in Request /\ Idle.kind = "none" /\ Idle.pc = "idle" /\ Idle.as = None
      /\ Idle.by = None /\ Idle.token = 0 /\ Idle.retried = FALSE /\ Idle.data = None /\ Idle.got = 0
  BY DEF Idle, Request, Slots
<1>2. \A T : 0 \in T => CallOK(Idle, T)
  BY <1>1 DEF CallOK, SignIns
<1>3. /\ SignedOut \in Store /\ SignedOut.account = None /\ SignedOut.refresh = 0
      /\ SignedOut.access = 0 /\ SignedOut.seed = None /\ SignedOut.isAuthenticated = FALSE
  BY DEF SignedOut, Store, Slots
<1>4. \A T : 0 \in T => StoreOK(SignedOut, T) /\ DiskOK(Persisted(SignedOut), T)
  BY <1>3 DEF StoreOK, DiskOK, Persisted, Slots, Store
<1>5. Empty \in [Slots -> Profile \cup {None}] /\ \A a \in Slots : Empty[a] = None
  BY DEF Empty
<1> QED
  BY <1>1, <1>2, <1>3, <1>4, <1>5

\* What a store, or the disk, holds of a session.
LEMMA SessionIs ==
    ASSUME NEW T, NEW s, StoreOK(s, T), NEW a \in Accounts, NEW t \in Token, t \in T
    PROVE  LET n == SetSession(s, a, t) IN
           /\ StoreOK(n, T) /\ n.account = a /\ n.refresh = t /\ n.access = t /\ n.seed = s.seed
<1> DEFINE n == [s EXCEPT !.account = a, !.access = t, !.refresh = t, !.isAuthenticated = TRUE]
<1>1. s \in Store
  BY DEF StoreOK
<1>2. /\ n \in Store /\ n.account = a /\ n.refresh = t /\ n.access = t /\ n.seed = s.seed
      /\ n.isAuthenticated = TRUE
  BY <1>1 DEF Store, Slots
<1>3. t # 0 /\ a # None
  BY NoneAssumption, BoundAssumption DEF Token
<1>4. SetSession(s, a, t) = n
  BY DEF SetSession
<1> HIDE DEF n
<1> QED
  BY <1>2, <1>3, <1>4 DEF StoreOK

LEMMA PersistedIs ==
    ASSUME NEW T, NEW s, StoreOK(s, T)
    PROVE  /\ DiskOK(Persisted(s), T) /\ Persisted(s).account = s.account
           /\ Persisted(s).refresh = s.refresh /\ Persisted(s).seed = s.seed
  BY DEF StoreOK, DiskOK, Persisted, Store

\* A store whose identity or seed is written over.
LEMMA SeedIs ==
    ASSUME NEW T, NEW s, StoreOK(s, T), NEW seed \in Slots
    PROVE  LET n == [s EXCEPT !.seed = seed] IN
           /\ StoreOK(n, T) /\ n.account = s.account /\ n.refresh = s.refresh /\ n.seed = seed
           /\ n.access = s.access
<1> DEFINE n == [s EXCEPT !.seed = seed]
<1>1. s \in Store
  BY DEF StoreOK
<1>2. /\ n \in Store /\ n.account = s.account /\ n.access = s.access /\ n.refresh = s.refresh
      /\ n.seed = seed /\ n.isAuthenticated = s.isAuthenticated
  BY <1>1 DEF Store
<1> HIDE DEF n
<1> QED
  BY <1>2 DEF StoreOK, n

LEMMA AccountIs ==
    ASSUME NEW T, NEW s, StoreOK(s, T), NEW a \in Accounts
    PROVE  LET n == [s EXCEPT !.account = a] IN
           /\ StoreOK(n, T) /\ n.account = a /\ n.refresh = s.refresh /\ n.seed = s.seed
           /\ n.access = s.access
<1> DEFINE n == [s EXCEPT !.account = a]
<1>1. s \in Store
  BY DEF StoreOK
<1>2. /\ n \in Store /\ n.account = a /\ n.access = s.access /\ n.refresh = s.refresh
      /\ n.seed = s.seed /\ n.isAuthenticated = s.isAuthenticated
  BY <1>1 DEF Store, Slots
<1> HIDE DEF n
<1> QED
  BY <1>2, NoneAssumption DEF StoreOK, n

\* Tokens are only added.
LEMMA Grows ==
    ASSUME NEW T, NEW U, T \subseteq U
    PROVE  /\ \A s : StoreOK(s, T) => StoreOK(s, U)
           /\ \A d : DiskOK(d, T) => DiskOK(d, U)
           /\ \A r : CallOK(r, T) => CallOK(r, U)
           /\ \A f : FlightOK(f, T) => FlightOK(f, U)
  BY DEF StoreOK, DiskOK, CallOK, FlightOK

\* The request of c alone changes.
LEMMA CallIs ==
    ASSUME Typed, NEW c \in Calls, NEW r \in Request, call' = [call EXCEPT ![c] = r]
    PROVE  call'[c] = r /\ \A d \in Calls : d # c => call'[d] = call[d]
  BY DEF Typed, CallsOK

LEMMA OneCall ==
    ASSUME Typed, NEW c \in Calls, NEW r, CallOK(r, Known), call' = [call EXCEPT ![c] = r], owner' = owner
    PROVE  CallsOK'
<1>1. r \in Request
  BY DEF CallOK
<1>2. call' \in [Calls -> Request]
  BY <1>1 DEF Typed, CallsOK
<1>3. \A d \in Calls : CallOK(call'[d], Known)
  BY <1>1, CallIs DEF Typed, CallsOK
<1> QED
  BY <1>2, <1>3 DEF CallsOK, Known

\* Each request stays or is over.
LEMMA StaysOrOver ==
    ASSUME Typed, NEW new, call' = new, new \in [Calls -> Request],
           \A d \in Calls : new[d] = call[d] \/ new[d] = Idle, owner' = owner
    PROVE  CallsOK'
<1>1. \A d \in Calls : CallOK(call'[d], Known)
  BY EmptyIs DEF Typed, CallsOK, Known
<1> QED
  BY <1>1 DEF CallsOK, Known

-----------------------------------------------------------------------------
(* Types.                                                                  *)

LEMMA TypedIs == Typed => TypeOK /\ StoreIsOneSession
  BY DEF Typed, TypeOK, ServerOK, StoreOK, DiskOK, CallsOK, CacheOK, CountsOK, FlightOK, StoreIsOneSession

\* The requests of an app that is signed out, or whose account has changed.
LEMMA SetStoreIs ==
    ASSUME NEW s, NEW calls \in [Calls -> Request], SetStore(s, calls)
    PROVE  /\ store' = s /\ call' \in [Calls -> Request]
           /\ \A d \in Calls : call'[d] = calls[d] \/ call'[d] = Idle
<1>1. "me" \in Calls /\ Idle \in Request
  BY EmptyIs DEF Calls
<1> QED
  BY <1>1 DEF SetStore

LEMMA ClearIs ==
    ASSUME NEW calls \in [Calls -> Request], Clear(calls)
    PROVE  /\ store' = SignedOut /\ call' \in [Calls -> Request]
           /\ \A d \in Calls : call'[d] = calls[d] \/ call'[d] = Idle
           /\ cache' = Empty /\ settled' = {}
<1>1. "me" \in Calls /\ Idle \in Request
  BY EmptyIs DEF Calls
<1> QED
  BY <1>1 DEF Clear

LEMMA FinishedIs ==
    ASSUME Typed, NEW c \in Calls
    PROVE  /\ Finished(c) \in [Calls -> Request]
           /\ Finished(c)[c] = Idle /\ \A d \in Calls : d # c => Finished(c)[d] = call[d]
  BY EmptyIs DEF Finished, Typed, CallsOK

\* What useMe shows is a profile, or nothing.
LEMMA DataIs ==
    ASSUME Typed
    PROVE  /\ Data \in Profile \cup {None}
           /\ \A d \in Profile : d.id \in Accounts /\ d.hasName \in BOOLEAN
<1>1. store.account \in Slots
  BY DEF Typed, StoreOK, Store
<1>2. cache[store.account] \in Profile \cup {None}
  BY <1>1 DEF Typed, CacheOK
<1>3. store.account # None => [id |-> store.account, hasName |-> TRUE] \in Profile
  BY <1>1 DEF Slots, Profile
<1> QED
  BY <1>2, <1>3 DEF Data, Profile

\* The app changes, and the server does not.
LEMMA TypedClient ==
    ASSUME Typed, UNCHANGED server, StoreOK(store', Known), DiskOK(disk', Known), CallsOK',
           \A f \in flight' : FlightOK(f, Known), CacheOK', CountsOK'
    PROVE  Typed'
<1>1. ServerOK' /\ Known' = Known
  BY DEF server, Typed, ServerOK, Known
<1> QED
  BY <1>1 DEF Typed

\* Only the requests change.
LEMMA TypedCalls ==
    ASSUME Typed, UNCHANGED <<server, store, disk, booted, cache, settled, synced, flight, late, shown, crashes>>,
           CallsOK', uses' \in 0..MaxUses
    PROVE  Typed'
<1>1. StoreOK(store', Known) /\ DiskOK(disk', Known) /\ \A f \in flight' : FlightOK(f, Known)
  BY DEF Typed
<1>2. CacheOK' /\ CountsOK'
  BY DEF Typed, CacheOK, CountsOK
<1> QED
  BY <1>1, <1>2, TypedClient

LEMMA RefreshIs ==
    ASSUME Typed, NEW t \in Token, t \in Known, NEW by \in Slots, RefreshOnce(t, by)
    PROVE  /\ \A f \in flight' : FlightOK(f, Known)
           /\ shown' \in [Token -> Nat]
           /\ \/ /\ flight = {} /\ shown' = [shown EXCEPT ![t] = @ + 1]
                 /\ flight' = {[token |-> t, by |-> by, pc |-> "sent", got |-> 0]}
              \/ flight # {} /\ UNCHANGED <<flight, shown>>
<1> DEFINE f == [token |-> t, by |-> by, pc |-> "sent", got |-> 0]
<1>1. FlightOK(f, Known)
  BY DEF FlightOK, Flight, Known
<1>2. [shown EXCEPT ![t] = @ + 1] \in [Token -> Nat] /\ shown \in [Token -> Nat]
  BY DEF Typed, CountsOK
<1> HIDE DEF f
<1>3. \/ flight = {} /\ shown' = [shown EXCEPT ![t] = @ + 1] /\ flight' = {f}
      \/ flight # {} /\ UNCHANGED <<flight, shown>>
  BY DEF RefreshOnce, f
<1>4. \A g \in flight' : FlightOK(g, Known)
  BY <1>1, <1>3 DEF Typed
<1> QED
  BY <1>2, <1>3, <1>4 DEF f

LEMMA TypedBoot ==
    ASSUME Typed, Boot
    PROVE  Typed'
<1> DEFINE s == [account |-> disk.account, access |-> 0, refresh |-> disk.refresh,
                 seed |-> disk.seed,
                 isAuthenticated |-> disk.refresh # 0 /\ disk.account # None]
<1>1. DiskOK(disk, Known)
  BY DEF Typed
<1>2. StoreOK(s, Known)
  BY <1>1 DEF StoreOK, DiskOK, Store, Slots, Known
<1>3. store' = s /\ UNCHANGED <<server, disk, cache, settled, synced, call, late, uses, crashes>> /\ booted' = TRUE
  BY DEF Boot
<1>4. (\A f \in flight' : FlightOK(f, Known)) /\ shown' \in [Token -> Nat]
  <2>1. CASE disk.refresh # 0
    <3>1. disk.refresh \in Token /\ disk.refresh \in Known /\ disk.account \in Slots
      BY <1>1, <2>1 DEF DiskOK
    <3> QED
      BY <2>1, <3>1, RefreshIs DEF Boot
  <2>2. CASE disk.refresh = 0
    BY <2>2 DEF Boot, Typed, CountsOK
  <2> QED
    BY <2>1, <2>2
<1>5. CallsOK' /\ CacheOK' /\ CountsOK'
  BY <1>3, <1>4 DEF Typed, CallsOK, CacheOK, CountsOK, Known, server
<1> HIDE DEF s
<1> QED
  BY <1>1, <1>2, <1>3, <1>4, <1>5, TypedClient

LEMMA TypedCrash ==
    ASSUME Typed, Crash
    PROVE  Typed'
<1>1. /\ store' = SignedOut /\ cache' = Empty /\ settled' = {} /\ synced' = None
      /\ flight' = {} /\ UNCHANGED <<server, disk, late, uses>>
      /\ call' = [c \in Calls |-> Idle] /\ shown' = [t \in Token |-> 0]
      /\ booted' = FALSE /\ crashes' = crashes + 1 /\ crashes < MaxCrashes
  BY DEF Crash
<1>2. 0 \in Known
  BY DEF Known
<1>3. StoreOK(store', Known) /\ DiskOK(disk', Known) /\ CacheOK'
  BY <1>1, <1>2, EmptyIs DEF Typed, CacheOK
<1>4. CallsOK'
  <2>1. [c \in Calls |-> Idle] \in [Calls -> Request]
    BY EmptyIs
  <2> QED
    BY <1>1, <2>1, StaysOrOver DEF server
<1>5. CountsOK'
  <2>1. crashes' \in 0..MaxCrashes
    BY <1>1, BoundAssumption DEF Typed, CountsOK
  <2>2. shown' \in [Token -> Nat]
    BY <1>1
  <2> QED
    BY <1>1, <2>1, <2>2 DEF Typed, CountsOK
<1> QED
  BY <1>1, <1>3, <1>4, <1>5, TypedClient

LEMMA TypedSync ==
    ASSUME Typed, SyncProfile
    PROVE  Typed' /\ UNCHANGED <<owner, flight, shown, booted>> /\ store'.refresh = store.refresh
           /\ \A d \in Calls : call'[d] = call[d] \/ call'[d] = Idle
<1>1. UNCHANGED <<server, disk, booted, cache, settled, flight, late, shown, uses, crashes>> /\ synced' = Data
  BY DEF SyncProfile
<1>2. CacheOK' /\ CountsOK'
  BY <1>1, DataIs DEF Typed, CacheOK, CountsOK
<1>3. /\ StoreOK(store', Known) /\ store'.refresh = store.refresh
      /\ call' \in [Calls -> Request] /\ \A d \in Calls : call'[d] = call[d] \/ call'[d] = Idle
  <2>1. CASE Data = None
    BY <2>1 DEF SyncProfile, Typed, CallsOK
  <2>2. CASE Data # None
    <3> DEFINE seed == IF Data.hasName THEN Data.id ELSE None
               n == [store EXCEPT !.account = Data.id]
               s == [store EXCEPT !.account = Data.id, !.seed = seed]
    <3>1. Data.id \in Accounts
      BY <2>2, DataIs
    <3>2. seed \in Slots
      BY <3>1 DEF Slots
    <3> HIDE DEF seed
    <3>3. StoreOK(n, Known) /\ n.refresh = store.refresh
      BY <3>1, AccountIs DEF Typed
    <3>4. s = [n EXCEPT !.seed = seed]
      BY DEF Typed, StoreOK, Store
    <3> HIDE DEF n
    <3>5. StoreOK(s, Known) /\ s.refresh = store.refresh
      BY <3>2, <3>3, <3>4, SeedIs
    <3>6. SetStore(s, call)
      BY <2>2 DEF SyncProfile, seed
    <3> HIDE DEF s
    <3> QED
      BY <3>5, <3>6, SetStoreIs DEF Typed, CallsOK
  <2> QED
    BY <2>1, <2>2
<1>4. CallsOK'
  BY <1>1, <1>3, StaysOrOver DEF server
<1>5. DiskOK(disk', Known) /\ \A f \in flight' : FlightOK(f, Known)
  BY <1>1 DEF Typed
<1>6. Typed'
  BY <1>1, <1>2, <1>3, <1>4, <1>5, TypedClient
<1> QED
  BY <1>1, <1>3, <1>6 DEF server

LEMMA TypedLand ==
    ASSUME Typed, Land
    PROVE  Typed'
<1>1. disk' = Persisted(store)
      /\ UNCHANGED <<server, store, booted, cache, settled, synced, call, flight, late, shown, uses, crashes>>
  BY DEF Land
<1>2. DiskOK(disk', Known)
  BY <1>1, PersistedIs DEF Typed
<1>3. /\ StoreOK(store', Known) /\ CallsOK' /\ CacheOK' /\ CountsOK'
      /\ \A f \in flight' : FlightOK(f, Known)
  BY <1>1 DEF Typed, CallsOK, CacheOK, CountsOK, Known, server
<1> QED
  BY <1>1, <1>2, <1>3, TypedClient

\* A request is made.
LEMMA SendIs ==
    ASSUME Typed, NEW c \in Calls, NEW kind \in {"me", "signIn", "restore", "edit", "logout", "delete"},
           NEW a \in Slots, Send(c, kind, a), kind \in SignIns => a \in Accounts
    PROVE  /\ owner' = owner => CallsOK'
           /\ \A d \in Calls : d # c => call'[d] = call[d]
           /\ call'[c].kind = kind /\ call'[c].got = 0 /\ call'[c].data = None
           /\ call'[c].by = store.account /\ call'[c].token = store.access /\ call'[c].as = a
           /\ call'[c].pc = "sent"
<1> DEFINE r == [Idle EXCEPT !.kind = kind, !.pc = "sent", !.as = a,
                             !.by = store.account, !.token = store.access]
<1>1. store.account \in Slots /\ store.access \in Token \cup {0} /\ store.access \in Known
  BY DEF Typed, StoreOK, Store
<1>2. /\ r \in Request /\ r.kind = kind /\ r.got = 0 /\ r.data = None /\ r.pc = "sent"
      /\ r.by = store.account /\ r.token = store.access /\ r.as = a
  BY <1>1, EmptyIs DEF Request
<1>3. call' = [call EXCEPT ![c] = r]
  BY DEF Send
<1> HIDE DEF r
<1>4. CallOK(r, Known)
  BY <1>1, <1>2 DEF CallOK, Known
<1> QED
  BY <1>2, <1>3, <1>4, CallIs, OneCall

LEMMA TypedSend ==
    ASSUME Typed, NEW c \in Calls,
           \/ \E a \in Accounts, k \in SignIns : SignIn(c, a, k)
           \/ \E k \in {"edit", "logout", "delete"} : Use(c, k)
           \/ c = "me" /\ FetchMe
    PROVE  Typed'
<1>1. \E k \in {"me", "signIn", "restore", "edit", "logout", "delete"}, a \in Slots :
         Send(c, k, a) /\ (k \in SignIns => a \in Accounts)
  BY DEF SignIn, Use, FetchMe, SignIns, Slots
<1>2. UNCHANGED <<server, store, disk, booted, cache, settled, synced, flight, late, shown, crashes>>
  BY DEF SignIn, Use, FetchMe
<1>3. uses' \in 0..MaxUses
  BY BoundAssumption DEF SignIn, Use, FetchMe, Typed, CountsOK
<1>4. CallsOK'
  BY <1>1, <1>2, SendIs DEF server
<1> QED
  BY <1>2, <1>3, <1>4, TypedCalls

\* A pair of tokens is issued, to account a.
LEMMA IssuedIs ==
    ASSUME Typed, NEW a \in Accounts, Len(owner) < MaxTokens, owner' = Append(owner, a),
           live' \subseteq live \cup {Len(owner) + 1}, named' = named
    PROVE  LET t == Len(owner) + 1 IN
           /\ ServerOK' /\ Known' = Known \cup {t} /\ t \in Token /\ t # 0 /\ t \notin Known
           /\ owner'[t] = a /\ \A u \in DOMAIN owner : owner'[u] = owner[u]
           /\ DOMAIN owner' = DOMAIN owner \cup {t}
<1> DEFINE t == Len(owner) + 1
<1>1. owner \in Seq(Accounts) /\ Len(owner) \in Nat /\ MaxTokens \in Nat
  BY BoundAssumption DEF Typed, ServerOK
<1>2. /\ owner' \in Seq(Accounts) /\ Len(owner') = t /\ DOMAIN owner' = DOMAIN owner \cup {t}
      /\ owner'[t] = a /\ \A u \in DOMAIN owner : owner'[u] = owner[u]
      /\ t \notin DOMAIN owner /\ t # 0
  BY <1>1
<1>3. t <= MaxTokens /\ t \in Token
  BY <1>1 DEF Token
<1> HIDE DEF t
<1>4. ServerOK'
  BY <1>2, <1>3 DEF Typed, ServerOK, t
<1>5. Known' = Known \cup {t} /\ t \notin Known
  BY <1>2 DEF Known
<1> QED
  BY <1>2, <1>3, <1>4, <1>5 DEF t

\* A refresh token is rotated, or refused.
LEMMA RotateIs ==
    ASSUME Typed, NEW f \in flight, Rotate(f)
    PROVE  \/ LET t == Len(owner) + 1  g == [f EXCEPT !.pc = "ok", !.got = t] IN
              /\ Len(owner) < MaxTokens /\ f.token \in DOMAIN owner
              /\ owner' = Append(owner, owner[f.token])
              /\ live' \subseteq live \cup {t}
              /\ flight' = (flight \ {f}) \cup {g}
              /\ g.token = f.token /\ g.by = f.by /\ g.pc = "ok" /\ g.got = t
           \/ LET g == [f EXCEPT !.pc = "failed"] IN
              /\ UNCHANGED <<owner, live>>
              /\ flight' = (flight \ {f}) \cup {g} /\ FlightOK(g, Known)
              /\ g.token = f.token /\ g.by = f.by /\ g.pc = "failed" /\ g.got = f.got
<1>1. f \in Flight /\ FlightOK(f, Known) /\ live \subseteq DOMAIN owner
  BY DEF Typed, FlightOK, ServerOK
<1>2. CASE f.token \in live /\ Len(owner) < MaxTokens
  <2> DEFINE t == Len(owner) + 1
             g == [f EXCEPT !.pc = "ok", !.got = t]
  <2>1. g.token = f.token /\ g.by = f.by /\ g.pc = "ok" /\ g.got = t
    BY <1>1 DEF Flight
  <2>2. owner' = Append(owner, owner[f.token]) /\ flight' = (flight \ {f}) \cup {g}
        /\ live' = (live \ {f.token}) \cup {t}
    BY <1>2 DEF Rotate
  <2> HIDE DEF g, t
  <2> QED
    BY <1>1, <1>2, <2>1, <2>2 DEF g, t
<1>3. CASE ~(f.token \in live /\ Len(owner) < MaxTokens)
  <2> DEFINE g == [f EXCEPT !.pc = "failed"]
  <2>1. g \in Flight /\ g.token = f.token /\ g.by = f.by /\ g.pc = "failed" /\ g.got = f.got
    BY <1>1 DEF Flight
  <2>2. UNCHANGED <<owner, live>> /\ flight' = (flight \ {f}) \cup {g}
    BY <1>3 DEF Rotate
  <2> HIDE DEF g
  <2>3. FlightOK(g, Known)
    BY <1>1, <2>1 DEF FlightOK
  <2> QED
    BY <2>1, <2>2, <2>3 DEF g
<1> QED
  BY <1>2, <1>3

LEMMA TypedRotate ==
    ASSUME Typed, NEW f \in flight, Rotate(f)
    PROVE  Typed'
<1>1. UNCHANGED <<named, store, disk, booted, cache, settled, synced, call, late, shown, uses, crashes>>
  BY DEF Rotate
<1>2. CacheOK' /\ CountsOK'
  BY <1>1 DEF Typed, CacheOK, CountsOK
<1>3. CASE LET g == [f EXCEPT !.pc = "failed"] IN
           /\ UNCHANGED <<owner, live>>
           /\ flight' = (flight \ {f}) \cup {g} /\ FlightOK(g, Known)
           /\ g.token = f.token /\ g.by = f.by /\ g.pc = "failed" /\ g.got = f.got
  <2>1. \A g \in flight' : FlightOK(g, Known)
    BY <1>3 DEF Typed
  <2>2. CallsOK' /\ StoreOK(store', Known) /\ DiskOK(disk', Known) /\ UNCHANGED server
    BY <1>1, <1>3 DEF Typed, CallsOK, Known, server
  <2> QED
    BY <1>2, <2>1, <2>2, TypedClient
<1>4. CASE LET t == Len(owner) + 1  g == [f EXCEPT !.pc = "ok", !.got = t] IN
           /\ Len(owner) < MaxTokens /\ f.token \in DOMAIN owner
           /\ owner' = Append(owner, owner[f.token])
           /\ live' \subseteq live \cup {t}
           /\ flight' = (flight \ {f}) \cup {g}
           /\ g.token = f.token /\ g.by = f.by /\ g.pc = "ok" /\ g.got = t
  <2> DEFINE t == Len(owner) + 1
             g == [f EXCEPT !.pc = "ok", !.got = t]
  <2>1. owner[f.token] \in Accounts
    BY <1>4 DEF Typed, ServerOK
  <2>2. ServerOK' /\ Known' = Known \cup {t} /\ t \in Token /\ t # 0
    BY <1>1, <1>4, <2>1, IssuedIs
  <2>3. g \in Flight
    BY <2>2 DEF Typed, FlightOK, Flight
  <2>4. FlightOK(g, Known')
    BY <1>4, <2>2, <2>3 DEF Typed, FlightOK
  <2>5. flight' = (flight \ {f}) \cup {g}
    BY <1>4
  <2> HIDE DEF g, t
  <2>6. Known \subseteq Known'
    BY <2>2
  <2>7. \A h \in flight' : FlightOK(h, Known')
    BY <2>4, <2>5, <2>6, Grows DEF Typed
  <2>8. StoreOK(store', Known') /\ DiskOK(disk', Known') /\ CallsOK'
    BY <1>1, <2>6, Grows DEF Typed, CallsOK
  <2> QED
    BY <1>2, <2>2, <2>7, <2>8 DEF Typed
<1> QED
  BY <1>3, <1>4, RotateIs

LEMMA TypedLoseRefresh ==
    ASSUME Typed, NEW f \in flight, LoseRefresh(f)
    PROVE  /\ Typed'
           /\ \E g : /\ flight' = (flight \ {f}) \cup {g} /\ g.pc = "failed"
                     /\ g.token = f.token /\ g.by = f.by /\ g.got = f.got
<1> DEFINE g == [f EXCEPT !.pc = "failed"]
<1>1. FlightOK(f, Known)
  BY DEF Typed
<1>2. g \in Flight /\ g.token = f.token /\ g.by = f.by /\ g.pc = "failed" /\ g.got = f.got
  BY <1>1 DEF Flight, FlightOK
<1>3. /\ flight' = (flight \ {f}) \cup {g}
      /\ UNCHANGED <<server, store, disk, booted, cache, settled, synced, call, late, shown, uses, crashes>>
  BY DEF LoseRefresh
<1> HIDE DEF g
<1>4. \A h \in flight' : FlightOK(h, Known)
  BY <1>1, <1>2, <1>3 DEF Typed, FlightOK
<1>5. Typed'
  BY <1>3, <1>4, TypedClient DEF Typed, CallsOK, CacheOK, CountsOK, server, Known
<1> QED
  BY <1>2, <1>3, <1>5

\* The requests that waited go out with token t.
LEMMA ResendIs ==
    ASSUME Typed, NEW t \in Token, t \in Known
    PROVE  /\ Resend(t) \in [Calls -> Request]
           /\ \A c \in Calls : CallOK(Resend(t)[c], Known)
           /\ \A c \in Calls : LET r == Resend(t)[c] IN
                 /\ r.got = call[c].got /\ r.by = call[c].by /\ r.data = call[c].data
                 /\ r.kind = call[c].kind /\ r.as = call[c].as
                 /\ r = call[c] \/ (r.token = t /\ call[c].pc = "waiting")
<1> SUFFICES ASSUME NEW c \in Calls
             PROVE  LET r == Resend(t)[c] IN
                    /\ r \in Request /\ CallOK(r, Known)
                    /\ r.got = call[c].got /\ r.by = call[c].by /\ r.data = call[c].data
                    /\ r.kind = call[c].kind /\ r.as = call[c].as
                    /\ r = call[c] \/ (r.token = t /\ call[c].pc = "waiting")
  BY DEF Resend
<1> DEFINE r == [call[c] EXCEPT !.pc = "sent", !.retried = TRUE, !.token = t]
<1>1. call[c] \in Request /\ CallOK(call[c], Known)
  BY DEF Typed, CallsOK
<1>2. /\ r \in Request /\ r.got = call[c].got /\ r.by = call[c].by /\ r.data = call[c].data
      /\ r.kind = call[c].kind /\ r.as = call[c].as /\ r.token = t /\ r.pc = "sent"
  BY <1>1 DEF Request
<1>3. Resend(t)[c] = IF call[c].pc = "waiting" THEN r ELSE call[c]
  BY DEF Resend
<1> HIDE DEF r
<1> QED
  BY <1>1, <1>2, <1>3 DEF CallOK

\* The session becomes that of the rotated pair.
LEMMA AnsweredIs ==
    ASSUME Typed, NEW f \in flight, RefreshAnswered(f)
    PROVE  /\ f.pc = "ok" /\ f.got \in DOMAIN owner /\ f.got \in Token /\ owner[f.got] \in Accounts
           /\ store' = SetSession(store, owner[f.got], f.got)
           /\ call' \in [Calls -> Request]
           /\ \A d \in Calls : call'[d] = Resend(f.got)[d] \/ call'[d] = Idle
           /\ Resend(f.got) \in [Calls -> Request]
<1>1. f.pc = "ok" /\ FlightOK(f, Known)
  BY DEF RefreshAnswered, Typed
<1>2. f.got \in DOMAIN owner /\ f.got \in Token /\ f.got \in Known
  BY <1>1 DEF FlightOK, Flight, Known
<1>3. owner[f.got] \in Accounts
  BY <1>2 DEF Typed, ServerOK
<1>4. Resend(f.got) \in [Calls -> Request]
  BY <1>2, ResendIs
<1>5. SetStore(SetSession(store, owner[f.got], f.got), Resend(f.got))
  BY DEF RefreshAnswered
<1> QED
  BY <1>1, <1>2, <1>3, <1>4, <1>5, SetStoreIs

LEMMA TypedAnswered ==
    ASSUME Typed, NEW f \in flight, RefreshAnswered(f)
    PROVE  Typed'
<1>1. /\ UNCHANGED <<server, disk, booted, cache, settled, synced, shown, uses, crashes>>
      /\ flight' = flight \ {f} /\ late' \in BOOLEAN
  BY DEF RefreshAnswered, Typed, CountsOK
<1>2. CallsOK'
  <2>1. f.got \in Token /\ f.got \in Known
    BY AnsweredIs DEF Known
  <2>2. \A d \in Calls : CallOK(Resend(f.got)[d], Known)
    BY <2>1, ResendIs
  <2>3. CallOK(Idle, Known)
    BY EmptyIs DEF Known
  <2>4. \A d \in Calls : call'[d] = Resend(f.got)[d] \/ call'[d] = Idle
    BY AnsweredIs
  <2>5. \A d \in Calls : CallOK(call'[d], Known)
    BY <2>2, <2>3, <2>4
  <2> QED
    BY <1>1, <2>5, AnsweredIs DEF CallsOK, Known, server
<1>3. StoreOK(store', Known)
  BY AnsweredIs, SessionIs DEF Typed, Known
<1>4. CacheOK' /\ CountsOK' /\ DiskOK(disk', Known) /\ \A g \in flight' : FlightOK(g, Known)
  BY <1>1 DEF Typed, CacheOK, CountsOK
<1> QED
  BY <1>1, <1>2, <1>3, <1>4, TypedClient

\* Every error of a refresh, and the answers that end a session.
LEMMA TypedClear ==
    ASSUME Typed, NEW calls \in [Calls -> Request], Clear(calls),
           \A d \in Calls : calls[d] = call[d] \/ calls[d] = Idle,
           UNCHANGED <<server, disk, booted, synced, shown, uses, crashes>>, flight' \subseteq flight,
           late' \in BOOLEAN
    PROVE  Typed'
<1>1. CallsOK'
  BY ClearIs, StaysOrOver DEF server
<1>2. StoreOK(store', Known) /\ CacheOK'
  BY ClearIs, EmptyIs DEF Known, Typed, CacheOK
<1>3. CountsOK' /\ DiskOK(disk', Known) /\ \A g \in flight' : FlightOK(g, Known)
  BY DEF Typed, CountsOK
<1> QED
  BY <1>1, <1>2, <1>3, TypedClient

LEMMA FailedIs ==
    ASSUME Typed, NEW f \in flight, RefreshFailed(f)
    PROVE  \E calls \in [Calls -> Request] :
              Clear(calls) /\ \A d \in Calls : calls[d] = call[d] \/ calls[d] = Idle
<1> DEFINE calls == [c \in Calls |-> IF call[c].pc = "waiting" THEN Idle ELSE call[c]]
<1>1. calls \in [Calls -> Request] /\ \A d \in Calls : calls[d] = call[d] \/ calls[d] = Idle
  BY EmptyIs DEF Typed, CallsOK
<1>2. Clear(calls)
  BY DEF RefreshFailed
<1> HIDE DEF calls
<1> QED
  BY <1>1, <1>2

LEMMA TypedRefreshFailed ==
    ASSUME Typed, NEW f \in flight, RefreshFailed(f)
    PROVE  Typed'
<1>1. UNCHANGED <<server, disk, booted, synced, late, shown, uses, crashes>> /\ flight' \subseteq flight
  BY DEF RefreshFailed
<1>2. late' \in BOOLEAN
  BY <1>1 DEF Typed, CountsOK
<1> QED
  BY <1>1, <1>2, FailedIs, TypedClear
\* The server handles request c.
LEMMA ServeIs ==
    ASSUME Typed, NEW c \in Calls, Serve(c)
    PROVE  \E r \in Request :
              /\ call' = [call EXCEPT ![c] = r]
              /\ r.by = call[c].by /\ r.kind = call[c].kind /\ r.as = call[c].as
              /\ \/ /\ owner' = Append(owner, call[c].as) /\ Len(owner) < MaxTokens
                    /\ live' = live \cup {Len(owner) + 1} /\ named' = named
                    /\ call[c].kind \in SignIns /\ r.got = Len(owner) + 1
                    /\ r.token = call[c].token /\ r.data = call[c].data
                 \/ /\ owner' = owner /\ live' \subseteq live /\ named' \subseteq Accounts
                    /\ r.token = 0 /\ r.got = call[c].got
                    /\ \/ r.data = call[c].data
                       \/ call[c].token # 0 /\ r.data.id = owner[call[c].token]
                    /\ r.kind \in SignIns => r.pc = "unauthorized"
<1>1. call \in [Calls -> Request] /\ call[c] \in Request /\ CallOK(call[c], Known)
  BY DEF Typed, CallsOK
<1>2. CASE /\ call[c].kind \in SignIns /\ Len(owner) < MaxTokens /\ Issue(c)
  <2> DEFINE t == Len(owner) + 1
             r == [call[c] EXCEPT !.pc = "ok", !.got = t]
  <2>1. t \in Token
    BY <1>1, <1>2, BoundAssumption DEF Typed, ServerOK, Token
  <2>2. /\ r \in Request /\ r.by = call[c].by /\ r.kind = call[c].kind /\ r.as = call[c].as
        /\ r.got = t /\ r.token = call[c].token /\ r.data = call[c].data
    BY <1>1, <2>1 DEF Request
  <2>3. call' = [call EXCEPT ![c] = r] /\ owner' = Append(owner, call[c].as)
        /\ live' = live \cup {t} /\ named' = named
    BY <1>1, <1>2 DEF Issue
  <2> HIDE DEF r, t
  <2> QED
    BY <1>2, <2>2, <2>3 DEF t
<1>3. CASE /\ call[c].kind \in {"me", "edit"} /\ call[c].token # 0
           /\ named' = IF call[c].kind = "edit" THEN named \cup {owner[call[c].token]} ELSE named
           /\ call' = [call EXCEPT ![c].pc = "ok", ![c].token = 0,
                                   ![c].data = [id |-> owner[call[c].token],
                                                hasName |-> owner[call[c].token] \in named']]
           /\ UNCHANGED <<owner, live>>
  <2>1. PICK p : p = [id |-> owner[call[c].token], hasName |-> owner[call[c].token] \in named']
    OBVIOUS
  <2> DEFINE r == [call[c] EXCEPT !.pc = "ok", !.token = 0, !.data = p]
  <2>2. owner[call[c].token] \in Accounts
    BY <1>1, <1>3 DEF Typed, ServerOK, CallOK, Known
  <2>3. p \in Profile /\ p.id = owner[call[c].token] /\ named' \subseteq Accounts
    BY <1>3, <2>1, <2>2 DEF Profile, Typed, ServerOK
  <2>4. /\ r \in Request /\ r.by = call[c].by /\ r.kind = call[c].kind /\ r.as = call[c].as
        /\ r.got = call[c].got /\ r.token = 0 /\ r.data = p
    BY <1>1, <2>3 DEF Request
  <2>5. call' = [call EXCEPT ![c] = r]
    BY <1>1, <1>3, <2>1
  <2> HIDE DEF r
  <2> QED
    BY <1>3, <2>3, <2>4, <2>5 DEF SignIns
<1>4. CASE /\ call[c].kind \in {"logout", "delete"}
           /\ live' = {t \in live : owner[t] # owner[call[c].token]}
           /\ call' = [call EXCEPT ![c].pc = "ok", ![c].token = 0]
           /\ UNCHANGED <<owner, named>>
  <2> DEFINE r == [call[c] EXCEPT !.pc = "ok", !.token = 0]
  <2>1. /\ r \in Request /\ r.by = call[c].by /\ r.kind = call[c].kind /\ r.as = call[c].as
        /\ r.got = call[c].got /\ r.token = 0 /\ r.data = call[c].data
    BY <1>1 DEF Request
  <2>2. call' = [call EXCEPT ![c] = r]
    BY <1>1, <1>4
  <2> HIDE DEF r
  <2> QED
    BY <1>4, <2>1, <2>2 DEF SignIns, Typed, ServerOK
<1>5. CASE /\ call' = [call EXCEPT ![c].pc = "unauthorized", ![c].token = 0]
           /\ UNCHANGED server
  <2> DEFINE r == [call[c] EXCEPT !.pc = "unauthorized", !.token = 0]
  <2>1. /\ r \in Request /\ r.by = call[c].by /\ r.kind = call[c].kind /\ r.as = call[c].as
        /\ r.got = call[c].got /\ r.token = 0 /\ r.data = call[c].data /\ r.pc = "unauthorized"
    BY <1>1 DEF Request
  <2>2. call' = [call EXCEPT ![c] = r]
    BY <1>1, <1>5
  <2> HIDE DEF r
  <2> QED
    BY <1>5, <2>1, <2>2 DEF Typed, ServerOK, server
<1> QED
  BY <1>2, <1>3, <1>4, <1>5 DEF Serve, SignIns

LEMMA TypedServe ==
    ASSUME Typed, NEW c \in Calls, Serve(c)
    PROVE  Typed'
<1>1. PICK r \in Request :
              /\ call' = [call EXCEPT ![c] = r]
              /\ r.by = call[c].by /\ r.kind = call[c].kind /\ r.as = call[c].as
              /\ \/ /\ owner' = Append(owner, call[c].as) /\ Len(owner) < MaxTokens
                    /\ live' = live \cup {Len(owner) + 1} /\ named' = named
                    /\ call[c].kind \in SignIns /\ r.got = Len(owner) + 1
                    /\ r.token = call[c].token /\ r.data = call[c].data
                 \/ /\ owner' = owner /\ live' \subseteq live /\ named' \subseteq Accounts
                    /\ r.token = 0 /\ r.got = call[c].got
                    /\ \/ r.data = call[c].data
                       \/ call[c].token # 0 /\ r.data.id = owner[call[c].token]
                    /\ r.kind \in SignIns => r.pc = "unauthorized"
  BY ServeIs
<1>2. UNCHANGED <<store, disk, booted, cache, settled, synced, flight, late, shown, uses, crashes>>
  BY DEF Serve
<1>3. CallOK(call[c], Known)
  BY DEF Typed, CallsOK
<1>4. ServerOK' /\ Known \subseteq Known' /\ CallOK(r, Known')
  <2>1. CASE /\ owner' = Append(owner, call[c].as) /\ Len(owner) < MaxTokens
             /\ live' = live \cup {Len(owner) + 1} /\ named' = named
             /\ call[c].kind \in SignIns /\ r.got = Len(owner) + 1
             /\ r.token = call[c].token
    <3>1. call[c].as \in Accounts
      BY <1>3, <2>1 DEF CallOK
    <3>2. PICK t : t = Len(owner) + 1
      OBVIOUS
    <3>3. ServerOK' /\ Known' = Known \cup {t} /\ t # 0
      BY <2>1, <3>1, <3>2, IssuedIs
    <3>4. CallOK(r, Known \cup {t})
      BY <1>1, <1>3, <2>1, <3>2, <3>3 DEF CallOK
    <3> QED
      BY <3>3, <3>4
  <2>2. CASE /\ owner' = owner /\ live' \subseteq live /\ named' \subseteq Accounts
             /\ r.token = 0 /\ r.got = call[c].got
             /\ r.kind \in SignIns => r.pc = "unauthorized"
    BY <1>1, <1>3, <2>2 DEF CallOK, Known, ServerOK, Typed
  <2> QED
    BY <1>1, <2>1, <2>2
<1>5. call' \in [Calls -> Request]
  BY <1>1 DEF Typed, CallsOK
<1>6. \A d \in Calls : CallOK(call'[d], Known')
  BY <1>1, <1>4, CallIs, Grows DEF Typed, CallsOK
<1>7. StoreOK(store', Known') /\ DiskOK(disk', Known') /\ (\A f \in flight' : FlightOK(f, Known'))
  BY <1>2, <1>4, Grows DEF Typed
<1>8. CacheOK' /\ CountsOK'
  BY <1>2 DEF Typed, CacheOK, CountsOK
<1> QED
  BY <1>4, <1>5, <1>6, <1>7, <1>8 DEF Typed, CallsOK

\* Its answer is lost.
LEMMA LoseIs ==
    ASSUME Typed, NEW c \in Calls, Lose(c)
    PROVE  \E r \in Request :
              /\ call' = [call EXCEPT ![c] = r] /\ CallOK(r, Known)
              /\ r.by = call[c].by /\ r.kind = call[c].kind /\ r.as = call[c].as
              /\ r.token = 0 /\ r.data = None /\ r.got = 0 /\ r.pc = "failed"
<1> DEFINE r == [call[c] EXCEPT !.pc = "failed", !.token = 0, !.data = None, !.got = 0]
<1>1. call \in [Calls -> Request] /\ call[c] \in Request /\ CallOK(call[c], Known)
  BY DEF Typed, CallsOK
<1>2. /\ r \in Request /\ r.by = call[c].by /\ r.kind = call[c].kind /\ r.as = call[c].as
      /\ r.token = 0 /\ r.data = None /\ r.got = 0 /\ r.pc = "failed"
  BY <1>1 DEF Request
<1>3. call' = [call EXCEPT ![c] = r]
  BY <1>1 DEF Lose
<1> HIDE DEF r
<1>4. CallOK(r, Known)
  BY <1>1, <1>2 DEF CallOK, Known
<1> QED
  BY <1>2, <1>3, <1>4

LEMMA TypedLose ==
    ASSUME Typed, NEW c \in Calls, Lose(c)
    PROVE  Typed'
<1>1. UNCHANGED <<server, store, disk, booted, cache, settled, synced, flight, late, shown, uses, crashes>>
  BY DEF Lose
<1>2. CallsOK' /\ uses' \in 0..MaxUses
  BY <1>1, LoseIs, OneCall DEF server, Typed, CountsOK
<1> QED
  BY <1>1, <1>2, TypedCalls

\* What a sign-in leaves in the store and on disk.
LEMMA SignedInIs ==
    ASSUME Typed, NEW c \in Calls, SignedIn(c)
    PROVE  \E s, n : /\ n = SetSession(store, call[c].as, call[c].got) /\ StoreOK(n, Known)
                     /\ StoreOK(s, Known) /\ store' = s
                     /\ n.account = call[c].as /\ n.refresh = call[c].got /\ n.seed = store.seed
                     /\ s.account = n.account /\ s.refresh = n.refresh
                     /\ s.seed = None \/ (s.seed = store.seed /\ disk' = disk /\ call[c].kind = "restore")
                     /\ SetStore(s, Finished(c))
                     /\ disk' \in {disk, Persisted(n)}
                     /\ call[c].kind \in SignIns /\ call[c].pc = "ok"
                     /\ call[c].got \in Token /\ call[c].got \in Known /\ call[c].as \in Accounts
<1>1. call[c].kind \in SignIns /\ call[c].pc = "ok" /\ CallOK(call[c], Known)
  BY DEF SignedIn, Receive, SignIns, Typed, CallsOK
<1>2. call[c].got \in Token /\ call[c].got \in Known /\ call[c].as \in Accounts
  BY <1>1 DEF CallOK, Request
<1>3. PICK n : n = SetSession(store, call[c].as, call[c].got)
  OBVIOUS
<1>4. StoreOK(n, Known) /\ n.account = call[c].as /\ n.refresh = call[c].got /\ n.seed = store.seed
  BY <1>2, <1>3, SessionIs DEF Typed
<1>5. CASE call[c].kind = "signIn"
  <2>1. PICK s : s = [n EXCEPT !.seed = None]
    OBVIOUS
  <2>2. None \in Slots
    BY DEF Slots
  <2>3. StoreOK(s, Known) /\ s.account = n.account /\ s.refresh = n.refresh /\ s.seed = None
    BY <1>4, <2>1, <2>2, SeedIs
  <2>4. SetStore(s, Finished(c)) /\ disk' \in {disk, Persisted(n)}
    BY <1>3, <1>5, <2>1 DEF SignedIn
  <2>5. store' = s
    BY <2>4 DEF SetStore
  <2> QED
    BY <1>1, <1>2, <1>3, <1>4, <2>3, <2>4, <2>5
<1>6. CASE call[c].kind = "restore"
  <2>1. SetStore(n, Finished(c)) /\ disk' = disk
    BY <1>3, <1>6 DEF SignedIn
  <2>2. store' = n
    BY <2>1 DEF SetStore
  <2> QED
    BY <1>1, <1>2, <1>3, <1>4, <1>6, <2>1, <2>2
<1> QED
  BY <1>1, <1>5, <1>6 DEF SignIns

LEMMA TypedSignedIn ==
    ASSUME Typed, NEW c \in Calls, SignedIn(c)
    PROVE  Typed' /\ \A d \in Calls : call'[d] = Idle \/ (call'[d] = call[d] /\ d # c)
<1>1. /\ UNCHANGED <<server, booted, synced, flight, shown, uses, crashes, cache, settled>>
      /\ late' \in BOOLEAN
  BY DEF SignedIn, Receive, Typed, CountsOK
<1>2. PICK s, n : /\ StoreOK(n, Known) /\ StoreOK(s, Known) /\ SetStore(s, Finished(c))
                  /\ disk' \in {disk, Persisted(n)}
  BY SignedInIs
<1>3. /\ store' = s /\ call' \in [Calls -> Request]
      /\ \A d \in Calls : call'[d] = Idle \/ (call'[d] = call[d] /\ d # c)
  BY <1>2, SetStoreIs, FinishedIs
<1>4. CallsOK'
  BY <1>1, <1>3, StaysOrOver DEF server
<1>5. DiskOK(disk', Known)
  BY <1>2, PersistedIs DEF Typed
<1>6. CacheOK' /\ CountsOK' /\ \A f \in flight' : FlightOK(f, Known)
  BY <1>1 DEF Typed, CacheOK, CountsOK
<1> QED
  BY <1>1, <1>2, <1>3, <1>4, <1>5, <1>6, TypedClient

LEMMA TypedProfile ==
    ASSUME Typed, NEW c \in Calls, ProfileReceived(c)
    PROVE  Typed'
<1>1. /\ UNCHANGED <<server, booted, synced, flight, shown, uses, crashes, store, disk>>
      /\ late' \in BOOLEAN /\ call' = [call EXCEPT ![c] = Idle]
      /\ cache' = [cache EXCEPT ![store.account] = call[c].data]
      /\ settled' = settled \cup {store.account}
  BY DEF ProfileReceived, Receive, Typed, CountsOK, SlotOf, Finished
<1>2. store.account \in Slots /\ call[c].data \in Profile \cup {None}
  BY DEF Typed, StoreOK, Store, CallsOK, Request
<1>3. CacheOK'
  BY <1>1, <1>2 DEF Typed, CacheOK
<1>4. CallsOK'
  BY <1>1, EmptyIs, OneCall DEF server, Known
<1>5. CountsOK' /\ StoreOK(store', Known) /\ DiskOK(disk', Known) /\ \A f \in flight' : FlightOK(f, Known)
  BY <1>1 DEF Typed, CountsOK
<1> QED
  BY <1>1, <1>3, <1>4, <1>5, TypedClient

LEMMA TypedEnded ==
    ASSUME Typed, NEW c \in Calls, SessionEnded(c)
    PROVE  Typed'
<1>1. /\ UNCHANGED <<server, booted, synced, flight, shown, uses, crashes, disk>>
      /\ late' \in BOOLEAN /\ Clear(Finished(c))
  BY DEF SessionEnded, Receive, Typed, CountsOK
<1>2. /\ Finished(c) \in [Calls -> Request]
      /\ \A d \in Calls : Finished(c)[d] = call[d] \/ Finished(c)[d] = Idle
  BY FinishedIs
<1> QED
  BY <1>1, <1>2, TypedClear

\* A request waits for the refresh.
LEMMA RenewIs ==
    ASSUME Typed, NEW c \in Calls, Renew(c)
    PROVE  /\ \E r \in Request :
                 /\ call' = [call EXCEPT ![c] = r] /\ CallOK(r, Known)
                 /\ r.by = call[c].by /\ r.kind = call[c].kind /\ r.as = call[c].as
                 /\ r.token = call[c].token /\ r.data = call[c].data /\ r.got = call[c].got
           /\ store.refresh \in Token /\ store.refresh \in Known /\ store.account \in Slots
<1> DEFINE r == [call[c] EXCEPT !.pc = "waiting"]
<1>1. call \in [Calls -> Request] /\ call[c] \in Request /\ CallOK(call[c], Known)
  BY DEF Typed, CallsOK
<1>2. /\ r \in Request /\ r.by = call[c].by /\ r.kind = call[c].kind /\ r.as = call[c].as
      /\ r.token = call[c].token /\ r.data = call[c].data /\ r.got = call[c].got /\ r.pc = "waiting"
  BY <1>1 DEF Request
<1>3. call' = [call EXCEPT ![c] = r]
  BY <1>1 DEF Renew
<1>4. store.refresh \in Token /\ store.refresh \in Known /\ store.account \in Slots
  BY DEF Renew, Typed, StoreOK, Store
<1> HIDE DEF r
<1>5. CallOK(r, Known)
  BY <1>1, <1>2 DEF CallOK
<1> QED
  BY <1>2, <1>3, <1>4, <1>5

LEMMA TypedRenew ==
    ASSUME Typed, NEW c \in Calls, Renew(c)
    PROVE  Typed'
<1>1. UNCHANGED <<server, store, disk, booted, cache, settled, synced, late, uses, crashes>>
      /\ RefreshOnce(store.refresh, store.account)
  BY DEF Renew
<1>2. CallsOK'
  BY <1>1, RenewIs, OneCall DEF server
<1>3. (\A f \in flight' : FlightOK(f, Known)) /\ shown' \in [Token -> Nat]
  BY <1>1, RenewIs, RefreshIs
<1>4. CacheOK' /\ CountsOK' /\ StoreOK(store', Known) /\ DiskOK(disk', Known)
  BY <1>1, <1>3 DEF Typed, CountsOK, CacheOK
<1> QED
  BY <1>1, <1>2, <1>3, <1>4, TypedClient

LEMMA TypedFail ==
    ASSUME Typed, NEW c \in Calls, Fail(c)
    PROVE  Typed' /\ \A d \in Calls : call'[d] = Idle \/ call'[d] = call[d]
<1>1. UNCHANGED <<server, disk, booted, synced, flight, late, shown, uses, crashes>>
  BY DEF Fail
<1>2. late' \in BOOLEAN
  BY <1>1 DEF Typed, CountsOK
<1>3. /\ Finished(c) \in [Calls -> Request]
      /\ \A d \in Calls : Finished(c)[d] = call[d] \/ Finished(c)[d] = Idle
  BY FinishedIs
<1>4. CASE call[c].kind = "logout"
  <2>1. Clear(Finished(c))
    BY <1>4 DEF Fail
  <2> QED
    BY <1>1, <1>2, <1>3, <2>1, TypedClear, ClearIs
<1>5. CASE call[c].kind # "logout"
  <2>1. /\ call' = Finished(c) /\ UNCHANGED <<store, cache>>
        /\ settled' \in {settled, settled \cup {store.account}}
    BY <1>5 DEF Fail
  <2>2. CallsOK'
    BY <1>1, <1>3, <2>1, StaysOrOver DEF server
  <2>3. store.account \in Slots
    BY DEF Typed, StoreOK, Store
  <2>4. CacheOK'
    BY <1>1, <2>1, <2>3 DEF Typed, CacheOK
  <2>5. CountsOK' /\ StoreOK(store', Known) /\ DiskOK(disk', Known) /\ \A f \in flight' : FlightOK(f, Known)
    BY <1>1, <2>1 DEF Typed, CountsOK
  <2> QED
    BY <1>1, <1>3, <2>1, <2>2, <2>4, <2>5, TypedClient
<1> QED
  BY <1>4, <1>5

LEMMA TypedInit == Init => Typed
<1> SUFFICES ASSUME Init PROVE Typed
  OBVIOUS
<1>1. ServerOK /\ 0 \in Known
  BY BoundAssumption DEF Init, ServerOK, Known
<1>2. StoreOK(store, Known) /\ DiskOK(disk, Known)
  BY <1>1, EmptyIs DEF Init
<1>3. CallsOK
  BY <1>1, EmptyIs DEF Init, CallsOK
<1>4. CacheOK /\ CountsOK
  <2>1. cache = Empty /\ settled = {} /\ synced = None
    BY DEF Init
  <2>2. CacheOK
    BY <2>1, EmptyIs DEF CacheOK
  <2>3. [t \in Token |-> 0] \in [Token -> Nat]
    OBVIOUS
  <2>4. booted = FALSE /\ late = FALSE /\ shown = [t \in Token |-> 0] /\ uses = 0 /\ crashes = 0
    BY DEF Init
  <2>5. uses \in 0..MaxUses /\ crashes \in 0..MaxCrashes
    BY <2>4, BoundAssumption
  <2>6. CountsOK
    BY <2>3, <2>4, <2>5 DEF CountsOK
  <2> QED
    BY <2>2, <2>6
<1> QED
  BY <1>1, <1>2, <1>3, <1>4 DEF Init, Typed

LEMMA TypedStep == Typed /\ [Next]_vars => Typed'
<1> SUFFICES ASSUME Typed, [Next]_vars PROVE Typed'
  OBVIOUS
<1>1. CASE UNCHANGED vars
  BY <1>1 DEF vars, server, client, Typed, ServerOK, CallsOK, CacheOK, CountsOK, Known
<1>2. CASE Boot \/ Crash \/ Land \/ SyncProfile
  BY <1>2, TypedBoot, TypedCrash, TypedLand, TypedSync
<1>3. CASE FetchMe
  <2>1. "me" \in Calls
    BY DEF Calls
  <2> QED
    BY <1>3, <2>1, TypedSend
<1>4. CASE Refreshing
  BY <1>4, TypedRotate, TypedLoseRefresh, TypedAnswered, TypedRefreshFailed DEF Refreshing
<1>5. ASSUME NEW c \in Calls, Handled(c) PROVE Typed'
  BY <1>5, TypedServe, TypedLose, TypedSignedIn, TypedProfile, TypedEnded, TypedRenew, TypedFail DEF Handled
<1>6. ASSUME NEW c \in Mutations, NEW a \in Accounts, NEW k \in SignIns, SignIn(c, a, k) PROVE Typed'
  BY <1>6, TypedSend DEF Calls
<1>7. ASSUME NEW c \in Mutations, NEW k \in {"edit", "logout", "delete"}, Use(c, k) PROVE Typed'
  BY <1>7, TypedSend DEF Calls
<1> QED
  BY <1>1, <1>2, <1>3, <1>4, <1>5, <1>6, <1>7 DEF Next, SignIns

\* The types, and which control states go with which locals, hold throughout.
THEOREM TypedHolds == Spec => []Typed
  BY TypedInit, TypedStep, PTL DEF Spec

\* Every state of the app and the server has its type.
THEOREM ClientTypesHold == Spec => []TypeOK
  BY TypedHolds, TypedIs, PTL

\* The access token in the store is that of the refresh token next to it, through
\* sign-ins, rotations, restarts and sign-outs in any order.
THEOREM OneSessionInTheStore == Spec => []StoreIsOneSession
  BY TypedHolds, TypedIs, PTL
-----------------------------------------------------------------------------
(* A refresh token is presented once.                                      *)

Fresh(t) == t # 0 => shown[t] = 0

\* The tokens of the answers on their way are neither those of another answer nor
\* that of the store.
Apart == /\ \A c \in Calls : call[c].got # 0 =>
              /\ call[c].got # store.refresh
              /\ \A d \in Calls : d # c => call[d].got # call[c].got
              /\ \A f \in flight : f.got # call[c].got
         /\ \A f \in flight : f.got # 0 => f.got # store.refresh

Single == /\ \A f, g \in flight : f = g
          /\ ~booted => /\ flight = {} /\ \A c \in Calls : call[c] = Idle
                        /\ \A t \in Token : shown[t] = 0
          /\ \A t \in Token : shown[t] <= 1 /\ (shown[t] # 0 => t \in DOMAIN owner)
          /\ flight = {} => Fresh(store.refresh)
          /\ \A c \in Calls : Fresh(call[c].got)
          /\ \A f \in flight : Fresh(f.got)
          /\ Apart

LEMMA HeldIs ==
    ASSUME Typed
    PROVE  /\ store.refresh \in Known /\ store.refresh \in Token \cup {0}
           /\ \A c \in Calls : call[c].got \in Known /\ call[c].got \in Token \cup {0}
           /\ \A f \in flight : f.got \in Known /\ f.got \in Token \cup {0} /\ f.token \in Token
  BY DEF Typed, StoreOK, Store, CallsOK, CallOK, Request, FlightOK, Flight

\* Nothing is presented; the tokens the app holds stay or go.
LEMMA SingleKeeps ==
    ASSUME Typed, Single, booted', shown' = shown, DOMAIN owner \subseteq DOMAIN owner',
           store'.refresh \in {store.refresh, 0},
           \A d \in Calls : call'[d].got \in {call[d].got, 0},
           \A g \in flight' : \E f \in flight : g.got \in {f.got, 0},
           \A f, g \in flight' : f = g,
           flight' = {} => flight = {} \/ store'.refresh = 0
    PROVE  Single'
<1>1. (\A t \in Token : shown[t] <= 1 /\ (shown[t] # 0 => t \in DOMAIN owner))'
  BY DEF Single
<1>2. (flight = {} => Fresh(store.refresh))' /\ (\A c \in Calls : Fresh(call[c].got))'
      /\ (\A f \in flight : Fresh(f.got))'
  BY DEF Single, Fresh
<1>3. Apart'
  BY DEF Single, Apart
<1> QED
  BY <1>1, <1>2, <1>3 DEF Single

\* A token is presented by an app that was presenting none.
LEMMA SinglePresents ==
    ASSUME Typed, Single, booted', NEW t \in Token, t \in DOMAIN owner, owner' = owner,
           NEW by \in Slots, RefreshOnce(t, by), flight = {} => shown[t] = 0,
           store'.refresh = t, \A d \in Calls : call'[d].got = call[d].got /\ call[d].got # t,
           flight # {} => store.refresh = t
    PROVE  Single'
<1>1. CASE flight # {}
  <2>1. UNCHANGED <<flight, shown>>
    BY <1>1 DEF RefreshOnce
  <2> QED
    BY <1>1, <2>1, SingleKeeps DEF Single
<1>2. CASE flight = {}
  <2>1. PICK f : f = [token |-> t, by |-> by, pc |-> "sent", got |-> 0]
    OBVIOUS
  <2>2. flight' = {f} /\ f.got = 0 /\ shown' = [shown EXCEPT ![t] = @ + 1]
    BY <1>2, <2>1 DEF RefreshOnce
  <2>3. shown \in [Token -> Nat] /\ shown[t] = 0
    BY <1>2 DEF Typed, CountsOK
  <2>4. shown'[t] = 1 /\ \A u \in Token : u # t => shown'[u] = shown[u]
    BY <2>2, <2>3
  <2>5. (\A u \in Token : shown[u] <= 1 /\ (shown[u] # 0 => u \in DOMAIN owner))'
    BY <2>4 DEF Single
  <2>6. (\A c \in Calls : Fresh(call[c].got))'
    BY <2>4, HeldIs DEF Single, Fresh
  <2>7. Apart'
    BY <2>2 DEF Single, Apart
  <2> QED
    BY <2>2, <2>5, <2>6, <2>7 DEF Single, Fresh
<1> QED
  BY <1>1, <1>2

LEMMA SingleBoot ==
    ASSUME Typed, Single, Boot
    PROVE  Single'
<1>1. booted' /\ ~booted /\ store'.refresh = disk.refresh /\ UNCHANGED <<call, owner>>
  BY DEF Boot, server
<1>2. /\ flight = {} /\ (\A c \in Calls : call[c].got = 0) /\ \A t \in Token : shown[t] = 0
  BY <1>1, EmptyIs DEF Single
<1>3. CASE disk.refresh # 0
  <2>1. disk.refresh \in Token /\ disk.refresh \in DOMAIN owner /\ disk.account \in Slots
    BY <1>3 DEF Typed, DiskOK, Known
  <2>2. RefreshOnce(disk.refresh, disk.account)
    BY <1>3 DEF Boot
  <2> QED
    BY <1>1, <1>2, <1>3, <2>1, <2>2, SinglePresents
<1>4. CASE disk.refresh = 0
  <2>1. UNCHANGED <<flight, shown>>
    BY <1>4 DEF Boot
  <2> QED
    BY <1>1, <1>2, <1>4, <2>1, SingleKeeps
<1> QED
  BY <1>3, <1>4

LEMMA SingleCrash ==
    ASSUME Typed, Single, Crash
    PROVE  Single'
<1>1. /\ ~booted' /\ store' = SignedOut /\ flight' = {} /\ call' = [c \in Calls |-> Idle]
      /\ shown' = [t \in Token |-> 0]
  BY DEF Crash
<1>2. (\A c \in Calls : call'[c] = Idle /\ call'[c].got = 0) /\ \A t \in Token : shown'[t] = 0
  BY <1>1, EmptyIs
<1>3. store'.refresh = 0
  BY <1>1, EmptyIs
<1>4. Apart'
  BY <1>1, <1>2 DEF Apart
<1> QED
  BY <1>1, <1>2, <1>3, <1>4 DEF Single, Fresh

LEMMA SingleRotate ==
    ASSUME Typed, Single, NEW f \in flight, Rotate(f)
    PROVE  Single'
<1>1. UNCHANGED <<store, booted, call, shown>>
  BY DEF Rotate
<1>2. booted /\ \A g \in flight : g = f
  BY DEF Single
<1>3. CASE LET t == Len(owner) + 1  g == [f EXCEPT !.pc = "ok", !.got = t] IN
           /\ Len(owner) < MaxTokens /\ f.token \in DOMAIN owner
           /\ owner' = Append(owner, owner[f.token])
           /\ live' \subseteq live \cup {t}
           /\ flight' = (flight \ {f}) \cup {g}
           /\ g.token = f.token /\ g.by = f.by /\ g.pc = "ok" /\ g.got = t
  <2>1. PICK t : t = Len(owner) + 1
    OBVIOUS
  <2>2. PICK g : flight' = (flight \ {f}) \cup {g} /\ g.got = t
    BY <1>3, <2>1
  <2>3. owner[f.token] \in Accounts /\ named' = named
    BY <1>3 DEF Typed, ServerOK, Rotate
  <2>4. Known' = Known \cup {t} /\ t \in Token /\ t # 0 /\ t \notin Known
       /\ DOMAIN owner' = DOMAIN owner \cup {t}
    BY <1>3, <2>1, <2>3, IssuedIs
  <2>5. shown[t] = 0 /\ DOMAIN owner \subseteq DOMAIN owner'
    BY <2>4 DEF Known, Single
  <2>6. flight' = {g}
    BY <1>2, <2>2
  <2>7. (\A u \in Token : shown[u] <= 1 /\ (shown[u] # 0 => u \in DOMAIN owner))'
    BY <1>1, <2>5 DEF Single
  <2>8. Apart'
    BY <1>1, <2>2, <2>4, <2>6, HeldIs DEF Single, Apart
  <2> QED
    BY <1>1, <1>2, <2>2, <2>5, <2>6, <2>7, <2>8 DEF Single, Fresh
<1>4. CASE LET g == [f EXCEPT !.pc = "failed"] IN
           /\ UNCHANGED <<owner, live>>
           /\ flight' = (flight \ {f}) \cup {g} /\ FlightOK(g, Known)
           /\ g.token = f.token /\ g.by = f.by /\ g.pc = "failed" /\ g.got = f.got
  <2>1. PICK g : flight' = (flight \ {f}) \cup {g} /\ g.got = f.got
    BY <1>4
  <2>2. flight' = {g}
    BY <1>2, <2>1
  <2> QED
    BY <1>1, <1>2, <1>4, <2>1, <2>2, SingleKeeps
<1> QED
  BY <1>3, <1>4, RotateIs

LEMMA SingleLoses ==
    ASSUME Typed, Single, NEW f \in flight, LoseRefresh(f)
    PROVE  Single'
<1>1. UNCHANGED <<owner, store, booted, call, shown>>
  BY DEF LoseRefresh, server
<1>2. booted /\ \A g \in flight : g = f
  BY DEF Single
<1>3. PICK g : flight' = (flight \ {f}) \cup {g} /\ g.got = f.got
  BY TypedLoseRefresh
<1>4. flight' = {g}
  BY <1>2, <1>3
<1> QED
  BY <1>1, <1>2, <1>3, <1>4, SingleKeeps

LEMMA SingleAnswered ==
    ASSUME Typed, Single, NEW f \in flight, RefreshAnswered(f)
    PROVE  Single'
<1>1. UNCHANGED <<owner, booted, shown>> /\ flight' = flight \ {f}
  BY DEF RefreshAnswered, server
<1>2. booted /\ flight' = {}
  BY <1>1 DEF Single
<1>3. f.got \in Token /\ f.got \in Known /\ owner[f.got] \in Accounts /\ f.got # 0
  BY AnsweredIs DEF Known, Token
<1>4. PICK n : n = SetSession(store, owner[f.got], f.got)
  OBVIOUS
<1>5. store'.refresh = f.got
  BY <1>3, <1>4, AnsweredIs, SessionIs DEF Typed
<1>6. \A d \in Calls : call'[d].got \in {call[d].got, 0}
  <2>1. \A d \in Calls : Resend(f.got)[d].got = call[d].got
    BY <1>3, ResendIs
  <2> QED
    BY <2>1, AnsweredIs, EmptyIs
<1>7. Apart'
  BY <1>2, <1>3, <1>5, <1>6 DEF Single, Apart
<1>8. (flight = {} => Fresh(store.refresh))' /\ (\A c \in Calls : Fresh(call[c].got))'
  BY <1>1, <1>3, <1>5, <1>6 DEF Single, Fresh
<1> QED
  BY <1>1, <1>2, <1>7, <1>8 DEF Single

\* The session is over, or the refresh of it is.
LEMMA SingleClears ==
    ASSUME Typed, Single, booted', UNCHANGED <<owner, shown>>, store'.refresh = 0,
           \A d \in Calls : call'[d] = call[d] \/ call'[d] = Idle, flight' \subseteq flight
    PROVE  Single'
<1>1. \A d \in Calls : call'[d].got \in {call[d].got, 0}
  BY EmptyIs
<1>2. \A f, g \in flight' : f = g
  BY DEF Single
<1> QED
  BY <1>1, <1>2, SingleKeeps

LEMMA SingleRefreshFailed ==
    ASSUME Typed, Single, NEW f \in flight, RefreshFailed(f)
    PROVE  Single'
<1>1. UNCHANGED <<owner, booted, shown>> /\ flight' \subseteq flight
  BY DEF RefreshFailed, server
<1>2. booted
  BY DEF Single
<1>3. store'.refresh = 0 /\ \A d \in Calls : call'[d] = call[d] \/ call'[d] = Idle
  BY FailedIs, ClearIs, EmptyIs
<1> QED
  BY <1>1, <1>2, <1>3, SingleClears

\* A request that is under way belongs to a running app.
LEMMA BusyIs ==
    ASSUME Single, NEW c \in Calls, call[c].pc # "idle"
    PROVE  booted
  BY EmptyIs DEF Single

LEMMA SingleServe ==
    ASSUME Typed, Single, NEW c \in Calls, Serve(c)
    PROVE  Single'
<1>1. UNCHANGED <<store, booted, flight, shown>> /\ call[c].pc = "sent"
  BY DEF Serve
<1>2. booted
  BY <1>1, BusyIs
<1>3. PICK r \in Request :
              /\ call' = [call EXCEPT ![c] = r]
              /\ r.by = call[c].by /\ r.kind = call[c].kind /\ r.as = call[c].as
              /\ \/ /\ owner' = Append(owner, call[c].as) /\ Len(owner) < MaxTokens
                    /\ live' = live \cup {Len(owner) + 1} /\ named' = named
                    /\ call[c].kind \in SignIns /\ r.got = Len(owner) + 1
                    /\ r.token = call[c].token /\ r.data = call[c].data
                 \/ /\ owner' = owner /\ live' \subseteq live /\ named' \subseteq Accounts
                    /\ r.token = 0 /\ r.got = call[c].got
                    /\ \/ r.data = call[c].data
                       \/ call[c].token # 0 /\ r.data.id = owner[call[c].token]
                    /\ r.kind \in SignIns => r.pc = "unauthorized"
  BY ServeIs
<1>4. call'[c] = r /\ \A d \in Calls : d # c => call'[d] = call[d]
  BY <1>3, CallIs
<1>5. CASE /\ owner' = Append(owner, call[c].as) /\ Len(owner) < MaxTokens
           /\ live' = live \cup {Len(owner) + 1} /\ named' = named
           /\ call[c].kind \in SignIns /\ r.got = Len(owner) + 1
  <2>1. call[c].as \in Accounts
    BY <1>5 DEF Typed, CallsOK, CallOK
  <2>2. PICK t : t = Len(owner) + 1
    OBVIOUS
  <2>3. Known' = Known \cup {t} /\ t \in Token /\ t # 0 /\ t \notin Known
       /\ DOMAIN owner' = DOMAIN owner \cup {t}
    BY <1>5, <2>1, <2>2, IssuedIs
  <2>4. shown[t] = 0 /\ DOMAIN owner \subseteq DOMAIN owner'
    BY <2>3 DEF Known, Single
  <2>5. (\A u \in Token : shown[u] <= 1 /\ (shown[u] # 0 => u \in DOMAIN owner))'
    BY <1>1, <2>4 DEF Single
  <2>6. r.got = t
    BY <1>5, <2>2
  <2>7. Apart'
    BY <1>1, <1>4, <2>3, <2>6, HeldIs DEF Single, Apart
  <2>8. (\A d \in Calls : Fresh(call[d].got))'
    BY <1>1, <1>4, <2>4, <2>6 DEF Single, Fresh
  <2> QED
    BY <1>1, <1>2, <2>5, <2>7, <2>8 DEF Single, Fresh
<1>6. CASE owner' = owner /\ r.got = call[c].got
  <2>1. \A d \in Calls : call'[d].got = call[d].got
    BY <1>4, <1>6
  <2> QED
    BY <1>1, <1>2, <1>6, <2>1, SingleKeeps DEF Single
<1> QED
  BY <1>3, <1>5, <1>6

LEMMA SingleSignedIn ==
    ASSUME Typed, Single, NEW c \in Calls, SignedIn(c)
    PROVE  Single'
<1>1. UNCHANGED <<owner, booted, flight, shown>>
  BY DEF SignedIn, Receive, server
<1>2. call[c].pc = "ok" /\ call[c].got \in Token /\ store'.refresh = call[c].got /\ call[c].got # 0
  BY SignedInIs DEF Token
<1>3. booted
  BY <1>2, BusyIs
<1>4. \A d \in Calls : call'[d].got = 0 \/ (call'[d].got = call[d].got /\ d # c)
  BY TypedSignedIn, EmptyIs
<1>5. Apart'
  BY <1>1, <1>2, <1>4 DEF Single, Apart
<1>6. (flight = {} => Fresh(store.refresh))' /\ (\A d \in Calls : Fresh(call[d].got))'
      /\ (\A f \in flight : Fresh(f.got))'
  BY <1>1, <1>2, <1>4 DEF Single, Fresh
<1> QED
  BY <1>1, <1>3, <1>5, <1>6 DEF Single

LEMMA SingleRenew ==
    ASSUME Typed, Single, NEW c \in Calls, Renew(c)
    PROVE  Single'
<1>1. UNCHANGED <<owner, store, booted>> /\ RefreshOnce(store.refresh, store.account)
      /\ call[c].pc = "unauthorized"
  BY DEF Renew, server
<1>2. booted
  BY <1>1, BusyIs
<1>3. \A d \in Calls : call'[d].got = call[d].got
  BY RenewIs, CallIs
<1>4. store.refresh \in Token /\ store.refresh \in DOMAIN owner /\ store.account \in Slots /\ store.refresh # 0
  BY RenewIs DEF Known, Token
<1>5. (flight = {} => shown[store.refresh] = 0) /\ \A d \in Calls : call[d].got # store.refresh
  BY <1>4 DEF Single, Fresh, Apart
<1> QED
  BY <1>1, <1>2, <1>3, <1>4, <1>5, SinglePresents

LEMMA SingleInit == Init => Single
<1> SUFFICES ASSUME Init PROVE Single
  OBVIOUS
<1>1. flight = {} /\ store = SignedOut /\ booted = FALSE /\ call = [c \in Calls |-> Idle]
      /\ shown = [t \in Token |-> 0]
  BY DEF Init
<1>2. (\A c \in Calls : call[c] = Idle /\ call[c].got = 0) /\ (\A t \in Token : shown[t] = 0)
      /\ store.refresh = 0
  BY <1>1, EmptyIs
<1> QED
  BY <1>1, <1>2 DEF Single, Fresh, Apart

\* The steps that present nothing and issue nothing.
LEMMA SingleRest ==
    ASSUME Typed, Single, NEW c \in Calls,
           \/ SyncProfile \/ Land \/ Lose(c) \/ ProfileReceived(c) \/ SessionEnded(c) \/ Fail(c)
           \/ \E a \in Accounts, k \in SignIns : SignIn(c, a, k)
           \/ \E k \in {"edit", "logout", "delete"} : Use(c, k)
           \/ c = "me" /\ FetchMe
    PROVE  Single'
<1>1. UNCHANGED <<owner, booted, flight, shown>>
  BY DEF SyncProfile, Land, Lose, ProfileReceived, SessionEnded, Fail, Receive, SignIn, Use, FetchMe, server
<1>2. booted
  BY BusyIs DEF SyncProfile, Land, Lose, ProfileReceived, SessionEnded, Fail, Receive, SignIn, Use, FetchMe
<1>3. /\ store'.refresh \in {store.refresh, 0}
      /\ \A d \in Calls : call'[d].got \in {call[d].got, 0}
  <2>1. CASE SyncProfile
    BY <2>1, TypedSync, EmptyIs
  <2>2. CASE Land
    BY <2>2 DEF Land
  <2>3. CASE Lose(c)
    <3>1. UNCHANGED store
      BY <2>3 DEF Lose
    <3> QED
      BY <2>3, <3>1, LoseIs, CallIs
  <2>4. CASE ProfileReceived(c)
    <3>1. call' = Finished(c) /\ UNCHANGED store
      BY <2>4 DEF ProfileReceived
    <3> QED
      BY <3>1, FinishedIs, EmptyIs
  <2>5. CASE SessionEnded(c)
    <3>1. Clear(Finished(c))
      BY <2>5 DEF SessionEnded
    <3> QED
      BY <3>1, FinishedIs, ClearIs, EmptyIs
  <2>6. CASE Fail(c)
    <3>1. CASE call[c].kind = "logout"
      <4>1. Clear(Finished(c))
        BY <2>6, <3>1 DEF Fail
      <4> QED
        BY <4>1, FinishedIs, ClearIs, EmptyIs
    <3>2. CASE call[c].kind # "logout"
      <4>1. call' = Finished(c) /\ UNCHANGED store
        BY <2>6, <3>2 DEF Fail
      <4> QED
        BY <4>1, FinishedIs, EmptyIs
    <3> QED
      BY <3>1, <3>2
  <2>7. ASSUME NEW k \in {"me", "signIn", "restore", "edit", "logout", "delete"}, NEW a \in Slots,
               Send(c, k, a), k \in SignIns => a \in Accounts, UNCHANGED store
        PROVE  <1>3!1 /\ <1>3!2
    BY <2>7, SendIs
  <2>8. CASE \/ \E a \in Accounts, k \in SignIns : SignIn(c, a, k)
             \/ \E k \in {"edit", "logout", "delete"} : Use(c, k)
             \/ c = "me" /\ FetchMe
    BY <2>7, <2>8 DEF SignIn, Use, FetchMe, SignIns, Slots
  <2> QED
    BY <2>1, <2>2, <2>3, <2>4, <2>5, <2>6, <2>8
<1> QED
  BY <1>1, <1>2, <1>3, SingleKeeps DEF Single

LEMMA SingleStep == Typed /\ Single /\ [Next]_vars => Single'
<1> SUFFICES ASSUME Typed, Single, [Next]_vars PROVE Single'
  OBVIOUS
<1>1. CASE UNCHANGED vars
  BY <1>1 DEF vars, server, client, Single, Fresh, Apart
<1>2. CASE Boot \/ Crash
  BY <1>2, SingleBoot, SingleCrash
<1>3. CASE Land \/ SyncProfile \/ FetchMe
  <2>1. "me" \in Calls
    BY DEF Calls
  <2> QED
    BY <1>3, <2>1, SingleRest
<1>4. CASE Refreshing
  BY <1>4, SingleRotate, SingleLoses, SingleAnswered, SingleRefreshFailed DEF Refreshing
<1>5. ASSUME NEW c \in Calls, Handled(c) PROVE Single'
  BY <1>5, SingleServe, SingleSignedIn, SingleRenew, SingleRest DEF Handled
<1>6. ASSUME NEW c \in Mutations, NEW a \in Accounts, NEW k \in SignIns, SignIn(c, a, k) PROVE Single'
  BY <1>6, SingleRest DEF Calls
<1>7. ASSUME NEW c \in Mutations, NEW k \in {"edit", "logout", "delete"}, Use(c, k) PROVE Single'
  BY <1>7, SingleRest DEF Calls
<1> QED
  BY <1>1, <1>2, <1>3, <1>4, <1>5, <1>6, <1>7 DEF Next, SignIns

LEMMA SingleHolds == Spec => []Single
  BY TypedHolds, SingleInit, SingleStep, PTL DEF Spec

\* However many requests meet a 401 at once, and whatever signs in or restarts
\* meanwhile, no refresh token is presented twice by one process.
THEOREM RefreshesAreSingle == Spec => []TokenPresentedOnce
<1>1. Single => TokenPresentedOnce
  BY DEF Single, TokenPresentedOnce
<1> QED
  BY <1>1, SingleHolds, PTL
-----------------------------------------------------------------------------
(* Before a late answer, everything belongs to the account in the store.   *)

\* o: the owners of the tokens.
OwnStore(s, o) == /\ s.seed \in {None, s.account}
                  /\ IF s.refresh = 0 THEN s.account = None ELSE o[s.refresh] = s.account
OwnCall(r, o) == /\ r.token # 0 => o[r.token] = r.by
                 /\ r.data # None => r.data.id = r.by
                 /\ r.kind \in SignIns => r.by = None
                 /\ r.got # 0 => o[r.got] = r.as
OwnFlight(f, o) == /\ o[f.token] = f.by
                   /\ f.got # 0 => o[f.got] = f.by
OwnCache(k) == \A a \in Slots : k[a] # None => k[a].id = a

Own == ~late => /\ OwnStore(store, owner) /\ OwnStore(disk, owner) /\ OwnCache(cache)
                /\ \A c \in Calls : OwnCall(call[c], owner)
                /\ \A f \in flight : OwnFlight(f, owner)

LEMMA OwnEmpty ==
    /\ \A o : OwnStore(SignedOut, o) /\ OwnStore(Persisted(SignedOut), o) /\ OwnCall(Idle, o)
    /\ OwnCache(Empty)
<1>1. \A o : OwnStore(SignedOut, o) /\ OwnCall(Idle, o)
  BY EmptyIs DEF OwnStore, OwnCall, SignIns
<1>2. \A o : OwnStore(Persisted(SignedOut), o)
  BY <1>1 DEF OwnStore, Persisted
<1>3. OwnCache(Empty)
  BY EmptyIs DEF OwnCache
<1> QED
  BY <1>1, <1>2, <1>3

\* What was issued stays issued.
LEMMA OwnGrows ==
    ASSUME NEW o, NEW T, \A u \in T : u = 0 \/ o[u] = owner[u]
    PROVE  /\ \A s : StoreOK(s, T) /\ OwnStore(s, owner) => OwnStore(s, o)
           /\ \A s : DiskOK(s, T) /\ OwnStore(s, owner) => OwnStore(s, o)
           /\ \A r : CallOK(r, T) /\ OwnCall(r, owner) => OwnCall(r, o)
           /\ \A f : FlightOK(f, T) /\ 0 \notin Token /\ OwnFlight(f, owner) => OwnFlight(f, o)
<1>1. \A s : StoreOK(s, T) /\ OwnStore(s, owner) => OwnStore(s, o)
  BY DEF StoreOK, OwnStore
<1>2. \A s : DiskOK(s, T) /\ OwnStore(s, owner) => OwnStore(s, o)
  BY DEF DiskOK, OwnStore
<1>3. \A r : CallOK(r, T) /\ OwnCall(r, owner) => OwnCall(r, o)
  BY DEF CallOK, OwnCall
<1>4. \A f : FlightOK(f, T) /\ 0 \notin Token /\ OwnFlight(f, owner) => OwnFlight(f, o)
  BY DEF FlightOK, Flight, OwnFlight
<1> QED
  BY <1>1, <1>2, <1>3, <1>4

\* The owners stay as they are.
LEMMA OwnKeeps ==
    ASSUME Own, owner' = owner, late' = late,
           ~late => /\ OwnStore(store', owner) /\ OwnStore(disk', owner) /\ OwnCache(cache')
                    /\ \A c \in Calls : OwnCall(call'[c], owner)
                    /\ \A f \in flight' : OwnFlight(f, owner)
    PROVE  Own'
  BY DEF Own

LEMMA OwnPresents ==
    ASSUME Own, ~late, NEW t \in Token, NEW by \in Slots, owner[t] = by, RefreshOnce(t, by)
    PROVE  \A f \in flight' : OwnFlight(f, owner)
<1>1. PICK f : f = [token |-> t, by |-> by, pc |-> "sent", got |-> 0]
  OBVIOUS
<1>2. OwnFlight(f, owner)
  BY <1>1 DEF OwnFlight
<1>3. flight' = {f} \/ flight' = flight
  BY <1>1 DEF RefreshOnce
<1> QED
  BY <1>2, <1>3 DEF Own

LEMMA OwnBoot ==
    ASSUME Typed, Own, Boot
    PROVE  Own'
<1>1. /\ UNCHANGED <<owner, late, disk, cache, call>>
      /\ store'.account = disk.account /\ store'.refresh = disk.refresh /\ store'.seed = disk.seed
  BY DEF Boot, server
<1>2. ASSUME ~late PROVE OwnStore(store', owner)
  BY <1>1, <1>2 DEF Own, OwnStore
<1>3. ASSUME ~late PROVE \A f \in flight' : OwnFlight(f, owner)
  <2>1. CASE disk.refresh # 0
    <3>1. disk.refresh \in Token /\ disk.account \in Slots
      BY <2>1 DEF Typed, DiskOK
    <3>2. owner[disk.refresh] = disk.account /\ RefreshOnce(disk.refresh, disk.account)
      BY <1>3, <2>1 DEF Own, OwnStore, Boot
    <3> QED
      BY <1>3, <3>1, <3>2, OwnPresents
  <2>2. CASE disk.refresh = 0
    <3>1. flight' = flight
      BY <2>2 DEF Boot
    <3> QED
      BY <1>3, <3>1 DEF Own
  <2> QED
    BY <2>1, <2>2
<1> QED
  BY <1>1, <1>2, <1>3, OwnKeeps DEF Own

LEMMA OwnCrash ==
    ASSUME Typed, Own, Crash
    PROVE  Own'
<1>1. /\ store' = SignedOut /\ cache' = Empty /\ flight' = {} /\ UNCHANGED <<owner, disk, late>>
      /\ call' = [c \in Calls |-> Idle]
  BY DEF Crash, server
<1>2. \A c \in Calls : OwnCall(call'[c], owner)
  BY <1>1, OwnEmpty
<1>3. OwnStore(store', owner) /\ OwnCache(cache')
  BY <1>1, OwnEmpty
<1> QED
  BY <1>1, <1>2, <1>3, OwnKeeps DEF Own

\* useMe shows the profile of the account in the store.
LEMMA OwnSync ==
    ASSUME Typed, Own, SyncProfile
    PROVE  Own'
<1>1. UNCHANGED <<owner, disk, cache, flight, late>>
  BY DEF SyncProfile, server
<1>2. ASSUME ~late PROVE \A c \in Calls : OwnCall(call'[c], owner)
  BY <1>2, TypedSync, OwnEmpty DEF Own
<1>3. ASSUME ~late PROVE OwnStore(store', owner)
  <2>1. CASE Data = None
    <3>1. UNCHANGED store
      BY <2>1 DEF SyncProfile
    <3> QED
      BY <1>3, <3>1 DEF Own
  <2>2. CASE Data # None
    <3>1. store \in Store /\ store.account \in Slots
      BY DEF Typed, StoreOK, Store
    <3>2. PICK seed : seed = IF Data.hasName THEN Data.id ELSE None
      OBVIOUS
    <3>3. PICK a : a = Data.id
      OBVIOUS
    <3>4. store' = [store EXCEPT !.account = a, !.seed = seed]
      BY <2>2, <3>2, <3>3 DEF SyncProfile, SetStore
    <3>5. store'.account = a /\ store'.seed = seed /\ store'.refresh = store.refresh
      BY <3>1, <3>4 DEF Store
    <3>6. cache[store.account] # None => cache[store.account].id = store.account
      BY <1>3, <3>1 DEF Own, OwnCache
    <3>7. a = store.account
      BY <2>2, <3>3, <3>6 DEF Data
    <3>8. seed \in {None, a}
      BY <3>2, <3>3
    <3> QED
      BY <1>3, <3>5, <3>7, <3>8 DEF Own, OwnStore
  <2> QED
    BY <2>1, <2>2
<1> QED
  BY <1>1, <1>2, <1>3, OwnKeeps DEF Own

LEMMA OwnLand ==
    ASSUME Typed, Own, Land
    PROVE  Own'
<1>1. disk' = Persisted(store) /\ UNCHANGED <<owner, store, cache, call, flight, late>>
  BY DEF Land, server
<1>2. ~late => OwnStore(disk', owner)
  BY <1>1, PersistedIs DEF Own, OwnStore, Typed
<1> QED
  BY <1>1, <1>2, OwnKeeps DEF Own

LEMMA OwnRotate ==
    ASSUME Typed, Own, NEW f \in flight, Rotate(f)
    PROVE  Own'
<1>1. UNCHANGED <<named, store, disk, cache, call, late>>
  BY DEF Rotate
<1>2. CASE LET t == Len(owner) + 1  g == [f EXCEPT !.pc = "ok", !.got = t] IN
           /\ Len(owner) < MaxTokens /\ f.token \in DOMAIN owner
           /\ owner' = Append(owner, owner[f.token])
           /\ live' \subseteq live \cup {t}
           /\ flight' = (flight \ {f}) \cup {g}
           /\ g.token = f.token /\ g.by = f.by /\ g.pc = "ok" /\ g.got = t
  <2>1. PICK t : t = Len(owner) + 1
    OBVIOUS
  <2>2. PICK g : flight' = (flight \ {f}) \cup {g} /\ g.token = f.token /\ g.by = f.by /\ g.got = t
    BY <1>2, <2>1
  <2>3. owner[f.token] \in Accounts
    BY <1>2 DEF Typed, ServerOK
  <2>4. owner'[t] = owner[f.token] /\ \A u \in DOMAIN owner : owner'[u] = owner[u]
    BY <1>1, <1>2, <2>1, <2>3, IssuedIs
  <2>5. \A u \in Known : u = 0 \/ owner'[u] = owner[u]
    BY <2>4 DEF Known
  <2>6. 0 \notin Token
    BY DEF Token
  <2>7. PICK o : o = owner'
    OBVIOUS
  <2>8. ASSUME ~late
        PROVE  /\ OwnStore(store, o) /\ OwnStore(disk, o) /\ \A c \in Calls : OwnCall(call[c], o)
               /\ \A h \in flight : OwnFlight(h, o)
    BY <2>5, <2>6, <2>7, <2>8, OwnGrows DEF Own, Typed, CallsOK
  <2>9. ASSUME ~late PROVE OwnFlight(g, o)
    BY <2>2, <2>4, <2>7, <2>9, <1>2 DEF Own, OwnFlight
  <2> QED
    BY <1>1, <2>2, <2>7, <2>8, <2>9 DEF Own
<1>3. CASE LET g == [f EXCEPT !.pc = "failed"] IN
           /\ UNCHANGED <<owner, live>>
           /\ flight' = (flight \ {f}) \cup {g} /\ FlightOK(g, Known)
           /\ g.token = f.token /\ g.by = f.by /\ g.pc = "failed" /\ g.got = f.got
  <2>1. PICK g : /\ flight' = (flight \ {f}) \cup {g}
                 /\ g.token = f.token /\ g.by = f.by /\ g.got = f.got
    BY <1>3
  <2>2. ~late => OwnFlight(g, owner)
    BY <2>1 DEF Own, OwnFlight
  <2> QED
    BY <1>1, <1>3, <2>1, <2>2, OwnKeeps DEF Own
<1> QED
  BY <1>2, <1>3, RotateIs

LEMMA OwnLoses ==
    ASSUME Typed, Own, NEW f \in flight, LoseRefresh(f)
    PROVE  Own'
<1>1. UNCHANGED <<owner, store, disk, cache, call, late>>
  BY DEF LoseRefresh, server
<1>2. PICK g : flight' = (flight \ {f}) \cup {g} /\ g.token = f.token /\ g.by = f.by /\ g.got = f.got
  BY TypedLoseRefresh
<1>3. ~late => OwnFlight(g, owner)
  BY <1>2 DEF Own, OwnFlight
<1> QED
  BY <1>1, <1>2, <1>3, OwnKeeps DEF Own

\* Unless the answer is late, the session stays that of its account.
LEMMA OwnAnswered ==
    ASSUME Typed, Own, NEW f \in flight, RefreshAnswered(f)
    PROVE  Own'
<1>1. UNCHANGED <<owner, disk, cache>> /\ flight' = flight \ {f}
  BY DEF RefreshAnswered, server
<1> SUFFICES ASSUME ~late' PROVE Own'
  BY DEF Own
<1>2. /\ ~late /\ f.by = store.account
      /\ \A c \in Calls : call[c].pc = "waiting" => call[c].by = store.account
  BY DEF RefreshAnswered, Typed, CountsOK
<1>3. /\ f.got \in Token /\ f.got \in Known /\ f.got # 0 /\ owner[f.got] \in Accounts
      /\ store' = SetSession(store, owner[f.got], f.got)
      /\ \A d \in Calls : call'[d] = Resend(f.got)[d] \/ call'[d] = Idle
  BY AnsweredIs DEF Known, Token
<1>4. owner[f.got] = store.account
  BY <1>2, <1>3 DEF Own, OwnFlight
<1>5. PICK n : n = SetSession(store, owner[f.got], f.got)
  OBVIOUS
<1>6. n.account = store.account /\ n.refresh = f.got /\ n.seed = store.seed
  BY <1>3, <1>4, <1>5, SessionIs DEF Typed
<1>7. OwnStore(store', owner)
  BY <1>2, <1>3, <1>4, <1>5, <1>6 DEF Own, OwnStore
<1>8. ASSUME NEW d \in Calls PROVE OwnCall(call'[d], owner)
  <2>1. PICK r : r = Resend(f.got)[d]
    OBVIOUS
  <2>2. /\ r.got = call[d].got /\ r.by = call[d].by /\ r.data = call[d].data
        /\ r.kind = call[d].kind /\ r.as = call[d].as
        /\ r = call[d] \/ (r.token = f.got /\ call[d].pc = "waiting")
    BY <1>3, <2>1, ResendIs
  <2>3. OwnCall(call[d], owner)
    BY <1>2 DEF Own
  <2>4. OwnCall(r, owner)
    BY <1>2, <1>4, <2>2, <2>3 DEF OwnCall
  <2> QED
    BY <1>3, <2>1, <2>4, OwnEmpty
<1> QED
  BY <1>1, <1>2, <1>7, <1>8 DEF Own

\* Nothing is left to belong to anyone.
LEMMA OwnCleared ==
    ASSUME Typed, Own, NEW calls \in [Calls -> Request], Clear(calls),
           \A d \in Calls : calls[d] = call[d] \/ calls[d] = Idle,
           UNCHANGED <<owner, disk>>, flight' \subseteq flight, late => late'
    PROVE  Own'
<1>1. store' = SignedOut /\ cache' = Empty /\ \A d \in Calls : call'[d] = call[d] \/ call'[d] = Idle
  BY ClearIs
<1>2. OwnStore(store', owner) /\ OwnCache(cache')
  BY <1>1, OwnEmpty
<1>3. ~late => \A d \in Calls : OwnCall(call'[d], owner)
  BY <1>1, OwnEmpty DEF Own
<1> QED
  BY <1>2, <1>3 DEF Own

LEMMA OwnRefreshFailed ==
    ASSUME Typed, Own, NEW f \in flight, RefreshFailed(f)
    PROVE  Own'
<1>1. UNCHANGED <<owner, disk, late>> /\ flight' \subseteq flight
  BY DEF RefreshFailed, server
<1> QED
  BY <1>1, FailedIs, OwnCleared

\* The requests change, and nothing else that is somebody's.
LEMMA OwnCalls ==
    ASSUME Typed, Own, UNCHANGED <<owner, store, disk, cache, flight, late>>, NEW c \in Calls,
           \A d \in Calls : d # c => call'[d] = call[d], ~late => OwnCall(call'[c], owner)
    PROVE  Own'
<1>1. ~late => \A d \in Calls : OwnCall(call'[d], owner)
  BY DEF Own
<1> QED
  BY <1>1, OwnKeeps DEF Own

LEMMA OwnSend ==
    ASSUME Typed, Own, NEW c \in Calls,
           \/ \E a \in Accounts, k \in SignIns : SignIn(c, a, k)
           \/ \E k \in {"edit", "logout", "delete"} : Use(c, k)
           \/ c = "me" /\ FetchMe
    PROVE  Own'
<1>1. PICK k \in {"me", "signIn", "restore", "edit", "logout", "delete"} :
         \E a \in Slots : /\ Send(c, k, a) /\ (k \in SignIns => a \in Accounts)
                          /\ (k \in SignIns => ~store.isAuthenticated)
  BY DEF SignIn, Use, FetchMe, SignIns, Slots
<1>2. PICK a \in Slots : /\ Send(c, k, a) /\ (k \in SignIns => a \in Accounts)
                         /\ (k \in SignIns => ~store.isAuthenticated)
  BY <1>1
<1>3. UNCHANGED <<owner, store, disk, cache, flight, late>>
  BY DEF SignIn, Use, FetchMe, server
<1>4. /\ \A d \in Calls : d # c => call'[d] = call[d]
      /\ call'[c].kind = k /\ call'[c].got = 0 /\ call'[c].data = None
      /\ call'[c].by = store.account /\ call'[c].token = store.access /\ call'[c].as = a
  BY <1>2, SendIs
<1>5. /\ store.access \in {0, store.refresh} /\ store.isAuthenticated = (store.refresh # 0)
  BY DEF Typed, StoreOK
<1>6. ~late => OwnCall(call'[c], owner)
  BY <1>2, <1>4, <1>5 DEF Own, OwnStore, OwnCall
<1> QED
  BY <1>3, <1>4, <1>6, OwnCalls

LEMMA OwnServe ==
    ASSUME Typed, Own, NEW c \in Calls, Serve(c)
    PROVE  Own'
<1>1. UNCHANGED <<store, disk, cache, flight, late>>
  BY DEF Serve
<1>2. PICK r \in Request :
              /\ call' = [call EXCEPT ![c] = r]
              /\ r.by = call[c].by /\ r.kind = call[c].kind /\ r.as = call[c].as
              /\ \/ /\ owner' = Append(owner, call[c].as) /\ Len(owner) < MaxTokens
                    /\ live' = live \cup {Len(owner) + 1} /\ named' = named
                    /\ call[c].kind \in SignIns /\ r.got = Len(owner) + 1
                    /\ r.token = call[c].token /\ r.data = call[c].data
                 \/ /\ owner' = owner /\ live' \subseteq live /\ named' \subseteq Accounts
                    /\ r.token = 0 /\ r.got = call[c].got
                    /\ \/ r.data = call[c].data
                       \/ call[c].token # 0 /\ r.data.id = owner[call[c].token]
                    /\ r.kind \in SignIns => r.pc = "unauthorized"
  BY ServeIs
<1>3. call'[c] = r /\ \A d \in Calls : d # c => call'[d] = call[d]
  BY <1>2, CallIs
<1>4. CallOK(call[c], Known)
  BY DEF Typed, CallsOK
<1>5. CASE /\ owner' = Append(owner, call[c].as) /\ Len(owner) < MaxTokens
           /\ live' = live \cup {Len(owner) + 1} /\ named' = named
           /\ call[c].kind \in SignIns /\ r.got = Len(owner) + 1
           /\ r.token = call[c].token /\ r.data = call[c].data
  <2>1. call[c].as \in Accounts
    BY <1>4, <1>5 DEF CallOK
  <2>2. PICK t : t = Len(owner) + 1
    OBVIOUS
  <2>3. owner'[t] = call[c].as /\ \A u \in DOMAIN owner : owner'[u] = owner[u]
    BY <1>5, <2>1, <2>2, IssuedIs
  <2>4. \A u \in Known : u = 0 \/ owner'[u] = owner[u]
    BY <2>3 DEF Known
  <2>5. 0 \notin Token
    BY DEF Token
  <2>6. PICK o : o = owner'
    OBVIOUS
  <2>7. ASSUME ~late
        PROVE  /\ OwnStore(store, o) /\ OwnStore(disk, o) /\ \A d \in Calls : OwnCall(call[d], o)
               /\ \A f \in flight : OwnFlight(f, o)
    BY <2>4, <2>5, <2>6, <2>7, OwnGrows DEF Own, Typed, CallsOK
  <2>8. ASSUME ~late PROVE OwnCall(r, o)
    BY <1>2, <1>5, <2>2, <2>3, <2>6, <2>7, <2>8 DEF OwnCall
  <2>9. ~late => \A d \in Calls : OwnCall(call'[d], o)
    BY <1>3, <2>7, <2>8
  <2> QED
    BY <1>1, <2>6, <2>7, <2>9 DEF Own
<1>6. CASE /\ owner' = owner /\ r.token = 0 /\ r.got = call[c].got
           /\ \/ r.data = call[c].data
              \/ call[c].token # 0 /\ r.data.id = owner[call[c].token]
  <2>1. ~late => OwnCall(call[c], owner)
    BY DEF Own
  <2>2. ~late => OwnCall(call'[c], owner)
    BY <1>2, <1>3, <1>6, <2>1 DEF OwnCall
  <2> QED
    BY <1>1, <1>3, <1>6, <2>2, OwnCalls
<1> QED
  BY <1>2, <1>5, <1>6

LEMMA OwnLose ==
    ASSUME Typed, Own, NEW c \in Calls, Lose(c)
    PROVE  Own'
<1>1. UNCHANGED <<owner, store, disk, cache, flight, late>>
  BY DEF Lose, server
<1>2. /\ call'[c].by = call[c].by /\ call'[c].kind = call[c].kind
      /\ call'[c].token = 0 /\ call'[c].data = None /\ call'[c].got = 0
      /\ \A d \in Calls : d # c => call'[d] = call[d]
  BY LoseIs, CallIs
<1>3. ~late => OwnCall(call'[c], owner)
  BY <1>2 DEF Own, OwnCall
<1> QED
  BY <1>1, <1>2, <1>3, OwnCalls

\* A sign-in was made by an app that was signed out, and finds it so.
LEMMA OwnSignedIn ==
    ASSUME Typed, Own, NEW c \in Calls, SignedIn(c)
    PROVE  Own'
<1>1. UNCHANGED <<owner, flight, cache>> /\ late' = (late \/ call[c].by # store.account)
  BY DEF SignedIn, Receive, server
<1> SUFFICES ASSUME ~late' PROVE Own'
  BY DEF Own
<1>2. ~late /\ call[c].by = store.account
  BY <1>1 DEF Typed, CountsOK
<1>3. PICK s, n : /\ StoreOK(n, Known) /\ store' = s
                  /\ n.account = call[c].as /\ n.refresh = call[c].got /\ n.seed = store.seed
                  /\ s.account = n.account /\ s.refresh = n.refresh
                  /\ s.seed = None \/ s.seed = store.seed
                  /\ disk' \in {disk, Persisted(n)}
                  /\ call[c].kind \in SignIns /\ call[c].got \in Token
  BY SignedInIs
<1>4. OwnCall(call[c], owner) /\ call[c].got # 0
  BY <1>2, <1>3 DEF Own, Token
<1>5. store.account = None /\ store.seed = None /\ owner[call[c].got] = call[c].as
  BY <1>2, <1>3, <1>4 DEF Own, OwnCall, OwnStore
<1>6. OwnStore(store', owner)
  BY <1>3, <1>4, <1>5 DEF OwnStore
<1>7. OwnStore(Persisted(n), owner)
  BY <1>3, <1>4, <1>5, PersistedIs DEF OwnStore
<1>8. OwnStore(disk', owner)
  BY <1>2, <1>3, <1>7 DEF Own
<1>9. \A d \in Calls : OwnCall(call'[d], owner)
  BY <1>2, TypedSignedIn, OwnEmpty DEF Own
<1> QED
  BY <1>1, <1>2, <1>6, <1>8, <1>9 DEF Own

LEMMA OwnProfile ==
    ASSUME Typed, Own, NEW c \in Calls, ProfileReceived(c)
    PROVE  Own'
<1>1. UNCHANGED <<owner, store, disk, flight>> /\ late' = (late \/ call[c].by # store.account)
      /\ cache' = [cache EXCEPT ![store.account] = call[c].data] /\ call' = Finished(c)
  BY DEF ProfileReceived, Receive, server, SlotOf
<1> SUFFICES ASSUME ~late' PROVE Own'
  BY DEF Own
<1>2. ~late /\ call[c].by = store.account
  BY <1>1 DEF Typed, CountsOK
<1>3. call[c].data # None => call[c].data.id = store.account
  BY <1>2 DEF Own, OwnCall
<1>4. cache \in [Slots -> Profile \cup {None}] /\ store.account \in Slots
  BY DEF Typed, CacheOK, StoreOK, Store
<1>5. OwnCache(cache')
  BY <1>1, <1>2, <1>3, <1>4 DEF Own, OwnCache
<1>6. \A d \in Calls : OwnCall(call'[d], owner)
  BY <1>1, <1>2, FinishedIs, OwnEmpty DEF Own
<1> QED
  BY <1>1, <1>2, <1>5, <1>6 DEF Own

LEMMA OwnEnded ==
    ASSUME Typed, Own, NEW c \in Calls, SessionEnded(c)
    PROVE  Own'
<1>1. UNCHANGED <<owner, disk, flight>> /\ (late => late') /\ Clear(Finished(c))
  BY DEF SessionEnded, Receive, server
<1>2. /\ Finished(c) \in [Calls -> Request]
      /\ \A d \in Calls : Finished(c)[d] = call[d] \/ Finished(c)[d] = Idle
  BY FinishedIs
<1> QED
  BY <1>1, <1>2, OwnCleared

LEMMA OwnRenew ==
    ASSUME Typed, Own, NEW c \in Calls, Renew(c)
    PROVE  Own'
<1>1. UNCHANGED <<owner, store, disk, cache, late>> /\ RefreshOnce(store.refresh, store.account)
      /\ store.refresh # 0
  BY DEF Renew, server
<1>2. store.refresh \in Token /\ store.account \in Slots
  BY RenewIs
<1>3. ~late => \A f \in flight' : OwnFlight(f, owner)
  BY <1>1, <1>2, OwnPresents DEF Own, OwnStore
<1>4. PICK r \in Request :
         /\ call' = [call EXCEPT ![c] = r]
         /\ r.by = call[c].by /\ r.kind = call[c].kind /\ r.as = call[c].as
         /\ r.token = call[c].token /\ r.data = call[c].data /\ r.got = call[c].got
  BY RenewIs
<1>5. call'[c] = r /\ \A d \in Calls : d # c => call'[d] = call[d]
  BY <1>4, CallIs
<1>6. ~late => OwnCall(r, owner)
  BY <1>4 DEF Own, OwnCall
<1>7. ~late => \A d \in Calls : OwnCall(call'[d], owner)
  BY <1>5, <1>6 DEF Own
<1> QED
  BY <1>1, <1>3, <1>7, OwnKeeps DEF Own

LEMMA OwnFail ==
    ASSUME Typed, Own, NEW c \in Calls, Fail(c)
    PROVE  Own'
<1>1. UNCHANGED <<owner, disk, flight, late>>
  BY DEF Fail, server
<1>2. \A d \in Calls : call'[d] = Idle \/ call'[d] = call[d]
  BY TypedFail
<1>3. CASE call[c].kind = "logout"
  <2>1. Clear(Finished(c))
    BY <1>3 DEF Fail
  <2>2. /\ Finished(c) \in [Calls -> Request]
        /\ \A d \in Calls : Finished(c)[d] = call[d] \/ Finished(c)[d] = Idle
    BY FinishedIs
  <2> QED
    BY <1>1, <2>1, <2>2, OwnCleared
<1>4. CASE call[c].kind # "logout"
  <2>1. UNCHANGED <<store, cache>>
    BY <1>4 DEF Fail
  <2>2. ~late => \A d \in Calls : OwnCall(call'[d], owner)
    BY <1>2, OwnEmpty DEF Own
  <2> QED
    BY <1>1, <2>1, <2>2, OwnKeeps DEF Own
<1> QED
  BY <1>3, <1>4

LEMMA OwnInit == Init => Own
<1> SUFFICES ASSUME Init PROVE Own
  OBVIOUS
<1>1. flight = {} /\ store = SignedOut /\ disk = Persisted(SignedOut) /\ cache = Empty
      /\ call = [c \in Calls |-> Idle]
  BY DEF Init
<1>2. \A c \in Calls : OwnCall(call[c], owner)
  BY <1>1, OwnEmpty
<1> QED
  BY <1>1, <1>2, OwnEmpty DEF Own

LEMMA OwnStep == Typed /\ Own /\ [Next]_vars => Own'
<1> SUFFICES ASSUME Typed, Own, [Next]_vars PROVE Own'
  OBVIOUS
<1>1. CASE UNCHANGED vars
  BY <1>1 DEF vars, server, client, Own
<1>2. CASE Boot \/ Crash \/ Land \/ SyncProfile
  BY <1>2, OwnBoot, OwnCrash, OwnLand, OwnSync
<1>3. CASE FetchMe
  <2>1. "me" \in Calls
    BY DEF Calls
  <2> QED
    BY <1>3, <2>1, OwnSend
<1>4. CASE Refreshing
  BY <1>4, OwnRotate, OwnLoses, OwnAnswered, OwnRefreshFailed DEF Refreshing
<1>5. ASSUME NEW c \in Calls, Handled(c) PROVE Own'
  BY <1>5, OwnServe, OwnLose, OwnSignedIn, OwnProfile, OwnEnded, OwnRenew, OwnFail DEF Handled
<1>6. ASSUME NEW c \in Mutations, NEW a \in Accounts, NEW k \in SignIns, SignIn(c, a, k) PROVE Own'
  BY <1>6, OwnSend DEF Calls
<1>7. ASSUME NEW c \in Mutations, NEW k \in {"edit", "logout", "delete"}, Use(c, k) PROVE Own'
  BY <1>7, OwnSend DEF Calls
<1> QED
  BY <1>1, <1>2, <1>3, <1>4, <1>5, <1>6, <1>7 DEF Next, SignIns

LEMMA OwnHolds == Spec => []Own
  BY TypedHolds, OwnInit, OwnStep, PTL DEF Spec

\* Until an answer arrives, or a request is made again, under another account than
\* its own, the app shows and stores for each account that account's data only.
THEOREM DataStaysWithItsAccount == Spec => []OwnDataUntilALateAnswer
<1>1. Own => OwnDataUntilALateAnswer
  BY DEF Own, OwnStore, OwnCache, OwnDataUntilALateAnswer
<1> QED
  BY <1>1, OwnHolds, PTL
=============================================================================
