----------------------------- MODULE Throttling -----------------------------
(***************************************************************************)
(* Rate limits of the HTTP interface.  Every bucket of ThrottlerModule     *)
(* counts the requests of every route with a throttler guard, unless the   *)
(* route's @SkipThrottle names it.  A bucket counts by a tracker: the      *)
(* account, the address, or what the route's guard takes from the body;    *)
(* the counter belongs to one handler, one bucket and one tracker value.   *)
(*                                                                         *)
(* The counters of two handlers are apart, so a behaviour is about one.    *)
(* The script that counts is atomic, and what it does to requests at the   *)
(* same time is what it does to them in turn.                              *)
(***************************************************************************)
EXTENDS Integers, Sequences

CONSTANTS Routes,     \* the handlers looked at, a subset of AllRoutes
          Users,      \* an account, a phone or a token: whom the request is about
          Addresses,
          Nobody      \* the tracker of a request without req.user

VARIABLES route,
          hits,       \* hits[b, t]: requests counted in the window
          blocked,    \* the counters that are blocked
          refusedBy   \* the bucket that refused the last request, "none" if it passed

vars == <<route, hits, blocked, refusedBy>>

-----------------------------------------------------------------------------
(* The buckets, in the order of the configuration.                         *)

Bucket(name, limit, tracker) == [name |-> name, limit |-> limit, tracker |-> tracker]

DEVICE_THROTTLERS == <<Bucket("dev-list-account", 30, "user"), Bucket("dev-list-ip", 100, "ip"),
                       Bucket("dev-revoke-account", 5, "user"), Bucket("dev-revoke-ip", 20, "ip")>>
WECHAT_THROTTLERS == <<Bucket("wx-bind", 5, "user"), Bucket("wx-bind-ip", 10, "ip"),
                       Bucket("wx-unbind-code", 1, "user"), Bucket("wx-unbind-code-ip", 5, "ip"),
                       Bucket("wx-unbind", 5, "user"), Bucket("wx-unbind-ip", 10, "ip")>>

\* "guard": the bucket has no getTracker of its own.
Throttlers ==
    <<Bucket("default", 1, "guard"), Bucket("sms-phone-24h", 10, "guard"), Bucket("sms-ip-24h", 50, "ip"),
      Bucket("me-get", 60, "user"), Bucket("me-patch", 10, "user"),
      Bucket("refresh-ip", 100, "ip"), Bucket("refresh-token", 5, "body"),
      Bucket("logout-all-ip", 50, "ip"), Bucket("logout-all-account", 5, "user"),
      Bucket("del-code-account", 1, "user"), Bucket("del-code-ip", 5, "ip"),
      Bucket("del-submit-account", 5, "user"), Bucket("del-submit-ip", 10, "ip"),
      Bucket("cancel-code", 1, "guard"), Bucket("cancel-code-ip", 5, "ip"),
      Bucket("cancel-submit", 5, "guard"), Bucket("cancel-submit-ip", 10, "ip")>>
    \o DEVICE_THROTTLERS \o WECHAT_THROTTLERS

DEFAULT_BUCKET == {"default"}
SMS_CODE_BUCKETS == {"sms-phone-24h", "sms-ip-24h"}
ME_BUCKETS == {"me-get", "me-patch"}
TOKEN_BUCKETS == {"refresh-ip", "refresh-token", "logout-all-ip", "logout-all-account"}
DEL_CODE_BUCKETS == {"del-code-account", "del-code-ip"}
DEL_SUBMIT_BUCKETS == {"del-submit-account", "del-submit-ip"}
CANCEL_CODE_BUCKETS == {"cancel-code", "cancel-code-ip"}
CANCEL_SUBMIT_BUCKETS == {"cancel-submit", "cancel-submit-ip"}
\* Mutant: the group was not extended by the buckets of the first endpoint.
DELETION_BUCKETS_FORGOTTEN == DEL_SUBMIT_BUCKETS \cup CANCEL_CODE_BUCKETS \cup CANCEL_SUBMIT_BUCKETS
ALL_DELETION_BUCKETS == DEL_CODE_BUCKETS \cup DEL_SUBMIT_BUCKETS \cup CANCEL_CODE_BUCKETS
                        \cup CANCEL_SUBMIT_BUCKETS
DEVICE_LIST_BUCKETS == {"dev-list-account", "dev-list-ip"}
DEVICE_REVOKE_BUCKETS == {"dev-revoke-account", "dev-revoke-ip"}
DEVICE_BUCKETS == DEVICE_LIST_BUCKETS \cup DEVICE_REVOKE_BUCKETS
WECHAT_BIND_BUCKETS == {"wx-bind", "wx-bind-ip"}
WECHAT_UNBIND_CODE_BUCKETS == {"wx-unbind-code", "wx-unbind-code-ip"}
WECHAT_UNBIND_BUCKETS == {"wx-unbind", "wx-unbind-ip"}
WECHAT_BUCKETS == WECHAT_BIND_BUCKETS \cup WECHAT_UNBIND_CODE_BUCKETS \cup WECHAT_UNBIND_BUCKETS

-----------------------------------------------------------------------------
(* The routes: what they skip, the guards in front of the throttler, and   *)
(* the buckets that the comments of the configuration give them (own).     *)

Others(own) == (DEFAULT_BUCKET \cup SMS_CODE_BUCKETS \cup ME_BUCKETS \cup TOKEN_BUCKETS) \ own
Route(skips, authenticated, tracker, own) ==
    [skips |-> skips, authenticated |-> authenticated, tracker |-> tracker, own |-> own]

Me(own) == Route(WECHAT_BUCKETS \cup Others(own) \cup ALL_DELETION_BUCKETS \cup DEVICE_BUCKETS,
                 TRUE, "user", own)
\* The image routes came before the WeChat buckets.
MeImage == Route(Others({"me-patch"}) \cup ALL_DELETION_BUCKETS \cup DEVICE_BUCKETS,
                 TRUE, "user", {"me-patch"})
Deletion(own) == Route(WECHAT_BUCKETS \cup Others({}) \cup DEVICE_BUCKETS \cup (ALL_DELETION_BUCKETS \ own),
                       TRUE, "user", own)
\* Public, by the hash of the phone.
CancelDeletion(own) == [Deletion(own) EXCEPT !.authenticated = FALSE, !.tracker = "body"]
Token(own, authenticated) ==
    Route(WECHAT_BUCKETS \cup Others(own) \cup ALL_DELETION_BUCKETS \cup DEVICE_BUCKETS, authenticated, "ip", own)
Devices(own) == Route(WECHAT_BUCKETS \cup Others({}) \cup ALL_DELETION_BUCKETS \cup (DEVICE_BUCKETS \ own),
                      TRUE, "ip", own)
Wechat(own) == Route(Others({}) \cup DEVICE_BUCKETS \cup ALL_DELETION_BUCKETS \cup (WECHAT_BUCKETS \ own),
                     TRUE, "user", own)
\* Public, by the phone.  The buckets of /me are not skipped.
SmsCode == Route(WECHAT_BUCKETS \cup TOKEN_BUCKETS \cup ALL_DELETION_BUCKETS \cup DEVICE_BUCKETS,
                 FALSE, "body", DEFAULT_BUCKET \cup SMS_CODE_BUCKETS)

AllRoutes ==
    [getProfile |-> Me({"me-get"}), updateDisplayName |-> Me({"me-patch"}),
     updateBio |-> Me({"me-patch"}), updateGender |-> Me({"me-patch"}),
     issueUploadCredential |-> MeImage, confirmProfileImage |-> MeImage,
     sendDeletionCodeForMe |-> Deletion(DEL_CODE_BUCKETS), submitDeletionForMe |-> Deletion(DEL_SUBMIT_BUCKETS),
     sendCancelCode |-> CancelDeletion(CANCEL_CODE_BUCKETS), cancelDeletion |-> CancelDeletion(CANCEL_SUBMIT_BUCKETS),
     refresh |-> Token({"refresh-ip", "refresh-token"}, FALSE),
     logoutAll |-> Token({"logout-all-ip", "logout-all-account"}, TRUE),
     list |-> Devices(DEVICE_LIST_BUCKETS), revoke |-> Devices(DEVICE_REVOKE_BUCKETS),
     bindWechatForMe |-> Wechat(WECHAT_BIND_BUCKETS), sendUnbindCodeForMe |-> Wechat(WECHAT_UNBIND_CODE_BUCKETS),
     unbindWechatForMe |-> Wechat(WECHAT_UNBIND_BUCKETS), request |-> SmsCode]

ASSUME RoutesAssumption == Routes \subseteq DOMAIN AllRoutes

-----------------------------------------------------------------------------
(* Counting.                                                               *)

\* The positions of the buckets that count the requests of the route.
Applied == {i \in DOMAIN Throttlers : Throttlers[i].name \notin AllRoutes[route].skips}

\* getTracker of the bucket, or that of the route's guard.
Tracker(b, user, address) ==
    LET kind == IF b.tracker = "guard" THEN AllRoutes[route].tracker ELSE b.tracker IN
    CASE kind = "ip" -> address
      [] kind = "body" -> user
      [] kind = "user" -> IF AllRoutes[route].authenticated THEN user ELSE Nobody

Trackers == Users \cup Addresses \cup {Nobody}
Applies == {Throttlers[i] : i \in Applied}

TypeOK == /\ route \in Routes
          /\ hits \in [Applies \X Trackers -> Nat]
          /\ blocked \subseteq Applies \X Trackers
          /\ refusedBy \in {b.name : b \in Applies} \cup {"none"}

Init == /\ route \in Routes
        /\ hits = [k \in Applies \X Trackers |-> 0]
        /\ blocked = {} /\ refusedBy = "none"

\* The script of the storage: a request is counted, and refused when its counter is
\* blocked or over the limit, which blocks it.
Refuses(k) == k \in blocked \/ hits[k] + 1 > k[1].limit

\* ThrottlerGuard asks the buckets in turn up to the first that refuses; those before
\* it have counted the request.
Request(user, address) ==
    LET key == [i \in Applied |-> <<Throttlers[i], Tracker(Throttlers[i], user, address)>>]
        over == {i \in Applied : Refuses(key[i])}
        first == CHOOSE i \in over : \A j \in over : i <= j
        counted == {key[i] : i \in {j \in Applied : over = {} \/ j <= first}} IN
    /\ hits' = [k \in DOMAIN hits |-> IF k \in counted /\ hits[k] <= k[1].limit  \* no need to count on
                                      THEN hits[k] + 1 ELSE hits[k]]
    /\ blocked' = IF over = {} THEN blocked ELSE blocked \cup {key[first]}
    /\ refusedBy' = IF over = {} THEN "none" ELSE key[first][1].name
    /\ UNCHANGED route

WindowEnds(k) == /\ hits[k] > 0
                 /\ hits' = [hits EXCEPT ![k] = 0]
                 /\ UNCHANGED <<route, blocked, refusedBy>>

BlockEnds(k) == /\ k \in blocked
                /\ blocked' = blocked \ {k}
                /\ UNCHANGED <<route, hits, refusedBy>>

Next == \/ \E user \in Users, address \in Addresses : Request(user, address)
        \/ \E k \in DOMAIN hits : WindowEnds(k) \/ BlockEnds(k)

Spec == Init /\ [][Next]_vars
-----------------------------------------------------------------------------
(* Properties.                                                             *)

\* throttler-skip-buckets.ts: a route skips every bucket that is not its own, or it is
\* limited by mistake.  A request is refused by a bucket of its route only.
OnlyOwnBucketsRefuse == refusedBy = "none" \/ refusedBy \in AllRoutes[route].own
=============================================================================
