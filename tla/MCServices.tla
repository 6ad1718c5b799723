----------------------------- MODULE MCServices -----------------------------
(* Three services of the server that share no state with each other, checked *)
(* side by side: in a behaviour one of them runs and the others rest.        *)
EXTENDS Throttling, WechatConstants, ProfileConstants

VARIABLES part,
          status, binding, codes, request, removed,
          active, row, values, keyOf, objects, handler, flow, newest

W == INSTANCE WechatBinding
P == INSTANCE ProfileEdits

wechat == <<status, binding, codes, request, removed>>
profile == <<active, row, values, keyOf, objects, handler, flow, newest>>
services == <<part, wechat, profile, vars>>

ServicesInit == /\ part \in {"wechat", "profile", "throttle"}
                /\ W!Init /\ P!Init /\ Init
                /\ part # "throttle" => route = CHOOSE r \in Routes : TRUE

ServicesNext == /\ UNCHANGED part
                /\ \/ part = "wechat" /\ W!Next /\ UNCHANGED <<profile, vars>>
                   \/ part = "profile" /\ P!Next /\ UNCHANGED <<wechat, vars>>
                   \/ part = "throttle" /\ Next /\ UNCHANGED <<wechat, profile>>

Runs(r) == part = "profile" /\ P!Handle(r) /\ UNCHANGED <<part, wechat, vars>>
Uploads(u) == part = "profile" /\ P!Upload(u) /\ UNCHANGED <<part, wechat, vars>>

ServicesSpec == /\ ServicesInit /\ [][ServicesNext]_services
                /\ \A r \in P!Callers : WF_services(Runs(r))
                /\ \A u \in Uploaders : WF_services(Uploads(u))

ServicesTypeOK == CASE part = "wechat" -> W!TypeOK
                    [] part = "profile" -> P!TypeOK
                    [] part = "throttle" -> TypeOK
SpentCodeUnbinds == W!SpentCodeUnbinds
BindAnswerWasTrue == W!BindAnswerWasTrue
ProfileIsWhatWasSent == P!ProfileIsWhatWasSent
UploadEnds == P!UploadEnds
=============================================================================
