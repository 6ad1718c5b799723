-------------------------- MODULE AppScreensProofs --------------------------
(***************************************************************************)
(* Theorems about AppScreens: its types, and that a screen which goes back *)
(* by itself pops itself and no other.                                     *)
(*                                                                         *)
(* The latter holds because a screen with such an effect has no links: it  *)
(* is never beneath another one (BelowOK), so while it is mounted it is    *)
(* the top.  What is mounted is decided by stack' in every step, Redirect  *)
(* and the user's own ways back included.                                  *)
(***************************************************************************)
EXTENDS AppScreens, SequenceTheorems, TLAPS

Leaf == Edits \cup {"unbind"}
Modals == {"sheet", "crop", "viewer", "uploading", "error"}

SessionOK == {web, hydrated, authed, hasName, shown, fetched} \subseteq BOOLEAN
StackOK(s) == /\ s \in Seq(Routes) /\ Len(s) \in 1..MaxDepth
              /\ \A i \in 1..Len(s) - 1 : s[i] \notin Leaf
FormOK(f) == f \in Form /\ (f.timer => f.count # 0)
FormsOK(fs) == fs \in [Forms -> Form] /\ \A r \in Forms : FormOK(fs[r])
EditorOK == encoding \in BOOLEAN /\ modals \subseteq Modals

Inv == /\ SessionOK /\ StackOK(stack) /\ FormsOK(form) /\ requests \subseteq Request
       /\ EditorOK /\ strayed \subseteq {"device"}

-----------------------------------------------------------------------------
(* The stack.                                                              *)

LEMMA FrontIs ==
    ASSUME StackOK(stack)
    PROVE  /\ Front(stack) \in Seq(Routes) /\ Len(Front(stack)) = Len(stack) - 1
           /\ \A i \in 1..Len(stack) - 1 : Front(stack)[i] = stack[i]
<1>1. /\ stack \in Seq(Routes) /\ Len(stack) \in Nat /\ Len(stack) >= 1
      /\ \A i \in 1..Len(stack) - 1 : stack[i] \in Routes
  BY BoundAssumption DEF StackOK
<1>2. /\ SubSeq(stack, 1, Len(stack) - 1) \in Seq(Routes)
      /\ Len(SubSeq(stack, 1, Len(stack) - 1)) = IF 1 <= Len(stack) - 1 THEN Len(stack) - 1 - 1 + 1 ELSE 0
      /\ \A i \in 1..Len(stack) - 1 - 1 + 1 : SubSeq(stack, 1, Len(stack) - 1)[i] = stack[1 + i - 1]
  BY <1>1, SubSeqProperties
<1>3. Len(SubSeq(stack, 1, Len(stack) - 1)) = Len(stack) - 1
  <2>1. ASSUME NEW n \in Nat, n >= 1 PROVE (IF 1 <= n - 1 THEN n - 1 - 1 + 1 ELSE 0) = n - 1
    BY <2>1
  <2> QED
    BY <1>1, <1>2, <2>1
<1>4. \A i \in 1..Len(stack) - 1 : SubSeq(stack, 1, Len(stack) - 1)[i] = stack[i]
  BY <1>1, <1>2
<1> QED
  BY <1>2, <1>3, <1>4 DEF Front

LEMMA BackIs ==
    ASSUME StackOK(stack)
    PROVE  StackOK(Back)
<1>1. CASE Len(stack) > 1
  BY <1>1, FrontIs, BoundAssumption DEF StackOK, Back
<1>2. CASE ~(Len(stack) > 1)
  BY <1>2 DEF Back
<1> QED
  BY <1>1, <1>2

LEMMA ReplaceIs ==
    ASSUME StackOK(stack), NEW r \in Routes
    PROVE  StackOK(Replace(r))
<1>1. CASE Replace(r) = <<r>>
  BY <1>1, BoundAssumption DEF StackOK
<1>2. CASE Replace(r) = Append(Front(stack), r)
  <2>1. /\ Front(stack) \in Seq(Routes) /\ Len(Front(stack)) = Len(stack) - 1
        /\ \A i \in 1..Len(stack) - 1 : Front(stack)[i] = stack[i]
    BY FrontIs
  <2>2. /\ Append(Front(stack), r) \in Seq(Routes)
        /\ Len(Append(Front(stack), r)) = Len(stack)
        /\ \A i \in 1..Len(stack) - 1 : Append(Front(stack), r)[i] = stack[i]
    BY <2>1 DEF StackOK
  <2> QED
    BY <1>2, <2>2 DEF StackOK
<1> QED
  BY <1>1, <1>2 DEF Replace

LEMMA PushIs ==
    ASSUME StackOK(stack), NEW r \in Routes, Top \notin Leaf, Len(Append(stack, r)) <= MaxDepth
    PROVE  StackOK(Append(stack, r))
<1>1. \A i \in 1..Len(stack) : stack[i] \notin Leaf
  BY DEF StackOK, Top, Last
<1> QED
  BY <1>1 DEF StackOK

\* A screen with an effect that goes back is the top while it is mounted.
LEMMA MountedIsTop ==
    ASSUME StackOK(stack), NEW r \in Leaf, Mounted(r)
    PROVE  Top = r
  BY DEF StackOK, Mounted, Range, Top, Last

-----------------------------------------------------------------------------
(* The forms and the requests.                                             *)

LEMMA FreshIs == FormOK(Fresh)
  BY CountdownAssumption DEF FormOK, Fresh, Form

\* What Render makes of forms and requests.
LEMMA RenderIs ==
    ASSUME Inv, NEW fs, FormsOK(fs), NEW qs \in SUBSET Request, Render(fs, qs)
    PROVE  FormsOK(form') /\ requests' \subseteq Request /\ EditorOK'
<1>1. FormsOK(form')
  BY FreshIs DEF Render, FormsOK, FormOK
<1>2. requests' \subseteq Request
  BY DEF Render, Request
<1>3. EditorOK'
  BY DEF Render, Inv, EditorOK, editor
<1> QED
  BY <1>1, <1>2, <1>3

\* A step that renders, and leaves every type of the session as it is.
LEMMA Renders ==
    ASSUME Inv, NEW fs, FormsOK(fs), NEW qs \in SUBSET Request, Render(fs, qs),
           SessionOK', StackOK(stack'), strayed' \subseteq {"device"}
    PROVE  Inv'
<1>1. FormsOK(form') /\ requests' \subseteq Request /\ EditorOK'
  BY RenderIs
<1> QED
  BY <1>1 DEF Inv, SessionOK, StackOK, FormsOK, EditorOK

LEMMA PhaseIs ==
    ASSUME Inv, NEW q \in requests,
           NEW p \in {"idle", "sms_sent", "success", "error", "frozen", "sheet"}
    PROVE  FormsOK(Phase(q, p)) /\ Without(q) \in SUBSET Request
<1>1. q \in Request /\ q.form \in Forms /\ FormsOK(form) /\ Without(q) \in SUBSET Request
  BY DEF Inv, Request, Without
<1>2. FormOK([form[q.form] EXCEPT !.phase = p])
  BY <1>1 DEF FormsOK, FormOK, Form
<1>3. Phase(q, p) = [form EXCEPT ![q.form] = [form[q.form] EXCEPT !.phase = p]] \/ Phase(q, p) = form
  BY DEF Phase
<1> QED
  BY <1>1, <1>2, <1>3 DEF FormsOK, FormOK

LEMMA StaysSession ==
    ASSUME Inv, UNCHANGED <<web, session>>
    PROVE  SessionOK'
  BY DEF Inv, SessionOK, session

\* One form changes.
LEMMA OneForm ==
    ASSUME Inv, NEW r \in Forms, NEW f, FormOK(f), form' = [form EXCEPT ![r] = f],
           UNCHANGED <<web, session, stack, requests, editor, strayed>>
    PROVE  Inv'
<1>1. FormsOK(form')
  BY DEF Inv, FormsOK, FormOK
<1>2. SessionOK'
  BY StaysSession
<1> QED
  BY <1>1, <1>2 DEF Inv, editor, StackOK, EditorOK, FormsOK

-----------------------------------------------------------------------------
(* Steps.                                                                  *)

LEMMA InvInit == Init => Inv
<1> SUFFICES ASSUME Init PROVE Inv
  OBVIOUS
<1>1. SessionOK /\ requests \subseteq Request /\ EditorOK /\ strayed \subseteq {"device"}
  BY DEF Init, SessionOK, EditorOK
<1>2. FormsOK(form)
  BY FreshIs DEF Init, FormsOK, FormOK
<1>3. Deep \subseteq Routes
  BY DEF Deep, Links, Routes, Forms, SmsForms, AuthGroup, Edits
<1>4. StackOK(stack)
  <2>1. \A r \in Routes : StackOK(<<r>>)
    BY BoundAssumption DEF StackOK
  <2>2. {"root", "login", "cancelDeletion", "tabs"} \subseteq Routes /\ "tabs" \notin Leaf
    BY DEF Routes, Forms, SmsForms, AuthGroup, Leaf, Edits
  <2>3. \A r \in Routes : StackOK(<<"tabs", r>>)
    <3> TAKE r \in Routes
    <3>1. <<"tabs", r>> \in Seq(Routes) /\ Len(<<"tabs", r>>) = 2 /\ <<"tabs", r>>[1] = "tabs"
      BY <2>2
    <3> QED
      BY <2>2, <3>1, BoundAssumption DEF StackOK
  <2>4. \/ stack \in {<<"root">>, <<"login">>, <<"cancelDeletion">>, <<"tabs">>}
        \/ \E r \in Deep : stack = <<"tabs", r>>
    BY DEF Init
  <2> QED
    BY <1>3, <2>1, <2>2, <2>3, <2>4
<1> QED
  BY <1>1, <1>2, <1>4 DEF Inv

LEMMA GateIsARoute == {"login", "cancelDeletion", "tabs", "onboarding"} \subseteq Routes
  BY DEF Routes, Forms, SmsForms, AuthGroup

LEMMA EffectKeeps ==
    ASSUME Inv, Effects
    PROVE  Inv'
<1>0. FormsOK(form) /\ requests \in SUBSET Request /\ StackOK(stack) /\ strayed \subseteq {"device"}
  BY DEF Inv
<1>1. ASSUME NEW r \in Forms, BackOnSuccess(r) PROVE Inv'
  <2>1. r \in Leaf /\ Mounted(r) /\ stack' = Back /\ Render(form, requests) /\ UNCHANGED <<web, session>>
    BY <1>1 DEF BackOnSuccess, Leaves, Leaf
  <2>2. strayed' = strayed
    BY <1>0, <1>1, <2>1, MountedIsTop DEF BackOnSuccess
  <2> QED
    BY <1>0, <2>1, <2>2, BackIs, StaysSession, Renders
<1>2. CASE LoginOnDeletion
  BY <1>0, <1>2, GateIsARoute, ReplaceIs, StaysSession, Renders DEF LoginOnDeletion
<1>3. CASE Redirect
  BY <1>0, <1>3, ReplaceIs, StaysSession, Renders DEF Redirect
<1> QED
  BY <1>1, <1>2, <1>3 DEF Effects

\* Steps that change the session, and leave the stack as it is.
LEMMA SessionKeeps ==
    ASSUME Inv, Hydrate \/ MeSettles \/ LoseSession
    PROVE  Inv'
<1>0. FormsOK(form) /\ requests \in SUBSET Request /\ StackOK(stack) /\ strayed \subseteq {"device"}
  BY DEF Inv
<1>1. SessionOK' /\ UNCHANGED <<stack, strayed>> /\ Render(form, requests)
  BY DEF Inv, SessionOK, Hydrate, MeSettles, LoseSession, SignOut
<1> QED
  BY <1>0, <1>1, Renders

\* What the user does to the form of the top screen.
LEMMA UserKeeps ==
    ASSUME Inv, Type \/ Check \/ RequestSms \/ Dismiss \/ OpenSheet
    PROVE  Inv'
<1>1. Top \in Forms
  BY DEF Type, Check, RequestSms, Dismiss, OpenSheet, Controls, LoginScreen, Forms, SmsForms, AuthGroup, Edits,
         ProfileScreen, LoginManagementListPage
<1>2. FormOK(form[Top])
  BY <1>1 DEF Inv, FormsOK
<1>3. ASSUME NEW f, FormOK(f), Change([form EXCEPT ![Top] = f]) PROVE Inv'
  BY <1>1, <1>3, OneForm DEF Change
<1>4. CASE Type
  <2>1. Hook(Top).cleared \in {"idle", "sms_sent"}
    BY DEF Hook, UseLoginForm, UseCancelDeletionForm, UseDeleteAccountForm, UseWechatUnbindForm
  <2>2. FormOK([form[Top] EXCEPT !.phase = Hook(Top).cleared])
    BY <1>2, <2>1 DEF FormOK, Form
  <2> QED
    BY <1>1, <1>3, <1>4, <2>2 DEF Type, Change
<1>5. CASE Check
  <2>1. FormOK([form[Top] EXCEPT !.checked = ~form[Top].checked])
    BY <1>2 DEF FormOK, Form
  <2> QED
    BY <1>1, <1>3, <1>5, <2>1 DEF Check, Change
<1>6. CASE RequestSms
  <2>1. FormOK([form[Top] EXCEPT !.sms = TRUE])
    BY <1>2 DEF FormOK, Form
  <2> QED
    BY <1>1, <1>3, <1>6, <2>1 DEF RequestSms, Change
<1>7. CASE Dismiss
  <2>1. FormOK([form[Top] EXCEPT !.phase = "idle", !.hasSent = FALSE])
    BY <1>2 DEF FormOK, Form
  <2>2. [form EXCEPT ![Top].phase = "idle", ![Top].hasSent = FALSE]
        = [form EXCEPT ![Top] = [form[Top] EXCEPT !.phase = "idle", !.hasSent = FALSE]]
    BY <1>1 DEF Inv, FormsOK, Form
  <2> QED
    BY <1>3, <1>7, <2>1, <2>2 DEF Dismiss
<1>8. CASE OpenSheet
  <2>1. FormOK([form[Top] EXCEPT !.phase = "sheet"])
    BY <1>2 DEF FormOK, Form
  <2> QED
    BY <1>1, <1>3, <1>8, <2>1 DEF OpenSheet, Change
<1> QED
  BY <1>4, <1>5, <1>6, <1>7, <1>8

LEMMA SubmitKeeps ==
    ASSUME Inv, Submit
    PROVE  Inv'
<1>1. Top \in Forms
  BY DEF Submit, Controls, LoginScreen, Forms, SmsForms, AuthGroup, Edits, ProfileScreen, LoginManagementListPage
<1>2. requests' \subseteq Request /\ UNCHANGED <<web, session, stack, form, editor, strayed>>
  <2>1. [form |-> Top, at |-> "sent", mounted |-> TRUE] \in Request
    BY <1>1 DEF Request
  <2> QED
    BY <2>1 DEF Inv, Submit
<1>3. SessionOK'
  BY <1>2, StaysSession
<1> QED
  BY <1>2, <1>3 DEF Inv, editor, StackOK, EditorOK, FormsOK

\* A navigation of the user.
LEMMA Goes ==
    ASSUME Inv, NEW s, StackOK(s), Go(s)
    PROVE  Inv'
<1>1. FormsOK(form) /\ requests \in SUBSET Request /\ strayed' \subseteq {"device"} /\ StackOK(stack')
      /\ Render(form, requests) /\ UNCHANGED <<web, session>>
  BY DEF Inv, Go, StackOK
<1> QED
  BY <1>1, StaysSession, Renders

LEMMA LinksAre ==
    /\ Deep \subseteq Routes
    /\ \A r \in Leaf : Links(r) = {}
    /\ \A r \in Deep : Parent(r) \in Routes
<1>1. {"tabs", "settings", "security", "devices"} \subseteq Routes
  BY DEF Routes, Forms
<1>2. ASSUME NEW r \in Deep PROVE Parent(r) \in Routes
  <2>1. \E p \in Routes : r \in Links(p)
    BY <1>1 DEF Deep
  <2> QED
    BY <2>1 DEF Parent
<1>3. Deep \subseteq Routes
  BY DEF Deep, Links, Routes, Forms, SmsForms, AuthGroup, Edits
<1>4. \A r \in Leaf : Links(r) = {}
  BY DEF Leaf, Links, Edits
<1> QED
  BY <1>2, <1>3, <1>4

LEMMA NavigationKeeps ==
    ASSUME Inv, Push \/ Restore \/ UserBack \/ HeaderBackOrParent
    PROVE  Inv'
<1>0. StackOK(stack)
  BY DEF Inv
<1>1. CASE Push
  <2>1. PICK r \in Controls \cap Links(Top) : Go(Append(stack, r))
    BY <1>1 DEF Push
  <2>2. Top \notin Leaf
    BY <2>1, LinksAre
  <2>3. r \in Routes
    BY <2>1 DEF Links, Routes, Forms, SmsForms, AuthGroup, Edits
  <2>4. StackOK(Append(stack, r))
    BY <1>0, <2>1, <2>2, <2>3, PushIs DEF Go
  <2> QED
    BY <2>1, <2>4, Goes
<1>2. CASE Restore
  BY <1>0, <1>2, GateIsARoute, ReplaceIs, Goes DEF Restore
<1>3. CASE UserBack
  BY <1>0, <1>3, BackIs, Goes DEF UserBack
<1>4. CASE HeaderBackOrParent
  <2>1. StackOK(Back) /\ StackOK(Replace(Parent(Top)))
    BY <1>0, <1>4, BackIs, ReplaceIs, LinksAre DEF HeaderBackOrParent
  <2> QED
    BY <1>4, <2>1, Goes DEF HeaderBackOrParent
<1> QED
  BY <1>1, <1>2, <1>3, <1>4

\* A countdown that runs has a second left.
LEMMA CodesKeep ==
    ASSUME Inv, NEW r \in SmsForms, SmsAnswered(r) \/ Tick(r)
    PROVE  Inv'
<1>1. r \in Forms /\ FormOK(form[r]) /\ FormsOK(form)
  BY DEF Inv, FormsOK, Forms
<1>2. CASE SmsAnswered(r)
  <2>1. /\ FormOK([StartCountdown(form[r]) EXCEPT !.sms = FALSE, !.hasSent = TRUE, !.phase = "sms_sent"])
        /\ FormOK([form[r] EXCEPT !.sms = FALSE, !.phase = "error"])
    <3>1. Countdown \in 0..Countdown /\ Countdown # 0 /\ form[r] \in Form
          /\ (form[r].timer => form[r].count # 0)
      BY <1>1, CountdownAssumption DEF FormOK
    <3> DEFINE f == [StartCountdown(form[r]) EXCEPT !.sms = FALSE, !.hasSent = TRUE, !.phase = "sms_sent"]
    <3>2. f \in Form /\ f.count = Countdown
      BY <3>1 DEF Form, StartCountdown
    <3>3. FormOK([form[r] EXCEPT !.sms = FALSE, !.phase = "error"])
      BY <3>1 DEF FormOK, Form
    <3> QED
      BY <3>1, <3>2, <3>3 DEF FormOK
  <2>2. [form EXCEPT ![r].sms = FALSE, ![r].phase = "error"]
        = [form EXCEPT ![r] = [form[r] EXCEPT !.sms = FALSE, !.phase = "error"]]
    BY <1>1 DEF FormsOK, Form
  <2>3. /\ UNCHANGED <<web, session, stack, requests, editor, strayed>>
        /\ \/ form' = [form EXCEPT ![r] = [StartCountdown(form[r]) EXCEPT
                                             !.sms = FALSE, !.hasSent = TRUE, !.phase = "sms_sent"]]
           \/ form' = [form EXCEPT ![r].sms = FALSE, ![r].phase = "error"]
    BY <1>2 DEF SmsAnswered
  <2> QED
    BY <1>1, <2>1, <2>2, <2>3, OneForm
<1>3. CASE Tick(r)
  <2>1. form[r].timer /\ form[r].count \in 1..Countdown
    BY <1>1, <1>3, CountdownAssumption DEF Tick, FormOK, Form
  <2>2. FormOK([form[r] EXCEPT !.count = form[r].count - 1, !.timer = form[r].count > 1])
    <3>1. form[r].count - 1 \in 0..Countdown /\ (form[r].count > 1 => form[r].count - 1 # 0)
          /\ (form[r].count > 1) \in BOOLEAN
      BY <2>1, CountdownAssumption
    <3> DEFINE f == [form[r] EXCEPT !.count = form[r].count - 1, !.timer = form[r].count > 1]
    <3>2. f \in Form /\ f.count = form[r].count - 1 /\ f.timer = (form[r].count > 1)
      BY <1>1, <3>1 DEF FormOK, Form
    <3> QED
      BY <3>1, <3>2 DEF FormOK
  <2>3. [form EXCEPT ![r].count = form[r].count - 1, ![r].timer = form[r].count > 1]
        = [form EXCEPT ![r] = [form[r] EXCEPT !.count = form[r].count - 1, !.timer = form[r].count > 1]]
    BY <1>1 DEF FormsOK, Form
  <2>4. /\ UNCHANGED <<web, session, stack, requests, editor, strayed>>
        /\ form' = [form EXCEPT ![r].count = form[r].count - 1, ![r].timer = form[r].count > 1]
    BY <1>3 DEF Tick
  <2> QED
    BY <1>1, <2>2, <2>3, <2>4, OneForm
<1> QED
  BY <1>2, <1>3

LEMMA AnswerKeeps ==
    ASSUME Inv, NEW q \in requests, Answer(q)
    PROVE  Inv'
<1>0. /\ FormsOK(form) /\ requests \in SUBSET Request /\ StackOK(stack) /\ strayed \subseteq {"device"}
      /\ SessionOK /\ q \in Request /\ Without(q) \in SUBSET Request
  BY DEF Inv, Without
<1>1. \A p \in {"idle", "success", "error", "frozen"} : FormsOK(Phase(q, p))
  BY PhaseIs
<1>2. CASE SignedIn(q)
  <2>1. SessionOK' /\ UNCHANGED <<stack, strayed>> /\ Render(Phase(q, "success"), Without(q))
    BY <1>0, <1>2 DEF SignedIn, SessionOK
  <2> QED
    BY <1>0, <1>1, <2>1, Renders
<1>3. CASE Frozen(q)
  BY <1>0, <1>1, <1>3, StaysSession, Renders DEF Frozen
<1>4. CASE Deleted(q)
  <2>1. SessionOK' /\ UNCHANGED <<stack, strayed>> /\ Render(Phase(q, "success"), Without(q))
    BY <1>0, <1>4 DEF Deleted, SessionOK, SignOut
  <2> QED
    BY <1>0, <1>1, <2>1, Renders
<1>5. CASE Named(q)
  <2>1. SessionOK' /\ UNCHANGED <<stack, strayed>> /\ Render(Phase(q, "success"), Without(q))
    BY <1>0, <1>5 DEF Named, SessionOK
  <2> QED
    BY <1>0, <1>1, <2>1, Renders
<1>6. CASE Saved(q)
  <2>1. requests' \subseteq Request /\ UNCHANGED <<web, session, stack, form, editor, strayed>>
    BY <1>0, <1>6 DEF Saved, Request
  <2>2. SessionOK'
    BY <2>1, StaysSession
  <2> QED
    BY <2>1, <2>2 DEF Inv, editor, StackOK, EditorOK, FormsOK
<1>7. CASE Refetched(q)
  BY <1>0, <1>1, <1>7, StaysSession, Renders DEF Refetched
<1>8. CASE Removed(q)
  <2>1. /\ strayed' \subseteq {"device"} /\ stack' = Back /\ UNCHANGED <<web, session>>
        /\ Render(Phase(q, "idle"), Without(q))
    BY <1>0, <1>8 DEF Removed
  <2> QED
    BY <1>0, <1>1, <2>1, BackIs, StaysSession, Renders
<1>9. CASE LoggedOut(q)
  <2>1. /\ SessionOK' /\ stack' = Replace("login") /\ strayed' = strayed
        /\ Render(form, Without(q))
    BY <1>0, <1>9 DEF LoggedOut, SessionOK, SignOut
  <2> QED
    BY <1>0, <2>1, GateIsARoute, ReplaceIs, Renders
<1>10. CASE Failed(q)
  BY <1>0, <1>1, <1>10, StaysSession, Renders DEF Failed
<1> QED
  BY <1>2, <1>3, <1>4, <1>5, <1>6, <1>7, <1>8, <1>9, <1>10 DEF Answer

LEMMA EditorKeeps ==
    ASSUME Inv, ImageEditor
    PROVE  Inv'
<1>1. ASSUME NEW ms \in SUBSET Modals, NEW e \in BOOLEAN, Edit(ms, e) PROVE Inv'
  <2>1. SessionOK' /\ EditorOK'
    BY <1>1, StaysSession DEF Edit, EditorOK
  <2> QED
    BY <1>1, <2>1 DEF Inv, Edit, StackOK, FormsOK
<1>2. modals \in SUBSET Modals /\ encoding \in BOOLEAN
      /\ {"sheet", "crop", "viewer", "uploading", "error"} \subseteq Modals
  BY DEF Inv, EditorOK, Modals
<1> QED
  BY <1>1, <1>2 DEF ImageEditor, OpenEditor, PickImage, RefuseFile, ViewImage, CloseModal, CropConfirm,
                    Encoded, UploadEnds

LEMMA InvStep == Inv /\ [Next]_vars => Inv'
<1> SUFFICES ASSUME Inv, [Next]_vars PROVE Inv'
  OBVIOUS
<1>1. CASE UNCHANGED vars
  BY <1>1 DEF Inv, vars, session, editor, SessionOK, StackOK, FormsOK, EditorOK
<1>2. CASE Next
  BY <1>2, SessionKeeps, EffectKeeps, UserKeeps, SubmitKeeps, NavigationKeeps, CodesKeep, AnswerKeeps,
     EditorKeeps DEF Next
<1> QED
  BY <1>1, <1>2

\* No screen that goes back by itself is beneath another one, and the types hold,
\* in every reachable state.
THEOREM InvHolds == Spec => []Inv
  BY InvInit, InvStep, PTL DEF Spec

\* The stack, the forms, the requests and the editor keep their types.
THEOREM ScreenTypesHold == Spec => []TypeOK
<1>1. Inv => TypeOK
  BY DEF Inv, SessionOK, StackOK, FormsOK, EditorOK, Modals, TypeOK, Forms
<1> QED
  BY <1>1, InvHolds, PTL

\* However the user has moved since the submit, a screen that goes back by itself
\* pops itself; only the page of a removed device may pop another one.
THEOREM BackIsOnesOwn == Spec => []BackPopsItsOwn
<1>1. Inv => BackPopsItsOwn
  BY DEF Inv, BackPopsItsOwn
<1> QED
  BY <1>1, InvHolds, PTL
=============================================================================
