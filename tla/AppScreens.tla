----------------------------- MODULE AppScreens -----------------------------
(***************************************************************************)
(* The screens of the mobile app: the navigation stack, AuthGate's         *)
(* redirects, the forms with their two requests (a code, the submit), the  *)
(* resend countdown, and the modals that edit a profile image.             *)
(*                                                                         *)
(* A screen under the top of the stack stays mounted.  A screen that is    *)
(* popped, replaced or hidden by the splash loses its state, while its     *)
(* requests run on and their handlers still navigate.  The effects of a    *)
(* render run before the next event (Quiet).  ClientSession has the        *)
(* tokens: here a session exists or not.  Inputs are taken as valid.       *)
(***************************************************************************)
EXTENDS Integers, Sequences, FiniteSets, SequencesExt

CONSTANTS Countdown,   \* SMS_COUNTDOWN_SECONDS
          MaxRequests, \* bound on the submits on their way, of one screen at a time
          MaxDepth     \* bound on the stack

ASSUME CountdownAssumption == Countdown \in Nat \ {0}
ASSUME BoundAssumption == MaxRequests \in Nat /\ MaxDepth \in Nat /\ MaxDepth >= 2  \* a deep link

VARIABLES web,       \* Platform.OS = 'web'
          hydrated,  \* the store is read
          authed,    \* useAuthStore.isAuthenticated
          hasName,   \* has the account a display name? (server)
          shown,     \* has profile.data of useMe a display name?
          fetched,   \* profile.isFetched
          stack,     \* the routes, the focused one last
          form,      \* form[r]: the state of screen r, while mounted
          requests,  \* the submits on their way
          modals,    \* of the image editor of the top screen
          encoding,  \* is the crop modal encoding?
          strayed    \* screens whose success popped another one (history)

session == <<hydrated, authed, hasName, shown, fetched>>
editor == <<modals, encoding>>
vars == <<web, session, stack, form, requests, editor, strayed>>

AuthGroup == {"login", "cancelDeletion"}
SmsForms == AuthGroup \cup {"deleteAccount", "unbind"}
Edits == {"nameEdit", "bioEdit", "genderEdit"}
\* Screens with a request of their own: settings logs out, security binds WeChat.
Forms == SmsForms \cup Edits \cup {"onboarding", "device", "settings", "security"}
Routes == Forms \cup {"root", "tabs", "devices"}
AppGroup == Routes \ (AuthGroup \cup {"root"})

Form == [phase : {"idle", "sms_sent", "success", "error", "frozen", "sheet"},
         hasSent : BOOLEAN,          \* smsSent, hasSentCode
         checked : BOOLEAN,          \* bothChecked
         sms : BOOLEAN,              \* smsRequest.isPending
         count : 0..Countdown, timer : BOOLEAN]
Fresh == [phase |-> "idle", hasSent |-> FALSE, checked |-> FALSE, sms |-> FALSE,
          count |-> 0, timer |-> FALSE]
Request == [form : Forms, at : {"sent", "refetch"}, mounted : BOOLEAN]

TypeOK == /\ {web, hydrated, authed, hasName, shown, fetched, encoding} \subseteq BOOLEAN
          /\ stack \in Seq(Routes) /\ Len(stack) \in 1..MaxDepth
          /\ form \in [Forms -> Form]
          /\ requests \subseteq Request
          /\ modals \subseteq {"sheet", "crop", "viewer", "uploading", "error"}
          /\ strayed \subseteq Forms

-----------------------------------------------------------------------------
(* AuthGate.                                                               *)

Top == Last(stack)

\* Mutant: a named user may stay wherever there is a screen.
DecideWhitelist ==
    IF ~authed THEN IF Top \in AuthGroup THEN "noop" ELSE "login"
    ELSE IF ~shown THEN IF Top = "onboarding" THEN "noop"
                        ELSE IF ~fetched THEN "wait" ELSE "onboarding"
    ELSE IF Top \in AppGroup THEN "noop" ELSE "tabs"

DecideAuthRoute ==
    IF ~authed THEN IF Top \in AuthGroup THEN "noop" ELSE "login"
    ELSE IF ~shown THEN IF Top = "onboarding" THEN "noop"
                        ELSE IF ~fetched THEN "wait" ELSE "onboarding"
    ELSE IF Top \in AppGroup \ {"onboarding"} THEN "noop" ELSE "tabs"

Splash == ~hydrated \/ DecideAuthRoute = "wait"
Mounted(r) == ~Splash /\ r \in Range(stack)

\* Their answers change the state of their screen, and nothing else.
Inert == {"bioEdit", "genderEdit", "unbind", "security"}

\* Of the render after a step: what is not mounted any more has lost its state.
Render(forms, reqs) ==
    LET up == IF Splash' THEN {} ELSE Range(stack') IN
    /\ form' = [r \in Forms |-> IF r \in up THEN forms[r] ELSE Fresh]
    /\ requests' = {q \in reqs : q.form \in up}
                   \cup {[q EXCEPT !.mounted = FALSE] :
                             q \in {q \in reqs : q.form \notin up /\ q.form \notin Inert}}
    /\ IF stack' = stack /\ ~Splash' THEN UNCHANGED editor ELSE modals' = {} /\ encoding' = FALSE

Back == IF Len(stack) > 1 THEN Front(stack) ELSE stack  \* router.back()
\* router.replace(r): another group replaces the whole stack of this one.
Replace(r) == IF (r \in AuthGroup) = (Top \in AuthGroup) /\ Top # "root"
              THEN Append(Front(stack), r) ELSE <<r>>

-----------------------------------------------------------------------------
(* Hooks: the state a form shows, whether it may ask for a code, and the   *)
(* phase an error is cleared to.                                           *)

Pending(r) == {q \in requests : q.mounted /\ q.form = r}
Submitting(r) == \E q \in Pending(r) : q.at = "sent" \/ r \notin {"genderEdit", "security"}
State(r) == IF Submitting(r) THEN "submitting"
            ELSE IF form[r].sms THEN "requesting_sms" ELSE form[r].phase

UseLoginForm(f) == [canSend |-> f.count = 0, cleared |-> "idle"]
UseCancelDeletionForm(f) == [canSend |-> f.count = 0, cleared |-> "idle"]
UseDeleteAccountForm(f) == [canSend |-> f.checked /\ f.count = 0,
                            cleared |-> IF f.hasSent THEN "sms_sent" ELSE "idle"]
UseWechatUnbindForm(f) == [canSend |-> f.count = 0 /\ ~f.sms,
                           cleared |-> IF f.hasSent THEN "sms_sent" ELSE "idle"]

Hook(r) == CASE r = "login" -> UseLoginForm(form[r])
             [] r = "cancelDeletion" -> UseCancelDeletionForm(form[r])
             [] r = "deleteAccount" -> UseDeleteAccountForm(form[r])
             [] r = "unbind" -> UseWechatUnbindForm(form[r])
             [] OTHER -> [canSend |-> FALSE, cleared |-> "idle"]

(* Screens: the controls each of them enables in a state.                  *)

SmsInput(r, disabled) ==
    IF disabled THEN {}
    ELSE {"type"} \cup (IF form[r].count = 0 /\ State(r) # "requesting_sms" THEN {"send"} ELSE {})

LoginScreen ==
    CASE State("login") = "success" -> {}
      [] State("login") = "frozen" -> {"dismiss", "restore"}
      [] OTHER -> SmsInput("login", State("login") = "submitting") \cup
                  (IF form["login"].hasSent /\ State("login") # "submitting" THEN {"submit"} ELSE {})

\* No code need have been asked for.
CancelDeletionScreen ==
    IF State("cancelDeletion") \in {"success", "submitting"} THEN {}
    ELSE SmsInput("cancelDeletion", FALSE) \cup {"submit"}

\* The boxes may be unchecked again after the code was sent.
DeleteAccountScreen ==
    {"check"} \cup
    SmsInput("deleteAccount", ~form["deleteAccount"].checked \/ State("deleteAccount") = "submitting") \cup
    (IF form["deleteAccount"].hasSent /\ State("deleteAccount") # "submitting" THEN {"submit"} ELSE {})

WechatUnbindScreen ==
    SmsInput("unbind", State("unbind") = "submitting") \cup
    (IF form["unbind"].hasSent /\ State("unbind") # "submitting" THEN {"submit"} ELSE {})

OnboardingScreen == IF State("onboarding") \in {"success", "submitting"} THEN {} ELSE {"type", "submit"}
\* The edit screens wait for the profile they start from.
NameEditScreen == IF fetched /\ State("nameEdit") # "submitting" THEN {"type", "submit"} ELSE {}
BioEditScreen == IF fetched /\ State("bioEdit") # "submitting" THEN {"type", "submit"} ELSE {}
GenderEditScreen == IF fetched /\ State("genderEdit") # "submitting" THEN {"submit"} ELSE {}
\* A device that is not the current one can be removed, from a sheet over its page.
RemoveDeviceSheet == CASE State("device") = "submitting" -> {}
                       [] State("device") \in {"sheet", "error"} -> {"submit", "dismiss"}
                       [] OTHER -> {"remove"}
\* Binding WeChat goes on inline; the images are edited over this screen.
AccountSecurityIndex ==
    {"edit", "nameEdit", "bioEdit", "genderEdit", "unbind", "deleteAccount", "devices"} \cup
    (IF State("security") # "submitting" THEN {"submit"} ELSE {})
SettingsIndex == {"security"} \cup (IF State("settings") # "submitting" THEN {"submit"} ELSE {})
ProfileScreen == {"edit", "settings"}
LoginManagementListPage == {"device"}

Controls ==
    CASE modals # {} -> {}
      [] Top = "login" -> LoginScreen
      [] Top = "cancelDeletion" -> CancelDeletionScreen
      [] Top = "onboarding" -> OnboardingScreen
      [] Top = "tabs" -> ProfileScreen
      [] Top = "settings" -> SettingsIndex
      [] Top = "security" -> AccountSecurityIndex
      [] Top = "nameEdit" -> NameEditScreen
      [] Top = "bioEdit" -> BioEditScreen
      [] Top = "genderEdit" -> GenderEditScreen
      [] Top = "unbind" -> WechatUnbindScreen
      [] Top = "deleteAccount" -> DeleteAccountScreen
      [] Top = "devices" -> LoginManagementListPage
      [] Top = "device" -> RemoveDeviceSheet
      [] OTHER -> {}

-----------------------------------------------------------------------------
(* Effects.                                                                *)

Leaves(r) == Mounted(r) /\ State(r) = "success"

\* useEffect of an edit screen and of the unbind screen.
BackOnSuccess(r) ==
    /\ r \in Edits \cup {"unbind"} /\ Leaves(r)
    /\ stack' = Back
    /\ strayed' = IF Top = r THEN strayed ELSE strayed \cup {r}
    /\ UNCHANGED <<web, session>>
    /\ Render(form, requests)

\* useEffect of the deletion screen, next to AuthGate's.
LoginOnDeletion ==
    /\ Leaves("deleteAccount")
    /\ stack' = Replace("login")
    /\ UNCHANGED <<web, session, strayed>>
    /\ Render(form, requests)

Redirect ==
    /\ hydrated /\ DecideAuthRoute \in Routes
    /\ stack' = Replace(DecideAuthRoute)
    /\ UNCHANGED <<web, session, strayed>>
    /\ Render(form, requests)

Effects == (\E r \in Forms : BackOnSuccess(r)) \/ LoginOnDeletion \/ Redirect
Quiet == /\ \A r \in Edits \cup {"unbind", "deleteAccount"} : ~Leaves(r)
         /\ ~(hydrated /\ DecideAuthRoute \in Routes)

-----------------------------------------------------------------------------
(* The session.                                                            *)

Links(r) == CASE r = "tabs" -> {"settings"}
              [] r = "settings" -> {"security"}
              [] r = "security" -> Edits \cup {"unbind", "deleteAccount", "devices"}
              [] r = "devices" -> {"device"}
              [] OTHER -> {}
Parent(r) == CHOOSE p \in Routes : r \in Links(p)
Deep == UNION {Links(r) : r \in {"tabs", "settings", "security", "devices"}}

\* The app starts at the root, or on the web at any route, over the tabs.
Init == /\ web \in BOOLEAN
        /\ stack \in {<<"root">>, <<"login">>, <<"cancelDeletion">>, <<"tabs">>}
                     \cup (IF web THEN {<<"tabs", r>> : r \in Deep} ELSE {})
        /\ hydrated = FALSE /\ authed = FALSE /\ shown = FALSE /\ fetched = FALSE
        /\ hasName \in BOOLEAN
        /\ form = [r \in Forms |-> Fresh]
        /\ requests = {} /\ modals = {} /\ encoding = FALSE /\ strayed = {}

\* With a session on disk the profile may be seeded with its name.
Hydrate ==
    /\ ~hydrated /\ hydrated' = TRUE
    /\ authed' \in BOOLEAN /\ shown' \in BOOLEAN
    /\ shown' => authed' /\ hasName
    /\ UNCHANGED <<web, hasName, fetched, stack, strayed>>
    /\ Render(form, requests)

\* /me ends, with the profile or an error; again after an invalidation.
MeSettles ==
    /\ Quiet /\ hydrated /\ authed
    /\ fetched' = TRUE
    /\ shown' \in {shown, hasName}
    /\ UNCHANGED <<web, hydrated, authed, hasName, stack, strayed>>
    /\ Render(form, requests)

\* clearSession and queryClient.clear.
SignOut == authed' = FALSE /\ shown' = FALSE /\ fetched' = FALSE

\* A refresh failed.
LoseSession ==
    /\ Quiet /\ hydrated /\ authed
    /\ SignOut
    /\ UNCHANGED <<web, hydrated, hasName, stack, strayed>>
    /\ Render(form, requests)

-----------------------------------------------------------------------------
(* The user.                                                               *)

User == Quiet /\ ~Splash

Change(f) == form' = f /\ UNCHANGED <<web, session, stack, requests, editor, strayed>>

\* clearError is called when the field changes in an error.
Type == /\ User /\ "type" \in Controls /\ form[Top].phase = "error"
        /\ Change([form EXCEPT ![Top].phase = Hook(Top).cleared])

Check == /\ User /\ "check" \in Controls
         /\ Change([form EXCEPT ![Top].checked = ~@])

RequestSms == /\ User /\ "send" \in Controls /\ Hook(Top).canSend
              /\ Change([form EXCEPT ![Top].sms = TRUE])

\* dismissFreeze; handleCancel of the sheet.
Dismiss == /\ User /\ "dismiss" \in Controls
           /\ Change([form EXCEPT ![Top].phase = "idle", ![Top].hasSent = FALSE])

OpenSheet == /\ User /\ "remove" \in Controls
             /\ Change([form EXCEPT ![Top].phase = "sheet"])

Submit == /\ User /\ "submit" \in Controls
          /\ Cardinality(requests) < MaxRequests /\ \A q \in requests : q.form = Top  \* bound
          /\ [form |-> Top, at |-> "sent", mounted |-> TRUE] \notin requests
          /\ requests' = requests \cup {[form |-> Top, at |-> "sent", mounted |-> TRUE]}
          /\ UNCHANGED <<web, session, stack, form, editor, strayed>>

Go(s) == /\ Len(s) <= MaxDepth  \* bound
         /\ stack' = s
         /\ UNCHANGED <<web, session, strayed>>
         /\ Render(form, requests)

Push == User /\ \E r \in Controls \cap Links(Top) : Go(Append(stack, r))

Restore == User /\ "restore" \in Controls /\ Go(Replace("cancelDeletion"))

Covered == modals # {} \/ (Top = "device" /\ State("device") \in {"sheet", "submitting", "error"})

\* The hardware button or gesture: nothing on the onboarding screen, and a modal
\* keeps it to itself.  The browser's button asks nobody.
UserBack == /\ User /\ Len(stack) > 1
            /\ web \/ (Top # "onboarding" /\ ~Covered)
            /\ Go(Back)

\* In the header: to the parent if this navigator has nothing beneath the screen.
HeaderBackOrParent ==
    /\ User /\ Top \in Deep /\ ~Covered
    /\ Go(IF stack[Len(stack) - 1] = Parent(Top) THEN Back ELSE Replace(Parent(Top)))

-----------------------------------------------------------------------------
(* Codes and the countdown.                                                *)

\* Mutant: one second too many.
StartLong(f) == [f EXCEPT !.count = Countdown + 1, !.timer = TRUE]
StartCountdown(f) == [f EXCEPT !.count = Countdown, !.timer = TRUE]

\* The answer sets the phase whatever the submit has made of it meanwhile.
SmsAnswered(r) ==
    /\ Quiet /\ form[r].sms
    /\ \/ form' = [form EXCEPT ![r] = [StartCountdown(@) EXCEPT
                                         !.sms = FALSE, !.hasSent = TRUE, !.phase = "sms_sent"]]
       \/ form' = [form EXCEPT ![r].sms = FALSE, ![r].phase = "error"]
    /\ UNCHANGED <<web, session, stack, requests, editor, strayed>>

Tick(r) ==
    /\ Quiet /\ form[r].timer
    /\ form' = [form EXCEPT ![r].count = @ - 1, ![r].timer = form[r].count > 1]
    /\ UNCHANGED <<web, session, stack, requests, editor, strayed>>

-----------------------------------------------------------------------------
(* Answers.  What is not of the screen itself happens though it is gone.   *)

Answered(q, rs) == Quiet /\ q \in requests /\ q.at = "sent" /\ q.form \in rs

\* setPhase, if the screen is there to see it.
Phase(q, p) == IF q.mounted THEN [form EXCEPT ![q.form].phase = p] ELSE form
Without(q) == requests \ {q}

\* The answer of a restore leaves the seed of an earlier session in the store.
SignedIn(q) ==
    /\ Answered(q, AuthGroup)
    /\ authed' = TRUE /\ hasName' \in BOOLEAN /\ fetched' = FALSE
    /\ shown' \in BOOLEAN /\ (shown' => hasName' /\ q.form = "cancelDeletion")
    /\ UNCHANGED <<web, hydrated, stack, strayed>>
    /\ Render(Phase(q, "success"), Without(q))

Frozen(q) ==
    /\ Answered(q, {"login"})
    /\ UNCHANGED <<web, session, stack, strayed>>
    /\ Render(Phase(q, "frozen"), Without(q))

Deleted(q) ==
    /\ Answered(q, {"deleteAccount"})
    /\ SignOut
    /\ UNCHANGED <<web, hydrated, hasName, stack, strayed>>
    /\ Render(Phase(q, "success"), Without(q))

\* Mutant: the handler of the form goes back, where the screen's effect did.
NamedAndBack(q) ==
    /\ Answered(q, {"nameEdit", "onboarding"})
    /\ hasName' = TRUE
    /\ shown' = authed /\ fetched' = (authed \/ fetched)
    /\ stack' = Back
    /\ strayed' = IF q.mounted THEN strayed ELSE strayed \cup {q.form}
    /\ UNCHANGED <<web, hydrated, authed>>
    /\ Render(Phase(q, "idle"), Without(q))

\* useUpdateDisplayName writes the profile through to the cache.
Named(q) ==
    /\ Answered(q, {"nameEdit", "onboarding"})
    /\ hasName' = TRUE
    /\ shown' = authed /\ fetched' = (authed \/ fetched)
    /\ UNCHANGED <<web, hydrated, authed, stack, strayed>>
    /\ Render(Phase(q, "success"), Without(q))

\* The others invalidate /me and wait for it.
Saved(q) ==
    /\ Answered(q, {"bioEdit", "genderEdit", "unbind", "security"})
    /\ requests' = Without(q) \cup {[q EXCEPT !.at = "refetch"]}
    /\ UNCHANGED <<web, session, stack, form, editor, strayed>>

Refetched(q) ==
    /\ Quiet /\ q \in requests /\ q.at = "refetch"
    /\ UNCHANGED <<web, session, stack, strayed>>
    /\ Render(Phase(q, "success"), Without(q))

\* handleConfirm closes the sheet and goes back from wherever the user is.
Removed(q) ==
    /\ Answered(q, {"device"})
    /\ stack' = Back
    /\ strayed' = IF q.mounted THEN strayed ELSE strayed \cup {"device"}
    /\ UNCHANGED <<web, session>>
    /\ Render(Phase(q, "idle"), Without(q))

\* logoutAll clears the session whatever the answer.
LoggedOut(q) ==
    /\ Answered(q, {"settings"})
    /\ SignOut
    /\ stack' = Replace("login")
    /\ UNCHANGED <<web, hydrated, hasName, strayed>>
    /\ Render(form, Without(q))

Failed(q) ==
    /\ Answered(q, Forms \ {"settings"})
    /\ UNCHANGED <<web, session, stack, strayed>>
    /\ Render(Phase(q, "error"), Without(q))

Answer(q) == \/ SignedIn(q) \/ Frozen(q) \/ Deleted(q) \/ Named(q) \/ Saved(q) \/ Refetched(q)
             \/ Removed(q) \/ LoggedOut(q) \/ Failed(q)

-----------------------------------------------------------------------------
(* The image editor of the profile and security screens.                   *)

Edit(ms, e) == modals' = ms /\ encoding' = e /\ UNCHANGED <<web, session, stack, form, requests, strayed>>

OpenEditor == User /\ "edit" \in Controls /\ Edit({"sheet"}, encoding)

\* On the web a file is cropped; else the picked image is uploaded as it is.
PickImage == User /\ "sheet" \in modals /\ Edit({IF web THEN "crop" ELSE "uploading"}, encoding)
RefuseFile == User /\ "sheet" \in modals /\ Edit({"error"}, encoding)
ViewImage == User /\ "sheet" \in modals /\ Edit({"viewer"}, encoding)
\* The escape key closes the crop modal while it encodes, too.
CloseModal == /\ User /\ modals \cap {"sheet", "crop", "viewer", "error"} # {}
              /\ Edit(modals \ {"sheet", "crop", "viewer", "error"}, encoding)

CropConfirm == User /\ "crop" \in modals /\ ~encoding /\ Edit(modals, TRUE)
Encoded == Quiet /\ encoding /\ Edit((modals \ {"crop"}) \cup {"uploading"}, FALSE)
UploadEnds == /\ Quiet /\ "uploading" \in modals
              /\ \E e \in {{}, {"error"}} : Edit((modals \ {"uploading"}) \cup e, encoding)

ImageEditor == \/ OpenEditor \/ PickImage \/ RefuseFile \/ ViewImage \/ CloseModal
               \/ CropConfirm \/ Encoded \/ UploadEnds

-----------------------------------------------------------------------------
Next == \/ Hydrate \/ MeSettles \/ LoseSession
        \/ Effects
        \/ Type \/ Check \/ RequestSms \/ Dismiss \/ OpenSheet \/ Submit
        \/ Push \/ Restore \/ UserBack \/ HeaderBackOrParent
        \/ \E r \in SmsForms : SmsAnswered(r) \/ Tick(r)
        \/ \E q \in requests : Answer(q)
        \/ ImageEditor

Spec == Init /\ [][Next]_vars

\* The store hydrates, /me and every request end, effects run, the clock ticks.  Of
\* the screens with a code one is mounted at a time, and it ticks or waits for one.
Fairness == /\ WF_vars(Hydrate \/ Effects) /\ WF_vars(MeSettles /\ ~fetched)
            /\ WF_vars(\E r \in SmsForms : Tick(r) \/ SmsAnswered(r))
            /\ WF_vars(\E q \in requests : Answer(q))
FairSpec == Spec /\ Fairness

-----------------------------------------------------------------------------
(* Properties.                                                             *)

\* A screen that goes back by itself pops itself and no other, however the user
\* has moved since; only the removal of a device, whose page was left, does not.
BackPopsItsOwn == strayed \subseteq {"device"}

\* No screen stays in its success: it is left, or hidden by the splash.
Successful == \E r \in Forms \ {"security"} : form[r].phase = "success"
SuccessIsLeft == Successful ~> ~Successful

\* However sessions come and go: a signed-out user gets to a screen of the auth group,
\* a named one to a screen of the app, an unnamed one to the onboarding.
RightPlace == IF ~authed THEN Top \in AuthGroup
              ELSE IF shown THEN Top \in AppGroup \ {"onboarding"} ELSE Top = "onboarding"
GateSettles == ~RightPlace ~> RightPlace

\* A code can be asked for again: no countdown stands still.
Ticking == \E r \in SmsForms : form[r].count > 0
ResendComesBack == Ticking ~> ~Ticking

\* The user is never stuck: in a finished form, on a screen that is not for this
\* session, or behind a countdown.
NobodyIsStuck == SuccessIsLeft /\ GateSettles /\ ResendComesBack
=============================================================================
