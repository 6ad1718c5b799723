-------------------------- MODULE AccountLifecycle --------------------------
(***************************************************************************)
(* The life of an account as its owner is promised it: a deletion can be   *)
(* requested, taken back during a grace period, and becomes final once the *)
(* grace period is over.  Every transition leaves one record in the        *)
(* account's history, together with the transition.  Codes, requests,      *)
(* transactions and the nightly job do not show here.                      *)
(***************************************************************************)
EXTENDS Integers, Sequences

CONSTANTS Account,   \* accounts
          NULL       \* no deadline

VARIABLES time,      \* the clock
          status,    \* status[a]
          deadline,  \* deadline[a]: when the grace period of a ends, NULL if none runs
          history    \* history[a]: the transitions of a, oldest first

lvars == <<time, status, deadline, history>>

Init == /\ time = 0
        /\ status = [a \in Account |-> "ACTIVE"]
        /\ deadline = [a \in Account |-> NULL]
        /\ history = [a \in Account |-> <<>>]

\* Account a changes its status and records it.
Become(a, from, to, record) ==
    /\ status[a] = from
    /\ status' = [status EXCEPT ![a] = to]
    /\ history' = [history EXCEPT ![a] = Append(@, record)]
    /\ UNCHANGED time

SetDeadline(a, until) == deadline' = [deadline EXCEPT ![a] = until]

RequestDeletion(a) == /\ Become(a, "ACTIVE", "FROZEN", "deletion-requested")
                      /\ deadline'[a] \in Nat
                      /\ SetDeadline(a, deadline'[a])

CancelDeletion(a) == /\ Become(a, "FROZEN", "ACTIVE", "deletion-cancelled")
                     /\ SetDeadline(a, NULL)

\* Never before the grace period that runs now is over.
Anonymize(a) == /\ Become(a, "FROZEN", "ANONYMIZED", "anonymized")
                /\ deadline[a] <= time
                /\ SetDeadline(a, NULL)

TimePasses == /\ time' = time + 1
              /\ UNCHANGED <<status, deadline, history>>

Next == \/ \E a \in Account : RequestDeletion(a) \/ CancelDeletion(a) \/ Anonymize(a)
        \/ TimePasses

Spec == Init /\ [][Next]_lvars

=============================================================================
