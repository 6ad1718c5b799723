------------------------------ MODULE Sessions ------------------------------
(***************************************************************************)
(* What the refresh-token table promises its users, with tokens, rows and  *)
(* transactions left out.  A session begins with a login on one device and *)
(* lives through any number of token rotations, which do not show here;    *)
(* once it has been ended (logout-all, removal of the device, freeze or    *)
(* anonymization of the account) it never comes back.                      *)
(***************************************************************************)
CONSTANTS Session,   \* identities of sessions
          Account,   \* identities of accounts
          NULL       \* no account

VARIABLES owner,     \* owner[s]: the account session s belongs to, NULL before it starts
          live       \* the sessions whose refresh token can be used

svars == <<owner, live>>

Init == /\ owner = [s \in Session |-> NULL]
        /\ live = {}

\* A login opens a session that was never used before.
Start(s, a) == /\ owner[s] = NULL
               /\ owner' = [owner EXCEPT ![s] = a]
               /\ live' = live \cup {s}

\* Some live sessions of one account end, in one step.
End(a, S) == /\ S # {}
             /\ S \subseteq {s \in live : owner[s] = a}
             /\ live' = live \ S
             /\ UNCHANGED owner

Next == \/ \E s \in Session, a \in Account : Start(s, a)
        \/ \E a \in Account, S \in SUBSET Session : End(a, S)

Spec == Init /\ [][Next]_svars

=============================================================================
