--------------------------- MODULE WechatConstants ---------------------------
(* The parameters of WechatBinding, apart from it so that a module that takes *)
(* an instance of it beside others has them, and their assumptions, as well.  *)
EXTENDS Integers

CONSTANTS Accounts, Openids, Requests,
          None,      \* no binding, no account
          MaxCodes   \* bound on the codes ever issued

ASSUME NoneAssumption == None \notin Openids /\ None \notin Accounts
ASSUME CodesAssumption == MaxCodes \in Nat
=============================================================================
