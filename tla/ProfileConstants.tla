-------------------------- MODULE ProfileConstants --------------------------
(* The parameters of ProfileEdits, apart from it so that a module that takes *)
(* an instance of it beside others has them, and their assumptions, as well. *)
EXTENDS Integers

CONSTANTS Texts,      \* displayName, bio, gender
          Images,     \* avatar, background
          Editors,    \* requests that update a text field
          Uploaders,  \* mounted useProfileImageUpload hooks
          MaxValues   \* bound on the values ever written

ASSUME ValuesAssumption == MaxValues \in Nat
ASSUME DisjointAssumption == Texts \cap Images = {} /\ Editors \cap Uploaders = {}
=============================================================================
