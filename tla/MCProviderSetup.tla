--------------------------- MODULE MCProviderSetup ---------------------------
(* The page's worker and one other caller of the routes, two workspaces, and *)
(* a model name with a slash.  Settings are written without a model, for a   *)
(* provider that is not supported, and by a caller that says itself that     *)
(* they are connected.                                                       *)
EXTENDS ProviderSetup

CONSTANTS w1, w2, chat, flash, org, page1, other

MCStartKeys == {Unset, Good}

MCOffers == [provider : {"deepseek"}, model : {Unset, org}]

Connected(m) == [status |-> "connected", provider |-> "deepseek", model |-> m]

MCBodies ==
  [provider : {"local", "unsupported"}, model : {Kept}, evidence : {Kept}]
  \cup [provider : {Kept}, model : {org}, evidence : {Kept}]
  \cup [provider : {"deepseek"}, model : {flash}, evidence : {Connected(flash)}]
  \cup [provider : {Kept}, model : {Unset}, evidence : {Connected(Unset)}]
=============================================================================
