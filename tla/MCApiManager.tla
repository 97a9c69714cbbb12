---------------------------- MODULE MCApiManager ----------------------------
(* oauth is mounted over auth, billing beside it.  The base module has one *)
(* function in the namespace they share and one at the top, or (MCApart)   *)
(* only the latter.                                                        *)
EXTENDS ApiManager

CONSTANTS base, auth, oauth, billing

MCNames == {"plugins", "core", "status", "auth", "billing", "login", "token", "charge"}

MCAt ==
    [m \in Modules |->
        CASE m = base -> <<>>
          [] m \in {auth, oauth} -> <<"plugins", "auth">>
          [] m = billing -> <<"plugins", "billing">>]

MCExports ==
    [m \in Modules |->
        CASE m = base -> {<<"status">>, <<"plugins", "core">>}
          [] m = auth -> {<<"login">>}
          [] m = oauth -> {<<"login">>, <<"token">>}
          [] m = billing -> {<<"charge">>}]

MCApart == [MCExports EXCEPT ![base] = {<<"status">>}]
=============================================================================
