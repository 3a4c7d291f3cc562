-------------------------- MODULE MCProxyResolvers --------------------------
(***************************************************************************)
(* Two lookups while the settings change once, from manual and automatic   *)
(* settings.                                                               *)
(***************************************************************************)
EXTENDS ProxyResolvers
CONSTANTS l1, l2

Manual(http) ==
  [mode |-> "manual", same |-> TRUE, ignore |-> TRUE, http |-> http, https |-> "unset",
   socks |-> "unset", ftp |-> "invalid"]
ManualOrAuto == {Manual("valid"), [Manual("invalid") EXCEPT !.mode = "auto"]}

Unset == [v \in Variables \cup {"no_proxy"} |-> "unset"]
SomeVariables ==
  {[Unset EXCEPT !["http_proxy"] = "invalid", !["HTTP_PROXY"] = "valid", !["no_proxy"] = "valid"]}
SomeKinds ==
  [via : {"gnome"}, async : {FALSE}, scheme : {"http"}, ignored : {FALSE}]
    \cup [via : {"gnome"}, async : {TRUE}, scheme : {"other"}, ignored : {TRUE}]
    \cup [via : {"environment"}, async : BOOLEAN, scheme : {"https"}, ignored : {FALSE}]
    \cup [via : {"libproxy"}, async : {TRUE}, scheme : {"other"}, ignored : {FALSE}]
SomeLists == {<<"http", "invalid", "socks">>, <<"socks", "direct">>, <<"invalid">>}
=============================================================================
