---------------------------- MODULE MCRedirectChain ----------------------------
(***************************************************************************)
(* Configurations of RedirectChain for TLC: host names as sequences of     *)
(* labels, the most specific first.                                        *)
(***************************************************************************)
EXTENDS RedirectChain, SequencesExt

HostNames == {<<"com">>, <<"a", "com">>, <<"x", "a", "com">>,
              <<"y", "x", "a", "com">>, <<"b", "com">>}

ProperSuffix(sub, of) == sub # of /\ IsSuffix(of, sub)

\* Every method with and without a body, all headers, with a meter or a hook.
SomeStarts ==
  [url: [scheme: {"http", "https"}, host: {<<"a", "com">>, <<"b", "com">>}, port: {""}],
   method: {"GET", "HEAD"}, body: {"none"}, headers: {Headers},
   named: SUBSET {"authorization", "token"}, metered: {FALSE}, hook: {"none"}]
  \cup
  [url: [scheme: {"https"}, host: {<<"a", "com">>}, port: {"8443"}],
   method: {"POST", "PUT"}, body: {"text", "form", "stream"}, headers: {Headers},
   named: {{"token"}}, metered: BOOLEAN, hook: {"none", "throws", "rewrites"}]

\* beforeRedirect puts everything back, or sends a bare GET elsewhere.
SomeHookResults ==
  {[url |-> [scheme |-> "http", host |-> <<"b", "com">>, port |-> ""],
    method |-> "GET", headers |-> {}],
   [url |-> [scheme |-> "https", host |-> <<"a", "com">>, port |-> "8443"],
    method |-> "PUT", headers |-> Headers]}
=============================================================================
