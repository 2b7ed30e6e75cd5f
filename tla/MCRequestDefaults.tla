-------------------------- MODULE MCRequestDefaults --------------------------
(***************************************************************************)
(* Configurations of RequestDefaults for TLC: axiosRef and one instance    *)
(* made from it, one method with headers of its own, a header in two       *)
(* casings, and what register() may have been given.                       *)
(***************************************************************************)
EXTENDS RequestDefaults

LowerCase(name) == IF name = "Accept" THEN "accept" ELSE name

Nothing == [b \in Buckets |-> <<>>]
NoOptions == [k \in Options |-> Absent]

\* Nothing at all; or headers in every bucket, own keys in two casings and a
\* null, params, and every option. Object values come with the first edit.
SomeModuleConfigs ==
  { [object |-> "v", objects |-> Nothing, decompress |-> FALSE, options |-> NoOptions],
    [object |-> "v",
     objects |-> [Nothing EXCEPT !["common"] = <<<<"accept", "v">>>>,
                                 !["get"] = <<<<"Accept", "w">>>>,
                                 !["flat"] = <<<<"accept", "v">>, <<"Accept", "w">>,
                                               <<"encoding", Null>>>>,
                                 !["params"] = <<<<"accept", "v">>>>],
     decompress |-> TRUE, options |-> [k \in Options |-> "v"]] }

SomeOverrides ==
  {[k \in Options |-> IF k \in {"validateStatus", "responseType"} THEN "w" ELSE Undefined]}

AcceptHeader == <<"Accept", "w">>
EncodingHeader == <<"encoding", "v">>
=============================================================================
