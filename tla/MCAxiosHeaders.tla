----------------------------- MODULE MCAxiosHeaders -----------------------------
(***************************************************************************)
(* AxiosHeaders for TLC: two objects, and a header in two casings, one of  *)
(* which is the name of a member of the class.                             *)
(***************************************************************************)
EXTENDS AxiosHeaders, TLC

CONSTANT text

KeyOf(name) == "get"
TitledName(name) == "Get"
Casings == {"get", "Get"}
Withheld == {False}

Said(name, value) == [name |-> name, value |-> value]
Written ==
  {<<Said("get", AList), Said("Get", text)>>,
   <<Said("Get", False), Said("get", AList)>>,
   <<Said("get", Undefined), Said("Get", False)>>}

\* No object is told from another.
Interchangeable == Permutations(Objects)
=============================================================================
