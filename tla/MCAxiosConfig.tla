----------------------------- MODULE MCAxiosConfig -----------------------------
(***************************************************************************)
(* Configurations of AxiosConfig for TLC: a call for each kind of data, and *)
(* calls with headers, defaults, credentials and a transform of their own.  *)
(***************************************************************************)
EXTENDS AxiosConfig

NoHeaders == [name \in Names |-> Absent]
Headers(contentType, authorization) ==
  [name \in Names |-> IF name = ContentType THEN contentType ELSE authorization]

Plain(kind) == Datum(kind, "raw", 0, 0)

\* Every kind of data; those that are streams are the caller's own.
SomeData ==
  {Plain(kind) : kind \in {"falsy", "object", "form", "params", "blob", "emptyBlob", "bytes"}}
  \cup {Nothing, Text("raw"), Datum("undici", "multipart", ForeignBoundary, 0),
        Datum("package", "multipart", ForeignBoundary, CallersStream),
        Datum("stream", "raw", 0, CallersStream)}

Call(method, data) ==
  [method |-> method, form |-> FALSE, transform |-> FALSE, auth |-> "none", params |-> "own",
   headers |-> NoHeaders, defaults |-> NoHeaders, data |-> data]

\* The Content-Type a caller may choose, or withhold.
Chosen == {Value("json"), Value("urlencoded"), Value("multipart"),
           Multipart(ForeignBoundary), Off}

SomeRequests ==
  {Call("post", data) : data \in SomeData}
  \cup {Call("get", data) : data \in {Nothing, Plain("object"), Text("raw")}}
  \cup {[Call("post", data) EXCEPT !.headers = Headers(type, Value("token"))] :
          data \in {Plain("object"), Plain("form"), Plain("params"), Text("raw")}, type \in Chosen}
  \cup {[Call("post", data) EXCEPT !.form = TRUE, !.auth = auth] :
          data \in {Plain("object"), Plain("params")}, auth \in {"config", "url"}}
  \cup {[Call("post", Plain("object")) EXCEPT !.transform = TRUE, !.auth = "config",
                                              !.params = "merged"],
        [Call("get", Plain("object")) EXCEPT !.defaults = Headers(Value("json"), Value("token")),
                                             !.headers = Headers(Absent, Off)]}

SomeValues == {Value("json"), Value("token")}
ReplacedData == {Plain("form"), Plain("object")}
=============================================================================
