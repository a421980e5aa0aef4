------------------------------- MODULE MCSigV4 -------------------------------
(* Model-checking instances of SigV4: the agent's credentials and a client  *)
(* key with the same access key and a wrong secret; a PUT with a metadata *)
(* header and a Content-Type, and a GET with a query; an attacker who may switch  *)
(* method, path, query, host, X-Amz-Date, X-Amz-Content-Sha256, the        *)
(* metadata header (one or two values) and the Authorization header; two   *)
(* clock seconds on two scope days; two Sign calls.                         *)
EXTENDS SigV4

MCAgentCreds == [access |-> "minio", secret |-> "minio123", region |-> "us-east-1"]
MCCreds == {MCAgentCreds,
            [access |-> "minio", secret |-> "minio124", region |-> "us-east-1"]}
MCNoQuery == [k \in {} |-> <<>>]
MCUploads == [k \in {"uploads"} |-> <<"">>]
MCPath == <<"/", "a">>
MCRequests ==
    { [method |-> "PUT", path |-> MCPath, query |-> MCNoQuery,
       host |-> "localhost:9001",
       hdr |-> [n \in {"X-Amz-Meta-Key", "Content-Type"} |->
                  IF n = "Content-Type" THEN <<Value("text/plain")>>
                                        ELSE <<Value("v1")>>]],
      [method |-> "GET", path |-> MCPath, query |-> MCUploads,
       host |-> "localhost:9001", hdr |-> NoHeader] }
MCMethods == {"PUT", "GET"}
MCPaths == {MCPath}
MCQueries == {MCNoQuery, MCUploads}
MCHosts == {"localhost:9001", "evil:9001"}
MCForgedValues == {<<Value("v1")>>, <<Value("v2")>>, <<Value("v1"), Value("v2")>>}
MCMaxTime == 1
MCDayLength == 2
MCMaxSigned == 2

\* A caller that sets two values on one header, or a value with a blank
\* around it, before Sign.
MCRequestsMultiValued ==
    { [method |-> "PUT", path |-> MCPath, query |-> MCNoQuery,
       host |-> "localhost:9001",
       hdr |-> [n \in {"X-Amz-Meta-Key"} |-> <<Value("v1"), Value("v2")>>]],
      [method |-> "PUT", path |-> MCPath, query |-> MCNoQuery,
       host |-> "localhost:9001",
       hdr |-> [n \in {"X-Amz-Meta-Key"} |-> <<<<[text |-> "v1"], TRUE>>>>]] }

\* A path holding the byte 0xFF (not UTF-8), and its U+FFFD look-alike.
MCInvalidPath == <<"/", "0xFF">>
MCRequestsInvalidPath ==
    { [method |-> "PUT", path |-> MCInvalidPath, query |-> MCNoQuery,
       host |-> "localhost:9001", hdr |-> NoHeader] }
MCPathsInvalid == {MCInvalidPath, <<"/", "U+FFFD">>}

=============================================================================
