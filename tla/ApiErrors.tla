------------------------------ MODULE ApiErrors ------------------------------
(***************************************************************************)
(* What a failed request is taken for: api/errors.py, and the part of      *)
(* api/client.py that turns an HTTP status or a body into an exception.    *)
(*                                                                         *)
(* An error detail keeps its code, its type and the fields of its path.    *)
(* The codes and types the client tells apart stand for their families:    *)
(* "rate" is any of the three rate-limit codes, "expired" any of the three *)
(* authentication codes, "refused" one of the two authorization codes and  *)
(* "disabled" the code (or type) of a disabled field.                      *)
(***************************************************************************)
EXTENDS FiniteSets

Codes == {"none", "rate", "expired", "refused", "disabled"}
Types == {"none", "authentication", "authorization", "validation", "not_found", "disabled"}
GenericFields == {"devices", "registers", "readings", "importReadings", "exportReadings"}
Paths == SUBSET ({"supplyPoint", "readings", "qualities"})
Details == [code : Codes, type : Types, path : Paths]

\* What a request ends with when it does not end with data.
Transport == {"timeout", "transport", "transient_http", "final_http", "invalid"}
Classes == {"rate_limit", "authentication", "authorization", "validation", "not_found",
            "graphql", "unavailable", "no_provider"} \cup Transport
Failure(class, details) == [class |-> class, details |-> details]

CodesIn(details) == {d.code : d \in details}
TypesIn(details) == {d.type : d \in details}

\* classify_graphql_error_details: codes win over types, and of several
\* errors the one that stops every request wins over the one that stops this.
Classify(details) ==
    IF "rate" \in CodesIn(details) THEN "rate_limit"
    ELSE IF "expired" \in CodesIn(details) THEN "authentication"
    ELSE IF "refused" \in CodesIn(details) \/ "authorization" \in TypesIn(details)
         THEN "authorization"
    ELSE IF "authentication" \in TypesIn(details) THEN "authentication"
    ELSE IF "validation" \in TypesIn(details) THEN "validation"
    ELSE IF "not_found" \in TypesIn(details) THEN "not_found"
    ELSE "graphql"

\* _decode_response: a status above 400 is classified by itself and carries
\* no details.
StatusClass(status) ==
    CASE status = 401 -> "authentication"
      [] status = 403 -> "authorization"
      [] status = 429 -> "rate_limit"
      [] status \in {408, 425, 500, 502, 503, 504} -> "transient_http"
      [] OTHER -> "final_http"
Statuses == {401, 403, 429, 503, 404}
HttpFailures == {Failure(StatusClass(s), {}) : s \in Statuses}

\* execute: the errors of the body, or what kept the body from being read.
FailuresOf(errors) ==
    {Failure(Classify(details), details) : details \in errors} \cup HttpFailures
        \cup {Failure(class, {}) : class \in {"timeout", "transport", "invalid"}}
=============================================================================
