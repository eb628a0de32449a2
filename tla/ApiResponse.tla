------------------------------- MODULE ApiResponse ------------------------------
(***************************************************************************)
(* What a completed call makes of the HTTP response it got: decode_or_throw*)
(* (src/client.cpp), raise_from_error_response (src/json_parse.cpp) and the*)
(* way each operation reads "result".  A response is a record of what that *)
(* code looks at:                                                          *)
(*                                                                         *)
(*   http    "2xx", "3xx" or "error" (400 and up)                          *)
(*   form    "none" (no JSON, or a JSON null), "object", or "other" JSON   *)
(*   status  the object's "status": success, error, or anything else       *)
(*   code    error.error_code, or "none": "51" as a number, "51 as text",  *)
(*           "19", "904" (for 904 and 905), and "some" for the others      *)
(*   result  "result": absent (or null), an object, an array               *)
(***************************************************************************)

Codes == {"none", "51", "51 as text", "19", "904", "some"}

ApiResponses ==
  {r \in [http : {"2xx", "3xx", "error"}, form : {"none", "object", "other"},
          status : {"success", "error", "other"}, code : Codes,
          result : {"absent", "object", "array"}] :
     r.form # "object" =>
       r.status = "other" /\ r.code = "none" /\ r.result = "absent"}

Body(status, code, result) ==
  [http |-> "2xx", form |-> "object", status |-> status, code |-> code,
   result |-> result]
NoJson(http) ==
  [http |-> http, form |-> "none", status |-> "other", code |-> "none",
   result |-> "absent"]

\* Code 51 with a result is a warning: the error block is dropped and the status
\* becomes success.  The code is read with nlohmann's value(), which does not
\* convert text.
Deprecated(r) == r.form = "object" /\ r.code = "51" /\ r.result # "absent"

\* Mutant: an error status is raised before code 51 is looked at.
SucceedsByStatus(r) == r.form = "object" /\ r.status = "success"

Succeeds(r) == r.form = "object" /\ (Deprecated(r) \/ r.status = "success")

\* The exception decode_or_throw leaves with when the body is no success.
Raised(r, customCatalog) ==
  IF r.form = "none"
  THEN IF r.http = "error" THEN "ApiError" ELSE "SerializationError"
  ELSE IF r.status = "error" /\ customCatalog /\ r.code = "904"
       THEN "CustomCatalogAccessError"
       ELSE "ApiError"

\* recognize() takes any non-null result, the operations that return a list take
\* an array (get_callback_url takes text in the same way), raw_request() the body
\* as it is, and the preflight of longpoll() only needs the call to succeed.
Yields(op, r) ==
  CASE op = "recognize"            -> r.result # "absent"
    [] op \in {"preflight", "raw_request"} -> TRUE
    [] op \in {"recognize_enterprise", "read", "find_lyrics"} -> r.result = "array"
    [] OTHER                       -> FALSE

\* What the caller gets; code 19 tells the preflight that no callback URL is set.
Outcome(op, r) ==
  IF Succeeds(r) THEN (IF Yields(op, r) THEN "result" ELSE "nothing")
  ELSE IF op = "preflight" /\ r.form = "object" /\ r.status = "error" /\ r.code = "19"
       THEN "NoCallbackUrl"
       ELSE Raised(r, op = "catalog_add")
=================================================================================
