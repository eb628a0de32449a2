-------------------------------- MODULE MCApiCall -------------------------------
(* Model-checking instance of ApiCall: every operation, max_attempts below, at *)
(* and above one, a body of two pieces.                                        *)
EXTENDS ApiCall

\* Successes of every shape, code 51 as a number and as text, with and without a
\* result, other errors in JSON and answers that are no JSON.
MCAnswers ==
  {Body("success", "none", result) : result \in {"absent", "object", "array"}}
    \cup {Body("error", code, result) : code \in {"51", "51 as text", "19", "904", "some"},
                                       result \in {"absent", "array"}}
    \cup {Body("other", "none", "absent"), NoJson("2xx"), NoJson("error")}

MCMaxAttempts == {-1, 1, 3}
=================================================================================
