---------------------------- MODULE ErrorTaxonomy ----------------------------
(***************************************************************************)
(* core/error.rs and its two ends: how an upstream's failure enters the    *)
(* taxonomy (parse_upstream_error; the error branch of parse_response) and *)
(* how a client protocol renders it (serialize_error, error_json_response).*)
(* An error is its variant and, for Upstream, the status it carries.       *)
(***************************************************************************)
EXTENDS Integers

AdapterError(variant) == [e |-> variant, status |-> 0]
Upstream(status) == [e |-> "Upstream", status |-> status]

Variants == {"InvalidRequest", "Authentication", "PermissionDenied", "RateLimit",
             "Overloaded", "InsufficientQuota", "Api", "Upstream", "Internal"}

\* Only the Gemini adapter maps statuses onto the taxonomy.
parse_upstream_error(upstream, status) ==
    CASE upstream # "gemini" -> Upstream(status)
      [] status = 400 -> AdapterError("InvalidRequest")
      [] status = 401 -> AdapterError("Authentication")
      [] status = 403 -> AdapterError("PermissionDenied")
      [] status = 429 -> AdapterError("RateLimit")
      [] status = 503 -> AdapterError("Overloaded")
      [] OTHER -> Upstream(status)

\* A successful answer whose body is an error: its status member, as u16, or
\* else 500.
EmbeddedError(given) == Upstream(IF given = <<>> THEN 500 ELSE given[1] % 2 ^ 16)

\* The statuses of the variants every protocol renders alike.
CommonStatus(err) ==
    CASE err.e = "InvalidRequest" -> 400
      [] err.e = "Authentication" -> 401
      [] err.e = "PermissionDenied" -> 403
      [] err.e \in {"RateLimit", "InsufficientQuota"} -> 429
      [] err.e = "Upstream" -> err.status
      [] err.e = "Internal" -> 500

\* Mutation: an upstream's failure is the gateway's 502.
BadGateway(client, err) == IF err.e = "Upstream" THEN 502 ELSE CommonStatus(err)

serialize_error(client, err) ==
    CASE err.e = "Overloaded" -> IF client = "anthropic" THEN 529 ELSE 503
      [] err.e = "Api" -> IF client = "openai" THEN 502 ELSE 500
      [] OTHER -> CommonStatus(err)

\* StatusCode::from_u16 takes 100 to 999.
error_json_response(status) == IF status \in 100 .. 999 THEN status ELSE 500

AnswerStatus(client, err) == error_json_response(serialize_error(client, err))
==============================================================================
