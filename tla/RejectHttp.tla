----------------------------- MODULE RejectHttp -----------------------------
(***************************************************************************)
(* What ngx_anytls_reject_plain_http.c makes of plaintext on a TLS port.   *)
(* The handler peeks: it sees the request from its start each time, up to  *)
(* the size of its buffer, and decides again.                              *)
(*                                                                         *)
(* A request is seen in stages: 1 less than the method and a byte of URI,  *)
(* 2 a part of the request line, 3 a part in which a fault of the line      *)
(* shows, 4 the request line and nothing more, 5 a part of the headers, 6   *)
(* all of it.                                                               *)
(***************************************************************************)
EXTENDS Naturals

Whole == 6

\* A line is bad that has a control character in its URI, or more than a version
\* behind the URI; full is the stage at which the peek buffer is full.
Request == [method  : {"page", "notAllowed", "unknown"},
            line    : {"sound", "bad"},
            version : {"1.1", "1.0", "other"},
            host    : BOOLEAN,
            full    : {2, 3, 4, 5, Whole + 1}]

Seen(r, sent) == IF sent > r.full THEN r.full ELSE sent

\* HTTP/1.1 needs a Host header, HTTP/1.0 does not, and other versions have none
Acceptable(r) == r.version = "1.0" \/ (r.version = "1.1" /\ r.host)

\* mutant of IsHttp: CONNECT and TRACE are refused before the Host check
IsHttpMethodFirst(r, n) ==
    CASE n < 2                                -> "again"
      [] n >= 2 /\ r.method = "unknown"       -> "400"
      [] n >= 2 /\ r.method = "notAllowed"    -> "405"
      [] OTHER -> IF n < Whole THEN (IF n = r.full THEN "400" ELSE "again")
                  ELSE IF Acceptable(r) THEN "497" ELSE "400"

\* ngx_anytls_reject_plain_http_is_http: NGX_AGAIN, or the page of the answer.
\* Only a line that is not complete is searched for faults.
IsHttp(r, n) ==
    CASE n < 2                                                -> "again"
      [] n >= 2 /\ r.method = "unknown"                       -> "400"
      [] n = 3 /\ r.method # "unknown" /\ r.line = "bad"      -> "400"
      [] n = 4 /\ r.method # "unknown" /\ r.version = "other" -> "400"
      [] n = Whole /\ r.method # "unknown"                    ->
            IF ~Acceptable(r) THEN "400"
            ELSE IF r.method = "notAllowed" THEN "405" ELSE "497"
      [] OTHER -> IF n = r.full THEN "400" ELSE "again"

\* The answer nginx's http module gives to the whole request, which the handler
\* imitates: malformed input, and a request that does not fit in the buffers, is
\* a bad request.
HttpsPortAnswer(r) ==
    IF r.full < Whole \/ r.method = "unknown" \/ r.line = "bad" \/ ~Acceptable(r) THEN "400"
    ELSE IF r.method = "notAllowed" THEN "405" ELSE "497"
=============================================================================
