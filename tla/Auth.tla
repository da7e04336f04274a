-------------------------------- MODULE Auth --------------------------------
(***************************************************************************)
(* ngx_anytls_auth.c: the first bytes of a client are collected until the  *)
(* prefix (password hash and length of the padding) is there.  A hash that *)
(* no user has ends in the fallback, one that matches waits for the        *)
(* padding.  Bytes are counted; which of them belong to what follows from  *)
(* the length of the prefix and of the padding.                            *)
(***************************************************************************)
EXTENDS Naturals

CONSTANTS PrefixLen,   (* 34: hash and length of the padding                *)
          MaxPadding   (* 65535                                             *)

ASSUME AuthAssumption == PrefixLen \in Nat \ {0} /\ MaxPadding \in Nat

\* sizeof(ac->auth)
AuthMax == PrefixLen + MaxPadding

Least(m, n) == IF m < n THEN m ELSE n

\* mutant of AuthProcess: the padding is taken to be what is left of the read
AuthProcessWholeRead(len, n, match, padding) ==
    LET head == IF len < PrefixLen THEN Least(n, PrefixLen - len) ELSE 0
        need == PrefixLen + padding
        more == IF match THEN n - head ELSE Least(n - head, AuthMax - len - head)
        got  == IF len + head < PrefixLen THEN head ELSE head + more
    IN  [len |-> len + got, consumed |-> got,
         result |-> CASE len + got < PrefixLen -> "more"
                      [] len + got >= PrefixLen /\ ~match -> "fallback"
                      [] match /\ len + got >= PrefixLen /\ len + got < need -> "more"
                      [] match /\ len + got >= need -> "ok"]

\* ngx_anytls_auth_process, with auth_len = len and n bytes to look at
AuthProcess(len, n, match, padding) ==
    LET head == IF len < PrefixLen THEN Least(n, PrefixLen - len) ELSE 0
        need == PrefixLen + padding
        more == Least(n - head, (IF match THEN need ELSE AuthMax) - len - head)
        got  == IF len + head < PrefixLen THEN head ELSE head + more
    IN  [len |-> len + got, consumed |-> got,
         result |-> CASE len + got < PrefixLen -> "more"
                      [] len + got >= PrefixLen /\ ~match -> "fallback"
                      [] match /\ len + got >= PrefixLen /\ len + got < need -> "more"
                      [] match /\ len + got >= need -> "ok"]
=============================================================================
