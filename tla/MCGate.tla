------------------------------- MODULE MCGate -------------------------------
(* Servers and plaintext requests for the runs of Gate. *)
EXTENDS Gate

\* with and without TLS, rejection, fallback and PROXY protocol
Servers == {[ssl |-> TRUE, reject |-> TRUE, fallback |-> TRUE, proxy |-> FALSE],
            [ssl |-> TRUE, reject |-> FALSE, fallback |-> FALSE, proxy |-> FALSE],
            [ssl |-> FALSE, reject |-> TRUE, fallback |-> TRUE, proxy |-> TRUE]}

PlainServer == {[ssl |-> FALSE, reject |-> FALSE, fallback |-> TRUE, proxy |-> FALSE]}

\* bytes each side sends
Few == [client |-> 3, fallback |-> 3]

AllRequests == Request
OneRequest == {[method |-> "page", line |-> "sound", version |-> "1.1", host |-> TRUE,
                full |-> Whole + 1]}
=============================================================================
