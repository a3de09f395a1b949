--------------------------- MODULE MCRetryBudget ---------------------------
(* The transport with a count of the attempts to establish the link since it *)
(* was last up or a client last asked for a reconnect.                        *)
EXTENDS ExpansionTransport

VARIABLE unasked

Rates == <<"230400", "9600">>

CountedInit == Init /\ unasked = 0

CountedNext ==
    /\ Next
    /\ unasked' = IF sup' = "spawn" \/ (RequestReconnect /\ UNCHANGED sup) THEN 0
                  ELSE IF sup = "retry" /\ sup' = "init" THEN unasked + 1
                  ELSE unasked

CountedSpec == CountedInit /\ [][CountedNext]_<<vars, unasked>>

\* After a loss, and after each request, at most MaxRetries attempts follow
\* (docs/HARDWARE_TEST_PLAN.md:20); then the supervisor waits to be asked.
RetryBudget == unasked <= MaxRetries
=============================================================================
