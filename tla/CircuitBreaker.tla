--------------------------- MODULE CircuitBreaker ---------------------------
(***************************************************************************)
(* The circuit breaker each provider guards its upstream with              *)
(* (src/src/proxy.go).  A breaker is a value; the three methods are        *)
(* operators on it, because each runs under the breaker's own mutex.       *)
(*                                                                         *)
(* Time is one bit: rested says that more than the timeout has passed      *)
(* since the last failure.                                                 *)
(***************************************************************************)
EXTENDS Naturals

CONSTANT Threshold   \* circuitBreakerFailureThreshold

ASSUME ThresholdPositive == Threshold \in Nat \ {0}

\* failureCount is only ever compared with the threshold, so it stops there.
Breakers == [state: {"closed", "open", "half"}, failures: 0..Threshold,
             rested: BOOLEAN, probe: BOOLEAN]

Closed == [state |-> "closed", failures |-> 0, rested |-> FALSE, probe |-> FALSE]

\* Whether canExecute lets a request through.
CanExecute(b) ==
  \/ b.state = "closed"
  \/ b.state = "open" /\ b.rested
  \/ b.state = "half" /\ ~b.probe

\* The breaker canExecute leaves behind a request it let through.
Admitted(b) ==
  IF b.state = "closed" THEN b ELSE [b EXCEPT !.state = "half", !.probe = TRUE]

OnSuccess(b) == [b EXCEPT !.state = "closed", !.failures = 0, !.probe = FALSE]

\* A breaker that forgets the probe of a request whose attempt failed.
OnFailureKeepsProbe(b) ==
  LET count == IF b.state = "half" \/ b.failures + 1 >= Threshold
               THEN Threshold ELSE b.failures + 1
  IN  [b EXCEPT !.failures = count, !.rested = FALSE,
                !.state = IF count = Threshold /\ b.state # "half"
                          THEN "open" ELSE @]

OnFailure(b) ==
  LET count == IF b.state = "half" \/ b.failures + 1 >= Threshold
               THEN Threshold ELSE b.failures + 1
  IN  [state |-> IF count = Threshold THEN "open" ELSE b.state,
       failures |-> count, rested |-> FALSE, probe |-> FALSE]

\* The timeout since the last failure passes; it matters to an open breaker.
Rested(b) == [b EXCEPT !.rested = TRUE]
=============================================================================
