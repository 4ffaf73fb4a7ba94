---------------------------- MODULE RetryBackoff ----------------------------
(***************************************************************************)
(* The bounded exponential delay of a retry.  The code multiplies in       *)
(* floating point; here a multiplier is a whole number, so every product   *)
(* is exact.  `longest' stands for math.MaxInt64, the longest duration.    *)
(*                                                                         *)
(* Source: internal/transcription/retry.go.                                *)
(***************************************************************************)
EXTENDS Integers

\* RetryPolicy.Validate
ValidPolicy(p) == p.initialDelay <= p.maxDelay

\* One turn of the loop.  Returning the maximum ends it: the maximum stays the
\* maximum in every further turn.
NextDelay(p, delay, longest) ==
  LET product == delay * p.multiplier IN
  IF product >= p.maxDelay \/ product > longest THEN p.maxDelay ELSE product

\* boundedBackoff
BoundedBackoff(p, attempt, longest) ==
  LET delayAt[i \in 1 .. attempt] ==
        IF i = 1 THEN p.initialDelay ELSE NextDelay(p, delayAt[i - 1], longest)
  IN  delayAt[attempt]

-----------------------------------------------------------------------------
\* What the loop is for: the exponential delay, cut off at the maximum.
ExactBackoff(p, attempt) ==
  LET exact == p.initialDelay * p.multiplier ^ (attempt - 1) IN
  IF exact < p.maxDelay THEN exact ELSE p.maxDelay

=============================================================================
