--------------------------- MODULE MCMemoryQueue ---------------------------
(* Finite instances of MemoryQueue for TLC. *)
EXTENDS MemoryQueue, RetryBackoff, TLC

\* One failure of each class the retry decision tells apart.
MCErrors == {[code |-> "timeout", recoverable |-> TRUE],
             [code |-> "internal", recoverable |-> FALSE],
             [code |-> "uncertain", recoverable |-> FALSE]}

\* A patient policy that may retry at once and one that waits and gives up early.
MCPolicies == {[maxAttempts |-> 3, initialDelay |-> 0, maxDelay |-> 1],
               [maxAttempts |-> 2, initialDelay |-> 1, maxDelay |-> 1]}

JobSymmetry == Permutations(JobIds)

-----------------------------------------------------------------------------
(* The delay of a retry.                                                   *)

MCDelays == {0, 1, 2, 3, 7, 8, 9, 16, 27, 100}
MCLongest == 100
MCBackoffPolicies ==
  {p \in [initialDelay : MCDelays, maxDelay : MCDelays, multiplier : {1, 2, 3, 10}] : ValidPolicy(p)}

\* The loop of boundedBackoff gives the exponential delay cut off at the
\* maximum, saturating neither late nor early, and with it one of the delays
\* that MemoryQueue lets a retry have.
ASSUME BackoffChecked ==
  \A p \in MCBackoffPolicies : \A attempt \in 1 .. 6 :
    LET delay == BoundedBackoff(p, attempt, MCLongest) IN
    /\ delay = ExactBackoff(p, attempt)
    /\ delay \in BackoffDelays(p)
=============================================================================
