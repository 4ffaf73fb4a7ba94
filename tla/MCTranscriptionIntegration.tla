-------------------- MODULE MCTranscriptionIntegration --------------------
(* Finite instances of TranscriptionIntegration for TLC. *)
EXTENDS TranscriptionIntegration, TLC

\* One retryable failure: the other classes are MCMemoryQueue's business.
MCErrors == {[code |-> "timeout", recoverable |-> TRUE]}

\* Retries at once, so the clock need not move.
MCPolicies == {[maxAttempts |-> 2, initialDelay |-> 0, maxDelay |-> 0]}

MCSequences == {1}
MCOffsets == {0}

MCSymmetry == Permutations(JobIds)
=============================================================================
