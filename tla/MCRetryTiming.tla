--------------------------- MODULE MCRetryTiming ----------------------------
(***************************************************************************)
(* The delays of the code, and timeouts around the values that matter.     *)
(***************************************************************************)
EXTENDS RetryTiming

CodeDelays == <<2, 4, 8, 16, 32, 64, 128, 256, 512, 1024, 2048>>

\* 2 + 4 + ... + 2^(k-1).
CodeBefore == [k \in 1..12 |-> 2^k - 2]

\* The configured 30 s, one second too few, just enough, and ample.
CodeLimits == {30, 4093, 4094, 4100}

CodeLatency == {0, 1, 3}
=============================================================================
