------------------------------ MODULE MCStartup -----------------------------
(***************************************************************************)
(* Two instances that start at the same time, as during a rollout.         *)
(***************************************************************************)
EXTENDS Startup

TwoInstances == 1..2

\* Development with and without a secret and a variable, and the two files
\* of the k8s ConfigMap alone.
SomeSources ==
  { [base |-> {"host"}, mode |-> {"url", "key"}, secret |-> {}, environment |-> {}],
    [base |-> {"host"}, mode |-> {"url", "key"}, secret |-> {"key", "sentry"},
     environment |-> {"url"}],
    [base |-> {"host"}, mode |-> {"url"}, secret |-> {}, environment |-> {}] }
=============================================================================
