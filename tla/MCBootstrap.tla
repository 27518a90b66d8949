---------------------------- MODULE MCBootstrap ----------------------------
(* Instantiates Bootstrap for TLC with both runtimes.  One environment is   *)
(* left out: async-std with an empty address list, where the lookup's      *)
(* panic reaches the caller of Connection::new; it is the subject of its    *)
(* own run on Bootstrap.                                                    *)
EXTENDS Bootstrap

MCInit == Init /\ ~(env.exec.join = "AsyncStd" /\ env.dns = "empty")

MCFairSpec == MCInit /\ [][Next]_vars /\ Fairness
=============================================================================
