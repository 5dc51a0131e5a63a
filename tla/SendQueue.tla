------------------------------- MODULE SendQueue -------------------------------
(* What aigw_ws_send_request promises the onesdk_rt_* calls: a queue that takes *)
(* each request of a call at most once and in the order of the call, however    *)
(* the calls of several threads meet, and that writes what it took in that      *)
(* order, each request once.  Nothing here speaks of threads, connections,      *)
(* wake-ups or retries.                                                         *)
EXTENDS Naturals, Sequences

CONSTANTS Requests, \* what can be sent
          Room      \* how many accepted requests may wait

VARIABLES open,     \* between aigw_ws_init and aigw_ws_deinit
          accepted, \* the requests taken, in their order
          written   \* the requests written whole, in their order
queueVars == <<open, accepted, written>>

\* Within one call, audio comes before its commit, and the commit before the request
\* for a response; no kind comes twice.
Before(x, y) ==
  x.call = y.call => <<x.kind, y.kind>> \in {<<"append", "commit">>, <<"append", "create">>, <<"commit", "create">>}

QueueInit == open = TRUE /\ accepted = <<>> /\ written = <<>>

Accept(r) ==
  /\ open /\ Len(accepted) < Len(written) + Room
  /\ \A i \in DOMAIN accepted : Before(accepted[i], r)
  /\ accepted' = Append(accepted, r) /\ UNCHANGED <<open, written>>

Write ==
  /\ open /\ Len(written) < Len(accepted)
  /\ written' = Append(written, accepted[Len(written) + 1]) /\ UNCHANGED <<open, accepted>>

Close == open /\ open' = FALSE /\ UNCHANGED <<accepted, written>>

QueueNext == (\E r \in Requests : Accept(r)) \/ Write \/ Close
QueueSpec == QueueInit /\ [][QueueNext]_queueVars
================================================================================
