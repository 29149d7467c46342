------------------------------ MODULE MCWorker ------------------------------
(***************************************************************************)
(* WpContext instantiated for TLC.  Memory for requests is interchangeable *)
(* and so are the threads of the pool; no run has temporal properties that *)
(* symmetry could hide.                                                    *)
(***************************************************************************)
EXTENDS WpContext, TLC

Plain ==
  [desired |-> 2, initial |-> 1, restart |-> 0, idleTime |-> 0,
   maxRequests |-> 3, maxBusy |-> 1, maxDisconnects |-> 0, faults |-> {},
   maxFaults |-> 0]

\* Small pools that fill the free list, add requests as they come, report
\* idleness while a disconnection is waited for, reach the restart count with
\* objects on the free list, and meet each failure.
SmallSettings ==
  {[Plain EXCEPT !.desired = 0, !.initial = 3, !.maxBusy = 2],
   Plain,
   [Plain EXCEPT !.maxRequests = 2, !.idleTime = 1],
   [Plain EXCEPT !.maxRequests = 1, !.idleTime = 1, !.maxDisconnects = 1],
   [Plain EXCEPT !.maxRequests = 2, !.desired = 0, !.initial = 2, !.restart = 2],
   [Plain EXCEPT !.maxRequests = 2, !.faults = FaultKinds, !.maxFaults = 1]}

Symmetry == Permutations(Req) \cup Permutations(Thread)
=============================================================================
