--------------------------- MODULE BatcherAbstract ---------------------------
(***************************************************************************)
(* What a session sees of a Batcher: it admits operations while gathering; *)
(* FlushAsync starts a flush, Abort ends the batch; a flush ends with the   *)
(* flush callback called exactly once with one status, which is Aborted    *)
(* when the session aborted the flush.  A batch aborted before any flush   *)
(* never calls back.                                                       *)
(***************************************************************************)
CONSTANTS
  Ops,        \* the operations a session may add
  Statuses    \* the statuses a flush may end with

VARIABLES
  phase,      \* "gathering", "flushing", "aborted" (before a flush) or "called"
  admitted,   \* the operations added to the batch
  aborted,    \* the session has called Abort
  status      \* the status the callback was called with, "none" before

avars == <<phase, admitted, aborted, status>>

Init ==
  /\ phase = "gathering"
  /\ admitted = {}
  /\ aborted = FALSE
  /\ status = "none"

Add(o) ==
  /\ phase = "gathering" /\ o \notin admitted
  /\ admitted' = admitted \cup {o}
  /\ UNCHANGED <<phase, aborted, status>>

Flush ==
  /\ phase = "gathering"
  /\ phase' = "flushing"
  /\ UNCHANGED <<admitted, aborted, status>>

\* Abort ends a gathering batch at once; a flushing one still calls back.
Abort ==
  /\ phase \in {"gathering", "flushing"} /\ ~aborted
  /\ aborted' = TRUE
  /\ phase' = IF phase = "gathering" THEN "aborted" ELSE phase
  /\ UNCHANGED <<admitted, status>>

\* The flush callback runs, once.
CallBack(st) ==
  /\ phase = "flushing"
  /\ aborted => st = "Aborted"
  /\ phase' = "called"
  /\ status' = st
  /\ UNCHANGED <<admitted, aborted>>

Next ==
  \/ \E o \in Ops : Add(o)
  \/ Flush
  \/ Abort
  \/ \E st \in Statuses : CallBack(st)

\* A flush is not left hanging.
Spec == Init /\ [][Next]_avars /\ WF_avars(\E st \in Statuses : CallBack(st))

=============================================================================
