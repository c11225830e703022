------------------------------- MODULE Requests -------------------------------
(***************************************************************************)
(* Waiting for a request (astral_request_wait, session_wait, conv_wait):   *)
(* one thread waits with a timeout while the owner feeds, decodes, cancels *)
(* and resets and the worker ends runs.  A waiter loads the state and, for *)
(* a failed run, the error in a second load; session and conversation      *)
(* requests wait inside the object and then read their status again, agent *)
(* chats and search cursors poll the status.                               *)
(***************************************************************************)
EXTENDS Naturals, FiniteSets

CONSTANTS
  RequestKinds,  \* of "session", "conv", "agent", "cursor"
  Errors,        \* the error codes a run may fail with
  MaxRuns        \* bound: runs of the object

ASSUME RequestAssumption ==
  /\ RequestKinds \subseteq {"session", "conv", "agent", "cursor"}
  /\ {"ok", "E_CANCELED", "E_TIMEOUT"} \cap Errors = {}
  /\ MaxRuns \in Nat

VARIABLES
  rkind,     \* the kind of the request, "none" before it is made
  rstate,    \* state of the session or conversation
  rerr,      \* final_err
  rcancel,   \* cancel_requested
  rstep,     \* what the owner or the worker still has to store
  rruns,     \* runs so far
  late,      \* whether the waiter's deadline has passed
  wait,      \* the waiter
  ends       \* the ends of runs that were visible since the wait began

rqVars == <<rkind, rstate, rerr, rcancel, rstep, rruns, late, wait, ends>>

Ended == {"completed", "canceled", "failed"}
NotWaiting == [at |-> "idle", code |-> "none", status |-> "none"]

RQInit ==
  /\ rkind = "none" /\ rstate = "idle" /\ rerr = "ok" /\ rcancel = FALSE /\ rstep = "none"
  /\ rruns = 0 /\ late = FALSE /\ wait = NotWaiting /\ ends = {}

Visible == IF rstate \in Ended THEN {[state |-> rstate, err |-> rerr]} ELSE {}

\* request_state_from_session
FromSession(s) ==
  CASE s = "idle" -> "queued"
    [] s \in {"feeding", "decoding"} -> "running"
    [] OTHER -> s

---------------------------------------------------------------------------
(* The owner and the worker *)

\* astral_request_from_*: the owner handle must be live
Make(k) ==
  /\ rkind = "none" /\ rkind' = k
  /\ rstate' = IF k = "cursor" THEN "completed" ELSE rstate
  /\ UNCHANGED <<rerr, rcancel, rstep, rruns, late, wait, ends>>

Owner == rkind # "none" /\ rstep = "none"
Quiet == UNCHANGED <<rkind, late, wait>>
Record == ends' = IF wait.at \in {"idle", "done"} THEN ends ELSE ends \cup Visible'

RQFeed ==
  /\ Owner /\ rkind # "cursor" /\ rstate = "idle" /\ rruns < MaxRuns
  /\ rstate' = "feeding" /\ rruns' = rruns + 1
  /\ UNCHANGED <<rerr, rcancel, rstep>> /\ Quiet /\ Record

\* session_decode; conv_decode also clears the cancel request and the error
RQDecode ==
  /\ Owner /\ rstate = "feeding" /\ rstate' = "decoding"
  /\ rcancel' = (rcancel /\ rkind = "session")
  /\ rerr' = IF rkind = "session" THEN rerr ELSE "ok"
  /\ UNCHANGED <<rstep, rruns>> /\ Quiet /\ Record

\* astral_request_cancel: session_cancel sets the request whatever the state,
\* conv_cancel ends a run that has not begun, memory_search_cancel is final
Cancel ==
  /\ Owner
  /\ \/ /\ \/ rkind = "session" \/ (rkind \in {"conv", "agent"} /\ rstate = "decoding")
        /\ rcancel' = TRUE /\ UNCHANGED rstate
     \/ /\ (rkind \in {"conv", "agent"} /\ rstate \in {"idle", "feeding"}) \/ rkind = "cursor"
        /\ rstate' = "canceled" /\ UNCHANGED rcancel
  /\ UNCHANGED <<rerr, rstep, rruns>> /\ Quiet /\ Record

\* The end of a run: the error first, then the state
EndError ==
  /\ rstate = "decoding" /\ rstep = "none"
  /\ \E o \in {"completed"} \cup (IF rcancel THEN {"canceled"} ELSE {}) \cup Errors :
       /\ rerr' = CASE o = "completed" -> "ok" [] o = "canceled" -> "E_CANCELED" [] OTHER -> o
       /\ rstep' = IF o \in Errors THEN "failed" ELSE o
  /\ UNCHANGED <<rstate, rcancel, rruns>> /\ Quiet /\ Record

EndState ==
  /\ rstep \in Ended /\ rstate' = rstep /\ rstep' = "none"
  /\ UNCHANGED <<rerr, rcancel, rruns>> /\ Quiet /\ Record

\* session_reset and conv_reset clear the cancel request and the error ...
ResetBegin ==
  /\ Owner /\ rkind # "cursor" /\ rstate # "decoding"
  /\ rcancel' = FALSE /\ rerr' = "ok" /\ rstep' = "idle"
  /\ UNCHANGED <<rstate, rruns>> /\ Quiet /\ Record

\* ... and end with the state, unless the provider refuses a session's reset
ResetEnd ==
  /\ rstep = "idle" /\ rstep' = "none"
  /\ \/ rstate' = "idle"
     \/ rkind = "session" /\ UNCHANGED rstate
  /\ UNCHANGED <<rerr, rcancel, rruns>> /\ Quiet /\ Record

Deadline == wait.at \in {"load", "poll"} /\ ~late /\ late' = TRUE
            /\ UNCHANGED <<rkind, rstate, rerr, rcancel, rstep, rruns, wait, ends>>

---------------------------------------------------------------------------
(* The waiter *)

Rest == UNCHANGED <<rkind, rstate, rerr, rcancel, rstep, rruns>>

\* astral_request_wait: a timeout of zero is a deadline that has passed
WaitBegin ==
  /\ rkind # "none" /\ wait.at \in {"idle", "done"}
  /\ wait' = [NotWaiting EXCEPT !.at = IF rkind \in {"session", "conv"} THEN "load" ELSE "poll"]
  /\ late' \in BOOLEAN /\ ends' = Visible
  /\ Rest

Returns(c) == wait' = [at |-> "status", code |-> c, status |-> wait.status]

\* a deadline that is never looked at
WaitLoad_NoDeadline ==
  /\ wait.at = "load"
  /\ CASE rstate = "completed" -> Returns("ok")
       [] rstate = "canceled"  -> Returns("E_CANCELED")
       [] rstate = "failed"    -> wait' = [wait EXCEPT !.at = "err"]
       [] OTHER -> UNCHANGED wait
  /\ Rest /\ UNCHANGED <<late, ends>>

\* The loop of session_wait and conv_wait: the state, then the deadline
WaitLoad ==
  /\ wait.at = "load"
  /\ CASE rstate = "completed" -> Returns("ok")
       [] rstate = "canceled"  -> Returns("E_CANCELED")
       [] rstate = "failed"    -> wait' = [wait EXCEPT !.at = "err"]
       [] OTHER -> IF late THEN Returns("E_TIMEOUT") ELSE UNCHANGED wait
  /\ Rest /\ UNCHANGED <<late, ends>>

\* an error code returned as it was read, cleared by a reset or not
WaitErr_Raw ==
  /\ wait.at = "err"
  /\ Returns(rerr)
  /\ Rest /\ UNCHANGED <<late, ends>>

WaitErr ==
  /\ wait.at = "err"
  /\ Returns(IF rerr # "ok" THEN rerr ELSE "E_BACKEND")
  /\ Rest /\ UNCHANGED <<late, ends>>

\* The status astral_request_wait reads after the wait
WaitStatus ==
  /\ wait.at = "status"
  /\ wait' = [wait EXCEPT !.at = "done", !.status = FromSession(rstate)]
  /\ Rest /\ UNCHANGED <<late, ends>>

\* The polling loop: request_state_impl until the state is terminal
Poll ==
  /\ wait.at = "poll"
  /\ wait' = CASE FromSession(rstate) \in Ended ->
                    [at |-> "done", code |-> "ok", status |-> FromSession(rstate)]
               [] OTHER -> IF late THEN [at |-> "done", code |-> "E_TIMEOUT",
                                         status |-> FromSession(rstate)]
                           ELSE wait
  /\ Rest /\ UNCHANGED <<late, ends>>

Waiter == WaitLoad \/ WaitErr \/ WaitStatus \/ Poll

RQNext ==
  \/ \E k \in RequestKinds : Make(k)
  \/ RQFeed \/ RQDecode \/ Cancel \/ EndError \/ EndState \/ ResetBegin \/ ResetEnd \/ Deadline
  \/ WaitBegin \/ Waiter

---------------------------------------------------------------------------
(* Correctness *)

RQTypeOK ==
  /\ rstate \in {"idle", "feeding", "decoding"} \cup Ended
  /\ rerr \in {"ok", "E_CANCELED"} \cup Errors /\ rruns \in 0 .. MaxRuns
  /\ wait.at \in {"idle", "load", "err", "status", "poll", "done"}

\* What a wait reports happened while it waited, although resets and further
\* runs go on beside it: OK, canceled and failed name an end that was visible,
\* and the error of a failed run is never lost into a success.
WaitVerdict ==
  LET saw(s) == \E e \in ends : e.state = s
  IN  /\ RQTypeOK
      /\ wait.at \in {"status", "done"} /\ rkind \in {"session", "conv"} =>
           CASE wait.code = "ok"         -> saw("completed")
             [] wait.code = "E_CANCELED" -> saw("canceled") \/ saw("failed")
             [] wait.code = "E_TIMEOUT"  -> TRUE
             [] OTHER                    -> saw("failed")
      /\ wait.at = "done" /\ rkind \in {"agent", "cursor"} =>
           wait.code = "ok" <=> wait.status \in Ended

\* A wait returns: on an end it sees or when its deadline has passed.
WaitReturns == wait.at \in {"load", "poll"} ~> wait.at = "done"

RQFairness == WF_rqVars(Waiter) /\ WF_rqVars(Deadline)
RQSpec == RQInit /\ [][RQNext]_rqVars /\ RQFairness
=============================================================================
