------------------------------ MODULE TxService ------------------------------
(***************************************************************************)
(* What the master promises the application of a DING OS build: requests   *)
(* are sent in the order of the calls, one is outstanding at a time, and   *)
(* each request sent ends in exactly one outcome that is reported before   *)
(* the next one is sent.                                                   *)
(***************************************************************************)
EXTENDS Sequences

CONSTANTS
  Req,        \* the requests
  NoReq       \* not a request

VARIABLES
  queue,      \* requests accepted and not sent
  busy        \* the request sent and not answered for, or NoReq

vars == <<queue, busy>>

Init == queue = <<>> /\ busy = NoReq

Accept(r) == queue' = Append(queue, r) /\ UNCHANGED busy

Start ==
  /\ busy = NoReq
  /\ queue # <<>>
  /\ busy' = Head(queue)
  /\ queue' = Tail(queue)

(* The outcome is reported; the application may accept the next request *)
(* from within the report.                                              *)
Report ==
  /\ busy # NoReq
  /\ busy' = NoReq
  /\ \/ UNCHANGED queue
     \/ \E r \in Req : queue' = Append(queue, r)

(* The application withdraws the oldest request. *)
Withdraw == queue # <<>> /\ queue' = Tail(queue) /\ UNCHANGED busy

(* The stack is shut down or initialised: everything is forgotten. *)
Reset == queue' = <<>> /\ busy' = NoReq

Next ==
  \/ \E r \in Req : Accept(r)
  \/ Start
  \/ Report
  \/ Withdraw
  \/ Reset

Spec == Init /\ [][Next]_vars

(* What is accepted is started, what is started is reported. *)
Fairness == WF_vars(Start) /\ WF_vars(Report)
=============================================================================
