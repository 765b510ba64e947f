---------------------------- MODULE HttpContext ----------------------------
(***************************************************************************)
(* What an HTTP context promises the program that uses it, whichever       *)
(* backend implements it: the contract of http::context and http::request. *)
(*                                                                         *)
(* A request is idle until it is submitted, then its answer is settled     *)
(* exactly once, off the main thread, and main is told that answer exactly *)
(* once, when it asks for a completed request.  A submission that throws   *)
(* owes nothing.  Destroying the context withdraws every answer main has   *)
(* not asked for; a backend that waits for its workers first waits for the *)
(* answers still being produced.                                           *)
(***************************************************************************)

CONSTANTS
    Requests,   \* the request objects made by one context
    Verdicts,   \* the answers a request can be settled with
    NoVerdict,  \* what an unsettled request has, not among Verdicts
    ClosingWaits \* whether the destructor waits for unsettled answers

VARIABLES
    stage,      \* "idle", "submitted" or "settled", for each request
    verdict,    \* the answer of a settled request
    told,       \* what main was told of the request's last submission
    life        \* "open", "closing" or "closed": the context

vars == <<stage, verdict, told, life>>

TypeOK ==
    /\ stage \in [Requests -> {"idle", "submitted", "settled"}]
    /\ verdict \in [Requests -> Verdicts \cup {NoVerdict}]
    /\ told \in [Requests -> Verdicts \cup {NoVerdict}]
    /\ life \in {"open", "closing", "closed"}

Init ==
    /\ stage = [r \in Requests |-> "idle"]
    /\ verdict = [r \in Requests |-> NoVerdict]
    /\ told = [r \in Requests |-> NoVerdict]
    /\ life = "open"

(* request::try_submit returning true.                                     *)
Submit(r) ==
    /\ life = "open"
    /\ stage[r] = "idle"
    /\ stage' = [stage EXCEPT ![r] = "submitted"]
    /\ told' = [told EXCEPT ![r] = NoVerdict]
    /\ UNCHANGED <<verdict, life>>

(* request::try_submit throwing what the submitter threw: no handler is    *)
(* owed, whether or not the task had run by then.                          *)
Withdraw(r) ==
    /\ life = "open"
    /\ stage[r] # "idle"
    /\ stage' = [stage EXCEPT ![r] = "idle"]
    /\ verdict' = [verdict EXCEPT ![r] = NoVerdict]
    /\ UNCHANGED <<told, life>>

(* A worker settles the answer.                                            *)
Settle(r) ==
    /\ stage[r] = "submitted"
    /\ stage' = [stage EXCEPT ![r] = "settled"]
    /\ \E v \in Verdicts : verdict' = [verdict EXCEPT ![r] = v]
    /\ UNCHANGED <<told, life>>

(* context::main_try_handle_completed_request returning true.              *)
Handle(r) ==
    /\ life = "open"
    /\ stage[r] = "settled"
    /\ stage' = [stage EXCEPT ![r] = "idle"]
    /\ verdict' = [verdict EXCEPT ![r] = NoVerdict]
    /\ told' = [told EXCEPT ![r] = verdict[r]]
    /\ UNCHANGED life

(* The context's destructor starts ...                                     *)
BeginClose ==
    /\ life = "open"
    /\ life' = "closing"
    /\ UNCHANGED <<stage, verdict, told>>

(* ... and returns: where it waits, once no answer is still being produced.*)
EndClose ==
    /\ life = "closing"
    /\ ClosingWaits => \A r \in Requests : stage[r] # "submitted"
    /\ life' = "closed"
    /\ stage' = [r \in Requests |-> "idle"]
    /\ verdict' = [r \in Requests |-> NoVerdict]
    /\ UNCHANGED told

Next ==
    \/ \E r \in Requests : Submit(r) \/ Withdraw(r) \/ Settle(r) \/ Handle(r)
    \/ BeginClose
    \/ EndClose

Spec == Init /\ [][Next]_vars

=============================================================================
