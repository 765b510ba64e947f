-------------------------------- MODULE Demo --------------------------------
(***************************************************************************)
(* The demo program: main submits its requests in turn to a context whose  *)
(* submitter starts a thread for each, polls until nothing is outstanding, *)
(* cancels, destroys the context, joins the threads and exits.  The context*)
(* is taken at its contract, so every step here is one of HttpContext or   *)
(* leaves it alone; the program's state is composed with it.               *)
(*                                                                         *)
(* main.cpp makes a curl_context, and these requests, each submitted once, *)
(* are never refused by it.  So that its handling of a refused submission  *)
(* is checked all the same, the context may also be a null_context, which  *)
(* refuses every one: behaviours the program would have over that backend. *)
(*                                                                         *)
(* Assumed: a thread can be started, and no handler throws.                *)
(***************************************************************************)
EXTENDS Naturals, FiniteSets, Sequences

CONSTANT Program  \* the requests, in the order main submits them

Requests == {Program[i] : i \in DOMAIN Program}

ASSUME ProgramAssumption ==
    /\ Program \in Seq(Requests)
    /\ \A i, j \in DOMAIN Program : Program[i] = Program[j] => i = j

VARIABLES
    backend,                    \* "curl" or "null", fixed
    stage, verdict, told, life, \* the context, as HttpContext has it
    at,                         \* where main is
    next,                       \* the request main submits next
    failed,                     \* failed
    threads,                    \* the threads that have not ended
    status                      \* the exit status, once there is one

NoVerdict == "no verdict"
Verdicts == {"response", "failure"}

Context == INSTANCE HttpContext WITH ClosingWaits <- TRUE

contextVars == <<stage, verdict, told, life>>
vars == <<backend, contextVars, at, next, failed, threads, status>>

TypeOK ==
    /\ Context!TypeOK
    /\ backend \in {"curl", "null"}
    /\ at \in {"submitting", "polling", "cancelling", "destroying", "joining", "exited"}
    /\ next \in 1..(Len(Program) + 1)
    /\ failed \in BOOLEAN
    /\ threads \subseteq Requests
    /\ status \in {"running", "EXIT_SUCCESS", "EXIT_FAILURE"}

Init ==
    /\ Context!Init
    /\ backend \in {"curl", "null"}
    /\ at = "submitting"
    /\ next = 1
    /\ failed = FALSE
    /\ threads = {}
    /\ status = "running"

(* outstanding_request_count: what main owes, running or not.              *)
Outstanding_Running == {r \in Requests : stage[r] = "submitted"}
Outstanding_Ever == {Program[i] : i \in 1..(next - 1)}
Outstanding == {r \in Requests : stage[r] # "idle"}

-----------------------------------------------------------------------------
(* main.                                                                   *)

(* try_submit returns true, its submitter having started a thread.         *)
Submit ==
    /\ at = "submitting" /\ next <= Len(Program)
    /\ backend = "curl"
    /\ Context!Submit(Program[next])
    /\ threads' = threads \cup {Program[next]}
    /\ next' = next + 1
    /\ UNCHANGED <<backend, at, failed, status>>

(* null_get::try_submit, null_post::try_submit.                            *)
Refused ==
    /\ at = "submitting" /\ next <= Len(Program)
    /\ backend = "null"
    /\ failed' = TRUE
    /\ at' = "polling"
    /\ UNCHANGED <<backend, contextVars, next, threads, status>>

AllSubmitted ==
    /\ at = "submitting" /\ next > Len(Program)
    /\ at' = "polling"
    /\ UNCHANGED <<backend, contextVars, next, failed, threads, status>>

(* main_try_handle_completed_request: true, or false and a yield.          *)
Poll ==
    /\ at = "polling" /\ ~failed /\ Outstanding # {}
    /\ \E r \in Requests : Context!Handle(r)
    /\ UNCHANGED <<backend, at, next, failed, threads, status>>

NothingOutstanding ==
    /\ at = "polling" /\ (failed \/ Outstanding = {})
    /\ at' = "cancelling"
    /\ UNCHANGED <<backend, contextVars, next, failed, threads, status>>

(* cancel_all, and the end of the block: the context's destructor.         *)
CancelAndDestroy ==
    /\ at = "cancelling"
    /\ at' = "destroying"
    /\ Context!BeginClose
    /\ UNCHANGED <<backend, next, failed, threads, status>>

Destroyed ==
    /\ at = "destroying"
    /\ at' = "joining"
    /\ Context!EndClose
    /\ UNCHANGED <<backend, next, failed, threads, status>>

JoinAndExit ==
    /\ at = "joining" /\ threads = {}
    /\ at' = "exited"
    /\ status' = IF failed THEN "EXIT_FAILURE" ELSE "EXIT_SUCCESS"
    /\ UNCHANGED <<backend, contextVars, next, failed, threads>>

-----------------------------------------------------------------------------
(* The threads.                                                            *)

Settle(r) ==
    /\ r \in threads
    /\ Context!Settle(r)
    /\ UNCHANGED <<backend, at, next, failed, threads, status>>

ThreadEnds(r) ==
    /\ r \in threads /\ stage[r] # "submitted"
    /\ threads' = threads \ {r}
    /\ UNCHANGED <<backend, contextVars, at, next, failed, status>>

MainNext == \/ Submit \/ Refused \/ AllSubmitted \/ Poll \/ NothingOutstanding
            \/ CancelAndDestroy \/ Destroyed \/ JoinAndExit

Next == MainNext \/ \E r \in Requests : Settle(r) \/ ThreadEnds(r)

(* Every thread of the program runs: a transfer ends by its timeout.       *)
Fairness ==
    /\ WF_vars(MainNext)
    /\ \A r \in Requests : WF_vars(Settle(r)) /\ WF_vars(ThreadEnds(r))

Spec == Init /\ [][Next]_vars /\ Fairness

-----------------------------------------------------------------------------

(* The program exits with success only when every request was submitted    *)
(* and its answer told, and with failure only when it polled for nothing.  *)
ExitStatusIsHonest ==
    /\ status = "EXIT_SUCCESS" => \A r \in Requests : told[r] # NoVerdict
    /\ status = "EXIT_FAILURE" => \A r \in Requests : told[r] = NoVerdict

(* The program ends, whatever the server does.                             *)
ProgramEnds == <>(status # "running")

=============================================================================
