-------------------------------- MODULE Operator --------------------------------
(***************************************************************************)
(* The operator's paid runs as a whole: the scripts, the agents that serve    *)
(* them, the jobs on chain and the documents the scripts share.               *)
(***************************************************************************)
EXTENDS ControlRun

vars == <<runVars, controlVars, env>>

Init == ChainInit /\ SellerInit /\ RunInit /\ ControlInit

(* Anybody may settle, refund or dispute, and deadlines pass.                 *)
Chain(r) ==
    /\ \/ MineSettle(r) /\ UNCHANGED <<kind, content, window, ripe>>
       \/ MineRefund(r) /\ UNCHANGED <<kind, content, window, ripe>>
       \/ MineReject(r) /\ UNCHANGED <<kind, content, window, ripe>>
       \/ Lapse(r)
       \/ Ripen(r)
    /\ UNCHANGED <<runVars, controlVars, sellerVars>>

Seller(r) ==
    /\ Verify(r) \/ StartWork(r) \/ EndWork(r) \/ SubmitResult(r)
    /\ UNCHANGED <<runVars, controlVars>>

(* The agent a run hires starts again.                                       *)
Restart(r) ==
    /\ kind[r] \in Agents
    /\ RestartAgent(kind[r])
    /\ UNCHANGED <<runVars, controlVars>>

(* The process of a script is killed, and a callback in it.                   *)
Kill(r) ==
    /\ Die(r)
    /\ cb' = [cb EXCEPT ![r] = "over"]
    /\ saving' = [saving EXCEPT ![r] = None]
    /\ hold' = [hold EXCEPT ![r] = None]
    /\ held' = [held EXCEPT ![r] = None]
    /\ UNCHANGED known

Agent(r) == Script(r) /\ UNCHANGED controlVars

Reconciling(r) ==
    \/ Reconcile(r) /\ UNCHANGED controlVars
    \/ ControlReconcile(r)

Next ==
    \/ \E r \in Runs : Agent(r) \/ Control(r) \/ Detect(r) \/ Callback(r)
    \/ \E r \in Runs : Reconciling(r) \/ Kill(r)
    \/ \E r \in Runs : Seller(r) \/ Chain(r) \/ Restart(r)

Spec == Init /\ [][Next]_vars

(* A script takes its steps, and deadlines pass.                             *)
Fairness ==
    \A r \in Runs :
        /\ WF_vars(Agent(r))
        /\ WF_vars(Control(r))
        /\ WF_vars(Lapse(r) /\ UNCHANGED <<runVars, controlVars, sellerVars>>)
        /\ WF_vars(Ripen(r) /\ UNCHANGED <<runVars, controlVars, sellerVars>>)

FairSpec == Spec /\ Fairness

----------------------------------------------------------------------------
Ended == {"stopped", "done", "dead"}

Points ==
    Ended \cup
    {"check", "commit", "send", "note", "fail", "observe", "fetch", "refund", "settle",
     "confirm", "retry", "count", "load", "save", "report",
     "r_read", "r_fetch", "r_settle", "r_confirm", "r_retry", "r_load", "r_save",
     "c_commit", "c_send", "c_note", "c_load", "c_save", "c_look", "c_stop", "c_last",
     "c_fetch", "c_doc", "c_keep", "c_runs", "c_book", "c_error", "rc_read", "rc_save"}

(* Every variable has its type; no script tries to settle more often than it   *)
(* says it does (the for loops of the hire scripts).                          *)
TypeOK ==
    /\ ChainTypeOK
    /\ SellerTypeOK
    /\ RunTypeOK
    /\ ControlTypeOK
    /\ pc \in [Runs -> Points]

(* Money is never in a job that no document names: once a job is funded, on    *)
(* chain and whatever the script was told or wherever it was killed, the       *)
(* run's protocol-job document exists and holds the job's id                  *)
(* (createFundedJob persists createJob before it sends anything else).        *)
EscrowKnown ==
    \A r \in Runs : chain[r] \notin {None, "OPEN"} => doc[r] # None /\ doc[r].job

(* A run that is recorded as complete was precommitted, answered on chain with *)
(* a deliverable that answers the task and, a paid run, settled; one that      *)
(* counts for an agent's track record was recorded as funded                  *)
(* (deriveQualificationFlags, buildControlQualification).                     *)
QualifiedIsEarned ==
    \A r \in Runs : book[r] # None /\ book[r].complete =>
        /\ committed[r] # {}
        /\ kind[r] \in {"yield", "range", "health"} => "baseline" \in committed[r]
        /\ content[r] = "good"
        /\ kind[r] # "control" => chain[r] = "COMPLETED"
        /\ book[r].record => doc[r].funded

(* A paid run that is recorded as complete stays so: the scripts of the run    *)
(* itself, its reconciliation above all, never take that back; only another    *)
(* run's script can, that writes back the copy of the runs it had loaded       *)
(* before (reconcile-health-guard-hire, appendJsonArray).                     *)
QualificationKept ==
    [][\A r \in Runs :
          book[r] # None /\ book[r].complete /\ kind[r] # "control"
          => \/ book'[r] # None /\ book'[r].complete
             \/ \E s \in Runs \ {r} : book'[r] = snap[s][r]]_vars

(* A script that started ends: its loops over the chain's state and over      *)
(* settlement do, whatever the provider does (the hire scripts, the protocol   *)
(* control and their reconciliations).                                       *)
Finishes == \A r \in Runs : pc[r] \notin Ended \cup {"check"} ~> pc[r] \in Ended

=============================================================================
