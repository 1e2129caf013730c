------------------------------- MODULE ControlRun -------------------------------
(***************************************************************************)
(* run-protocol-control: buyer and provider in one process.  The script's     *)
(* main flow funds and observes a zero-price job; the SDK's watcher calls     *)
(* back into the same process to work it and submit.  Both append to the same *)
(* protocol-job document, by a load, an await and a save, and both leave what *)
(* they saved in the one variable protocolRecord.                            *)
(***************************************************************************)
EXTENDS PaidRun

VARIABLES
    saving,     \* the event the main flow appends, with its snapshot
    hold,       \* the document the main flow has loaded to append to
    cb,         \* where the watcher's callback stands
    held,       \* the document the callback has loaded to append to
    known       \* a submission transaction was found in the events

controlVars == <<saving, hold, cb, held, known>>

ControlInit ==
    /\ saving = [r \in Runs |-> None]
    /\ hold = [r \in Runs |-> None]
    /\ cb = [r \in Runs |-> "off"]
    /\ held = [r \in Runs |-> None]
    /\ known = [r \in Runs |-> FALSE]

ControlTypeOK ==
    /\ cb \in [Runs -> {"off", "idle", "detect", "work", "submit", "result", "error", "over"}]
    /\ known \in [Runs -> BOOLEAN]

Delivered == {"SUBMITTED", "COMPLETED"}

(* One control ever: a run of this kind already recorded ends the script.     *)
ControlStart(r) ==
    /\ pc[r] = "check"
    /\ kind[r] = "control"
    /\ \/ Goto(r, "stopped")
       \/ (\A s \in Runs : book[s] # None => kind[s] # "control") /\ Goto(r, "c_commit")
    /\ UNCHANGED <<buyVars, doc, lookVars, bookVars, controlVars, env>>

ControlCommit(r) ==
    /\ pc[r] = "c_commit"
    /\ committed' = [committed EXCEPT ![r] = ControlTerms]
    /\ doc' = [doc EXCEPT ![r] = Fresh]
    /\ Goto(r, "c_send")
    /\ UNCHANGED <<step, rec, lookVars, bookVars, controlVars, env>>

(* A buyer transaction; the job's id is stored before its creation is read.   *)
ControlSend(r) ==
    /\ pc[r] = "c_send"
    /\ LET s == Steps[step[r]] IN
       \/ /\ Mine(r, s)
          /\ Goto(r, "c_note")
          /\ rec' = CASE s = "create" -> [rec EXCEPT ![r].job = TRUE]
                      [] s = "fund" -> [rec EXCEPT ![r].funded = TRUE, ![r].state = "funded"]
                      [] OTHER -> rec
          /\ doc' = IF s = "create" THEN [doc EXCEPT ![r] = rec'[r]] ELSE doc
       \/ /\ Mine(r, s) \/ UNCHANGED chain
          /\ Goto(r, "c_error")
          /\ UNCHANGED <<rec, doc>>
    /\ UNCHANGED <<kind, content, window, ripe, sellerVars, controlVars>>
    /\ UNCHANGED <<step, committed, lookVars, bookVars>>

(* The job is read for the event of the transaction.                         *)
ControlNote(r) ==
    /\ pc[r] = "c_note"
    /\ \/ /\ saving' = [saving EXCEPT ![r] = [event |-> Steps[step[r]], status |-> chain[r]]]
          /\ Goto(r, "c_load")
       \/ Goto(r, "c_error") /\ UNCHANGED saving
    /\ UNCHANGED <<buyVars, doc, lookVars, bookVars, hold, cb, held, known, env>>

----------------------------------------------------------------------------
(* appendProtocolEvent of the main flow, and where the flow goes on.  The     *)
(* watcher starts before the job is funded.                                  *)
SaveLoad(r) ==
    /\ pc[r] = "c_load"
    /\ hold' = [hold EXCEPT ![r] = doc[r]]
    /\ Goto(r, "c_save")
    /\ UNCHANGED <<buyVars, doc, lookVars, bookVars, saving, cb, held, known, env>>

AfterSave(r, e) ==
    CASE e \in {"create", "register", "budget"} -> "c_send"
      [] e = "fund" -> "c_look"
      [] e = "look" -> IF seen[r] \in Terminal THEN "c_stop" ELSE "c_look"
      [] e = "last" -> "c_fetch"
      [] e = "deliverable" -> "c_doc"

SaveWrite(r) ==
    /\ pc[r] = "c_save"
    /\ LET s == saving[r] IN
       /\ doc' = [doc EXCEPT ![r] = [hold[r] EXCEPT !.events = @ \cup {s.event},
                                                   !.current = s.status]]
       /\ Goto(r, AfterSave(r, s.event))
       /\ step' = IF s.event \in {"create", "register", "budget"}
                  THEN [step EXCEPT ![r] = @ + 1] ELSE step
       /\ cb' = IF s.event = "budget" THEN [cb EXCEPT ![r] = "idle"] ELSE cb
    /\ rec' = [rec EXCEPT ![r] = doc'[r]]
    /\ saving' = [saving EXCEPT ![r] = None]
    /\ hold' = [hold EXCEPT ![r] = None]
    /\ UNCHANGED <<committed, lookVars, bookVars, held, known, env>>

(* The observation loop.                                                     *)
ControlLook(r) ==
    /\ pc[r] = "c_look"
    /\ seen' = [seen EXCEPT ![r] = chain[r]]
    /\ seen'[r] # seen[r]
    /\ saving' = [saving EXCEPT ![r] = [event |-> "look", status |-> chain[r]]]
    /\ Goto(r, "c_load")
    /\ UNCHANGED <<buyVars, doc, valid, tries, bookVars, hold, cb, held, known, env>>

ControlLookEnds(r) ==
    /\ pc[r] = "c_look"
    /\ window[r] > 0
    /\ Goto(r, "c_stop")
    /\ UNCHANGED <<buyVars, doc, lookVars, bookVars, controlVars, env>>

(* The watcher is aborted and given five seconds; the record is loaded again. *)
ControlStop(r) ==
    /\ pc[r] = "c_stop"
    /\ cb' = [cb EXCEPT ![r] = IF @ = "idle" THEN "over" ELSE @]
    /\ rec' = [rec EXCEPT ![r] = doc[r]]
    /\ Goto(r, "c_last")
    /\ UNCHANGED <<step, committed, doc, lookVars, bookVars, saving, hold, held, known, env>>

ControlLast(r) ==
    /\ pc[r] = "c_last"
    /\ seen' = [seen EXCEPT ![r] = chain[r]]
    /\ IF chain[r] \in Delivered
       THEN /\ saving' = [saving EXCEPT ![r] = [event |-> "last", status |-> chain[r]]]
            /\ Goto(r, "c_load")
       ELSE Goto(r, "c_fetch") /\ UNCHANGED saving
    /\ UNCHANGED <<buyVars, doc, valid, tries, bookVars, hold, cb, held, known, env>>

(* The submission is looked for in the record as it is in memory now: its     *)
(* signer is part of the validation.  A deliverable that cannot be resolved   *)
(* ends the script, without a run.                                           *)
ControlFetch(r) ==
    /\ pc[r] = "c_fetch"
    /\ known' = [known EXCEPT ![r] = "result" \in rec[r].events]
    /\ IF seen[r] \in Delivered
       THEN \/ /\ \E genuine \in BOOLEAN :
                    valid' = [valid EXCEPT ![r] = known'[r] /\ Validated(r, genuine)]
               /\ saving' = [saving EXCEPT ![r] = [event |-> "deliverable", status |-> seen[r]]]
               /\ Goto(r, "c_load")
            \/ Goto(r, "c_error") /\ UNCHANGED <<valid, saving>>
       ELSE Goto(r, "c_doc") /\ UNCHANGED <<valid, saving>>
    /\ UNCHANGED <<buyVars, doc, seen, tries, bookVars, hold, cb, held, env>>

(* The record is loaded, marked, and stored once more.                       *)
ControlDoc(r) ==
    /\ pc[r] = "c_doc"
    /\ rec' = [rec EXCEPT ![r] = [doc[r] EXCEPT !.current = seen[r], !.funded = TRUE]]
    /\ Goto(r, "c_keep")
    /\ UNCHANGED <<step, committed, doc, lookVars, bookVars, controlVars, env>>

ControlKeep(r) ==
    /\ pc[r] = "c_keep"
    /\ doc' = [doc EXCEPT ![r] = rec[r]]
    /\ Goto(r, "c_runs")
    /\ UNCHANGED <<buyVars, lookVars, bookVars, controlVars, env>>

(* buildControlQualification, and which path the run is said to have shown    *)
(* broken.                                                                   *)
ControlComplete(r) == seen[r] \in Delivered /\ valid[r] = TRUE

Classification(r, status, complete, hash) ==
    CASE complete -> "completed"
      [] ~ complete /\ status = "FUNDED" -> "watch_path_broken"
      [] ~ complete /\ status \in Delivered /\ hash -> "observation_path_broken"
      [] ~ complete /\ status \notin Delivered \cup {"FUNDED"} /\ hash -> "inconclusive"
      [] OTHER -> "submit_path_broken"

ControlEntry(r) ==
    [complete |-> ControlComplete(r), record |-> FALSE, public |-> FALSE, verified |-> FALSE,
     terminal |-> Classification(r, seen[r], ControlComplete(r), known[r]),
     shown |-> seen[r], hash |-> known[r]]

(* saveRun: appendJsonArray.                                                 *)
ControlRuns(r) ==
    /\ pc[r] = "c_runs"
    /\ snap' = [snap EXCEPT ![r] = book]
    /\ Goto(r, "c_book")
    /\ UNCHANGED <<buyVars, doc, lookVars, prior, report, book, controlVars, env>>

ControlSave(r) ==
    /\ pc[r] = "c_book"
    /\ book' = [snap[r] EXCEPT ![r] = ControlEntry(r)]
    /\ snap' = [snap EXCEPT ![r] = NoEntry]
    /\ Goto(r, "done")
    /\ UNCHANGED <<buyVars, doc, lookVars, prior, report, controlVars, env>>

(* The error is appended, and the watcher aborted.                           *)
ControlError(r) ==
    /\ pc[r] = "c_error"
    /\ doc' = [doc EXCEPT ![r].events = @ \cup {"control_error"},
                         ![r].current = IF @ = None THEN "ERROR" ELSE @]
    /\ rec' = [rec EXCEPT ![r] = doc'[r]]
    /\ cb' = [cb EXCEPT ![r] = IF @ = "idle" THEN "over" ELSE @]
    /\ Goto(r, "stopped")
    /\ UNCHANGED <<step, committed, lookVars, bookVars, saving, hold, held, known, env>>

----------------------------------------------------------------------------
(* The watcher's callback: it appends that it found the job, works it,        *)
(* appends the result, submits, and appends how that went.                   *)
Detect(r) ==
    /\ cb[r] = "idle"
    /\ chain[r] = "FUNDED"
    /\ cb' = [cb EXCEPT ![r] = "detect"]
    /\ UNCHANGED <<runVars, saving, hold, held, known, env>>

CallbackLoad(r) ==
    /\ cb[r] \in {"detect", "work", "result", "error"}
    /\ held[r] = None
    /\ held' = [held EXCEPT ![r] = doc[r]]
    /\ UNCHANGED <<runVars, saving, hold, cb, known, env>>

(* A submission that failed may be retried by the watcher.                    *)
CallbackSave(r) ==
    /\ cb[r] \in {"detect", "work", "result", "error"}
    /\ held[r] # None
    /\ doc' = [doc EXCEPT ![r] = [held[r] EXCEPT
                    !.events = @ \cup {cb[r]},
                    !.current = IF cb[r] = "detect" THEN "FUNDED" ELSE @]]
    /\ rec' = [rec EXCEPT ![r] = doc'[r]]
    /\ held' = [held EXCEPT ![r] = None]
    /\ \/ cb[r] = "detect" /\ cb' = [cb EXCEPT ![r] = "work"]
       \/ cb[r] = "work" /\ cb' = [cb EXCEPT ![r] = "submit"]
       \/ cb[r] \in {"result", "error"} /\ cb' = [cb EXCEPT ![r] = "over"]
       \/ /\ cb[r] = "error"
          /\ pc[r] \in {"c_look", "c_note", "c_load", "c_save"}
          /\ cb' = [cb EXCEPT ![r] = "idle"]
    /\ UNCHANGED <<pc, step, committed, lookVars, bookVars, saving, hold, known, env>>

(* submitResult answers with the hash of what it mined, or fails with the     *)
(* submission mined or not; or the receipt cannot be read and the callback    *)
(* throws.                                                                   *)
CallbackSubmit(r) ==
    /\ cb[r] = "submit"
    /\ \/ Deliver(r, "good") /\ cb' = [cb EXCEPT ![r] = "result"]
       \/ /\ Deliver(r, "good") \/ UNCHANGED <<chain, content>>
          /\ \E s \in {"error", "over"} : cb' = [cb EXCEPT ![r] = s]
    /\ UNCHANGED <<runVars, saving, hold, held, known, kind, window, ripe, sellerVars>>

Callback(r) == CallbackLoad(r) \/ CallbackSave(r) \/ CallbackSubmit(r)

----------------------------------------------------------------------------
(* reconcile-protocol-control: from the run as recorded, with a submission    *)
(* hash in it, the job and the local deliverable are read again.             *)
ControlReconcile(r) ==
    /\ pc[r] \in {"done", "dead"}
    /\ kind[r] = "control"
    /\ book[r] # None
    /\ book[r].hash
    /\ snap' = [snap EXCEPT ![r] = book]
    /\ Goto(r, "rc_read")
    /\ UNCHANGED <<buyVars, doc, lookVars, prior, report, book, controlVars, env>>

ControlReread(r) ==
    /\ pc[r] = "rc_read"
    /\ seen' = [seen EXCEPT ![r] = chain[r]]
    /\ \E genuine \in BOOLEAN :
        valid' = [valid EXCEPT ![r] = chain[r] \in Delivered /\ Validated(r, genuine)]
    /\ Goto(r, "rc_save") \/ Goto(r, "dead")
    /\ UNCHANGED <<buyVars, doc, tries, bookVars, controlVars, env>>

Rewritten(r, e) ==
    [e EXCEPT !.complete = valid[r],
              !.shown = seen[r],
              !.terminal = CASE valid[r] -> "completed"
                             [] ~ valid[r] /\ seen[r] \in Delivered -> "observation_path_broken"
                             [] OTHER -> e.terminal]

ControlRewrite(r) ==
    /\ pc[r] = "rc_save"
    /\ book' = [snap[r] EXCEPT ![r] = Rewritten(r, snap[r][r])]
    /\ snap' = [snap EXCEPT ![r] = NoEntry]
    /\ Goto(r, "done")
    /\ UNCHANGED <<buyVars, doc, lookVars, prior, report, controlVars, env>>

Control(r) ==
    \/ ControlStart(r) \/ ControlCommit(r) \/ ControlSend(r) \/ ControlNote(r)
    \/ SaveLoad(r) \/ SaveWrite(r) \/ ControlLook(r) \/ ControlLookEnds(r)
    \/ ControlStop(r) \/ ControlLast(r) \/ ControlFetch(r) \/ ControlDoc(r) \/ ControlKeep(r)
    \/ ControlRuns(r) \/ ControlSave(r) \/ ControlError(r)
    \/ ControlReread(r) \/ ControlRewrite(r)

=============================================================================
