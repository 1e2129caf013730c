----------------------------- MODULE ReplayStore -----------------------------
(***************************************************************************)
(* One replay slot of FileMppReplayStore and the updates of it: in one        *)
(* process or several, all on one host.  A slot is a file, and its lock is    *)
(* another file that is created exclusively.  The payment library reserves    *)
(* the slot of a payment before it settles and deletes it if that fails.      *)
(*                                                                          *)
(* A definition whose comment starts with "Slip:" is not part of the system. *)
(***************************************************************************)
CONSTANTS
    Updates,    \* the requests that pay with the same proof
    None

ASSUME ReplayAssumption == None \notin Updates

VARIABLES
    slot,       \* the value file: the update that reserved it, None if absent
    lock,       \* the lock file: the update that created it, None if absent
    stale,      \* the lock file is older than LOCK_STALE_MS
    pc,         \* where each update stands
    op,         \* what it does to the slot
    won,        \* the requests told that the slot is theirs
    broken      \* a stale lock was removed

vars == <<slot, lock, stale, pc, op, won, broken>>

Labels == {"idle", "open", "stat", "break", "get", "write", "release", "ended", "dead"}

Ops == {"reserve", "delete", "noop"}

(* Between the exclusive open and the unlink of the lock file.               *)
Inside(u) == pc[u] \in {"get", "write", "release"}

UnderWay(u) == Inside(u) \/ pc[u] \in {"open", "stat", "break"}

Goto(u, l) == pc' = [pc EXCEPT ![u] = l]

Init ==
    /\ slot = None
    /\ lock = None
    /\ stale = FALSE
    /\ pc = [u \in Updates |-> "idle"]
    /\ op = [u \in Updates |-> "noop"]
    /\ won = {}
    /\ broken = FALSE

(* The library's first update of a request, and the one that gives up.       *)
Reserve(u) ==
    /\ pc[u] = "idle"
    /\ Goto(u, "open")
    /\ op' = [op EXCEPT ![u] = "reserve"]
    /\ UNCHANGED <<slot, lock, stale, won, broken>>

GiveUp(u) ==
    /\ pc[u] = "ended"
    /\ u \in won
    /\ Goto(u, "open")
    /\ op' = [op EXCEPT ![u] = "delete"]
    /\ won' = won \ {u}
    /\ UNCHANGED <<slot, lock, stale, broken>>

(* Slip: the lock file is opened whether or not it exists.                   *)
OpenAny(u) ==
    /\ pc[u] = "open"
    /\ lock' = u
    /\ stale' = FALSE
    /\ Goto(u, "get")
    /\ UNCHANGED <<slot, op, won, broken>>

Open(u) ==
    /\ pc[u] = "open"
    /\ IF lock = None
       THEN lock' = u /\ stale' = FALSE /\ Goto(u, "get")
       ELSE Goto(u, "stat") /\ UNCHANGED <<lock, stale>>
    /\ UNCHANGED <<slot, op, won, broken>>

(* Slip: a lock is never too old.                                            *)
StatFresh(u) ==
    /\ pc[u] = "stat"
    /\ Goto(u, "open")
    /\ UNCHANGED <<slot, lock, stale, op, won, broken>>

(* A lock that is gone or recent is waited for, a stale one is removed next. *)
Stat(u) ==
    /\ pc[u] = "stat"
    /\ Goto(u, IF lock # None /\ stale THEN "break" ELSE "open")
    /\ UNCHANGED <<slot, lock, stale, op, won, broken>>

(* unlink removes whatever lock file is there by now; with none, it throws.  *)
Break(u) ==
    /\ pc[u] = "break"
    /\ IF lock = None
       THEN Goto(u, "ended") /\ UNCHANGED <<lock, stale, broken>>
       ELSE lock' = None /\ stale' = FALSE /\ broken' = TRUE /\ Goto(u, "open")
    /\ UNCHANGED <<slot, op, won>>

(* The read, and the decision of the callback: a slot in use is left alone.  *)
Get(u) ==
    /\ pc[u] = "get"
    /\ IF op[u] = "reserve" /\ slot # None
       THEN op' = [op EXCEPT ![u] = "noop"] /\ Goto(u, "release")
       ELSE Goto(u, "write") /\ UNCHANGED op
    /\ UNCHANGED <<slot, lock, stale, won, broken>>

(* rename of the temporary file, or unlink of the value file.                *)
Write(u) ==
    /\ pc[u] = "write"
    /\ slot' = IF op[u] = "delete" THEN None ELSE u
    /\ Goto(u, "release")
    /\ UNCHANGED <<lock, stale, op, won, broken>>

(* A file operation fails, before or after it took effect: finally still      *)
(* releases, and the caller sees the error.                                  *)
Fail(u) ==
    /\ pc[u] \in {"get", "write", "release"}
    /\ op[u] # "noop"
    /\ op' = [op EXCEPT ![u] = "noop"]
    /\ Goto(u, "release")
    /\ UNCHANGED <<slot, lock, stale, won, broken>>

(* release unlinks the lock file by its name, and the result is returned.    *)
Release(u) ==
    /\ pc[u] = "release"
    /\ lock' = None
    /\ stale' = FALSE
    /\ won' = IF op[u] = "reserve" THEN won \cup {u} ELSE won
    /\ Goto(u, "ended")
    /\ UNCHANGED <<slot, op, broken>>

(* The process of an update stops; others of that process may stop with it.  *)
Die(u) ==
    /\ UnderWay(u)
    /\ Goto(u, "dead")
    /\ UNCHANGED <<slot, lock, stale, op, won, broken>>

(* LOCK_STALE_MS pass.  No live update stays that long between its open and   *)
(* its release.                                                              *)
Age ==
    /\ lock # None
    /\ \A u \in Updates : ~ Inside(u)
    /\ ~ stale
    /\ stale' = TRUE
    /\ UNCHANGED <<slot, lock, pc, op, won, broken>>

Step(u) ==
    \/ Open(u) \/ Stat(u) \/ Break(u)
    \/ Get(u) \/ Write(u) \/ Fail(u) \/ Release(u)

Next == Age \/ \E u \in Updates : Reserve(u) \/ GiveUp(u) \/ Step(u) \/ Die(u)

Spec == Init /\ [][Next]_vars

(* File operations complete and the clock goes on.                           *)
FairSpec == Spec /\ WF_vars(Age) /\ \A u \in Updates : WF_vars(Step(u))

----------------------------------------------------------------------------
TypeOK ==
    /\ slot \in Updates \cup {None}
    /\ lock \in Updates \cup {None}
    /\ stale \in BOOLEAN
    /\ pc \in [Updates -> Labels]
    /\ op \in [Updates -> Ops]
    /\ won \subseteq Updates
    /\ broken \in BOOLEAN

(* "The replay invariant must also survive a restart and a second process":   *)
(* of the requests that pay with one proof, one at a time owns the slot.      *)
AdmittedOnce == \A u, v \in won : u = v

(* While no lock was ever broken, whatever processes die and whichever reads  *)
(* and writes fail: the request that was told so owns the slot, so that no    *)
(* other was told the same, and a later one finds the slot in use.           *)
WinnerOwnsSlot == ~ broken => \A u \in won : slot = u

(* Every update ends, with a result or an error, or its process dies: the     *)
(* lock of a dead process blocks the payments of nobody for ever.             *)
Answered == \A u \in Updates : UnderWay(u) ~> pc[u] \in {"ended", "dead"}

=============================================================================
