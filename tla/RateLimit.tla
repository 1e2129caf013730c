------------------------------- MODULE RateLimit -------------------------------
(***************************************************************************)
(* The counter in front of the public write endpoints.  A request is counted   *)
(* in several buckets at once, each in a window that starts with its first hit; *)
(* the table of the counters is bounded.                                     *)
(*                                                                          *)
(* A definition whose comment starts with "Slip:" is not part of the system. *)
(***************************************************************************)
EXTENDS Integers, Sequences, FiniteSets, Folds

CONSTANTS
    Limit,          \* a bucket's limit, and its window
    Window,
    MaxKeys,        \* the size of the table
    Checks,         \* the requests: sequences of counter keys
    Unruled,        \* the keys of buckets that RATE_LIMITS does not name
    LimitEnd        \* a bound on time

ASSUME LimitAssumption ==
    /\ Limit \in Nat \ {0} /\ Window \in Nat \ {0} /\ MaxKeys \in Nat
    /\ \A check \in Checks : Len(check) \in Nat /\ DOMAIN check = 1 .. Len(check)

VARIABLES
    hits,       \* the table: count and end of the window, per key it holds
    allowed,    \* the hits that were let through: when, in order, per counted key
    minute

limitVars == <<hits, allowed, minute>>

(* The keys that are counted: those of a bucket with a rule.                  *)
Keys == (UNION {{check[k] : k \in DOMAIN check} : check \in Checks}) \ Unruled

LimitInit ==
    /\ hits = [k \in {} |-> 0]
    /\ allowed = [k \in Keys |-> <<>>]
    /\ minute = 0

(* Slip: a table that is full starts anew.                                   *)
PruneAll(table) == [k \in {} |-> 0]

(* A full table drops the windows that are over.                             *)
Prune(table) ==
    LET open == {k \in DOMAIN table : table[k].until > minute}
    IN  [k \in open |-> table[k]]

(* One hit: the table after it and the verdict.  A key of no rule passes, and a  *)
(* key the full table does not hold is refused; neither is counted.           *)
Hit(table, k) ==
    LET known == k \in DOMAIN table
        room == IF Cardinality(DOMAIN table) >= MaxKeys /\ ~ known THEN Prune(table) ELSE table
        entry == IF known /\ table[k].until > minute THEN table[k]
                 ELSE [count |-> 0, until |-> minute + Window]
        counted == [entry EXCEPT !.count = @ + 1]
    IN  IF k \in Unruled THEN [table |-> table, ok |-> TRUE]
        ELSE IF Cardinality(DOMAIN room) >= MaxKeys /\ ~ known
        THEN [table |-> room, ok |-> FALSE]
        ELSE [table |-> [j \in DOMAIN room \cup {k} |-> IF j = k THEN counted ELSE room[j]],
              ok |-> counted.count <= Limit]

(* Every bucket counts, also after one refused.                               *)
Request(check) ==
    LET step[k \in 0 .. Len(check)] ==
            IF k = 0 THEN [table |-> hits, passed |-> {}]
            ELSE LET hit == Hit(step[k - 1].table, check[k])
                 IN  [table |-> hit.table,
                      passed |-> step[k - 1].passed \cup (IF hit.ok THEN {check[k]} ELSE {})]
        end == step[Len(check)]
    IN  /\ hits' = end.table
        /\ allowed' = [k \in Keys |->
                IF k \in end.passed THEN Append(allowed[k], minute) ELSE allowed[k]]
        /\ UNCHANGED minute

(* Enough requests to fill two windows, and one that is refused in each.       *)
Ask ==
    \E check \in Checks :
        /\ \A k \in Keys \cap {check[n] : n \in DOMAIN check} :
            /\ Len(allowed[k]) < 2 * Limit
            /\ k \in DOMAIN hits => hits[k].count <= Limit
        /\ Request(check)

Pass ==
    /\ minute < LimitEnd
    /\ minute' = minute + 1
    /\ UNCHANGED <<hits, allowed>>

LimitNext == Ask \/ Pass

----------------------------------------------------------------------------
(* However requests of several callers fall and push each other's counters out  *)
(* of the table: in any span shorter than a window a bucket passes less than     *)
(* twice the limit (the windows are called sliding and start with a first hit), *)
(* and the table stays bounded (MAX_TRACKED_KEYS).                           *)
SpanBounded ==
    /\ Cardinality(DOMAIN hits) <= MaxKeys
    /\ \A k \in Keys : \A n \in 2 * Limit .. Len(allowed[k]) :
        allowed[k][n] - allowed[k][n - 2 * Limit + 1] >= Window

=============================================================================
