----------------------------- MODULE HireLedger -----------------------------
(***************************************************************************)
(* What the public-hire service promises a buyer, with every operation one  *)
(* step: a quote opens at most one hire, a hire collects at most one receipt *)
(* of each kind and never loses one, work on the job starts with its create *)
(* receipt, and the fund receipt closes it.                                 *)
(***************************************************************************)
CONSTANTS LedgerQuotes, LedgerHires, LedgerTx, NoQuote

VARIABLES
    opened,    \* opened[h]: the quote hire h was opened for, or NoQuote
    receipts   \* receipts[h]: the transactions accepted for hire h

ledgerVars == <<opened, receipts>>

Closed(h) == \E t \in receipts[h] : t.kind = "fund"

HasKind(h, k) == \E t \in receipts[h] : t.kind = k

LedgerInit ==
    /\ opened = [h \in LedgerHires |-> NoQuote]
    /\ receipts = [h \in LedgerHires |-> {}]

Open(h, q) ==
    /\ opened[h] = NoQuote
    /\ \A g \in LedgerHires : opened[g] # q
    /\ opened' = [opened EXCEPT ![h] = q]
    /\ UNCHANGED receipts

Accept(h, t) ==
    /\ opened[h] # NoQuote
    /\ ~ Closed(h)
    /\ ~ HasKind(h, t.kind)
    /\ t.kind \in {"register", "budget", "fund"} =>
            \E c \in receipts[h] : c.kind = "create" /\ c.job = t.job
    /\ receipts' = [receipts EXCEPT ![h] = @ \cup {t}]
    /\ UNCHANGED opened

LedgerNext ==
    \/ \E h \in LedgerHires, q \in LedgerQuotes : Open(h, q)
    \/ \E h \in LedgerHires, t \in LedgerTx : Accept(h, t)

LedgerSpec == LedgerInit /\ [][LedgerNext]_ledgerVars

=============================================================================
