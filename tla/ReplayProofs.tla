----------------------------- MODULE ReplayProofs -----------------------------
(***************************************************************************)
(* Theorems about ReplayStore, for any number of requests with one proof.    *)
(***************************************************************************)
EXTENDS ReplayStore, TLAPS

(* Before what it asks for has been done to the slot.                        *)
Pending(u) == pc[u] \in {"open", "stat", "break", "get", "write"}

Deleting(u) == op[u] = "delete" /\ Pending(u)

(* While no lock was broken, the lock file is its holder's.                  *)
Exclusive == \A u \in Updates : Inside(u) => lock = u

(* What the holder has read still stands when it writes, and who was told    *)
(* that the slot is theirs, or still has to give it up, has it.              *)
SlotOK(u) ==
    /\ u \in won => slot = u /\ pc[u] = "ended"
    /\ Deleting(u) => slot = u
    /\ pc[u] = "write" /\ op[u] = "reserve" => slot = None
    /\ pc[u] = "release" /\ op[u] = "reserve" => slot = u
    /\ Pending(u) => op[u] # "noop"

Unbroken == Exclusive /\ \A u \in Updates : SlotOK(u)

IInv == TypeOK /\ (~ broken => Unbroken)

LEMMA InitOK == Init => IInv
  BY DEF Init, IInv, TypeOK, Labels, Ops, Unbroken, Exclusive, Inside, SlotOK, Deleting, Pending

LEMMA TypeStep == TypeOK /\ [Next]_vars => TypeOK'
  <1> SUFFICES ASSUME TypeOK, [Next]_vars PROVE TypeOK'
    OBVIOUS
  <1> USE DEF TypeOK, Labels, Ops
  <1>1. CASE UNCHANGED vars
    BY <1>1 DEF vars
  <1>2. CASE Age
    BY <1>2 DEF Age
  <1>3. ASSUME NEW u \in Updates, Reserve(u) \/ GiveUp(u) \/ Die(u) PROVE TypeOK'
    BY <1>3 DEF Reserve, GiveUp, Die, Goto
  <1>4. ASSUME NEW u \in Updates, Step(u) PROVE TypeOK'
    <2>1. CASE Open(u)
      BY <2>1 DEF Open, Goto
    <2>2. CASE Stat(u)
      BY <2>2 DEF Stat, Goto
    <2>3. CASE Break(u)
      BY <2>3 DEF Break, Goto
    <2>4. CASE Get(u)
      BY <2>4 DEF Get, Goto
    <2>5. CASE Write(u)
      BY <2>5 DEF Write, Goto
    <2>6. CASE Fail(u)
      BY <2>6 DEF Fail, Goto
    <2>7. CASE Release(u)
      BY <2>7 DEF Release, Goto
    <2> QED
      BY <1>4, <2>1, <2>2, <2>3, <2>4, <2>5, <2>6, <2>7 DEF Step
  <1> QED
    BY <1>1, <1>2, <1>3, <1>4 DEF Next

(* A step of u leaves every other update where it is.                        *)
LEMMA Others ==
    ASSUME TypeOK, NEW u \in Updates, Step(u) \/ Reserve(u) \/ GiveUp(u) \/ Die(u)
    PROVE  /\ \A v \in Updates \ {u} :
                /\ pc'[v] = pc[v]
                /\ op'[v] = op[v]
                /\ v \in won' <=> v \in won
           /\ pc'[u] # pc[u] \/ Fail(u)
  BY DEF Step, Open, Stat, Break, Get, Write, Fail, Release, Reserve, GiveUp, Die, Goto,
         UnderWay, Inside, TypeOK

(* A lock is made when there is none and removed by its maker: nobody else is *)
(* inside.                                                                   *)
LEMMA ExclusiveStep ==
    ASSUME TypeOK, Unbroken, NEW u \in Updates, ~ broken',
           Step(u) \/ Reserve(u) \/ GiveUp(u) \/ Die(u)
    PROVE  Exclusive'
  <1> SUFFICES ASSUME NEW v \in Updates, Inside(v)' PROVE lock' = v
    BY DEF Exclusive
  <1>1. CASE v # u
    <2>1. Inside(v) /\ lock = v
      BY <1>1, Others DEF Inside, Unbroken, Exclusive
    <2>2. v # None
      BY ReplayAssumption
    <2>3. ~ Release(u)
      BY <1>1, <2>1 DEF Release, Unbroken, Exclusive, Inside
    <2> QED
      BY <2>1, <2>2, <2>3 DEF Step, Open, Stat, Break, Get, Write, Fail, Reserve, GiveUp, Die
  <1>2. CASE v = u
    <2>1. CASE Open(u)
      BY <1>2, <2>1 DEF Open, Goto, Inside, TypeOK
    <2>2. CASE Get(u) \/ Write(u) \/ Fail(u)
      BY <1>2, <2>2 DEF Get, Write, Fail, Unbroken, Exclusive, Inside
    <2>3. CASE Stat(u) \/ Break(u) \/ Release(u) \/ Reserve(u) \/ GiveUp(u) \/ Die(u)
      BY <1>2, <2>3 DEF Stat, Break, Release, Reserve, GiveUp, Die, Goto, Inside, TypeOK
    <2> QED
      BY <2>1, <2>2, <2>3 DEF Step
  <1> QED
    BY <1>1, <1>2

(* Only a holder writes, and it knows what the slot holds.                   *)
LEMMA SlotStep ==
    ASSUME TypeOK, Unbroken, NEW u \in Updates, NEW v \in Updates,
           Step(u) \/ Reserve(u) \/ GiveUp(u) \/ Die(u)
    PROVE  SlotOK(v)'
  <1> USE ReplayAssumption
  <1>1. SlotOK(u) /\ SlotOK(v) /\ Exclusive
    BY DEF Unbroken
  <1>2. CASE v # u
    <2>1. pc'[v] = pc[v] /\ op'[v] = op[v] /\ (v \in won' <=> v \in won)
      BY <1>2, Others
    <2>2. CASE Write(u)
      <3>1. pc[v] \notin {"write", "release"}
        BY <1>1, <1>2, <2>2 DEF Write, Exclusive, Inside
      <3>2. op[u] \in {"reserve", "delete"} /\ slot \in {None, u}
        BY <1>1, <2>2 DEF Write, SlotOK, TypeOK, Ops, Deleting, Pending
      <3>3. v \notin won /\ ~ Deleting(v)
        BY <1>1, <1>2, <3>2 DEF SlotOK
      <3> QED
        BY <1>1, <2>1, <3>1, <3>3 DEF SlotOK, Deleting, Pending
    <2>3. CASE ~ Write(u)
      <3>1. slot' = slot
        BY <2>3 DEF Step, Open, Stat, Break, Get, Fail, Release, Reserve, GiveUp, Die
      <3> QED
        BY <1>1, <2>1, <3>1 DEF SlotOK, Deleting, Pending
    <2> QED
      BY <2>2, <2>3
  <1>3. CASE v = u
    <2> SUFFICES SlotOK(u)'
      BY <1>3
    <2> USE DEF TypeOK, SlotOK, Deleting, Pending, Goto
    <2>1. CASE Open(u)
      BY <1>1, <2>1 DEF Open
    <2>2. CASE Stat(u)
      BY <1>1, <2>2 DEF Stat
    <2>3. CASE Break(u)
      BY <1>1, <2>3 DEF Break
    <2>4. CASE Get(u)
      BY <1>1, <2>4 DEF Get
    <2>5. CASE Write(u)
      BY <1>1, <2>5 DEF Write
    <2>6. CASE Fail(u)
      BY <1>1, <2>6 DEF Fail
    <2>7. CASE Release(u)
      BY <1>1, <2>7 DEF Release
    <2>8. CASE Reserve(u)
      BY <1>1, <2>8 DEF Reserve
    <2>9. CASE GiveUp(u)
      BY <1>1, <2>9 DEF GiveUp
    <2>10. CASE Die(u)
      BY <1>1, <2>10 DEF Die, UnderWay, Inside
    <2> QED
      BY <2>1, <2>2, <2>3, <2>4, <2>5, <2>6, <2>7, <2>8, <2>9, <2>10 DEF Step
  <1> QED
    BY <1>2, <1>3

LEMMA NextOK == IInv /\ [Next]_vars => IInv'
  <1> SUFFICES ASSUME IInv, [Next]_vars PROVE IInv'
    OBVIOUS
  <1>1. TypeOK'
    BY TypeStep DEF IInv
  <1>2. ASSUME ~ broken' PROVE Unbroken'
    <2>1. ~ broken
      BY <1>2 DEF Next, Age, Step, Open, Stat, Break, Get, Write, Fail, Release, Reserve,
                  GiveUp, Die, vars
    <2>2. TypeOK /\ Unbroken
      BY <2>1 DEF IInv
    <2>3. CASE UNCHANGED vars \/ Age
      BY <2>2, <2>3 DEF vars, Age, Unbroken, Exclusive, Inside, SlotOK, Deleting, Pending
    <2>4. ASSUME NEW u \in Updates, Step(u) \/ Reserve(u) \/ GiveUp(u) \/ Die(u)
          PROVE  Unbroken'
      BY <1>2, <2>2, <2>4, ExclusiveStep, SlotStep DEF Unbroken
    <2> QED
      BY <2>3, <2>4 DEF Next
  <1> QED
    BY <1>1, <1>2 DEF IInv

(* While no stale lock was removed, a request that was told the slot is its   *)
(* own has it, so no other was told the same: whatever dies, fails or gives   *)
(* up in between, and for any number of requests.                            *)
THEOREM WinnersOwn == Spec => []WinnerOwnsSlot
  <1>1. IInv => WinnerOwnsSlot
    BY DEF IInv, Unbroken, SlotOK, WinnerOwnsSlot, TypeOK
  <1> QED
    BY <1>1, InitOK, NextOK, PTL DEF Spec

=============================================================================
