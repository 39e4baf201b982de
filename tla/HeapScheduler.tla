---------------------------- MODULE HeapScheduler ----------------------------
(***************************************************************************)
(* The binary heap of HeapScheduler under DefaultSimulatorImpl: a program  *)
(* schedules and removes events, and the simulator takes the first one out *)
(* of the heap again and again, asserting that time does not go back.      *)
(*                                                                         *)
(* The array begins at 1 here as in the code, where element 0 is wasted.   *)
(* The loops of BottomUp and TopDown are the recursive operators below.    *)
(***************************************************************************)
EXTENDS Naturals, Sequences

CONSTANTS
  Delays,        (* the delays the program uses                              *)
  MaxEvents      (* bound: how many events are scheduled                     *)

VARIABLES
  heap,          (* m_heap, from its element 1                               *)
  now,           (* m_currentTs                                              *)
  currentUid,    (* m_currentUid                                             *)
  nextUid        (* m_uid                                                    *)

vars == <<heap, now, currentUid, nextUid>>

Init == heap = <<>> /\ now = 0 /\ currentUid = 0 /\ nextUid = 4

-----------------------------------------------------------------------------
LeftChild(i)  == 2 * i
RightChild(i) == 2 * i + 1
Parent(i)     == i \div 2

Exch(h, a, b) == [h EXCEPT ![a] = h[b], ![b] = h[a]]

IsLessStrictly(h, a, b) ==
  h[a].ts < h[b].ts \/ (h[a].ts = h[b].ts /\ h[a].uid < h[b].uid)

Smallest(h, a, b) == IF IsLessStrictly(h, a, b) THEN a ELSE b

(* The element at i moves up until its parent is not greater. *)
RECURSIVE BottomUp(_, _)
BottomUp(h, i) ==
  IF i = 1 \/ ~IsLessStrictly(h, i, Parent(i)) THEN h
  ELSE BottomUp(Exch(h, i, Parent(i)), Parent(i))

(* The element at i moves down until no child is smaller; one that has only  *)
(* a left child is a step from the bottom.                                   *)
RECURSIVE TopDown(_, _)
TopDown(h, i) ==
  IF RightChild(i) <= Len(h)
  THEN LET child == Smallest(h, LeftChild(i), RightChild(i))
       IN  IF IsLessStrictly(h, i, child) THEN h ELSE TopDown(Exch(h, i, child), child)
  ELSE IF LeftChild(i) > Len(h) \/ IsLessStrictly(h, i, LeftChild(i)) THEN h
       ELSE Exch(h, i, LeftChild(i))

(* The element at i is exchanged with the last one, which is taken off; the  *)
(* one that came to i moves down.  Both RemoveNext and Remove do it.         *)
Without(h, i) == TopDown(SubSeq(Exch(h, i, Len(h)), 1, Len(h) - 1), i)

-----------------------------------------------------------------------------
(* DefaultSimulatorImpl::Schedule and Insert. *)
Insert(delay) ==
  /\ nextUid < 4 + MaxEvents
  /\ nextUid' = nextUid + 1
  /\ \E h \in {Append(heap, [ts |-> now + delay, uid |-> nextUid])} :
       heap' = BottomUp(h, Len(h))
  /\ UNCHANGED <<now, currentUid>>

IsExpired(e) == e.ts < now \/ (e.ts = now /\ e.uid <= currentUid)

(* DefaultSimulatorImpl::Remove and Remove. *)
Remove(i) ==
  /\ ~IsExpired(heap[i])
  /\ heap' = Without(heap, i)
  /\ UNCHANGED <<now, currentUid, nextUid>>

(* ProcessOneEvent and RemoveNext. *)
RemoveNext ==
  /\ heap # <<>>
  /\ now' = heap[1].ts
  /\ currentUid' = heap[1].uid
  /\ heap' = Without(heap, 1)
  /\ UNCHANGED nextUid

Next ==
  \/ \E delay \in Delays : Insert(delay)
  \/ \E i \in 1..Len(heap) : Remove(i)
  \/ RemoveNext

Spec == Init /\ [][Next]_vars

(* Time does not go back: ProcessOneEvent asserts                            *)
(* next.key.m_ts >= m_currentTs.                                             *)
TimeGoesOn == [][now' >= now]_vars
=============================================================================
