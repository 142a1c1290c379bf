--------------------------- MODULE QueueAdmission ---------------------------
(***************************************************************************)
(* QueueAdmission (server/src/queue/admission.ts): the slots a worker gives *)
(* to the claims it executes.  JobRepository.execute acquires one before    *)
(* the handler starts and releases it last; an administrator may resize the *)
(* capacity while jobs run; the coordinator may abort a claim at any time.  *)
(*                                                                         *)
(* Everything happens on one event loop, so a step is the code between two  *)
(* awaits.  The only gap is the one between a grant, which resolves the     *)
(* waiter's promise, and the continuation of acquire() that sees it.        *)
(***************************************************************************)
EXTENDS Integers, Sequences, FiniteSets

CONSTANTS Callers,      \* executions; a finished one may call again with a new signal
          MaxCapacity,  \* JOB_CAPACITY_LIMIT
          MaxWaiting    \* QUEUE_BATCH

ASSUME CallersAssumption == IsFiniteSet(Callers)
ASSUME LimitsAssumption == MaxCapacity \in Nat \ {0} /\ MaxWaiting \in Nat \ {0}

VARIABLES active,    \* slots taken
          capacity,
          waiting,   \* grant callbacks in order of arrival
          pc,        \* where each caller's acquire() stands
          aborted    \* each caller's AbortSignal

vars == <<active, capacity, waiting, pc, aborted>>

Init == /\ active = 0
        /\ capacity \in 1..MaxCapacity
        /\ waiting = <<>>
        /\ pc = [c \in Callers |-> "idle"]
        /\ aborted = [c \in Callers |-> FALSE]

\* The callers who have a slot: granted, whether they have noticed or not.
Holders == {c \in Callers : pc[c] \in {"granted", "held"}}
Waiters == {c \in Callers : pc[c] = "waiting"}

\* The waiters left when the one at position i is taken out.
Without(i) == [n \in 1..(Len(waiting) - 1) |-> IF n < i THEN waiting[n] ELSE waiting[n + 1]]

\* acquire(): refused outright, queued behind a full house, or given a slot at once.
Refuse(c) == /\ pc[c] = "idle"
             /\ aborted[c] \/ (active >= capacity /\ Len(waiting) >= MaxWaiting)
             /\ aborted' = [aborted EXCEPT ![c] = FALSE]
             /\ UNCHANGED <<active, capacity, waiting, pc>>
Wait(c) == /\ pc[c] = "idle" /\ ~aborted[c]
           /\ active >= capacity /\ Len(waiting) < MaxWaiting
           /\ waiting' = Append(waiting, c)
           /\ pc' = [pc EXCEPT ![c] = "waiting"]
           /\ UNCHANGED <<active, capacity, aborted>>
Enter(c) == /\ pc[c] = "idle" /\ ~aborted[c] /\ active < capacity
            /\ active' = active + 1
            /\ pc' = [pc EXCEPT ![c] = "held"]
            /\ UNCHANGED <<capacity, waiting, aborted>>

\* Mutant: a slot is only handed on when one is spare.
HandOnSpare == active < capacity /\ Len(waiting) > 0
\* release() hands the slot to the first waiter, unless the capacity has shrunk below it.
HandOn == active <= capacity /\ Len(waiting) > 0

GiveUp(c) ==
    /\ aborted' = [aborted EXCEPT ![c] = FALSE]
    /\ IF HandOn
       THEN /\ waiting' = Tail(waiting)
            /\ pc' = [pc EXCEPT ![c] = "idle", ![Head(waiting)] = "granted"]
            /\ active' = active
       ELSE /\ pc' = [pc EXCEPT ![c] = "idle"]
            /\ active' = active - 1
            /\ UNCHANGED waiting
    /\ UNCHANGED capacity

\* Mutant: the abort after the grant throws without giving the slot back.
ResumeThrows(c) == /\ pc[c] = "granted"
                   /\ pc' = [pc EXCEPT ![c] = IF aborted[c] THEN "idle" ELSE "held"]
                   /\ aborted' = [aborted EXCEPT ![c] = FALSE]
                   /\ UNCHANGED <<active, capacity, waiting>>
\* The continuation of acquire(): an abort that came after the grant gives the slot back.
Resume(c) == /\ pc[c] = "granted"
             /\ IF aborted[c] THEN GiveUp(c)
                ELSE /\ pc' = [pc EXCEPT ![c] = "held"]
                     /\ UNCHANGED <<active, capacity, waiting, aborted>>

\* The execution is over, whatever became of its handler.
Release(c) == pc[c] = "held" /\ GiveUp(c)

\* The signal fires: a waiter leaves the queue and is rejected; granted callers no longer
\* listen and find out when they resume.
Abort(c) ==
    /\ ~aborted[c]
    /\ IF pc[c] = "waiting"
       THEN /\ \E i \in 1..Len(waiting) : waiting[i] = c /\ waiting' = Without(i)
            /\ pc' = [pc EXCEPT ![c] = "idle"]
            /\ UNCHANGED aborted
       ELSE aborted' = [aborted EXCEPT ![c] = TRUE] /\ UNCHANGED <<waiting, pc>>
    /\ UNCHANGED <<active, capacity>>

\* resize(): a larger capacity grants as many waiters as fit, a smaller one takes nothing back.
Resize(n) ==
    /\ n # capacity
    /\ capacity' = n
    /\ \E g \in 0..Len(waiting) :
         /\ active + g <= n \/ g = 0
         /\ g = Len(waiting) \/ active + g >= n
         /\ waiting' = SubSeq(waiting, g + 1, Len(waiting))
         /\ pc' = [c \in Callers |-> IF \E i \in 1..g : waiting[i] = c THEN "granted" ELSE pc[c]]
         /\ active' = active + g
    /\ UNCHANGED aborted

Next == \/ \E c \in Callers : \/ Refuse(c) \/ Wait(c) \/ Enter(c)
                              \/ Resume(c) \/ Release(c) \/ Abort(c)
        \/ \E n \in 1..MaxCapacity : Resize(n)

Spec == Init /\ [][Next]_vars

\* Continuations run, and every execution ends: its handler returns or its worker is
\* terminated, which ends this object with it.
FairSpec == Spec /\ \A c \in Callers : WF_vars(Resume(c)) /\ WF_vars(Release(c))

-----------------------------------------------------------------------------
(* Properties. *)

TypeOK == /\ active \in Nat /\ capacity \in 1..MaxCapacity
          /\ waiting \in Seq(Callers) /\ Len(waiting) <= MaxWaiting
          /\ pc \in [Callers -> {"idle", "waiting", "granted", "held"}]
          /\ aborted \in [Callers -> BOOLEAN]

\* The queue holds exactly the callers who wait, each once: a cancelled waiter can never
\* receive a late grant, and no waiter is forgotten.
QueueMatches ==
    /\ \A i \in 1..Len(waiting) : pc[waiting[i]] = "waiting"
    /\ \A i, k \in 1..Len(waiting) : waiting[i] = waiting[k] => i = k
    /\ \A c \in Callers : pc[c] = "waiting" => \E i \in 1..Len(waiting) : waiting[i] = c

\* Every slot counted is held by someone who will give it back: no path through an abort,
\* a late grant or a change of capacity leaks or duplicates one.
SlotsAccounted == active = Cardinality(Holders)

\* Nobody waits while a slot is free: not after a release, an abort or a resize.
NoIdleSlot == Len(waiting) > 0 => active >= capacity

AdmissionInv == TypeOK /\ QueueMatches /\ SlotsAccounted /\ NoIdleSlot

\* The capacity may shrink under running work, but it is never exceeded by admitting more.
NeverOverfilled == [][\A c \in Callers :
    (c \notin Holders /\ c \in Holders') => active' <= capacity']_vars

\* Slots are given in order of arrival: no waiter and no newcomer overtakes one who waits.
ArrivalOrder ==
    [][\A c \in Callers, d \in Waiters :
         (c \notin Holders /\ c \in Holders' /\ d \in Waiters')
         => \E i, k \in 1..Len(waiting) : waiting[i] = c /\ waiting[k] = d /\ i < k]_vars

\* Whoever waits is admitted or aborted.
WaitersServed == \A c \in Callers : pc[c] = "waiting" ~> pc[c] # "waiting"
=============================================================================
