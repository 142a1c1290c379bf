------------------------ MODULE QueueAdmissionProofs ------------------------
(***************************************************************************)
(* The admission of a worker never leaks a slot, never idles one and keeps  *)
(* the order of arrival, for any number of callers and any capacities.      *)
(* AdmissionInv is inductive as it stands: NoIdleSlot alone is not, because *)
(* only QueueMatches says that whoever release() hands its slot to did not  *)
(* have one, and only SlotsAccounted that a counted slot has a holder.      *)
(***************************************************************************)
EXTENDS QueueAdmission, TLAPS, FiniteSetTheorems

\* The callers with a slot are finitely many.
LEMMA HoldersFinite == IsFiniteSet(Holders) /\ Cardinality(Holders) \in Nat
<1>1. Holders \in SUBSET Callers
  BY DEF Holders
<1>2. IsFiniteSet(Holders)
  BY <1>1, CallersAssumption, FS_Subset
<1> QED BY <1>2, FS_CardinalityType

\* Taking the first g of a queue without repetitions takes g callers.
LEMMA FirstAreDistinct ==
    ASSUME NEW s \in Seq(Callers), NEW g \in 0..Len(s),
           \A i, k \in 1..Len(s) : s[i] = s[k] => i = k
    PROVE  LET G == {s[i] : i \in 1..g} IN IsFiniteSet(G) /\ Cardinality(G) = g
<1> DEFINE G == {s[i] : i \in 1..g}
           f == [i \in 1..g |-> s[i]]
<1>1. Len(s) \in Nat /\ \A i \in 1..g : i \in 1..Len(s)
  OBVIOUS
<1>2. f \in Bijection(1..g, G)
  <2>1. f \in [1..g -> G]
    OBVIOUS
  <2>2. \A i, k \in 1..g : f[i] = f[k] => i = k
    BY <1>1
  <2>3. \A t \in G : \E i \in 1..g : f[i] = t
    OBVIOUS
  <2> QED BY <2>1, <2>2, <2>3 DEF Bijection, Injection, Surjection, IsInjective
<1>3. ExistsBijection(1..g, G)
  BY <1>2 DEF ExistsBijection
<1>4. IsFiniteSet(1..g) /\ Cardinality(1..g) = g
  BY FS_Interval
<1> QED BY <1>3, <1>4, FS_Bijection

-----------------------------------------------------------------------------
(* One lemma per action. *)

\* Nobody has a slot at first.
LEMMA InitInv == Init => AdmissionInv
<1> SUFFICES ASSUME Init PROVE AdmissionInv
  OBVIOUS
<1>1. TypeOK
  BY LimitsAssumption DEF Init, TypeOK
<1>2. QueueMatches /\ NoIdleSlot
  BY DEF Init, QueueMatches, NoIdleSlot
<1>3. Holders = {}
  BY DEF Init, Holders
<1> QED BY <1>1, <1>2, <1>3, FS_EmptySet DEF AdmissionInv, SlotsAccounted, Init

\* A refused caller leaves everything as it was.
LEMMA RefuseInv ==
    ASSUME AdmissionInv, NEW c \in Callers, Refuse(c) PROVE AdmissionInv'
<1>1. Holders' = Holders
  BY DEF Holders, Refuse
<1> QED BY <1>1 DEF AdmissionInv, TypeOK, QueueMatches, SlotsAccounted, NoIdleSlot, Refuse

\* A caller joins the end of the queue.
LEMMA WaitInv ==
    ASSUME AdmissionInv, NEW c \in Callers, Wait(c) PROVE AdmissionInv'
<1> USE DEF AdmissionInv, Wait
<1>1. TypeOK'
  BY LimitsAssumption DEF TypeOK
<1>2. QueueMatches'
  BY DEF TypeOK, QueueMatches
<1>3. Holders' = Holders
  BY DEF TypeOK, Holders
<1>4. SlotsAccounted' /\ NoIdleSlot'
  BY <1>3 DEF SlotsAccounted, NoIdleSlot
<1> QED BY <1>1, <1>2, <1>4

\* A caller takes a free slot; by NoIdleSlot nobody waits for it.
LEMMA EnterInv ==
    ASSUME AdmissionInv, NEW c \in Callers, Enter(c) PROVE AdmissionInv'
<1> USE DEF AdmissionInv, Enter
<1>1. TypeOK'
  BY DEF TypeOK
<1>2. Len(waiting) = 0
  BY DEF TypeOK, NoIdleSlot
<1>3. QueueMatches' /\ NoIdleSlot'
  BY <1>2 DEF TypeOK, QueueMatches, NoIdleSlot
<1>4. Holders' = Holders \cup {c} /\ c \notin Holders
  BY DEF TypeOK, Holders
<1>5. SlotsAccounted'
  BY <1>4, HoldersFinite, FS_AddElement DEF SlotsAccounted
<1> QED BY <1>1, <1>3, <1>5

\* A holder gives its slot up, to the first waiter or to nobody.
LEMMA GiveUpInv ==
    ASSUME AdmissionInv, NEW c \in Holders, GiveUp(c) PROVE AdmissionInv'
<1> USE DEF AdmissionInv
<1>0. c \in Callers /\ pc[c] \in {"granted", "held"}
  BY DEF Holders
<1>1. CASE HandOn
  <2> DEFINE h == Head(waiting)
  <2>1. Len(waiting) \in Nat /\ Len(waiting) > 0 /\ h = waiting[1] /\ h \in Callers
    BY <1>1 DEF HandOn, TypeOK
  <2>2. pc[h] = "waiting" /\ h # c /\ h \notin Holders
    BY <2>1, <1>0 DEF QueueMatches, Holders
  <2>3. /\ waiting' = Tail(waiting) /\ active' = active /\ capacity' = capacity
        /\ pc' = [pc EXCEPT ![c] = "idle", ![h] = "granted"]
        /\ aborted' = [aborted EXCEPT ![c] = FALSE]
    BY <1>1 DEF GiveUp
  <2> HIDE DEF h
  <2>5. Len(waiting') = Len(waiting) - 1 /\ \A i \in 1..Len(waiting') : waiting'[i] = waiting[i + 1]
    BY <2>1, <2>3 DEF TypeOK
  <2>4. TypeOK'
    <3>1. waiting' \in Seq(Callers) /\ Len(waiting') <= MaxWaiting
      BY <2>1, <2>3, <2>5, LimitsAssumption DEF TypeOK
    <3>2. pc' \in [Callers -> {"idle", "waiting", "granted", "held"}]
      BY <2>3 DEF TypeOK
    <3>3. aborted' \in [Callers -> BOOLEAN]
      BY <2>3, Zenon DEF TypeOK
    <3> QED BY <2>3, <3>1, <3>2, <3>3 DEF TypeOK
  <2>6. QueueMatches'
    <3>1. \A i \in 1..Len(waiting') : pc'[waiting'[i]] = "waiting"
      BY <2>1, <2>2, <2>3, <2>5, <1>0 DEF QueueMatches, TypeOK
    <3>2. \A i, k \in 1..Len(waiting') : waiting'[i] = waiting'[k] => i = k
      <4>1. SUFFICES ASSUME NEW i \in 1..Len(waiting'), NEW k \in 1..Len(waiting'),
                            waiting'[i] = waiting'[k]
                     PROVE  i = k
        OBVIOUS
      <4>2. i + 1 \in 1..Len(waiting) /\ k + 1 \in 1..Len(waiting)
        BY <2>1, <2>5
      <4>3. i + 1 = k + 1
        BY <4>1, <4>2, <2>5 DEF QueueMatches
      <4> QED BY <4>3
    <3>3. \A d \in Callers : pc'[d] = "waiting" => \E i \in 1..Len(waiting') : waiting'[i] = d
      <4>1. SUFFICES ASSUME NEW d \in Callers, pc'[d] = "waiting"
                     PROVE  \E i \in 1..Len(waiting') : waiting'[i] = d
        OBVIOUS
      <4>2. d # h /\ pc[d] = "waiting"
        BY <4>1, <2>3, <2>1, <1>0 DEF TypeOK
      <4>3. PICK k \in 1..Len(waiting) : waiting[k] = d
        BY <4>2 DEF QueueMatches
      <4>4. k # 1 /\ k - 1 \in 1..Len(waiting')
        BY <4>2, <4>3, <2>1, <2>5
      <4> QED BY <4>3, <4>4, <2>5, <2>1
    <3> QED BY <3>1, <3>2, <3>3 DEF QueueMatches
  <2>7. Holders' = (Holders \ {c}) \cup {h}
    BY <2>1, <2>2, <2>3, <1>0 DEF Holders, TypeOK
  <2>8. IsFiniteSet(Holders \ {c}) /\ Cardinality(Holders \ {c}) = Cardinality(Holders) - 1
    BY HoldersFinite, FS_RemoveElement
  <2>9. h \notin Holders \ {c}
    BY <2>2
  <2>10. Cardinality((Holders \ {c}) \cup {h}) = Cardinality(Holders \ {c}) + 1
    BY <2>8, <2>9, FS_AddElement
  <2>11. SlotsAccounted'
    BY <2>3, <2>7, <2>8, <2>10, HoldersFinite DEF SlotsAccounted
  <2>12. NoIdleSlot'
    BY <2>1, <2>3 DEF NoIdleSlot
  <2> QED BY <2>4, <2>6, <2>11, <2>12
<1>2. CASE ~HandOn
  <2>1. /\ waiting' = waiting /\ active' = active - 1 /\ capacity' = capacity
        /\ pc' = [pc EXCEPT ![c] = "idle"]
        /\ aborted' = [aborted EXCEPT ![c] = FALSE]
    BY <1>2 DEF GiveUp
  <2>2. Holders' = Holders \ {c}
    BY <2>1, <1>0 DEF Holders, TypeOK
  <2>3. Cardinality(Holders \ {c}) = Cardinality(Holders) - 1 /\ Cardinality(Holders \ {c}) \in Nat
    BY HoldersFinite, FS_RemoveElement, FS_CardinalityType
  <2>4. SlotsAccounted' /\ active' \in Nat
    BY <2>1, <2>2, <2>3 DEF SlotsAccounted
  <2>5. TypeOK'
    BY <2>1, <2>4, <1>0 DEF TypeOK
  <2>6. QueueMatches'
    BY <2>1, <1>0 DEF QueueMatches, TypeOK
  <2>7. NoIdleSlot'
    BY <1>2, <2>1 DEF NoIdleSlot, HandOn, TypeOK
  <2> QED BY <2>4, <2>5, <2>6, <2>7
<1> QED BY <1>1, <1>2

\* A granted caller goes on with its slot or gives it back.
LEMMA ResumeInv ==
    ASSUME AdmissionInv, NEW c \in Callers, Resume(c) PROVE AdmissionInv'
<1>1. CASE aborted[c]
  <2>1. c \in Holders /\ GiveUp(c)
    BY <1>1 DEF Resume, Holders
  <2> QED BY <2>1, GiveUpInv
<1>2. CASE ~aborted[c]
  <2>1. /\ pc[c] = "granted" /\ pc' = [pc EXCEPT ![c] = "held"]
        /\ active' = active /\ capacity' = capacity /\ waiting' = waiting /\ aborted' = aborted
    BY <1>2 DEF Resume
  <2>2. Holders' = Holders
    BY <2>1 DEF Holders, AdmissionInv, TypeOK
  <2>3. TypeOK'
    BY <2>1 DEF AdmissionInv, TypeOK
  <2>4. QueueMatches'
    BY <2>1 DEF AdmissionInv, TypeOK, QueueMatches
  <2> QED BY <2>1, <2>2, <2>3, <2>4 DEF AdmissionInv, SlotsAccounted, NoIdleSlot
<1> QED BY <1>1, <1>2

\* A waiter that is aborted leaves the queue; anybody else only gets its signal set.
LEMMA AbortInv ==
    ASSUME AdmissionInv, NEW c \in Callers, Abort(c) PROVE AdmissionInv'
<1> USE DEF AdmissionInv
<1>1. CASE pc[c] = "waiting"
  <2>1. PICK i \in 1..Len(waiting) : waiting[i] = c /\ waiting' = Without(i)
    BY <1>1 DEF Abort
  <2>2. /\ pc' = [pc EXCEPT ![c] = "idle"]
        /\ active' = active /\ capacity' = capacity /\ aborted' = aborted
    BY <1>1 DEF Abort
  <2>3. Len(waiting) \in Nat /\ Len(waiting) > 0
    BY <2>1 DEF TypeOK
  <2>4. /\ waiting' \in Seq(Callers) /\ Len(waiting') = Len(waiting) - 1
        /\ \A n \in 1..Len(waiting') :
              waiting'[n] = IF n < i THEN waiting[n] ELSE waiting[n + 1]
    BY <2>1, <2>3 DEF Without, TypeOK
  <2>5. TypeOK'
    <3>1. Len(waiting') <= MaxWaiting
      BY <2>3, <2>4, LimitsAssumption DEF TypeOK
    <3>2. pc' \in [Callers -> {"idle", "waiting", "granted", "held"}]
      BY <2>2 DEF TypeOK
    <3> QED BY <2>2, <2>4, <3>1, <3>2 DEF TypeOK
  <2>6. \A n \in 1..Len(waiting') : \E m \in 1..Len(waiting) :
            waiting'[n] = waiting[m] /\ m # i /\ m = (IF n < i THEN n ELSE n + 1)
    BY <2>3, <2>4
  <2>7. QueueMatches'
    <3>1. \A n \in 1..Len(waiting') : pc'[waiting'[n]] = "waiting"
      <4>1. TAKE n \in 1..Len(waiting')
      <4>2. PICK m \in 1..Len(waiting) : waiting'[n] = waiting[m] /\ m # i
        BY <2>6
      <4>3. waiting[m] # c /\ pc[waiting[m]] = "waiting" /\ waiting[m] \in Callers
        BY <4>2, <2>1 DEF QueueMatches, TypeOK
      <4> QED BY <4>2, <4>3, <2>2 DEF TypeOK
    <3>2. \A n, k \in 1..Len(waiting') : waiting'[n] = waiting'[k] => n = k
      <4>1. SUFFICES ASSUME NEW n \in 1..Len(waiting'), NEW k \in 1..Len(waiting'),
                            waiting'[n] = waiting'[k]
                     PROVE  n = k
        OBVIOUS
      <4>2. PICK m \in 1..Len(waiting) :
                waiting'[n] = waiting[m] /\ m = (IF n < i THEN n ELSE n + 1)
        BY <2>6
      <4>3. PICK l \in 1..Len(waiting) :
                waiting'[k] = waiting[l] /\ l = (IF k < i THEN k ELSE k + 1)
        BY <2>6
      <4>4. m = l
        BY <4>1, <4>2, <4>3, ZenonT(60) DEF QueueMatches
      <4>5. n \in Int /\ k \in Int /\ i \in Int
        BY <2>3, <2>4
      <4> QED BY <4>2, <4>3, <4>4, <4>5
    <3>3. \A d \in Callers : pc'[d] = "waiting" => \E n \in 1..Len(waiting') : waiting'[n] = d
      <4>1. SUFFICES ASSUME NEW d \in Callers, pc'[d] = "waiting"
                     PROVE  \E n \in 1..Len(waiting') : waiting'[n] = d
        OBVIOUS
      <4>2. d # c /\ pc[d] = "waiting"
        BY <4>1, <2>2 DEF TypeOK
      <4>3. PICK k \in 1..Len(waiting) : waiting[k] = d
        BY <4>2 DEF QueueMatches
      <4>4. k # i
        BY <4>2, <4>3, <2>1
      <4>5. CASE k < i
        BY <4>5, <4>3, <2>3, <2>4
      <4>6. CASE k > i
        <5>1. k - 1 \in 1..Len(waiting') /\ ~(k - 1 < i)
          BY <4>6, <2>3, <2>4
        <5>2. waiting'[k - 1] = waiting[(k - 1) + 1] /\ (k - 1) + 1 = k
          BY <5>1, <2>4
        <5> QED BY <5>1, <5>2, <4>3
      <4> QED BY <4>4, <4>5, <4>6
    <3> QED BY <3>1, <3>2, <3>3 DEF QueueMatches
  <2>8. Holders' = Holders
    BY <1>1, <2>2 DEF Holders, TypeOK
  <2> QED BY <2>2, <2>3, <2>4, <2>5, <2>7, <2>8 DEF SlotsAccounted, NoIdleSlot
<1>2. CASE pc[c] # "waiting"
  <2>1. /\ aborted' = [aborted EXCEPT ![c] = TRUE]
        /\ active' = active /\ capacity' = capacity /\ waiting' = waiting /\ pc' = pc
    BY <1>2 DEF Abort
  <2>2. Holders' = Holders
    BY <2>1 DEF Holders
  <2> QED BY <2>1, <2>2 DEF TypeOK, QueueMatches, SlotsAccounted, NoIdleSlot
<1> QED BY <1>1, <1>2

\* A change of capacity grants the first waiters that fit, each one a new slot.
LEMMA ResizeInv ==
    ASSUME AdmissionInv, NEW n \in 1..MaxCapacity, Resize(n) PROVE AdmissionInv'
<1> USE DEF AdmissionInv
<1>1. PICK g \in 0..Len(waiting) :
         /\ g = Len(waiting) \/ active + g >= n
         /\ waiting' = SubSeq(waiting, g + 1, Len(waiting))
         /\ pc' = [c \in Callers |-> IF \E i \in 1..g : waiting[i] = c THEN "granted" ELSE pc[c]]
         /\ active' = active + g
  BY DEF Resize
<1>2. capacity' = n /\ aborted' = aborted
  BY DEF Resize
<1>3. Len(waiting) \in Nat /\ active \in Nat /\ n \in Nat
  BY LimitsAssumption DEF TypeOK
<1>4. /\ waiting' \in Seq(Callers) /\ Len(waiting') = Len(waiting) - g
      /\ \A i \in 1..Len(waiting') : waiting'[i] = waiting[g + i]
  BY <1>1, <1>3 DEF TypeOK
<1>5. TypeOK'
  <2>1. Len(waiting') <= MaxWaiting /\ active' \in Nat
    BY <1>1, <1>3, <1>4, LimitsAssumption DEF TypeOK
  <2>2. pc' \in [Callers -> {"idle", "waiting", "granted", "held"}]
    BY <1>1 DEF TypeOK
  <2> QED BY <1>2, <1>4, <2>1, <2>2 DEF TypeOK
<1>6. QueueMatches'
  <2>1. \A i \in 1..Len(waiting') : pc'[waiting'[i]] = "waiting"
    <3>1. TAKE i \in 1..Len(waiting')
    <3>2. g + i \in 1..Len(waiting) /\ waiting'[i] = waiting[g + i] /\ waiting[g + i] \in Callers
      BY <1>3, <1>4 DEF TypeOK
    <3>3. \A k \in 1..g : waiting[k] # waiting[g + i]
      BY <3>2, <1>3 DEF QueueMatches
    <3> QED BY <3>2, <3>3, <1>1 DEF QueueMatches
  <2>2. \A i, k \in 1..Len(waiting') : waiting'[i] = waiting'[k] => i = k
    BY <1>3, <1>4 DEF QueueMatches
  <2>3. \A d \in Callers : pc'[d] = "waiting" => \E i \in 1..Len(waiting') : waiting'[i] = d
    <3>1. SUFFICES ASSUME NEW d \in Callers, pc'[d] = "waiting"
                   PROVE  \E i \in 1..Len(waiting') : waiting'[i] = d
      OBVIOUS
    <3>2. pc[d] = "waiting" /\ \A i \in 1..g : waiting[i] # d
      BY <3>1, <1>1
    <3>3. PICK k \in 1..Len(waiting) : waiting[k] = d
      BY <3>2 DEF QueueMatches
    <3>4. k - g \in 1..Len(waiting') /\ g + (k - g) = k
      BY <3>2, <3>3, <1>3, <1>4
    <3> QED BY <3>3, <3>4, <1>4
  <2> QED BY <2>1, <2>2, <2>3 DEF QueueMatches
<1>7. SlotsAccounted'
  <2> DEFINE G == {waiting[i] : i \in 1..g}
  <2>1. IsFiniteSet(G) /\ Cardinality(G) = g
    BY FirstAreDistinct DEF TypeOK, QueueMatches
  <2>2. \A d \in G : d \in Callers /\ pc[d] = "waiting"
    BY <1>3 DEF TypeOK, QueueMatches
  <2>3. Holders' = Holders \cup G
    <3>1. \A d \in Callers : d \in G <=> \E i \in 1..g : waiting[i] = d
      OBVIOUS
    <3>2. \A d \in Callers : pc'[d] = IF d \in G THEN "granted" ELSE pc[d]
      BY <3>1, <1>1
    <3> HIDE DEF G
    <3> QED BY <3>2, <2>2 DEF Holders
  <2>4. Holders \cap G = {}
    BY <2>2 DEF Holders
  <2> HIDE DEF G
  <2>5. Cardinality(Holders \cap G) = 0
    BY <2>4, FS_EmptySet
  <2>6. Cardinality(Holders \cup G) = Cardinality(Holders) + g
    <3>1. Cardinality(Holders \cup G) = Cardinality(Holders) + Cardinality(G) - Cardinality(Holders \cap G)
      BY <2>1, HoldersFinite, FS_Union
    <3>2. Cardinality(Holders) \in Nat /\ g \in Nat
      BY HoldersFinite, <1>3
    <3> QED BY <2>1, <2>5, <3>1, <3>2
  <2> QED BY <2>3, <2>6, <1>1 DEF SlotsAccounted
<1>8. NoIdleSlot'
  BY <1>1, <1>2, <1>3, <1>4 DEF NoIdleSlot
<1> QED BY <1>5, <1>6, <1>7, <1>8

\* Every step keeps the invariant.
LEMMA NextInv == AdmissionInv /\ [Next]_vars => AdmissionInv'
<1> SUFFICES ASSUME AdmissionInv, [Next]_vars PROVE AdmissionInv'
  OBVIOUS
<1>1. ASSUME NEW c \in Callers, Release(c) PROVE AdmissionInv'
  BY <1>1, GiveUpInv DEF Release, Holders
<1>2. CASE UNCHANGED vars
  <2>1. Holders' = Holders
    BY <1>2 DEF vars, Holders
  <2> QED BY <1>2, <2>1 DEF vars, AdmissionInv, TypeOK, QueueMatches, SlotsAccounted, NoIdleSlot
<1> QED BY <1>1, <1>2, RefuseInv, WaitInv, EnterInv, ResumeInv, AbortInv, ResizeInv DEF Next

-----------------------------------------------------------------------------
(* Who gets a slot, and when. *)

\* A step that gives somebody a slot it did not have.
Admits(c) == c \notin Holders /\ c \in Holders'

\* A caller is admitted by taking a free slot, by being handed one as the first in the
\* queue, or by a change of capacity that lets the first in the queue in.
LEMMA HowAdmitted ==
    ASSUME AdmissionInv, Next, NEW c \in Callers, Admits(c)
    PROVE  \/ Enter(c)
           \/ /\ Len(waiting) > 0 /\ c = waiting[1]
              /\ active' = active /\ capacity' = capacity /\ active <= capacity
           \/ \E g \in 0..Len(waiting) :
                 /\ \E i \in 1..g : waiting[i] = c
                 /\ active + g <= capacity' \/ g = 0
                 /\ active' = active + g
                 /\ \A i \in 1..g : pc'[waiting[i]] = "granted"
<1> USE DEF AdmissionInv
<1>0. pc[c] \in {"idle", "waiting"} /\ pc'[c] \in {"granted", "held"}
  BY DEF Admits, Holders, TypeOK
<1>1. ASSUME NEW d \in Callers, Refuse(d) \/ Wait(d) \/ Abort(d) PROVE FALSE
  <2>1. \A e \in Callers : pc'[e] \in {pc[e], "idle", "waiting"}
    BY <1>1 DEF Refuse, Wait, Abort, TypeOK
  <2> QED BY <2>1, <1>0
<1>2. ASSUME NEW d \in Callers, Enter(d) PROVE Enter(c)
  <2>1. c = d
    BY <1>2, <1>0 DEF Enter, TypeOK
  <2> QED BY <2>1, <1>2
<1>3. ASSUME NEW d \in Callers, pc[d] \in {"granted", "held"}, GiveUp(d)
      PROVE  /\ Len(waiting) > 0 /\ c = waiting[1]
             /\ active' = active /\ capacity' = capacity /\ active <= capacity
  <2>1. HandOn
    BY <1>3, <1>0 DEF GiveUp, TypeOK
  <2>2. /\ Len(waiting) > 0 /\ active <= capacity /\ active' = active /\ capacity' = capacity
        /\ pc' = [pc EXCEPT ![d] = "idle", ![Head(waiting)] = "granted"]
    BY <2>1, <1>3 DEF GiveUp, HandOn
  <2>3. c = Head(waiting)
    BY <2>2, <1>3, <1>0 DEF TypeOK
  <2> QED BY <2>2, <2>3 DEF TypeOK
<1>4. ASSUME NEW d \in Callers, Resume(d), ~aborted[d] PROVE FALSE
  <2>1. pc[d] = "granted" /\ pc' = [pc EXCEPT ![d] = "held"]
    BY <1>4 DEF Resume
  <2> QED BY <2>1, <1>0 DEF TypeOK
<1>5. ASSUME NEW n \in 1..MaxCapacity, Resize(n)
      PROVE  \E g \in 0..Len(waiting) :
                 /\ \E i \in 1..g : waiting[i] = c
                 /\ active + g <= capacity' \/ g = 0
                 /\ active' = active + g
                 /\ \A i \in 1..g : pc'[waiting[i]] = "granted"
  <2>1. PICK g \in 0..Len(waiting) :
         /\ active + g <= n \/ g = 0
         /\ pc' = [e \in Callers |-> IF \E i \in 1..g : waiting[i] = e THEN "granted" ELSE pc[e]]
         /\ active' = active + g
    BY <1>5 DEF Resize
  <2>2. capacity' = n
    BY <1>5 DEF Resize
  <2>3. \E i \in 1..g : waiting[i] = c
    BY <2>1, <1>0
  <2>4. \A i \in 1..g : pc'[waiting[i]] = "granted"
    <3>1. \A i \in 1..g : waiting[i] \in Callers
      BY DEF TypeOK
    <3> QED BY <2>1, <3>1
  <2> QED BY <2>1, <2>2, <2>3, <2>4
<1>6. ASSUME NEW d \in Callers, Resume(d) \/ Release(d), ~(Resume(d) /\ ~aborted[d])
      PROVE  pc[d] \in {"granted", "held"} /\ GiveUp(d)
  BY <1>6 DEF Resume, Release
<1> QED BY <1>1, <1>2, <1>3, <1>4, <1>5, <1>6 DEF Next

-----------------------------------------------------------------------------
(* The theorems. *)

\* The slots, the queue and the callers agree in every reachable state.
THEOREM AdmissionCorrect == Spec => []AdmissionInv
<1>1. Init => AdmissionInv
  BY InitInv
<1>2. AdmissionInv /\ [Next]_vars => AdmissionInv'
  BY NextInv
<1> QED BY <1>1, <1>2, PTL DEF Spec

\* QueueAdmission leaks no slot: the counter is the number of callers that have one.
THEOREM SlotsAccountedCorrect == Spec => []SlotsAccounted
<1>1. AdmissionInv => SlotsAccounted
  BY DEF AdmissionInv
<1> QED BY <1>1, AdmissionCorrect, PTL

\* No caller waits while the capacity leaves a slot free.
THEOREM NoIdleSlotCorrect == Spec => []NoIdleSlot
<1>1. AdmissionInv => NoIdleSlot
  BY DEF AdmissionInv
<1> QED BY <1>1, AdmissionCorrect, PTL

\* resize() may shrink the capacity below the slots taken; no admission exceeds it.
THEOREM NeverOverfilledCorrect == Spec => NeverOverfilled
<1>1. AdmissionInv /\ [Next]_vars =>
         [\A c \in Callers : (c \notin Holders /\ c \in Holders') => active' <= capacity']_vars
  <2>1. SUFFICES ASSUME AdmissionInv, Next, NEW c \in Callers, Admits(c)
                 PROVE  active' <= capacity'
    BY DEF Admits
  <2>2. active \in Nat /\ capacity \in Nat
    BY <2>1, LimitsAssumption DEF AdmissionInv, TypeOK
  <2>3. CASE Enter(c)
    BY <2>2, <2>3 DEF Enter
  <2>4. CASE \E g \in 0..Len(waiting) : /\ \E i \in 1..g : waiting[i] = c
                                        /\ active + g <= capacity' \/ g = 0
                                        /\ active' = active + g
    BY <2>4
  <2> QED BY <2>1, <2>3, <2>4, HowAdmitted
<1> QED BY <1>1, AdmissionCorrect, PTL DEF Spec, NeverOverfilled

\* QueueAdmission grants in order of arrival, and a newcomer takes no slot past a waiter.
THEOREM ArrivalOrderCorrect == Spec => ArrivalOrder
<1>1. AdmissionInv /\ [Next]_vars =>
         [\A c \in Callers, d \in Waiters :
            (c \notin Holders /\ c \in Holders' /\ d \in Waiters')
            => \E i, k \in 1..Len(waiting) : waiting[i] = c /\ waiting[k] = d /\ i < k]_vars
  <2>1. SUFFICES ASSUME AdmissionInv, Next, NEW c \in Callers, Admits(c),
                        NEW d \in Waiters, d \in Waiters'
                 PROVE  \E i, k \in 1..Len(waiting) : waiting[i] = c /\ waiting[k] = d /\ i < k
    BY DEF Admits
  <2>2. Len(waiting) \in Nat /\ active \in Nat /\ capacity \in Nat
    BY <2>1, LimitsAssumption DEF AdmissionInv, TypeOK
  <2>3. d \in Callers /\ pc[d] = "waiting" /\ pc'[d] = "waiting" /\ d # c
    BY <2>1 DEF Waiters, Admits, Holders
  <2>4. PICK k \in 1..Len(waiting) : waiting[k] = d
    BY <2>1, <2>3 DEF AdmissionInv, QueueMatches
  <2>5. CASE Enter(c)
    BY <2>1, <2>2, <2>4, <2>5 DEF Enter, AdmissionInv, NoIdleSlot
  <2>6. CASE Len(waiting) > 0 /\ c = waiting[1]
    <3>1. 1 \in 1..Len(waiting) /\ 1 < k
      BY <2>2, <2>3, <2>4, <2>6
    <3> QED BY <3>1, <2>4, <2>6
  <2>7. CASE \E g \in 0..Len(waiting) : /\ \E i \in 1..g : waiting[i] = c
                                        /\ \A i \in 1..g : pc'[waiting[i]] = "granted"
    <3>0. PICK g \in 0..Len(waiting) : /\ \E i \in 1..g : waiting[i] = c
                                       /\ \A m \in 1..g : pc'[waiting[m]] = "granted"
      BY <2>7
    <3>1. PICK i \in 1..g : waiting[i] = c
      BY <3>0
    <3>2. k \notin 1..g
      BY <3>0, <2>3, <2>4
    <3>3. i \in 1..Len(waiting) /\ i < k
      BY <3>1, <3>2, <2>2, <2>4
    <3> QED BY <3>1, <3>3, <2>4
  <2> QED BY <2>1, <2>5, <2>6, <2>7, HowAdmitted
<1> QED BY <1>1, AdmissionCorrect, PTL DEF Spec, ArrivalOrder
=============================================================================
