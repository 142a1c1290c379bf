---------------------------- MODULE FencedClaims ----------------------------
(***************************************************************************)
(* What the durable queue promises about publication, with everything that *)
(* makes it hard (leases, retries, crashes, cancellation, several workers)  *)
(* left out.  A job is held by at most one claim; claims are numbered and   *)
(* never reused; only the claim that holds the job may publish, and         *)
(* publishing gives the job up.  JobQueue implements this specification.    *)
(***************************************************************************)
EXTENDS Naturals

CONSTANT Jobs

VARIABLES holder,      \* the claim that holds each job, 0 when nobody does
          issued,      \* how many claims each job has ever had
          published    \* the claims whose output was adopted

vars == <<holder, issued, published>>

Init == /\ holder = [j \in Jobs |-> 0]
        /\ issued = [j \in Jobs |-> 0]
        /\ published = {}

\* A free job is handed out under a claim number nobody has held before.
Grant(j) == /\ holder[j] = 0
            /\ issued' = [issued EXCEPT ![j] = @ + 1]
            /\ holder' = [holder EXCEPT ![j] = issued[j] + 1]
            /\ UNCHANGED published

\* The holder adopts its output and gives the job up in one step.
Publish(j) == /\ holder[j] # 0
              /\ published' = published \cup {<<j, holder[j]>>}
              /\ holder' = [holder EXCEPT ![j] = 0]
              /\ UNCHANGED issued

\* The holder loses the job: it failed, deferred, was cancelled or went quiet.
Revoke(j) == /\ holder[j] # 0
             /\ holder' = [holder EXCEPT ![j] = 0]
             /\ UNCHANGED <<issued, published>>

Next == \E j \in Jobs : Grant(j) \/ Publish(j) \/ Revoke(j)

Spec == Init /\ [][Next]_vars
=============================================================================
