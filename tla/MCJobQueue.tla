----------------------------- MODULE MCJobQueue -----------------------------
(* Instances of JobQueue for TLC. *)
EXTENDS JobQueue

CONSTANTS k1, k2, r1, i1, i2, w1, w2

Req(key, run, item, safe, op, keep) ==
    [key |-> key, run |-> run, item |-> item, safe |-> safe, op |-> op, keep |-> keep]

\* One repeatable and one operation-owned kind of work, outside any run.
LoneWork == {Req(k1, NoRun, i1, TRUE, FALSE, "drop"), Req(k2, NoRun, i1, FALSE, TRUE, "drop")}
\* One stage of a run, asked for as repeatable work and as operation-owned work.
OneStage == {Req(k1, r1, i1, TRUE, FALSE, "last"), Req(k1, r1, i1, FALSE, TRUE, "last")}
=============================================================================
