----------------------------- MODULE MCJobStore -----------------------------
(* Instances of JobStore for TLC. *)
EXTENDS JobStore

CONSTANTS k1, k2, r1, i1, i2, w1

Req(key, run, item, safe, op, keep) ==
    [key |-> key, run |-> run, item |-> item, safe |-> safe, op |-> op, keep |-> keep]

\* Two stages of one run; the second is also asked for outside it, under the same key.
TwoStages == {Req(k1, r1, i1, TRUE, FALSE, "last"), Req(k2, r1, i2, TRUE, FALSE, "last"),
              Req(k2, NoRun, i2, FALSE, FALSE, "last")}
\* One stage, asked for in the run and outside it, under one key.
InAndOut == {Req(k2, r1, i2, TRUE, FALSE, "last"), Req(k2, NoRun, i2, FALSE, FALSE, "last")}
=============================================================================
