--------------------------- MODULE MCTaskLifecycle ---------------------------
EXTENDS TaskLifecycle, TLC

Roles == Caller \cup {NoBox}
BoxOf(k) == IF k = NoBox THEN cached ELSE call[k].box

(* What the future depends on.  A container is told from another by what   *)
(* it holds and by who refers to it, not by its name; one that nobody      *)
(* refers to is garbage and left out.                                      *)
View == <<type, row, building, started, reports, misread,
          [c \in Caller |-> [call[c] EXCEPT !.box = NoBox]],
          [k \in Roles |-> IF BoxOf(k) = NoBox THEN NoRow ELSE mem[BoxOf(k)]],
          {k \in Roles : BoxOf(k) \in behind},
          {<<j, k>> \in Roles \X Roles : BoxOf(j) = BoxOf(k)}>>

(* Calls overlap for the type with the shortest table.                     *)
MCOverlap == [t \in Type |-> IF t = "WAIT_FOR_EVENT" THEN 2 ELSE 1]

(* Bound: calls overlap while they get or make a container; one at a time  *)
(* works on it.                                                            *)
OneAtWork == Cardinality({c \in Caller : call[c].pc \in Working}) <= 1

(* Callers and container objects are interchangeable; a run checks no      *)
(* liveness under this.                                                    *)
Interchangeable == Permutations(Caller) \cup Permutations(Box)
=============================================================================
