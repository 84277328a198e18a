----------------------------- MODULE MCRtlResults -----------------------------
(***************************************************************************)
(* An instance of RtlResults: one good log for every choice of clean       *)
(* samples, one without microbenchmarks, and one for every way in which a  *)
(* run can be refused.                                                     *)
(***************************************************************************)
EXTENDS RtlResults

MCPoint == {"axpy", "dot"}
MCSample == {1, 2}
Good(clean) == [exits |-> TRUE, markers |-> TRUE, done |-> TRUE, matrix |-> TRUE,
                params |-> "valid", hpm |-> TRUE, clean |-> clean]
AllClean == [p \in MCPoint |-> MCSample]
MCLogs ==
    {Good(clean) : clean \in {AllClean, [AllClean EXCEPT !["dot"] = {2}],
                              [AllClean EXCEPT !["axpy"] = {}]}}
    \cup {[Good(AllClean) EXCEPT !.exits = FALSE], [Good(AllClean) EXCEPT !.markers = FALSE],
          [Good(AllClean) EXCEPT !.done = FALSE], [Good(AllClean) EXCEPT !.matrix = FALSE],
          [Good(AllClean) EXCEPT !.params = "none"], [Good(AllClean) EXCEPT !.params = "invalid"],
          [Good(AllClean) EXCEPT !.hpm = FALSE]}

=============================================================================
