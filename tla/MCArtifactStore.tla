--------------------------- MODULE MCArtifactStore ---------------------------
(* ArtifactStore instantiated for TLC, with the properties its runs check. *)
EXTENDS ArtifactStore

MCProcs == 1..3
MCProcs4 == 1..4
MCCaptures == 1..3
MCClock == 1..2
MCClock1 == {1}
MCTimes == 1..5

\* Processes that have not started are interchangeable, so it loses nothing to
\* start them in order.
StartInOrder ==
    \A p \in Procs : pc'[p] # "idle" => \A q \in Procs : q < p => pc'[q] # "idle"

\* Every started operation ends, in success, in an error or by a crash, and a
\* process runs one: no waiter is left behind by a holder that failed or died.
EveryOperationEnds ==
    <>[](\A p \in Procs : pc[p] \in {"idle"} \cup Ended)
=============================================================================
