------------------------------ MODULE FotaServiceMC ----------------------------
(***************************************************************************)
(* FotaService with a bounded number of updates, lost segments, lost       *)
(* connections and power losses.                                           *)
(***************************************************************************)
EXTENDS FotaService

CONSTANTS MAX_UPDATES, MAX_LOST, MAX_DROPS, MAX_CRASHES   \* the bounds

VARIABLE left   \* what is left of each of them

MCvars == <<vars, left>>

\* The copy alone, and the copy with everything else.
CopyOnly == {[boot |-> FALSE, erase |-> FALSE, copy |-> TRUE]}
CopyAndMore == CopyOnly \cup [boot : {TRUE}, erase : BOOLEAN, copy : {TRUE}]

MCInit ==
    /\ Init
    /\ left = [updates |-> MAX_UPDATES, lost |-> MAX_LOST, drops |-> MAX_DROPS,
               crashes |-> MAX_CRASHES]

Own(A) == A /\ UNCHANGED left
Takes(what, A) == left[what] > 0 /\ A /\ left' = [left EXCEPT ![what] = @ - 1]

MCNext ==
    \/ Own(Connect)
    \/ Own(CancelUpdate)
    \/ Own(Update)
    \/ Own(Finish)
    \/ Own(Boot)
    \/ \E i \in Images : Takes("updates", START_REQ(i))
    \/ Takes("drops", Disconnect)
    \/ Takes("lost", Lose)
    \/ Takes("crashes", PowerLoss)

\* The application goes on with its update, the processor with its program.
MCSpec ==
    /\ MCInit /\ [][MCNext]_MCvars
    /\ WF_MCvars(Own(Update)) /\ WF_MCvars(Own(Finish)) /\ WF_MCvars(Own(Boot))

\* Once the copy is requested the device comes to run the new image, however
\* often power is lost meanwhile (the request is taken back only after the
\* copy, ota_copy_done_set).
CopyLands ==
    \A i \in Images :
        (IsSet(log, "copy") /\ load = Whole(i)) ~> (cpu.mode = "APP" /\ run = Whole(i))

\* An application that sends what is not acknowledged again gets through its
\* image unless it is cut off: every segment that arrives is acknowledged.
TransferEnds == client.pc = "SENDING" ~> client.pc \notin {"NEXT", "SENDING"}
================================================================================
