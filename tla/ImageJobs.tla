----------------------------- MODULE ImageJobs ------------------------------
(***************************************************************************)
(* What an ingestion pipeline promises about the jobs it is given, whatever*)
(* queue, batches, processes and failures are behind it.  A job is pending *)
(* until it ends as "indexed" or "failed", and it ends with the status that*)
(* was last told about it; "indexed" is told of searchable images only, and*)
(* a final status is told after "processing".  Telling may be repeated, and*)
(* a job that was told failed or indexed may start over with "processing", *)
(* as long as it is pending.                                               *)
(***************************************************************************)
CONSTANTS Images, Jobs

VARIABLES
    status,      \* of each job: "absent", "pending", "indexed" or "failed"
    subject,     \* the image each job is about
    searchable,  \* the images a search can find
    told         \* the status last told about each job, or "none"

vars == <<status, subject, searchable, told>>

Init ==
    /\ status = [j \in Jobs |-> "absent"]
    /\ subject \in [Jobs -> Images]
    /\ searchable = {}
    /\ told = [j \in Jobs |-> "none"]

Submit(j, i) ==
    /\ status[j] = "absent"
    /\ status' = [status EXCEPT ![j] = "pending"]
    /\ subject' = [subject EXCEPT ![j] = i]
    /\ UNCHANGED <<searchable, told>>

\* Images of pending jobs, several at once, become searchable.
MakeSearchable(S) ==
    /\ \A i \in S : \E j \in Jobs : status[j] = "pending" /\ subject[j] = i
    /\ searchable' = searchable \cup S
    /\ UNCHANGED <<status, subject, told>>

Tell(j, s) ==
    /\ status[j] = "pending"
    /\ s # "processing" => told[j] = "processing"
    /\ s = "indexed" => subject[j] \in searchable
    /\ told' = [told EXCEPT ![j] = s]
    /\ UNCHANGED <<status, subject, searchable>>

Finish(j, s) ==
    /\ status[j] = "pending"
    /\ told[j] = s
    /\ status' = [status EXCEPT ![j] = s]
    /\ UNCHANGED <<subject, searchable, told>>

Next ==
    \/ \E j \in Jobs, i \in Images : Submit(j, i)
    \/ \E S \in SUBSET Images : MakeSearchable(S)
    \/ \E j \in Jobs, s \in {"processing", "indexed", "failed"} : Tell(j, s)
    \/ \E j \in Jobs, s \in {"indexed", "failed"} : Finish(j, s)

Spec == Init /\ [][Next]_vars
=============================================================================
