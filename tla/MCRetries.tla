----------------------------- MODULE MCRetries ------------------------------
(***************************************************************************)
(* The two protocols in which what was not confirmed is sent again, side   *)
(* by side for TLC: push delivery of Pub/Sub, where the service repeats,   *)
(* and the resumable upload of Cloud Storage, where the client does.  They *)
(* share nothing, so a behaviour exercises one of them, the surface; the   *)
(* upload is over where it is not the subject.  The fairness of both is    *)
(* assumed: where one rests, none of the steps it is about is enabled.     *)
(***************************************************************************)
EXTENDS PubSubPush, ResumableUpload, TLC

MCEndpoints == {"e1"}

VARIABLE surface

retriesVars == <<surface, vars, uploadVars>>

UploadOver ==
    /\ session = FALSE /\ buffer = File /\ object = File /\ puts = <<>>
    /\ client = [pc |-> "done", off |-> Total, timeouts |-> 0]

RetriesInit ==
    /\ Init
    /\ \/ surface = "push" /\ UploadOver
       \/ surface = "upload" /\ UploadInit

RetriesNext ==
    /\ UNCHANGED surface
    /\ \/ surface = "push" /\ Next /\ UNCHANGED uploadVars
       \/ surface = "upload" /\ UploadNext /\ UNCHANGED vars

RetriesSpec ==
    RetriesInit /\ [][RetriesNext]_retriesVars /\ Fairness /\ UploadFairness
=============================================================================
