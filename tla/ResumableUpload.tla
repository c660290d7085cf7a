--------------------------- MODULE ResumableUpload --------------------------
(***************************************************************************)
(* One resumable upload session of Cloud Storage and the client that uses  *)
(* it.  A PUT looks the session up under resumableMu, releases the lock,   *)
(* and takes it again for the rest of the request, so a session that was   *)
(* found may have been finalised since.  The client sends the file in      *)
(* chunks, one request at a time, but gives up waiting at any point: the   *)
(* request it gave up on is still under way when it asks for the status    *)
(* and tries again.                                                        *)
(*                                                                         *)
(* The bytes of the file are 1 .. Total, so that a byte that is missing,   *)
(* repeated or out of place shows in the object.  The client is modelled   *)
(* from the protocol the handler serves.                                   *)
(***************************************************************************)
EXTENDS Integers, Sequences, FiniteSets, SequencesExt

CONSTANTS Total,        \* length of the file
          Chunk,        \* bytes the client sends at most in one request
          Modes,        \* how the client sends: "chunk", "open" or "single"
          RetrySingle,  \* whether a request without Content-Range is retried
          MaxTimeouts   \* bound on the requests the client gives up on

ASSUME UploadAssumption ==
    /\ Total \in Nat \ {0} /\ Chunk \in Nat \ {0} /\ MaxTimeouts \in Nat
    /\ Modes \subseteq {"chunk", "open", "single"} /\ Modes # {}
    /\ RetrySingle \in BOOLEAN

VARIABLES session,  \* whether the session is in resumableSessions
          buffer,   \* resumableSession.Buffer
          object,   \* what storeObject stored, NoObject before
          puts,     \* the requests sent so far, in order
          client    \* the client

uploadVars == <<session, buffer, object, puts, client>>

File == [i \in 1..Total |-> i]
NoObject == <<0>>

(* parseContentRange: the header of a request, with -1 for "*" and with    *)
(* "single" for no header at all, and whether it is the final chunk.       *)
ContentRange(start, end, total) == [form |-> "chunk", start |-> start, end |-> end, total |-> total]
Status == [form |-> "status", start |-> -1, end |-> -1, total |-> Total]
Single == [form |-> "single", start |-> 0, end |-> -1, total |-> -1]

(* Mutant: end is taken for the length of what was sent. *)
FinalByCount(h) == h.total >= 0 /\ h.end >= h.total - 2

Final(h) == h.total >= 0 /\ h.end = h.total - 1

Headers == {Status, Single} \cup [form : {"chunk"}, start : 0..Total, end : -1 .. Total - 1,
                                  total : {-1, Total}]

-----------------------------------------------------------------------------
(* The client: the chunk that starts where the server said it is. *)
ChunkFrom(off) ==
    LET last == IF off + Chunk < Total THEN off + Chunk ELSE Total
    IN [hdr |-> ContentRange(off, last - 1, Total), body |-> SubSeq(File, off + 1, last)]

OpenFrom(off) == [hdr |-> ContentRange(off, -1, -1), body |-> SubSeq(File, off + 1, Total)]

Whole == [hdr |-> Single, body |-> File]

Query == [hdr |-> Status, body |-> <<>>]

Post(r) ==
    /\ puts' = Append(puts, [hdr |-> r.hdr, body |-> r.body, pc |-> "sent", off |-> 0])
    /\ client' = [client EXCEPT !.pc = "wait"]
    /\ UNCHANGED <<session, buffer, object>>

SendChunk == client.pc = "send" /\ "chunk" \in Modes /\ Post(ChunkFrom(client.off))
SendOpen == client.pc = "send" /\ "open" \in Modes /\ Post(OpenFrom(client.off))

(* The whole file in one request, as an upload without a Content-Range. *)
SendWhole ==
    /\ client.pc = "send" /\ "single" \in Modes /\ client.off = 0
    /\ puts = <<>> \/ RetrySingle
    /\ Post(Whole)

SendQuery == client.pc = "query" /\ Post(Query)

(* The answer to the last request arrives, ... *)
Receive ==
    /\ client.pc = "wait"
    /\ LET r == Last(puts) IN
       \/ r.pc = "200" /\ client' = [client EXCEPT !.pc = "done"]
       \/ r.pc = "308" /\ client' = [client EXCEPT !.pc = "send", !.off = r.off]
       \/ r.pc = "400" /\ client' = [client EXCEPT !.pc = "query"]
       \/ r.pc = "404" /\ client' = [client EXCEPT !.pc = "gone"]
    /\ UNCHANGED <<session, buffer, object, puts>>

(* A request the client may have to repeat. *)
Repeatable(r) == r.hdr.form # "single" \/ RetrySingle

(* ... or the client does not wait for it. *)
Timeout ==
    /\ client.pc = "wait" /\ client.timeouts < MaxTimeouts
    /\ Repeatable(Last(puts))
    /\ client' = [client EXCEPT !.pc = "query", !.timeouts = @ + 1]
    /\ UNCHANGED <<session, buffer, object, puts>>

-----------------------------------------------------------------------------
(* uploadResumableData. *)
Answer(i, code) == puts' = [puts EXCEPT ![i].pc = code]

(* Mutant: the status takes resumableMu, which the handler holds, and hangs. *)
ResumableStatusRelocks(i) == FALSE /\ Answer(i, "308")

(* writeResumableStatus: how many bytes there are. *)
ResumableStatus(i) == puts' = [puts EXCEPT ![i].pc = "308", ![i].off = Len(buffer)]

Lookup(i) ==
    /\ puts[i].pc = "sent"
    /\ Answer(i, IF session THEN "found" ELSE "404")
    /\ UNCHANGED <<session, buffer, object, client>>

(* The body cannot be read, or is shorter than Content-Range says (bounded *)
(* together with the timeouts).                                            *)
BadBody(i) ==
    /\ puts[i].pc = "found" /\ puts[i].hdr.form # "status"
    /\ client.timeouts < MaxTimeouts
    /\ Repeatable(puts[i])
    /\ client' = [client EXCEPT !.timeouts = @ + 1]
    /\ Answer(i, "400")
    /\ UNCHANGED <<session, buffer, object>>

StatusQuery(i) ==
    /\ puts[i].pc = "found" /\ puts[i].hdr.form = "status"
    /\ ResumableStatus(i)
    /\ UNCHANGED <<session, buffer, object, client>>

OutOfOrder(i) ==
    /\ puts[i].pc = "found" /\ puts[i].hdr.form = "chunk"
    /\ puts[i].hdr.start # Len(buffer)
    /\ ResumableStatus(i)
    /\ UNCHANGED <<session, buffer, object, client>>

(* Mutant: where the chunk starts is not looked at. *)
AppendsAnyStart(i) ==
    /\ puts[i].pc = "found" /\ puts[i].hdr.form = "chunk"

(* A chunk that follows on from the buffer. *)
Appends(i) ==
    /\ puts[i].pc = "found" /\ puts[i].hdr.form = "chunk"
    /\ puts[i].hdr.start = Len(buffer)

(* The chunk is kept; with an open end it counts as the last. *)
KeepChunk(i) ==
    /\ Appends(i) /\ puts[i].hdr.end >= 0 /\ ~Final(puts[i].hdr)
    /\ buffer' = buffer \o puts[i].body
    /\ puts' = [puts EXCEPT ![i].pc = "308", ![i].off = Len(buffer')]
    /\ UNCHANGED <<session, object, client>>

(* Mutant: the session stays in the map. *)
FinaliseKeepsSession(i) ==
    /\ buffer' = buffer \o puts[i].body
    /\ object' = buffer'
    /\ Answer(i, "200")
    /\ UNCHANGED <<session, client>>

(* finaliseResumableLocked: store the buffer as the object, drop the session. *)
Finalise(i) ==
    /\ buffer' = buffer \o puts[i].body
    /\ object' = buffer'
    /\ session' = FALSE
    /\ Answer(i, "200")
    /\ UNCHANGED client

LastChunk(i) == Appends(i) /\ (puts[i].hdr.end < 0 \/ Final(puts[i].hdr)) /\ Finalise(i)

(* finaliseResumable: no Content-Range, the body completes the upload. *)
SingleShot(i) == puts[i].pc = "found" /\ puts[i].hdr.form = "single" /\ Finalise(i)

-----------------------------------------------------------------------------
(* uploadResumableStart has made the session. *)
UploadInit ==
    /\ session = TRUE
    /\ buffer = <<>>
    /\ object = NoObject
    /\ puts = <<>>
    /\ client = [pc |-> "send", off |-> 0, timeouts |-> 0]

ClientStep == SendChunk \/ SendOpen \/ SendWhole \/ SendQuery \/ Receive

Handle(i) ==
    \/ Lookup(i) \/ StatusQuery(i) \/ OutOfOrder(i)
    \/ KeepChunk(i) \/ LastChunk(i) \/ SingleShot(i)

UploadNext ==
    \/ ClientStep \/ Timeout
    \/ \E i \in DOMAIN puts : Handle(i) \/ BadBody(i)

UploadSpec == UploadInit /\ [][UploadNext]_uploadVars

(* Requests are handled by goroutines of their own.  The number of requests *)
(* of a behaviour is bounded by the chunks and the timeouts.                *)
MaxPuts == Total + 3 * MaxTimeouts + 3

UploadFairness ==
    /\ WF_uploadVars(ClientStep)
    /\ \A i \in 1..MaxPuts : WF_uploadVars(i \in DOMAIN puts /\ Handle(i))

-----------------------------------------------------------------------------
UploadTypeOK ==
    /\ session \in BOOLEAN
    /\ \A i \in DOMAIN puts :
          /\ puts[i].hdr \in Headers
          /\ puts[i].pc \in {"sent", "found", "200", "308", "400", "404"}
          /\ puts[i].off \in 0..Total
    /\ Len(puts) <= MaxPuts
    /\ client.pc \in {"send", "query", "wait", "done", "gone"}
    /\ client.off \in 0..Total /\ client.timeouts \in 0..MaxTimeouts
    /\ session <=> object = NoObject

(* However the chunks are repeated, overtaken by a retry or handled after   *)
(* the upload was finalised, the buffer is the file up to some byte: no     *)
(* byte is missing, doubled or out of place.                                *)
BufferIsPrefix == IsPrefix(buffer, File)

(* The session is there until the object is, and its buffer is the file up   *)
(* to some byte (finaliseResumableLocked, writeResumableStatus).          *)
UploadInv == UploadTypeOK /\ BufferIsPrefix

(* What is stored is the file, all of it, and it stays that; and a client   *)
(* that was answered 200 or 404 has its object.                             *)
ObjectIsFile ==
    /\ object # NoObject => object = File
    /\ client.pc \in {"done", "gone"} => object # NoObject

(* The Range header of a 308 lets the client resume: it does not go on for  *)
(* ever, whatever the requests it gave up on do meanwhile.                  *)
UploadEnds == []<>(client.pc \in {"done", "gone"})
-----------------------------------------------------------------------------
(* The inductive invariant behind UploadInv and ObjectIsFile, for a client    *)
(* that does not repeat a request without Content-Range.                      *)

FileTo(n) == [k \in 1..n |-> k]

Put == [hdr : Headers, body : Seq(Int), pc : {"sent", "found", "200", "308", "400", "404"},
        off : 0..Total]

Shape ==
    /\ puts \in Seq(Put)
    /\ client \in [pc : {"send", "query", "wait", "done", "gone"}, off : 0..Total,
                   timeouts : 0..MaxTimeouts]
    /\ session \in BOOLEAN

(* The buffer, and what is stored when there is no session any more. *)
Contents ==
    /\ Len(buffer) \in 0..Total /\ buffer = FileTo(Len(buffer))
    /\ session => object = NoObject
    /\ ~session => object = FileTo(Total) /\ Len(buffer) = Total

(* The bytes a header announces, up to and including EndOf. *)
EndOf(h) == IF h.end < 0 THEN Total ELSE h.end + 1

(* A request carries the bytes its header names, which the server had asked  *)
(* for, and its answer is about the buffer as it was then.                   *)
Carries(r) ==
    /\ r.hdr.form = "chunk" =>
          /\ r.hdr.start <= Len(buffer)
          /\ r.hdr.start < EndOf(r.hdr) \/ EndOf(r.hdr) = Total
          /\ r.hdr.end >= 0 => r.hdr.total = Total
          /\ r.body = [k \in 1..(EndOf(r.hdr) - r.hdr.start) |-> r.hdr.start + k]
          /\ r.pc = "308" => r.hdr.start < r.off
    /\ r.hdr.form = "single" => r.body = FileTo(Total)
    /\ r.pc = "308" => r.off <= Len(buffer)
    /\ r.pc \in {"200", "404"} => ~session
    /\ r.hdr.form = "status" => r.pc # "400"

(* A request without Content-Range is the only one, and its client waits. *)
SingleAlone ==
    /\ puts = <<>> => session /\ buffer = <<>>
    /\ \A i \in DOMAIN puts : puts[i].hdr.form = "single" =>
           /\ Len(puts) = 1 /\ client.pc \in {"wait", "done"}
           /\ puts[i].pc \in {"sent", "found", "200"}
           /\ puts[i].pc # "200" => session /\ buffer = <<>>

(* The requests are paid for by bytes that arrived and by timeouts. *)
Paid == client.off + 2 * client.timeouts

Progress ==
    /\ client.off <= Len(buffer)
    /\ client.pc = "send" => Len(puts) <= Paid
    /\ client.pc = "query" => Len(puts) <= Paid - 1
    /\ client.pc \in {"done", "gone"} => Len(puts) <= Paid + 1 /\ ~session
    /\ client.pc = "wait" => puts # <<>>

(* The request the client waits for starts where it was told to, or asks. *)
Awaited(r) ==
    /\ r.hdr.form = "chunk" => r.hdr.start = client.off
    /\ r.hdr.form = "status" => Len(puts) <= Paid /\ (r.pc = "308" => r.off >= client.off)
    /\ r.hdr.form # "status" => Len(puts) <= IF r.pc = "400" THEN Paid - 1 ELSE Paid + 1

UploadIInv ==
    /\ Shape /\ Contents /\ SingleAlone /\ Progress
    /\ \A i \in DOMAIN puts : Carries(puts[i])
    /\ client.pc = "wait" => Awaited(Last(puts))
=============================================================================
