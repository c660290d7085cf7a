------------------------ MODULE ResumableUploadProofs -----------------------
(* Proofs about ResumableUpload, for files and chunks of every length and    *)
(* for a client that does not repeat a request without Content-Range: such a *)
(* request appends the whole file wherever the buffer is.                    *)
EXTENDS ResumableUpload, SequenceTheorems, TLAPS

LEMMA Bounds ==
  /\ Total \in Nat \ {0} /\ Chunk \in Nat \ {0} /\ MaxTimeouts \in Nat
  BY UploadAssumption

(* Appending the bytes n + 1 .. e to the first n gives the first e. *)
LEMMA AppendBytes ==
  ASSUME NEW n \in Nat, NEW e \in Nat, n <= e
  PROVE  /\ FileTo(n) \o [k \in 1..(e - n) |-> n + k] = FileTo(e)
         /\ FileTo(n) \in Seq(Int) /\ Len(FileTo(n)) = n
  <1> DEFINE s == FileTo(n)
             t == [k \in 1..(e - n) |-> n + k]
  <1>1. s \in Seq(Int) /\ Len(s) = n /\ \A k \in 1..n : s[k] = k
    BY DEF FileTo
  <1>2. e - n \in Nat /\ t \in Seq(Int) /\ Len(t) = e - n /\ \A k \in 1..(e - n) : t[k] = n + k
    OBVIOUS
  <1> HIDE DEF s, t
  <1>3. /\ s \o t \in Seq(Int) /\ Len(s \o t) = Len(s) + Len(t)
        /\ \A k \in 1..(Len(s) + Len(t)) : (s \o t)[k] = IF k <= Len(s) THEN s[k] ELSE t[k - Len(s)]
    BY <1>1, <1>2, ConcatProperties
  <1>4. Len(s) + Len(t) = e
    BY <1>1, <1>2
  <1>5. \A k \in 1..e : (s \o t)[k] = k
    <2> SUFFICES ASSUME NEW k \in 1..e PROVE (s \o t)[k] = k
      OBVIOUS
    <2>1. CASE k <= n
      BY <1>1, <1>3, <1>4, <2>1
    <2>2. CASE k > n
      <3>1. k - n \in 1..(e - n) /\ n + (k - n) = k
        BY <2>2
      <3>2. t[k - n] = k
        BY <1>2, <3>1
      <3>3. QED
        BY <1>1, <1>3, <1>4, <2>2, <3>2
    <2>3. k <= n \/ k > n
      OBVIOUS
    <2>4. QED
      BY <2>1, <2>2, <2>3
  <1>6. FileTo(e) \in Seq(Int) /\ Len(FileTo(e)) = e /\ \A k \in 1..e : FileTo(e)[k] = k
    BY DEF FileTo
  <1>7. s \o t = FileTo(e)
    BY <1>3, <1>4, <1>5, <1>6, SeqEqual
  <1>8. QED
    BY <1>1, <1>7 DEF s, t

(* What the client cuts out of the file (ChunkFrom, OpenFrom). *)
LEMMA CutBytes ==
  ASSUME NEW a \in 0..Total, NEW e \in a..Total
  PROVE  /\ SubSeq(File, a + 1, e) = [k \in 1..(e - a) |-> a + k]
         /\ SubSeq(File, a + 1, e) \in Seq(Int)
  <1>1. File \in Seq(Int) /\ Len(File) = Total /\ \A k \in 1..Total : File[k] = k
    BY Bounds DEF File
  <1>2. SubSeq(File, a + 1, e) = [k \in 1..(e - a) |-> File[a + k]]
    BY <1>1, Bounds
  <1>3. \A k \in 1..(e - a) : File[a + k] = a + k
    BY <1>1, Bounds
  <1>4. SubSeq(File, a + 1, e) = [k \in 1..(e - a) |-> a + k]
    BY <1>2, <1>3
  <1>5. [k \in 1..(e - a) |-> a + k] \in Seq(Int)
    BY Bounds
  <1>6. QED
    BY <1>4, <1>5

(* The headers of the three forms. *)
LEMMA HeaderFields ==
  ASSUME NEW h \in Headers
  PROVE  /\ h.form \in {"status", "single", "chunk"}
         /\ h.form = "chunk" => /\ h.start \in 0..Total /\ h.end \in -1 .. Total - 1
                                /\ h.total \in {-1, Total}
  <1>1. CASE h = Status
    BY <1>1 DEF Status
  <1>2. CASE h = Single
    BY <1>2 DEF Single
  <1>3. CASE h \in [form : {"chunk"}, start : 0..Total, end : -1 .. Total - 1, total : {-1, Total}]
    BY <1>3
  <1>4. QED
    BY <1>1, <1>2, <1>3 DEF Headers

-----------------------------------------------------------------------------
LEMMA IInvInit == UploadInit => UploadIInv
  <1> SUFFICES ASSUME UploadInit PROVE UploadIInv
    OBVIOUS
  <1>1. puts = <<>> /\ puts \in Seq(Put) /\ Len(puts) = 0 /\ DOMAIN puts = {}
    BY DEF UploadInit
  <1>2. client.pc = "send" /\ client.off = 0 /\ client.timeouts = 0
    BY DEF UploadInit
  <1>3. Shape
    BY <1>1, Bounds DEF UploadInit, Shape
  <1>4. Len(buffer) = 0 /\ buffer = FileTo(0)
    BY DEF UploadInit, FileTo
  <1>5. Contents
    BY <1>4, Bounds DEF UploadInit, Contents
  <1>6. SingleAlone
    BY <1>1 DEF UploadInit, SingleAlone
  <1>7. Progress
    BY <1>1, <1>2, <1>4 DEF Progress, Paid
  <1>8. QED
    BY <1>1, <1>2, <1>3, <1>5, <1>6, <1>7 DEF UploadIInv

(* The fields of the state that the steps below refer to. *)
LEMMA ShapeFields ==
  ASSUME Shape
  PROVE  /\ Len(puts) \in Nat /\ DOMAIN puts = 1..Len(puts) /\ \A i \in DOMAIN puts : puts[i] \in Put
         /\ client.off \in 0..Total /\ client.timeouts \in 0..MaxTimeouts
         /\ client.pc \in {"send", "query", "wait", "done", "gone"}
  BY DEF Shape

(* What is known of a request stays known while the buffer grows. *)
LEMMA CarriesKept ==
  ASSUME NEW r \in Put, Carries(r), Len(buffer) \in Nat, Len(buffer') \in Nat,
         Len(buffer) <= Len(buffer'), session' => session
  PROVE  Carries(r)'
  <1>1. r.hdr \in Headers /\ r.off \in Nat
    BY DEF Put
  <1>2. r.hdr.form = "chunk" => r.hdr.start \in Nat
    BY <1>1, HeaderFields
  <1>3. QED
    BY <1>1, <1>2 DEF Carries

(* A request the client gave up on, or that was refused, pays for two. *)
LEMMA PaidGrows ==
  ASSUME client.off \in Nat, client.timeouts \in Nat, client'.timeouts \in Nat,
         client'.off = client.off, client'.timeouts >= client.timeouts
  PROVE  /\ Paid \in Int /\ Paid' \in Int /\ Paid <= Paid'
         /\ client'.timeouts = client.timeouts + 1 => Paid' = Paid + 2
  BY DEF Paid

-----------------------------------------------------------------------------
(* One handler moves on: the request i becomes q. *)
LEMMA HandlerStep ==
  ASSUME UploadIInv, NEW i \in DOMAIN puts, NEW q \in Put, puts' = [puts EXCEPT ![i] = q],
         q.hdr = puts[i].hdr, puts[i].pc \in {"sent", "found"}, Carries(q)',
         Contents', session' \in BOOLEAN, Len(buffer) <= Len(buffer'), session' => session,
         client' \in [pc : {"send", "query", "wait", "done", "gone"}, off : 0..Total,
                      timeouts : 0..MaxTimeouts],
         client'.pc = client.pc, client'.off = client.off, client'.timeouts >= client.timeouts,
         q.pc = "400" => client'.timeouts = client.timeouts + 1,
         q.hdr.form = "single" => /\ q.pc \in {"found", "200"}
                                  /\ q.pc = "found" => session' /\ buffer' = <<>>,
         q.hdr.form = "status" /\ q.pc = "308" => q.off >= client.off
  PROVE  UploadIInv'
  <1>1. /\ Len(puts) \in Nat /\ DOMAIN puts = 1..Len(puts) /\ puts \in Seq(Put)
        /\ client.off \in Nat /\ client.timeouts \in Nat /\ client'.timeouts \in Nat
        /\ Len(buffer) \in Nat /\ Len(buffer') \in Nat
    BY ShapeFields, Bounds DEF UploadIInv, Shape, Contents
  <1>2. /\ puts' \in Seq(Put) /\ Len(puts') = Len(puts) /\ DOMAIN puts' = DOMAIN puts
        /\ puts'[i] = q /\ \A j \in DOMAIN puts : j # i => puts'[j] = puts[j]
    BY <1>1
  <1>3. Shape'
    BY <1>2 DEF Shape
  <1>4. ASSUME NEW j \in DOMAIN puts PROVE Carries(puts[j])'
    <2>1. CASE j = i
      BY <1>2, <2>1 DEF Carries
    <2>2. CASE j # i
      <3>1. PICK r \in Put : r = puts[j] /\ Carries(r)
        BY <1>1 DEF UploadIInv
      <3>2. Carries(r)'
        BY <1>1, <3>1, CarriesKept
      <3>3. r = puts'[j]
        BY <1>2, <2>2, <3>1
      <3>4. QED
        BY <3>2, <3>3 DEF Carries
    <2>3. QED
      BY <2>1, <2>2
  <1>5. SingleAlone'
    <2> SUFFICES ASSUME NEW j \in DOMAIN puts, puts'[j].hdr.form = "single"
                 PROVE  /\ Len(puts') = 1 /\ client'.pc \in {"wait", "done"}
                        /\ puts'[j].pc \in {"sent", "found", "200"}
                        /\ puts'[j].pc # "200" => session' /\ buffer' = <<>>
      BY <1>1, <1>2 DEF SingleAlone
    <2>1. puts[j].hdr.form = "single"
      BY <1>2
    <2>2. Len(puts) = 1 /\ client.pc \in {"wait", "done"}
      BY <2>1 DEF UploadIInv, SingleAlone
    <2>3. j = i
      BY <1>1, <2>2
    <2>4. QED
      BY <1>2, <2>2, <2>3
  <1>6. /\ Paid \in Int /\ Paid' \in Int /\ Paid <= Paid'
        /\ q.pc = "400" => Paid' = Paid + 2
    BY <1>1, PaidGrows
  <1>7. Progress'
    <2>1. puts # <<>> => puts' # <<>>
      BY <1>1, <1>2
    <2>2. QED
      BY <1>1, <1>2, <1>6, <2>1 DEF UploadIInv, Progress
  <1>8. ASSUME client.pc = "wait" PROVE Awaited(Last(puts))'
    <2> DEFINE n == Len(puts)
    <2>1. n \in DOMAIN puts
      BY <1>1, <1>8 DEF UploadIInv, Progress
    <2>2. Awaited(puts[n])
      BY <1>8 DEF UploadIInv, Last
    <2>3. Last(puts)' = puts'[n]
      BY <1>2 DEF Last
    <2>4. CASE i = n
      BY <1>1, <1>2, <1>6, <2>1, <2>2, <2>3, <2>4, SMTT(30) DEF Awaited
    <2>5. CASE i # n
      BY <1>1, <1>2, <1>6, <2>1, <2>2, <2>3, <2>5 DEF Awaited
    <2>6. QED
      BY <2>4, <2>5
  <1>9. QED
    BY <1>2, <1>3, <1>4, <1>5, <1>7, <1>8 DEF UploadIInv

(* The answer to a request, without and with the length of the buffer. *)
LEMMA AnswerFields ==
  ASSUME Shape, NEW i \in DOMAIN puts,
         NEW code \in {"sent", "found", "200", "308", "400", "404"}, Answer(i, code)
  PROVE  \E q \in Put : /\ puts' = [puts EXCEPT ![i] = q] /\ q.pc = code
                        /\ q.hdr = puts[i].hdr /\ q.body = puts[i].body /\ q.off = puts[i].off
  <1> DEFINE q == [puts[i] EXCEPT !.pc = code]
  <1>1. puts[i] \in Put
    BY ShapeFields
  <1>2. /\ q \in Put /\ q.pc = code
        /\ q.hdr = puts[i].hdr /\ q.body = puts[i].body /\ q.off = puts[i].off
    BY <1>1 DEF Put
  <1>3. puts' = [puts EXCEPT ![i] = q]
    BY DEF Answer
  <1> HIDE DEF q
  <1>4. QED
    BY <1>2, <1>3

LEMMA StatusFields ==
  ASSUME Shape, NEW i \in DOMAIN puts, NEW n \in 0..Total,
         puts' = [puts EXCEPT ![i].pc = "308", ![i].off = n]
  PROVE  \E q \in Put : /\ puts' = [puts EXCEPT ![i] = q] /\ q.pc = "308"
                        /\ q.hdr = puts[i].hdr /\ q.body = puts[i].body /\ q.off = n
  <1> DEFINE e == [puts[i] EXCEPT !.pc = "308"]
             q == [e EXCEPT !.off = n]
  <1>1. puts[i] \in Put /\ puts \in Seq(Put)
    BY ShapeFields DEF Shape
  <1>2. e \in Put /\ e.pc = "308" /\ e.hdr = puts[i].hdr /\ e.body = puts[i].body
    BY <1>1 DEF Put
  <1>3. puts' = [puts EXCEPT ![i] = q]
    BY <1>1
  <1> HIDE DEF e
  <1>4. q \in Put /\ q.pc = "308" /\ q.hdr = puts[i].hdr /\ q.body = puts[i].body /\ q.off = n
    BY <1>2 DEF Put
  <1> HIDE DEF q
  <1>5. QED
    BY <1>3, <1>4

-----------------------------------------------------------------------------
(* The client as a handler leaves it. *)
LEMMA ClientKept ==
  ASSUME Shape, UNCHANGED client
  PROVE  /\ client' \in [pc : {"send", "query", "wait", "done", "gone"}, off : 0..Total,
                         timeouts : 0..MaxTimeouts]
         /\ client'.pc = client.pc /\ client'.off = client.off /\ client'.timeouts >= client.timeouts
  BY ShapeFields, Bounds DEF Shape

(* A request that the handler still works on. *)
LEMMA Handled ==
  ASSUME UploadIInv, NEW i \in DOMAIN puts
  PROVE  /\ Shape /\ Carries(puts[i]) /\ puts[i].hdr \in Headers /\ puts[i].off \in 0..Total
         /\ Len(buffer) \in 0..Total /\ session \in BOOLEAN
         /\ client \in [pc : {"send", "query", "wait", "done", "gone"}, off : 0..Total,
                        timeouts : 0..MaxTimeouts]
         /\ client.off <= Len(buffer)
         /\ puts[i].hdr.form = "single" => puts[i].pc \in {"sent", "found", "200"}
         /\ puts[i].hdr.form = "single" /\ puts[i].pc # "200" => session /\ buffer = <<>>
  BY ShapeFields DEF UploadIInv, Shape, Contents, SingleAlone, Progress, Put

LEMMA LookupStep ==
  ASSUME UploadIInv, NEW i \in DOMAIN puts, Lookup(i)
  PROVE  UploadIInv'
  <1> DEFINE code == IF session THEN "found" ELSE "404"
  <1>1. code \in {"sent", "found", "200", "308", "400", "404"} /\ Answer(i, code)
    BY DEF Lookup
  <1>2. code = "found" <=> session
    OBVIOUS
  <1>3. UNCHANGED <<session, buffer, object, client>> /\ puts[i].pc = "sent"
    BY DEF Lookup
  <1> HIDE DEF code
  <1>4. PICK q \in Put : /\ puts' = [puts EXCEPT ![i] = q] /\ q.pc = code
                         /\ q.hdr = puts[i].hdr /\ q.body = puts[i].body /\ q.off = puts[i].off
    BY <1>1, AnswerFields DEF UploadIInv
  <1>5. Carries(q)'
    BY <1>1, <1>2, <1>3, <1>4, Handled DEF Carries, code
  <1>6. Contents'
    BY <1>3 DEF UploadIInv, Contents
  <1>7. Len(buffer) <= Len(buffer')
    BY <1>3, Handled
  <1>8. q.hdr.form = "single" => q.pc = "found" /\ session' /\ buffer' = <<>>
    BY <1>2, <1>3, <1>4, Handled
  <1>9. q.pc \in {"found", "404"}
    BY <1>4 DEF code
  <1>10. QED
    <2>1. /\ client' \in [pc : {"send", "query", "wait", "done", "gone"}, off : 0..Total,
                          timeouts : 0..MaxTimeouts]
          /\ client'.pc = client.pc /\ client'.off = client.off /\ client'.timeouts >= client.timeouts
          /\ session' \in BOOLEAN /\ (session' => session)
      BY <1>3, ClientKept, Handled
    <2>2. QED
      BY <1>3, <1>4, <1>5, <1>6, <1>7, <1>8, <1>9, <2>1, HandlerStep

LEMMA BadBodyStep ==
  ASSUME UploadIInv, ~RetrySingle, NEW i \in DOMAIN puts, BadBody(i)
  PROVE  UploadIInv'
  <1>1. /\ Answer(i, "400") /\ UNCHANGED <<session, buffer, object>> /\ puts[i].pc = "found"
        /\ puts[i].hdr.form \notin {"status", "single"} /\ client.timeouts < MaxTimeouts
        /\ client' = [client EXCEPT !.timeouts = @ + 1]
    BY DEF BadBody, Repeatable
  <1>2. PICK q \in Put : /\ puts' = [puts EXCEPT ![i] = q] /\ q.pc = "400"
                         /\ q.hdr = puts[i].hdr /\ q.body = puts[i].body /\ q.off = puts[i].off
    BY <1>1, AnswerFields DEF UploadIInv
  <1>3. Carries(q)'
    BY <1>1, <1>2, Handled DEF Carries
  <1>4. Contents'
    BY <1>1 DEF UploadIInv, Contents
  <1>5. Len(buffer) <= Len(buffer')
    BY <1>1, Handled
  <1>6. /\ client' \in [pc : {"send", "query", "wait", "done", "gone"}, off : 0..Total,
                        timeouts : 0..MaxTimeouts]
        /\ client'.pc = client.pc /\ client'.off = client.off
        /\ client'.timeouts = client.timeouts + 1 /\ client'.timeouts >= client.timeouts
    BY <1>1, Bounds, Handled
  <1>7. QED
    BY <1>1, <1>2, <1>3, <1>4, <1>5, <1>6, Handled, HandlerStep

LEMMA StatusStep ==
  ASSUME UploadIInv, NEW i \in DOMAIN puts, StatusQuery(i) \/ OutOfOrder(i)
  PROVE  UploadIInv'
  <1>1. /\ puts' = [puts EXCEPT ![i].pc = "308", ![i].off = Len(buffer)]
        /\ UNCHANGED <<session, buffer, object, client>> /\ puts[i].pc = "found"
        /\ puts[i].hdr.form \in {"status", "chunk"}
        /\ puts[i].hdr.form = "chunk" => puts[i].hdr.start # Len(buffer)
    BY DEF StatusQuery, OutOfOrder, ResumableStatus
  <1>2. PICK q \in Put : /\ puts' = [puts EXCEPT ![i] = q] /\ q.pc = "308"
                         /\ q.hdr = puts[i].hdr /\ q.body = puts[i].body /\ q.off = Len(buffer)
    BY <1>1, StatusFields, Handled
  <1>3. Carries(q)'
    <2>1. q.hdr.form = "chunk" => q.hdr.start < Len(buffer)
      <3>1. /\ puts[i].hdr \in Headers /\ Len(buffer) \in 0..Total
            /\ puts[i].hdr.form = "chunk" => puts[i].hdr.start <= Len(buffer)
        BY Handled DEF Carries
      <3>2. puts[i].hdr.form = "chunk" => puts[i].hdr.start \in 0..Total
        BY <3>1, HeaderFields
      <3>3. QED
        BY <1>1, <1>2, <3>1, <3>2, Bounds
    <2>2. QED
      BY <1>1, <1>2, <2>1, Handled DEF Carries
  <1>4. Contents'
    BY <1>1 DEF UploadIInv, Contents
  <1>5. Len(buffer) <= Len(buffer')
    BY <1>1, Handled
  <1>6. /\ client' \in [pc : {"send", "query", "wait", "done", "gone"}, off : 0..Total,
                        timeouts : 0..MaxTimeouts]
        /\ client'.pc = client.pc /\ client'.off = client.off /\ client'.timeouts >= client.timeouts
        /\ session' \in BOOLEAN /\ (session' => session) /\ q.off >= client.off
    BY <1>1, <1>2, ClientKept, Handled, Bounds
  <1>7. QED
    BY <1>1, <1>2, <1>3, <1>4, <1>5, <1>6, HandlerStep

(* The chunk that follows on from the buffer makes it the file up to its end. *)
LEMMA Appended ==
  ASSUME UploadIInv, NEW i \in DOMAIN puts, Appends(i), buffer' = buffer \o puts[i].body
  PROVE  LET e == EndOf(puts[i].hdr)
         IN /\ e \in 0..Total /\ buffer' = FileTo(e) /\ Len(buffer') = e
            /\ Len(buffer) <= e /\ (e # Total => Len(buffer) < e)
            /\ puts[i].hdr.end \in Int
            /\ puts[i].hdr.end < 0 \/ Final(puts[i].hdr) <=> e = Total
  <1> DEFINE h == puts[i].hdr
             e == EndOf(h)
             n == Len(buffer)
  <1>1. /\ h.form = "chunk" /\ h.start = n /\ h.start \in 0..Total /\ h.end \in -1 .. Total - 1
        /\ n \in 0..Total /\ buffer = FileTo(n)
        /\ n < e \/ e = Total
        /\ h.end >= 0 => h.total = Total
        /\ puts[i].body = [k \in 1..(e - n) |-> n + k]
    BY Handled, HeaderFields DEF Appends, UploadIInv, Contents, Carries
  <1>2. e \in 0..Total /\ n <= e /\ (e = Total <=> (h.end < 0 \/ h.end = Total - 1))
    BY <1>1, Bounds, SMTT(30) DEF EndOf
  <1>3. Final(h) /\ h.end >= 0 <=> h.end >= 0 /\ h.end = Total - 1
    BY <1>1, Bounds DEF Final
  <1> HIDE DEF h, e, n
  <1>4. buffer' = FileTo(e) /\ Len(FileTo(e)) = e
    <2>1. n \in Nat /\ e \in Nat /\ n <= e
      BY <1>1, <1>2, Bounds
    <2>2. FileTo(n) \o [k \in 1..(e - n) |-> n + k] = FileTo(e)
      BY <2>1, AppendBytes
    <2>3. Len(FileTo(e)) = e
      BY <2>1, AppendBytes
    <2>4. QED
      BY <1>1, <2>2, <2>3
  <1>5. n \in Int /\ e \in Int /\ (e # Total => n < e)
    BY <1>1, <1>2, Bounds
  <1>6. h.end \in Int /\ (h.end < 0 \/ Final(h) <=> e = Total)
    BY <1>1, <1>2, <1>3, Bounds
  <1>7. QED
    BY <1>2, <1>4, <1>5, <1>6 DEF h, e, n

LEMMA KeepChunkStep ==
  ASSUME UploadIInv, NEW i \in DOMAIN puts, KeepChunk(i)
  PROVE  UploadIInv'
  <1> DEFINE e == EndOf(puts[i].hdr)
  <1>1. /\ Appends(i) /\ buffer' = buffer \o puts[i].body
        /\ puts' = [puts EXCEPT ![i].pc = "308", ![i].off = Len(buffer')]
        /\ UNCHANGED <<session, object, client>> /\ puts[i].pc = "found"
        /\ puts[i].hdr.form = "chunk" /\ puts[i].hdr.start = Len(buffer)
        /\ puts[i].hdr.end >= 0 /\ ~Final(puts[i].hdr)
    BY DEF KeepChunk, Appends
  <1>2. /\ e \in 0..Total /\ buffer' = FileTo(e) /\ Len(buffer') = e /\ Len(buffer) < e /\ e # Total
        /\ Len(buffer) \in 0..Total
    <2>1. Len(buffer) \in 0..Total
      BY Handled
    <2>2. /\ e \in 0..Total /\ buffer' = FileTo(e) /\ Len(buffer') = e
          /\ (e # Total => Len(buffer) < e) /\ puts[i].hdr.end \in Int
          /\ puts[i].hdr.end < 0 \/ Final(puts[i].hdr) <=> e = Total
      BY <1>1, Appended
    <2>3. QED
      BY <1>1, <2>1, <2>2
  <1>3. PICK q \in Put : /\ puts' = [puts EXCEPT ![i] = q] /\ q.pc = "308"
                         /\ q.hdr = puts[i].hdr /\ q.body = puts[i].body /\ q.off = Len(buffer')
    <2>1. Shape /\ Len(buffer') \in 0..Total
      BY <1>2, Handled
    <2>2. PICK n \in 0..Total : n = Len(buffer')
      BY <2>1
    <2>3. puts' = [puts EXCEPT ![i].pc = "308", ![i].off = n]
      BY <1>1, <2>2
    <2>4. QED
      BY <2>1, <2>2, <2>3, StatusFields
  <1>4. session
    BY <1>1, <1>2, Bounds DEF UploadIInv, Contents
  <1>5. Contents'
    BY <1>1, <1>2, <1>4 DEF UploadIInv, Contents
  <1>6. Carries(q)'
    BY <1>1, <1>2, <1>3, Handled DEF Carries
  <1>7. /\ client' \in [pc : {"send", "query", "wait", "done", "gone"}, off : 0..Total,
                        timeouts : 0..MaxTimeouts]
        /\ client'.pc = client.pc /\ client'.off = client.off /\ client'.timeouts >= client.timeouts
        /\ session' \in BOOLEAN /\ (session' => session) /\ Len(buffer) <= Len(buffer')
    BY <1>1, <1>2, <1>4, ClientKept, Handled, Bounds
  <1>8. QED
    BY <1>1, <1>3, <1>5, <1>6, <1>7, HandlerStep

(* finaliseResumableLocked stores the whole file. *)
LEMMA FinaliseStep ==
  ASSUME UploadIInv, NEW i \in DOMAIN puts, LastChunk(i) \/ SingleShot(i)
  PROVE  UploadIInv'
  <1>1. /\ Answer(i, "200") /\ UNCHANGED client /\ session' = FALSE /\ object' = buffer'
        /\ puts[i].pc = "found" /\ puts[i].hdr.form \in {"chunk", "single"}
        /\ buffer' = buffer \o puts[i].body
    BY DEF LastChunk, SingleShot, Finalise, Appends
  <1>2. buffer' = FileTo(Total) /\ Len(buffer') = Total
    <2>1. CASE LastChunk(i)
      BY <1>1, <2>1, Appended DEF LastChunk
    <2>2. CASE SingleShot(i)
      <3>1. buffer = <<>> /\ puts[i].body = FileTo(Total)
        BY <2>2, Handled DEF SingleShot, Carries
      <3>2. FileTo(Total) \in Seq(Int) /\ Len(FileTo(Total)) = Total
        BY Bounds, AppendBytes
      <3>3. QED
        BY <1>1, <3>1, <3>2, ConcatEmptySeq
    <2>3. QED
      BY <2>1, <2>2
  <1>3. PICK q \in Put : /\ puts' = [puts EXCEPT ![i] = q] /\ q.pc = "200"
                         /\ q.hdr = puts[i].hdr /\ q.body = puts[i].body /\ q.off = puts[i].off
    BY <1>1, AnswerFields DEF UploadIInv
  <1>4. Contents'
    BY <1>1, <1>2, Bounds DEF Contents
  <1>5. Len(buffer) <= Len(buffer')
    <2>1. Len(buffer) \in 0..Total
      BY Handled
    <2>2. QED
      BY <1>2, <2>1, Bounds
  <1>6. Carries(q)'
    <2>1. q.hdr.form = "chunk" => q.hdr.start <= Len(buffer')
      BY <1>2, <1>3, Handled, HeaderFields, Bounds
    <2>2. QED
      BY <1>1, <1>3, <2>1, Handled DEF Carries
  <1>7. /\ client' \in [pc : {"send", "query", "wait", "done", "gone"}, off : 0..Total,
                        timeouts : 0..MaxTimeouts]
        /\ client'.pc = client.pc /\ client'.off = client.off /\ client'.timeouts >= client.timeouts
        /\ session' \in BOOLEAN /\ ~session'
    BY <1>1, ClientKept, Handled
  <1>8. QED
    BY <1>1, <1>3, <1>4, <1>5, <1>6, <1>7, HandlerStep

-----------------------------------------------------------------------------
(* The client stops waiting. *)
LEMMA ClientMoves ==
  ASSUME UploadIInv, UNCHANGED <<session, buffer, object, puts>>,
         client' \in [pc : {"send", "query", "done", "gone"}, off : 0..Total, timeouts : 0..MaxTimeouts],
         \A j \in DOMAIN puts : puts[j].hdr.form = "single" => client'.pc = "done",
         Progress'
  PROVE  UploadIInv'
  <1>1. Shape' /\ Contents'
    BY DEF UploadIInv, Shape, Contents
  <1>2. SingleAlone'
    BY DEF UploadIInv, SingleAlone
  <1>3. \A i \in DOMAIN puts : Carries(puts[i])'
    BY DEF UploadIInv, Carries
  <1>4. QED
    BY <1>1, <1>2, <1>3 DEF UploadIInv

(* The client waits for its last request, and a request without              *)
(* Content-Range is that one.                                                *)
LEMMA Waiting ==
  ASSUME UploadIInv, client.pc = "wait"
  PROVE  LET n == Len(puts)
         IN /\ Last(puts) = puts[n] /\ n \in DOMAIN puts /\ n \in Nat
            /\ Awaited(puts[n]) /\ Carries(puts[n]) /\ puts[n].hdr \in Headers /\ puts[n].off \in 0..Total
            /\ \A j \in DOMAIN puts : puts[j].hdr.form = "single" =>
                  j = n /\ puts[n].pc \in {"sent", "found", "200"}
            /\ client.off \in 0..Total /\ client.timeouts \in 0..MaxTimeouts /\ Paid \in Int
            /\ Len(buffer) \in 0..Total
  <1> DEFINE n == Len(puts)
  <1>1. /\ n \in Nat /\ DOMAIN puts = 1..n /\ \A i \in DOMAIN puts : puts[i] \in Put
        /\ client.off \in 0..Total /\ client.timeouts \in 0..MaxTimeouts
    BY ShapeFields DEF UploadIInv
  <1>2. n # 0
    BY <1>1 DEF UploadIInv, Progress, Shape
  <1>3. n \in DOMAIN puts /\ Last(puts) = puts[n]
    BY <1>1, <1>2 DEF Last
  <1>4. Awaited(puts[n]) /\ Carries(puts[n]) /\ puts[n].hdr \in Headers /\ puts[n].off \in 0..Total
    BY <1>1, <1>3 DEF UploadIInv, Put
  <1>5. Paid \in Int
    BY <1>1, Bounds DEF Paid
  <1>6. \A j \in DOMAIN puts : puts[j].hdr.form = "single" =>
            Len(puts) = 1 /\ puts[j].pc \in {"sent", "found", "200"}
    BY DEF UploadIInv, SingleAlone
  <1>7. \A j \in DOMAIN puts : puts[j].hdr.form = "single" => j = n
    BY <1>1, <1>6
  <1>8. Len(buffer) \in 0..Total
    BY DEF UploadIInv, Contents
  <1> HIDE DEF n
  <1>9. QED
    BY <1>1, <1>3, <1>4, <1>5, <1>6, <1>7, <1>8 DEF n

(* The client after it has learned how far the server is (308). *)
LEMMA ResumeFields ==
  ASSUME Shape, NEW o \in 0..Total, client' = [client EXCEPT !.pc = "send", !.off = o]
  PROVE  /\ client' \in [pc : {"send", "query", "done", "gone"}, off : 0..Total, timeouts : 0..MaxTimeouts]
         /\ client'.pc = "send" /\ client'.off = o /\ client'.timeouts = client.timeouts
  <1> DEFINE e == [client EXCEPT !.pc = "send"]
  <1>1. /\ e \in [pc : {"send", "query", "done", "gone"}, off : 0..Total, timeouts : 0..MaxTimeouts]
        /\ e.pc = "send" /\ e.timeouts = client.timeouts
    BY DEF Shape
  <1>2. client' = [e EXCEPT !.off = o]
    OBVIOUS
  <1> HIDE DEF e
  <1>3. QED
    BY <1>1, <1>2

LEMMA ReceiveStep ==
  ASSUME UploadIInv, Receive
  PROVE  UploadIInv'
  <1> DEFINE n == Len(puts)
             r == puts[n]
  <1>0. /\ client.pc = "wait" /\ UNCHANGED <<session, buffer, object, puts>> /\ Shape
        /\ client.off <= Len(buffer)
    BY DEF Receive, UploadIInv, Progress
  <1>1. /\ Last(puts) = r /\ n \in DOMAIN puts /\ n \in Nat
        /\ Awaited(r) /\ Carries(r) /\ r.hdr \in Headers /\ r.off \in 0..Total
        /\ \A j \in DOMAIN puts : puts[j].hdr.form = "single" => j = n /\ r.pc \in {"sent", "found", "200"}
        /\ client.off \in 0..Total /\ client.timeouts \in 0..MaxTimeouts /\ Paid \in Int
        /\ Len(buffer) \in 0..Total
    BY <1>0, Waiting
  <1>2. r.hdr.form \in {"status", "single", "chunk"}
    BY <1>1, HeaderFields
  <1> HIDE DEF r, n
  <1>3. CASE r.pc = "200" /\ client' = [client EXCEPT !.pc = "done"]
    <2>1. /\ client' \in [pc : {"send", "query", "done", "gone"}, off : 0..Total, timeouts : 0..MaxTimeouts]
          /\ client'.pc = "done" /\ client'.off = client.off /\ client'.timeouts = client.timeouts
      BY <1>0, <1>3 DEF Shape
    <2>2. Paid' = Paid /\ n <= Paid + 1 /\ ~session
      BY <1>1, <1>3, <2>1, SMTT(30) DEF Paid, Awaited, Carries, n
    <2>3. Progress'
      BY <1>0, <2>1, <2>2 DEF Progress, n
    <2>4. QED
      BY <1>0, <2>1, <2>3, ClientMoves
  <1>4. CASE r.pc = "308" /\ client' = [client EXCEPT !.pc = "send", !.off = r.off]
    <2>1. /\ client' \in [pc : {"send", "query", "done", "gone"}, off : 0..Total, timeouts : 0..MaxTimeouts]
          /\ client'.pc = "send" /\ client'.off = r.off /\ client'.timeouts = client.timeouts
      BY <1>0, <1>1, <1>4, ResumeFields
    <2>2. Paid' = r.off + 2 * client.timeouts /\ Paid = client.off + 2 * client.timeouts
      BY <2>1 DEF Paid
    <2>3. r.hdr.form # "single"
      BY <1>1, <1>4 DEF r
    <2>4. r.hdr.form = "status" => n <= Paid /\ r.off >= client.off
      BY <1>1, <1>4 DEF Awaited, n
    <2>5. r.hdr.form = "chunk" => n <= Paid + 1 /\ r.off > client.off
      BY <1>1, <1>4 DEF Awaited, Carries, n
    <2>6. client.off \in Int /\ r.off \in Int /\ client.timeouts \in Int
      BY <1>1
    <2>7. n <= Paid' /\ r.off <= Len(buffer)
      <3>1. r.hdr.form = "status" => n <= Paid'
        BY <1>1, <2>2, <2>4, <2>6, SMTT(30)
      <3>2. r.hdr.form = "chunk" => n <= Paid'
        BY <1>1, <2>2, <2>5, <2>6, SMTT(30)
      <3>3. r.off <= Len(buffer)
        BY <1>1, <1>4 DEF Carries
      <3>4. QED
        BY <1>2, <2>3, <3>1, <3>2, <3>3
    <2>8. Progress'
      BY <1>0, <2>1, <2>7 DEF Progress, n
    <2>9. QED
      BY <1>0, <1>1, <1>4, <2>1, <2>8, ClientMoves
  <1>5. CASE r.pc = "400" /\ client' = [client EXCEPT !.pc = "query"]
    <2>1. /\ client' \in [pc : {"send", "query", "done", "gone"}, off : 0..Total, timeouts : 0..MaxTimeouts]
          /\ client'.pc = "query" /\ client'.off = client.off /\ client'.timeouts = client.timeouts
      BY <1>0, <1>5 DEF Shape
    <2>2. Paid' = Paid /\ n <= Paid - 1
      BY <1>1, <1>5, <2>1 DEF Paid, Awaited, Carries, n
    <2>3. Progress'
      BY <1>0, <2>1, <2>2 DEF Progress, n
    <2>4. QED
      BY <1>0, <1>1, <1>5, <2>1, <2>3, ClientMoves
  <1>6. CASE r.pc = "404" /\ client' = [client EXCEPT !.pc = "gone"]
    <2>1. /\ client' \in [pc : {"send", "query", "done", "gone"}, off : 0..Total, timeouts : 0..MaxTimeouts]
          /\ client'.pc = "gone" /\ client'.off = client.off /\ client'.timeouts = client.timeouts
      BY <1>0, <1>6 DEF Shape
    <2>2. Paid' = Paid /\ n <= Paid + 1 /\ ~session
      BY <1>1, <1>6, <2>1, SMTT(30) DEF Paid, Awaited, Carries, n
    <2>3. Progress'
      BY <1>0, <2>1, <2>2 DEF Progress, n
    <2>4. QED
      BY <1>0, <1>1, <1>6, <2>1, <2>3, ClientMoves
  <1>7. QED
    BY <1>1, <1>3, <1>4, <1>5, <1>6 DEF Receive

LEMMA TimeoutStep ==
  ASSUME UploadIInv, ~RetrySingle, Timeout
  PROVE  UploadIInv'
  <1> DEFINE n == Len(puts)
             r == puts[n]
             e == [client EXCEPT !.pc = "query"]
  <1>0. /\ client.pc = "wait" /\ UNCHANGED <<session, buffer, object, puts>> /\ Shape
        /\ client.off <= Len(buffer) /\ client.timeouts < MaxTimeouts
        /\ client' = [e EXCEPT !.timeouts = client.timeouts + 1]
    BY DEF Timeout, UploadIInv, Progress, Shape
  <1>1. /\ Last(puts) = r /\ n \in DOMAIN puts /\ n \in Nat
        /\ Awaited(r) /\ r.hdr \in Headers
        /\ \A j \in DOMAIN puts : puts[j].hdr.form = "single" => j = n
        /\ client.off \in 0..Total /\ client.timeouts \in 0..MaxTimeouts /\ Paid \in Int
    BY <1>0, Waiting
  <1>2. r.hdr.form # "single"
    BY <1>1 DEF Timeout, Repeatable
  <1>3. /\ e \in [pc : {"send", "query", "done", "gone"}, off : 0..Total, timeouts : 0..MaxTimeouts]
        /\ e.pc = "query" /\ e.off = client.off
    BY <1>0 DEF Shape
  <1>4. client.timeouts + 1 \in 0..MaxTimeouts
    BY <1>0, <1>1, Bounds
  <1> HIDE DEF r, n, e
  <1>5. /\ client' \in [pc : {"send", "query", "done", "gone"}, off : 0..Total, timeouts : 0..MaxTimeouts]
        /\ client'.pc = "query" /\ client'.off = client.off /\ client'.timeouts = client.timeouts + 1
    BY <1>0, <1>3, <1>4
  <1>6. Paid' = Paid + 2
    BY <1>1, <1>5 DEF Paid
  <1>7. n <= Paid + 1
    BY <1>1 DEF Awaited, n
  <1>8. Progress'
    BY <1>0, <1>1, <1>5, <1>6, <1>7, SMTT(30) DEF Progress, n
  <1>9. \A j \in DOMAIN puts : puts[j].hdr.form # "single"
    BY <1>1, <1>2 DEF r
  <1>10. QED
    BY <1>0, <1>5, <1>8, <1>9, ClientMoves

-----------------------------------------------------------------------------
(* The client sends a request. *)
LEMMA PostStep ==
  ASSUME UploadIInv, NEW r, r.hdr \in Headers, r.body \in Seq(Int), Post(r), client.pc \in {"send", "query"},
         r.hdr.form = "status" <=> client.pc = "query",
         r.hdr.form = "chunk" =>
            /\ r.hdr.start = client.off
            /\ r.hdr.start < EndOf(r.hdr) \/ EndOf(r.hdr) = Total
            /\ r.hdr.end >= 0 => r.hdr.total = Total
            /\ r.body = [k \in 1..(EndOf(r.hdr) - r.hdr.start) |-> r.hdr.start + k],
         r.hdr.form = "single" => puts = <<>> /\ r.body = FileTo(Total)
  PROVE  UploadIInv'
  <1> DEFINE n == Len(puts) + 1
  <1>1. PICK q : q = [hdr |-> r.hdr, body |-> r.body, pc |-> "sent", off |-> 0]
    OBVIOUS
  <1>2. q \in Put /\ q.hdr = r.hdr /\ q.body = r.body /\ q.pc = "sent"
    BY <1>1, Bounds DEF Put
  <1>3. /\ puts' = Append(puts, q) /\ client' = [client EXCEPT !.pc = "wait"]
        /\ UNCHANGED <<session, buffer, object>>
    BY <1>1 DEF Post
  <1>4. /\ puts \in Seq(Put) /\ Len(puts) \in Nat /\ DOMAIN puts = 1..Len(puts)
        /\ client.off \in 0..Total /\ client.timeouts \in 0..MaxTimeouts /\ client.off <= Len(buffer)
    BY ShapeFields DEF UploadIInv, Shape, Progress
  <1>5. /\ puts' \in Seq(Put) /\ Len(puts') = n /\ DOMAIN puts' = 1..n /\ puts'[n] = q
        /\ \A j \in 1..Len(puts) : puts'[j] = puts[j]
    BY <1>2, <1>3, <1>4
  <1>6. \A j \in 1..n : j = n \/ j \in 1..Len(puts)
    BY <1>4
  <1>7. /\ client' \in [pc : {"send", "query", "wait", "done", "gone"}, off : 0..Total,
                        timeouts : 0..MaxTimeouts]
        /\ client'.pc = "wait" /\ client'.off = client.off /\ client'.timeouts = client.timeouts
    BY <1>3 DEF UploadIInv, Shape
  <1>8. Shape' /\ Contents'
    BY <1>3, <1>5, <1>7 DEF UploadIInv, Shape, Contents
  <1>9. ASSUME NEW j \in DOMAIN puts' PROVE Carries(puts[j])'
    <2>1. CASE j = n
      <3>1. puts'[j] = q /\ buffer' = buffer /\ session' = session
        BY <1>3, <1>5, <2>1
      <3>2. r.hdr.form = "chunk" => r.hdr.start <= Len(buffer)
        BY <1>4
      <3>3. q.hdr = r.hdr /\ q.body = r.body /\ q.pc \notin {"200", "308", "400", "404"}
        BY <1>2
      <3>4. Carries(q)
        BY <3>2, <3>3 DEF Carries
      <3>5. QED
        BY <3>1, <3>4 DEF Carries, EndOf
    <2>2. CASE j # n
      <3>1. j \in DOMAIN puts /\ puts'[j] = puts[j]
        BY <1>4, <1>5, <1>6, <1>9, <2>2
      <3>2. QED
        BY <1>3, <3>1 DEF UploadIInv, Carries
    <2>3. QED
      BY <2>1, <2>2
  <1>10. SingleAlone'
    <2>1. puts' # <<>>
      BY <1>4, <1>5
    <2>2. \A j \in 1..Len(puts) : puts[j].hdr.form # "single"
      BY <1>4 DEF UploadIInv, SingleAlone
    <2>3. q.hdr.form = "single" => n = 1 /\ session /\ buffer = <<>>
      BY <1>2 DEF UploadIInv, SingleAlone
    <2>4. QED
      BY <1>2, <1>3, <1>5, <1>6, <1>7, <2>1, <2>2, <2>3 DEF SingleAlone
  <1>11. Paid \in Int /\ Paid' = Paid
    BY <1>4, <1>7, Bounds DEF Paid
  <1>12. n <= Paid + 1 /\ (client.pc = "query" => n <= Paid)
    BY <1>4, <1>11 DEF UploadIInv, Progress
  <1>13. Progress'
    <2>1. puts' # <<>>
      BY <1>4, <1>5
    <2>2. QED
      BY <1>3, <1>4, <1>7, <2>1 DEF Progress
  <1>14. Awaited(Last(puts))'
    <2>1. Last(puts)' = q
      BY <1>5 DEF Last
    <2>2. QED
      BY <1>2, <1>5, <1>7, <1>11, <1>12, <2>1 DEF Awaited
  <1>15. QED
    BY <1>8, <1>9, <1>10, <1>13, <1>14 DEF UploadIInv

LEMMA SendStep ==
  ASSUME UploadIInv, ~RetrySingle, SendChunk \/ SendOpen \/ SendWhole \/ SendQuery
  PROVE  UploadIInv'
  <1>0. PICK o \in 0..Total : o = client.off
    BY ShapeFields DEF UploadIInv
  <1>1. CASE SendChunk
    <2> DEFINE last == IF o + Chunk < Total THEN o + Chunk ELSE Total
               h == ContentRange(o, last - 1, Total)
               r == ChunkFrom(o)
    <2>1. last \in o..Total /\ last \in 1..Total /\ (o < last \/ last = Total)
      BY Bounds
    <2> HIDE DEF last
    <2>2. /\ h \in Headers /\ h.form = "chunk" /\ h.start = o /\ h.end = last - 1 /\ h.total = Total
          /\ EndOf(h) = last
      BY <2>1, Bounds DEF ContentRange, Headers, EndOf
    <2>3. r.hdr = h /\ r.body = SubSeq(File, o + 1, last)
      BY DEF ChunkFrom, last
    <2> HIDE DEF h
    <2>4. r.body = [k \in 1..(last - o) |-> o + k] /\ r.body \in Seq(Int)
      BY <2>1, <2>3, CutBytes
    <2>5. Post(r) /\ client.pc = "send"
      BY <1>0, <1>1 DEF SendChunk
    <2> HIDE DEF r
    <2>6. QED
      BY <1>0, <2>1, <2>2, <2>3, <2>4, <2>5, PostStep
  <1>2. CASE SendOpen
    <2> DEFINE h == ContentRange(o, -1, -1)
               r == OpenFrom(o)
    <2>1. /\ h \in Headers /\ h.form = "chunk" /\ h.start = o /\ h.end = -1
          /\ EndOf(h) = Total
      BY Bounds DEF ContentRange, Headers, EndOf
    <2>2. r.hdr = h /\ r.body = SubSeq(File, o + 1, Total)
      BY DEF OpenFrom
    <2> HIDE DEF h
    <2>3. r.body = [k \in 1..(Total - o) |-> o + k] /\ r.body \in Seq(Int)
      <3>1. Total \in o..Total
        BY Bounds
      <3>2. QED
        BY <2>2, <3>1, CutBytes
    <2>4. Post(r) /\ client.pc = "send"
      BY <1>0, <1>2 DEF SendOpen
    <2> HIDE DEF r
    <2>5. ~(h.end >= 0)
      BY <2>1
    <2>6. QED
      BY <1>0, <2>1, <2>2, <2>3, <2>4, <2>5, PostStep
  <1>3. CASE SendWhole
    <2> DEFINE r == Whole
    <2>1. r.hdr = Single /\ r.body = File /\ Single \in Headers /\ Single.form = "single"
      BY DEF Whole, Single, Headers
    <2>2. File = FileTo(Total) /\ File \in Seq(Int)
      BY Bounds DEF File, FileTo
    <2>3. Post(r) /\ client.pc = "send" /\ puts = <<>>
      BY <1>3 DEF SendWhole
    <2> HIDE DEF r
    <2>4. QED
      BY <2>1, <2>2, <2>3, PostStep
  <1>4. CASE SendQuery
    <2> DEFINE r == Query
    <2>1. r.hdr = Status /\ r.body = <<>> /\ Status \in Headers /\ Status.form = "status" /\ r.body \in Seq(Int)
      BY DEF Query, Status, Headers
    <2>2. Post(r) /\ client.pc = "query"
      BY <1>4 DEF SendQuery
    <2> HIDE DEF r
    <2>3. QED
      BY <2>1, <2>2, PostStep
  <1>5. QED
    BY <1>1, <1>2, <1>3, <1>4

-----------------------------------------------------------------------------
LEMMA IInvStep == ~RetrySingle /\ UploadIInv /\ [UploadNext]_uploadVars => UploadIInv'
  <1> SUFFICES ASSUME ~RetrySingle, UploadIInv, [UploadNext]_uploadVars PROVE UploadIInv'
    OBVIOUS
  <1>1. CASE ClientStep
    BY <1>1, SendStep, ReceiveStep DEF ClientStep
  <1>2. CASE Timeout
    BY <1>2, TimeoutStep
  <1>3. ASSUME NEW i \in DOMAIN puts, Handle(i) \/ BadBody(i) PROVE UploadIInv'
    BY <1>3, LookupStep, StatusStep, KeepChunkStep, FinaliseStep, BadBodyStep DEF Handle
  <1>4. CASE UNCHANGED uploadVars
    <2>1. Shape' /\ Contents' /\ SingleAlone'
      BY <1>4 DEF uploadVars, UploadIInv, Shape, Contents, SingleAlone
    <2>2. Progress' /\ (client'.pc = "wait" => Awaited(Last(puts))')
      BY <1>4 DEF uploadVars, UploadIInv, Progress, Paid, Awaited, Last
    <2>3. \A i \in DOMAIN puts' : Carries(puts[i])'
      BY <1>4 DEF uploadVars, UploadIInv, Carries
    <2>4. QED
      BY <2>1, <2>2, <2>3 DEF UploadIInv
  <1>5. QED
    BY <1>1, <1>2, <1>3, <1>4 DEF UploadNext

LEMMA Invariance == ~RetrySingle /\ UploadSpec => []UploadIInv
  <1> SUFFICES ASSUME ~RetrySingle PROVE UploadSpec => []UploadIInv
    OBVIOUS
  <1>1. UploadIInv /\ [UploadNext]_uploadVars => UploadIInv'
    BY IInvStep
  <1>2. QED
    BY IInvInit, <1>1, PTL DEF UploadSpec

(* The buffer is the file up to some byte and the session is there until the *)
(* object is, whatever chunks are repeated or overtaken; and no client needs *)
(* more requests than there are bytes and timeouts (UploadInv).              *)
THEOREM BufferStaysPrefix == ~RetrySingle /\ UploadSpec => []UploadInv
  <1>1. UploadIInv => UploadInv
    <2> SUFFICES ASSUME UploadIInv PROVE UploadInv
      OBVIOUS
    <2> DEFINE n == Len(buffer)
    <2>1. /\ Len(puts) \in Nat /\ DOMAIN puts = 1..Len(puts) /\ \A i \in DOMAIN puts : puts[i] \in Put
          /\ client.off \in 0..Total /\ client.timeouts \in 0..MaxTimeouts
          /\ client.pc \in {"send", "query", "wait", "done", "gone"}
      BY ShapeFields DEF UploadIInv
    <2>2. Len(puts) <= Paid + 1
      <3>1. Paid \in Int
        BY <2>1, Bounds DEF Paid
      <3>2. CASE client.pc = "wait"
        BY <2>1, <3>1, <3>2, Waiting DEF Awaited
      <3>3. CASE client.pc # "wait"
        BY <2>1, <3>1, <3>3 DEF UploadIInv, Progress
      <3>4. QED
        BY <3>2, <3>3
    <2>3. Len(puts) <= MaxPuts
      BY <2>1, <2>2, Bounds DEF Paid, MaxPuts
    <2>4. session <=> object = NoObject
      <3>1. FileTo(Total) # NoObject
        BY Bounds DEF FileTo, NoObject
      <3>2. QED
        BY <3>1 DEF UploadIInv, Contents, Shape
    <2>5. UploadTypeOK
      BY <2>1, <2>3, <2>4 DEF UploadIInv, Shape, UploadTypeOK, Put
    <2>6. n \in 0..Total /\ buffer = FileTo(n)
      BY DEF UploadIInv, Contents
    <2>7. BufferIsPrefix
      <3>1. /\ File \in Seq(Int) /\ Len(File) = Total /\ \A k \in 1..Total : File[k] = k
            /\ buffer \in Seq(Int) /\ Len(buffer) = n /\ \A k \in 1..n : buffer[k] = k
        BY <2>6, Bounds DEF File, FileTo
      <3>2. SubSeq(buffer, 1, n) = [k \in 1..n |-> buffer[k]] /\ SubSeq(File, 1, n) = [k \in 1..n |-> File[k]]
        BY <2>6, <3>1, Bounds
      <3>3. SubSeq(buffer, 1, n) = SubSeq(File, 1, n)
        BY <2>6, <3>1, <3>2, Bounds
      <3>4. QED
        BY <2>6, <3>1, <3>3, Bounds DEF BufferIsPrefix, IsPrefix
    <2>8. QED
      BY <2>5, <2>7 DEF UploadInv
  <1>2. QED
    BY Invariance, <1>1, PTL

(* What finaliseResumableLocked stores is the whole file, once and for all,  *)
(* and a client that was told so, or that its session is gone, can rely on   *)
(* it (ObjectIsFile).                                                        *)
THEOREM ObjectStaysFile == ~RetrySingle /\ UploadSpec => []ObjectIsFile
  <1>1. UploadIInv => ObjectIsFile
    <2> SUFFICES ASSUME UploadIInv PROVE ObjectIsFile
      OBVIOUS
    <2>1. FileTo(Total) = File
      BY DEF FileTo, File
    <2>2. FileTo(Total) # NoObject
      BY Bounds DEF FileTo, NoObject
    <2>3. QED
      BY <2>1, <2>2 DEF UploadIInv, Contents, Shape, Progress, ObjectIsFile
  <1>2. QED
    BY Invariance, <1>1, PTL
=============================================================================
