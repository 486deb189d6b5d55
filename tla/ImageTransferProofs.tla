------------------------ MODULE ImageTransferProofs ------------------------
(***************************************************************************)
(* The receive buffer's bookkeeping is right and no stored picture has a   *)
(* hole, for every number of chunks, frames, retries and faults.           *)
(***************************************************************************)
EXTENDS ImageTransfer, FiniteSetTheorems, SequenceTheorems, TLAPS

-----------------------------------------------------------------------------
(* Slots and pictures.                                                     *)

\* A picture of n frames has n * NumChunks slots.
LEMMA SlotsSize ==
    ASSUME NEW n \in Nat
    PROVE  IsFiniteSet(Slots(n)) /\ Cardinality(Slots(n)) = NumChunks * n
<1> DEFINE A == 0 .. n-1
           B == 0 .. NumChunks-1
<1>1. IsFiniteSet(A) /\ Cardinality(A) = n
  BY FS_Interval
<1>2. IsFiniteSet(B) /\ Cardinality(B) = NumChunks
  BY FS_Interval, SizesAssumption
<1>3. Slots(n) = A \X B
  BY DEF Slots
<1> HIDE DEF A, B
<1>4. IsFiniteSet(A \X B) /\ Cardinality(A \X B) = Cardinality(A) * Cardinality(B)
  BY <1>1, <1>2, FS_Product
<1> QED
  BY <1>1, <1>2, <1>3, <1>4, SizesAssumption

\* The slots of a short picture are slots of a longer one.
LEMMA SlotsNested ==
    ASSUME NEW m \in Nat, NEW n \in Nat, m <= n
    PROVE  Slots(m) \subseteq Slots(n)
BY SizesAssumption DEF Slots

\* Every function on the slots of a legal number of frames is a picture.
LEMMA IsPicture ==
    ASSUME NEW n \in 0 .. MaxFrames, NEW p \in [Slots(n) -> Chunks]
    PROVE  p \in Pictures
BY DEF Pictures

\* The empty picture is a picture, and there is nothing in it.
LEMMA NoPictureFact == NoPicture \in Pictures /\ DOMAIN NoPicture = {}
<1>1. Slots(0) = {}
  BY SizesAssumption DEF Slots
<1>2. NoPicture \in [Slots(0) -> Chunks]
  BY <1>1 DEF NoPicture
<1>3. 0 \in 0 .. MaxFrames
  BY SizesAssumption
<1> QED
  BY <1>1, <1>2, <1>3, IsPicture DEF NoPicture

Solid(p) == \A s \in DOMAIN p : p[s] # NoChunk

\* Writing over the start of a picture gives a picture, and no hole appears.
LEMMA OverlayFact ==
    ASSUME NEW old \in Pictures, NEW n \in 0 .. MaxFrames,
           NEW blob \in [Slots(n) -> Chunks], Solid(old), Solid(blob)
    PROVE  Overlay(old, blob) \in Pictures /\ Solid(Overlay(old, blob))
<1>1. PICK m \in 0 .. MaxFrames : old \in [Slots(m) -> Chunks]
  BY DEF Pictures
<1>2. n \in Nat /\ m \in Nat
  BY SizesAssumption
<1>3. PICK k \in 0 .. MaxFrames : Slots(m) \cup Slots(n) = Slots(k)
  <2>1. CASE m <= n
    BY <2>1, <1>2, SlotsNested
  <2>2. CASE n <= m
    BY <2>2, <1>2, SlotsNested
  <2> QED
    BY <1>2, <2>1, <2>2
<1>4. DOMAIN Overlay(old, blob) = Slots(k)
  BY <1>1, <1>3 DEF Overlay
<1>5. \A s \in Slots(k) : Overlay(old, blob)[s] = IF s \in Slots(n) THEN blob[s] ELSE old[s]
  BY <1>1, <1>3 DEF Overlay
<1>6. \A s \in Slots(k) : Overlay(old, blob)[s] \in Chunks \ {NoChunk}
  BY <1>1, <1>3, <1>5 DEF Solid
<1>7. Overlay(old, blob) \in [Slots(k) -> Chunks]
  BY <1>4, <1>6 DEF Overlay
<1> QED
  BY <1>4, <1>6, <1>7, IsPicture DEF Solid

\* Loading a key gives a picture without holes if the key has none.
LEMMA LoadFact ==
    ASSUME NEW key \in Pictures \cup {Torn}, key # Torn => Solid(key)
    PROVE  Load(key) \in Pictures /\ Solid(Load(key))
BY NoPictureFact DEF Load, Solid
-----------------------------------------------------------------------------
(* The inductive invariant.                                                *)

\* While a complete buffer is being stored, every slot holds a chunk.
StoringIsFull == bpc # "ready" => Filled = Slots(frame_count)

\* A job that sends chunks has a picture to cut them from.
JobHasImage == host.pc \in {"frames", "chunk"} => host.img \in Images

IInv == TypeOK /\ CountIsFilled /\ NoHoles /\ StoringIsFull /\ JobHasImage

\* The buffer's part of the invariant, over the buffer's variables.
BufferOK ==
    /\ frame_count \in 1 .. MaxFrames
    /\ frames \in [Slots(frame_count) -> Chunks]
    /\ received_count \in Nat
    /\ CountIsFilled
    /\ StoringIsFull

\* A buffer that is reset while the console is ready is in order.
LEMMA ResetFact ==
    ASSUME NEW n \in 1 .. MaxFrames, Reset(n), bpc' = "ready"
    PROVE  BufferOK'
<1>1. frames' \in [Slots(n) -> Chunks]
  BY DEF Reset, Blank, Chunks
<1>2. Filled' = {}
  BY DEF Reset, Blank, Filled
<1>3. received_count' = Cardinality(Filled')
  BY <1>2, FS_EmptySet DEF Reset
<1> QED
  BY <1>1, <1>3 DEF Reset, BufferOK, CountIsFilled, StoringIsFull

\* The worker leaves a sending step with a well-formed state and line.
LEMMA SendFact ==
    ASSUME TypeOK, NEW line \in Lines, NEW h \in HostStates, Send(line, h)
    PROVE  host' \in HostStates /\ rx' \in Seq(Lines)
BY AppendProperties DEF Send, TypeOK

LEMMA IdleHostFact ==
    ASSUME NEW r \in {"none", "success", "cleared", "failed"}
    PROVE  IdleHost(r) \in HostStates /\ IdleHost(r).pc = "idle"
BY SizesAssumption, BoundsAssumption DEF IdleHost, HostStates, Chunks

LEMMA NewJobFact ==
    ASSUME NEW pc \in {"frames", "chunk", "clear"}, NEW img \in Chunks, NEW n \in 1 .. MaxFrames
    PROVE  NewJob(pc, img, n) \in HostStates /\ NewJob(pc, img, n).img = img
           /\ NewJob(pc, img, n).pc = pc
BY SizesAssumption, BoundsAssumption DEF NewJob, HostStates

\* Sending a chunk for the first time, from any slot.
LEMMA SendChunkFact ==
    ASSUME TypeOK, NEW h \in HostStates, h.img \in Images,
           NEW f \in 0 .. MaxFrames-1, NEW c \in 0 .. NumChunks-1, SendChunk(h, f, c)
    PROVE  host' \in HostStates /\ rx' \in Seq(Lines) /\ JobHasImage'
<1> DEFINE g == [pc |-> "chunk", img |-> h.img, n |-> h.n, f |-> f, c |-> c,
                  attempt |-> 0, result |-> "none"]
<1>1. ChunkLine(f, c, h.img) \in Lines
  BY DEF ChunkLine, Lines
<1>2. g \in HostStates /\ g.img = h.img
  BY BoundsAssumption DEF HostStates
<1>3. Send(ChunkLine(f, c, h.img), g)
  BY DEF SendChunk
<1>4. host' \in HostStates /\ rx' \in Seq(Lines)
  BY <1>1, <1>2, <1>3, SendFact
<1>5. host' = g
  BY <1>3 DEF Send
<1> QED
  BY <1>2, <1>4, <1>5 DEF JobHasImage

LEMMA FinishFact ==
    ASSUME TypeOK, NEW r \in {"none", "success", "cleared", "failed"}, Finish(r)
    PROVE  host' \in HostStates /\ rx' \in Seq(Lines) /\ JobHasImage'
BY IdleHostFact DEF Finish, TypeOK, JobHasImage

\* The next chunk is in range, or the upload ends.
LEMMA NextChunkFact ==
    ASSUME TypeOK, host.img \in Images, NextChunk(host)
    PROVE  host' \in HostStates /\ rx' \in Seq(Lines) /\ JobHasImage'
<1>1. host \in HostStates
  BY DEF TypeOK
<1>2. /\ host.c \in 0 .. NumChunks-1
      /\ host.f \in 0 .. MaxFrames-1
      /\ host.n \in 1 .. MaxFrames
  BY <1>1 DEF HostStates
<1>3. CASE host.c + 1 < NumChunks
  <2>1. SendChunk(host, host.f, host.c + 1)
    BY <1>2, <1>3, SizesAssumption DEF NextChunk
  <2>2. host.c + 1 \in 0 .. NumChunks-1
    BY <1>2, <1>3, SizesAssumption
  <2> QED
    BY <1>1, <1>2, <2>1, <2>2, SendChunkFact
<1>4. CASE host.c + 1 = NumChunks /\ host.f + 1 < host.n
  <2>1. SendChunk(host, host.f + 1, 0)
    BY <1>4, <1>2, SizesAssumption DEF NextChunk
  <2>2. host.f + 1 \in 0 .. MaxFrames-1 /\ 0 \in 0 .. NumChunks-1
    BY <1>2, <1>4, SizesAssumption
  <2> QED
    BY <1>1, <2>1, <2>2, SendChunkFact
<1>5. CASE Finish("failed")
  BY <1>5, FinishFact
<1> QED
  BY <1>3, <1>4, <1>5 DEF NextChunk

\* A retry sends the same line again, or the job ends.
LEMMA RetryFact ==
    ASSUME TypeOK, JobHasImage, host.pc \in {"chunk", "clear"}, Retry(host)
    PROVE  host' \in HostStates /\ rx' \in Seq(Lines) /\ JobHasImage'
<1>1. host \in HostStates
  BY DEF TypeOK
<1>2. CASE host.attempt < MaxRetries
  <2> DEFINE g == [host EXCEPT !.attempt = host.attempt + 1]
             line == IF host.pc = "clear" THEN ClearLine ELSE ChunkLine(host.f, host.c, host.img)
  <2>1. Send(line, g)
    BY <1>2 DEF Retry
  <2>2. line \in Lines
    BY <1>1 DEF JobHasImage, HostStates, Lines, ClearLine, ChunkLine
  <2>3. g \in HostStates /\ g.pc = host.pc /\ g.img = host.img
    BY <1>1, <1>2, BoundsAssumption DEF HostStates
  <2>4. host' \in HostStates /\ rx' \in Seq(Lines) /\ host' = g
    BY <2>1, <2>2, <2>3, SendFact DEF Send
  <2> QED
    BY <2>3, <2>4 DEF JobHasImage
<1>3. CASE ~(host.attempt < MaxRetries)
  BY <1>3, FinishFact DEF Retry
<1> QED
  BY <1>2, <1>3

LEMMA TimeRunsOutFact ==
    ASSUME TypeOK, TimeRunsOut PROVE faults' \in 0 .. MaxFaults
BY BoundsAssumption DEF TypeOK, TimeRunsOut, Fault

\* What the app's steps leave alone is the badge's and the vault's whole state.
LEMMA Untouched ==
    ASSUME IInv, UNCHANGED <<badgeVars, vaultVars>>
    PROVE  /\ BufferOK' /\ NoHoles'
           /\ bpc' \in {"ready", "delete", "write", "writing", "finish"}
           /\ pddb' \in Pictures \cup {Torn}
           /\ vq' \in Seq({0, 1}) /\ user_frames' \in Pictures
BY DEF IInv, TypeOK, BufferOK, CountIsFilled, StoringIsFull, Filled, NoHoles,
       badgeVars, vaultVars

\* IInv, part by part, as the step lemmas establish it.
LEMMA Assemble ==
    ASSUME host' \in HostStates, jobs' \in 0 .. MaxJobs, rx' \in Seq(Lines),
           tx' \in Seq(Replies), faults' \in 0 .. MaxFaults,
           bpc' \in {"ready", "delete", "write", "writing", "finish"},
           pddb' \in Pictures \cup {Torn}, vq' \in Seq({0, 1}), user_frames' \in Pictures,
           BufferOK', NoHoles', JobHasImage'
    PROVE  IInv'
BY DEF IInv, TypeOK, BufferOK

\* The steps of the app.
LEMMA HostStep ==
    ASSUME IInv, HostNext PROVE IInv'
<1> USE DEF IInv
<1>0. /\ host \in HostStates /\ jobs \in 0 .. MaxJobs /\ faults \in 0 .. MaxFaults
      /\ tx \in Seq(Replies) /\ rx \in Seq(Lines)
  BY DEF TypeOK
<1>1. ASSUME StartJob PROVE jobs' \in 0 .. MaxJobs /\ tx' \in Seq(Replies) /\ faults' \in 0 .. MaxFaults
  BY <1>0, <1>1, TimeRunsOutFact, BoundsAssumption DEF StartJob
<1>2. ASSUME NEW img \in Images, NEW n \in 1 .. MaxFrames, StartUpload(img, n) PROVE IInv'
  <2>1. host' \in HostStates /\ rx' \in Seq(Lines) /\ JobHasImage'
    <3>1. CASE n > 1 /\ Send(FramesLine(n), NewJob("frames", img, n))
      <4>1. FramesLine(n) \in Lines
        BY DEF FramesLine, Lines
      <4>2. NewJob("frames", img, n) \in HostStates /\ NewJob("frames", img, n).img = img
        BY NewJobFact DEF Chunks
      <4>3. host' \in HostStates /\ rx' \in Seq(Lines) /\ host' = NewJob("frames", img, n)
        BY <3>1, <4>1, <4>2, SendFact DEF Send
      <4> QED
        BY <4>2, <4>3 DEF JobHasImage
    <3>2. CASE SendChunk(NewJob("chunk", img, n), 0, 0)
      <4>1. NewJob("chunk", img, n) \in HostStates /\ NewJob("chunk", img, n).img = img
        BY NewJobFact DEF Chunks
      <4>2. 0 \in 0 .. MaxFrames-1 /\ 0 \in 0 .. NumChunks-1
        BY SizesAssumption
      <4> QED
        BY <3>2, <4>1, <4>2, SendChunkFact
    <3> QED
      BY <1>2, <3>1, <3>2 DEF StartUpload
  <2> QED
    BY <1>1, <1>2, <2>1, Untouched, Assemble DEF StartUpload
<1>3. CASE StartClear
  <2> DEFINE h == NewJob("clear", NoChunk, 1)
  <2>1. h \in HostStates /\ h.pc = "clear"
    <3>1. NoChunk \in Chunks /\ 1 \in 1 .. MaxFrames
      BY SizesAssumption DEF Chunks
    <3> QED
      BY <3>1, NewJobFact
  <2>2. Send(ClearLine, h) /\ ClearLine \in Lines
    BY <1>3 DEF StartClear, ClearLine, Lines
  <2>3. host' \in HostStates /\ rx' \in Seq(Lines) /\ host' = h
    BY <2>1, <2>2, SendFact DEF Send
  <2>4. JobHasImage'
    BY <2>1, <2>3 DEF JobHasImage
  <2> QED
    BY <1>1, <1>3, <2>3, <2>4, Untouched, Assemble DEF StartClear
<1>4. CASE HostRead
  <2>1. tx' \in Seq(Replies)
    BY <1>0, <1>4, HeadTailProperties DEF HostRead
  <2>2. host' \in HostStates /\ rx' \in Seq(Lines) /\ JobHasImage'
    <3>1. ASSUME host.pc = "frames", SendChunk(host, 0, 0)
          PROVE  host' \in HostStates /\ rx' \in Seq(Lines) /\ JobHasImage'
      <4>1. 0 \in 0 .. MaxFrames-1 /\ 0 \in 0 .. NumChunks-1 /\ host.img \in Images
        BY <3>1, SizesAssumption DEF JobHasImage
      <4> QED
        BY <1>0, <3>1, <4>1, SendChunkFact
    <3>2. ASSUME NEW r \in {"success", "cleared", "failed"}, Finish(r)
          PROVE  host' \in HostStates /\ rx' \in Seq(Lines) /\ JobHasImage'
      BY <3>2, FinishFact
    <3>3. ASSUME host.pc = "chunk", NextChunk(host)
          PROVE  host' \in HostStates /\ rx' \in Seq(Lines) /\ JobHasImage'
      BY <3>3, NextChunkFact DEF JobHasImage
    <3>4. ASSUME host.pc = "chunk", Retry(host)
          PROVE  host' \in HostStates /\ rx' \in Seq(Lines) /\ JobHasImage'
      BY <3>4, RetryFact
    <3>5. ASSUME UNCHANGED <<host, rx>>
          PROVE  host' \in HostStates /\ rx' \in Seq(Lines) /\ JobHasImage'
      BY <1>0, <3>5 DEF JobHasImage
    <3> QED
      BY <1>4, <3>1, <3>2, <3>3, <3>4, <3>5 DEF HostRead
  <2>3. UNCHANGED <<jobs, badgeVars, vaultVars, faults>>
    BY <1>4 DEF HostRead
  <2> QED
    BY <1>0, <2>1, <2>2, <2>3, Untouched, Assemble
<1>5. CASE HostTimeout
  <2>1. host' \in HostStates /\ rx' \in Seq(Lines) /\ JobHasImage'
    <3>1. CASE Finish("failed")
      BY <3>1, FinishFact
    <3>2. CASE Retry(host) /\ host.pc \in {"chunk", "clear"}
      BY <3>2, RetryFact
    <3>3. host.pc \in {"idle", "frames", "chunk", "clear"}
      BY <1>0 DEF HostStates
    <3> QED
      BY <1>5, <3>1, <3>2, <3>3 DEF HostTimeout
  <2>2. faults' \in 0 .. MaxFaults
    BY <1>5, TimeRunsOutFact DEF HostTimeout
  <2>3. UNCHANGED <<jobs, tx, badgeVars, vaultVars>>
    BY <1>5 DEF HostTimeout
  <2> QED
    BY <1>0, <2>1, <2>2, <2>3, Untouched, Assemble
<1> QED
  BY <1>2, <1>3, <1>4, <1>5 DEF HostNext

\* The console takes a line and leaves the rest.
LEMMA TakeFact ==
    ASSUME TypeOK, NEW op, Take(op)
    PROVE  Head(rx) \in Lines /\ rx' \in Seq(Lines)
BY HeadTailProperties DEF TypeOK, Take

\* Appending a reply or a message keeps the queues well-formed.
LEMMA ReplyFact ==
    ASSUME TypeOK, NEW r \in Replies, Reply(r) PROVE tx' \in Seq(Replies)
BY AppendProperties DEF TypeOK, Reply

LEMMA NotifyFact ==
    ASSUME TypeOK, NEW m \in {0, 1}, vq' = Append(vq, m) PROVE vq' \in Seq({0, 1})
BY AppendProperties DEF TypeOK

LEMMA FaultFact ==
    ASSUME TypeOK, NEW kind, Fault(kind) PROVE faults' \in 0 .. MaxFaults
BY BoundsAssumption DEF TypeOK, Fault

\* A deleted key is empty, a key that could not be deleted is as it was.
LEMMA DeleteFact ==
    ASSUME TypeOK, NoHoles, DeleteKey, UNCHANGED user_frames
    PROVE  /\ pddb' \in Pictures \cup {Torn} /\ NoHoles'
           /\ faults' \in 0 .. MaxFaults
BY NoPictureFact, FaultFact DEF TypeOK, DeleteKey, NoHoles

\* Storing one more chunk adds one filled slot, or none if the slot was filled; a
\* buffer that counts as complete has no empty slot left.
LEMMA ChunkFact ==
    ASSUME TypeOK, CountIsFilled,
           NEW slot \in Slots(frame_count), NEW img \in Images,
           frames' = [frames EXCEPT ![slot] = img],
           received_count' = CountWith(slot),
           UNCHANGED frame_count
    PROVE  /\ frames' \in [Slots(frame_count') -> Chunks]
           /\ received_count' \in Nat
           /\ CountIsFilled'
           /\ is_complete(CountWith(slot)) => Filled' = Slots(frame_count')
<1>0. frame_count \in Nat /\ frames \in [Slots(frame_count) -> Chunks] /\ received_count \in Nat
  BY DEF TypeOK
<1>1. IsFiniteSet(Slots(frame_count)) /\ Cardinality(Slots(frame_count)) = NumChunks * frame_count
  BY <1>0, SlotsSize
<1>2. Filled \subseteq Slots(frame_count) /\ IsFiniteSet(Filled)
  BY <1>1, FS_Subset DEF Filled
<1>3. frames' \in [Slots(frame_count) -> Chunks]
  BY <1>0 DEF Chunks
<1>4. Filled' = Filled \cup {slot}
  BY <1>0, ImagesAssumption DEF Filled
<1>5. slot \in Filled <=> frames[slot] # NoChunk
  BY DEF Filled
<1>6. Cardinality(Filled \cup {slot}) =
        IF slot \in Filled THEN Cardinality(Filled) ELSE Cardinality(Filled) + 1
  BY <1>2, FS_AddElement
<1>7. CountIsFilled'
  BY <1>4, <1>5, <1>6 DEF CountIsFilled, CountWith
<1>8. received_count' \in Nat
  BY <1>0 DEF CountWith
<1>9. ASSUME is_complete(CountWith(slot)) PROVE Filled' = Slots(frame_count')
  <2>1. Cardinality(Filled') = Cardinality(Slots(frame_count))
    BY <1>1, <1>7, <1>9 DEF is_complete, CountIsFilled
  <2>2. Filled' \subseteq Slots(frame_count)
    BY <1>2, <1>4
  <2> QED
    BY <1>1, <2>1, <2>2, FS_Subset
<1> QED
  BY <1>3, <1>7, <1>8, <1>9

\* A full buffer is a blob without holes.
LEMMA FullBlob ==
    ASSUME IInv, bpc # "ready"
    PROVE  /\ frame_count \in 0 .. MaxFrames
           /\ frames \in [Slots(frame_count) -> Chunks]
           /\ Solid(frames)
BY DEF IInv, TypeOK, StoringIsFull, Filled, Solid

\* The stored key keeps its type and has no hole after it was written.
LEMMA WriteFact ==
    ASSUME IInv, bpc # "ready", UNCHANGED user_frames,
           \/ pddb' = Overlay(Load(pddb), frames)
           \/ pddb' = Torn
           \/ pddb' = pddb
           \/ pddb # Torn /\ pddb' = Overlay(pddb, [s \in Slots(1) |-> frames[s]])
    PROVE  pddb' \in Pictures \cup {Torn} /\ NoHoles'
<1>1. /\ pddb \in Pictures \cup {Torn}
      /\ pddb # Torn => Solid(pddb)
      /\ Solid(user_frames)
  BY DEF IInv, TypeOK, NoHoles, Solid
<1>2. ASSUME pddb' \in Pictures \cup {Torn}, pddb' # Torn => Solid(pddb')
      PROVE  pddb' \in Pictures \cup {Torn} /\ NoHoles'
  BY <1>1, <1>2 DEF NoHoles, Solid
<1>3. CASE pddb' = Overlay(Load(pddb), frames)
  BY <1>1, <1>2, <1>3, LoadFact, FullBlob, OverlayFact
<1>4. CASE pddb' = Torn
  BY <1>2, <1>4
<1>5. CASE pddb' = pddb
  BY <1>1, <1>2, <1>5
<1>6. CASE pddb # Torn /\ pddb' = Overlay(pddb, [s \in Slots(1) |-> frames[s]])
  <2> DEFINE b == [s \in Slots(1) |-> frames[s]]
  <2>1. Slots(1) \subseteq Slots(frame_count)
    BY SlotsNested DEF IInv, TypeOK
  <2>2. 1 \in 0 .. MaxFrames
    BY SizesAssumption
  <2>3. b \in [Slots(1) -> Chunks] /\ Solid(b)
    BY <2>1, FullBlob DEF Solid
  <2> QED
    BY <1>1, <1>2, <1>6, <2>2, <2>3, OverlayFact
<1> QED
  BY <1>3, <1>4, <1>5, <1>6

\* The steps of the console.
LEMMA ConsoleStep ==
    ASSUME IInv, ConsoleNext PROVE IInv'
<1>0. /\ TypeOK /\ CountIsFilled /\ NoHoles /\ StoringIsFull /\ JobHasImage
      /\ host \in HostStates /\ jobs \in 0 .. MaxJobs /\ faults \in 0 .. MaxFaults
      /\ tx \in Seq(Replies) /\ rx \in Seq(Lines) /\ vq \in Seq({0, 1})
      /\ bpc \in {"ready", "delete", "write", "writing", "finish"}
      /\ pddb \in Pictures \cup {Torn} /\ user_frames \in Pictures
      /\ frame_count \in 1 .. MaxFrames
      /\ frames \in [Slots(frame_count) -> Chunks]
  BY DEF IInv, TypeOK
<1>1. ASSUME UNCHANGED hostVars
      PROVE  host' \in HostStates /\ jobs' \in 0 .. MaxJobs /\ JobHasImage'
  BY <1>0, <1>1 DEF hostVars, JobHasImage
<1>2. ASSUME UNCHANGED vaultVars PROVE vq' \in Seq({0, 1}) /\ user_frames' \in Pictures
  BY <1>0, <1>2 DEF vaultVars
<1>3. CASE ProcessFrames
  <2>1. Head(rx).n \in 1 .. MaxFrames /\ rx' \in Seq(Lines)
    BY <1>0, <1>3, TakeFact DEF ProcessFrames, Take, Lines
  <2>2. bpc' = "ready" /\ Reset(Head(rx).n)
    BY <1>3 DEF ProcessFrames, Take
  <2>3. BufferOK'
    BY <2>1, <2>2, ResetFact
  <2>4. tx' \in Seq(Replies)
    BY <1>0, <1>3, ReplyFact DEF ProcessFrames, Replies
  <2>5. NoHoles'
    BY <1>0, <1>3 DEF ProcessFrames, NoHoles, vaultVars
  <2>6. UNCHANGED <<hostVars, pddb, vaultVars, faults>>
    BY <1>3 DEF ProcessFrames
  <2> QED
    BY <1>0, <1>1, <1>2, <2>1, <2>2, <2>3, <2>4, <2>5, <2>6, Assemble
<1>4. CASE ProcessClear
  <2>1. rx' \in Seq(Lines)
    BY <1>0, <1>4, TakeFact DEF ProcessClear
  <2>2. bpc' = "ready" /\ Reset(1) /\ 1 \in 1 .. MaxFrames
    BY <1>4, SizesAssumption DEF ProcessClear, Take
  <2>3. BufferOK'
    BY <2>2, ResetFact
  <2>4. tx' \in Seq(Replies)
    BY <1>0, <1>4, ReplyFact DEF ProcessClear, Replies
  <2>5. vq' \in Seq({0, 1})
    BY <1>0, <1>4, NotifyFact DEF ProcessClear
  <2>6. DeleteKey /\ UNCHANGED user_frames /\ UNCHANGED hostVars
    BY <1>4 DEF ProcessClear
  <2>7. pddb' \in Pictures \cup {Torn} /\ NoHoles' /\ faults' \in 0 .. MaxFaults
    BY <1>0, <2>6, DeleteFact
  <2> QED
    BY <1>0, <1>1, <2>1, <2>2, <2>3, <2>4, <2>5, <2>6, <2>7, Assemble
<1>5. CASE ProcessGarbled
  <2>1. rx' \in Seq(Lines)
    BY <1>0, <1>5, TakeFact DEF ProcessGarbled
  <2>2. tx' \in Seq(Replies)
    BY <1>0, <1>5, ReplyFact DEF ProcessGarbled, Replies
  <2>3. UNCHANGED <<hostVars, badgeVars, vaultVars, faults>>
    BY <1>5 DEF ProcessGarbled
  <2> QED
    BY <1>0, <1>1, <2>1, <2>2, <2>3, Untouched, Assemble
<1>6. CASE ProcessChunk
  <2> DEFINE line == Head(rx)
             slot == <<line.f, line.c>>
  <2>0. Take("chunk") /\ UNCHANGED <<hostVars, vaultVars, faults>>
    BY <1>6 DEF ProcessChunk
  <2>1. rx' \in Seq(Lines) /\ bpc = "ready"
        /\ line.f \in 0 .. MaxFrames-1 /\ line.c \in 0 .. NumChunks-1 /\ line.img \in Images
    <3>1. line \in Lines /\ line.op = "chunk" /\ rx' \in Seq(Lines) /\ bpc = "ready"
      BY <1>0, <2>0, TakeFact DEF Take
    <3> QED
      BY <3>1 DEF Lines
  <2>2. CASE line.f >= frame_count
    <3>1. Reply("noise") /\ UNCHANGED badgeVars
      BY <1>6, <2>2 DEF ProcessChunk
    <3>2. tx' \in Seq(Replies)
      BY <1>0, <3>1, ReplyFact DEF Replies
    <3> QED
      BY <1>0, <1>1, <2>0, <2>1, <3>1, <3>2, Untouched, Assemble
  <2>3. CASE ~(line.f >= frame_count)
    <3>1. /\ frames' = [frames EXCEPT ![slot] = line.img]
          /\ received_count' = CountWith(slot)
          /\ \/ is_complete(CountWith(slot)) /\ bpc' = "delete" /\ UNCHANGED tx
             \/ Reply("OK") /\ UNCHANGED bpc
          /\ UNCHANGED <<frame_count, pddb>>
      BY <1>6, <2>3 DEF ProcessChunk
    <3>2. slot \in Slots(frame_count)
      BY <1>0, <2>1, <2>3 DEF Slots
    <3>3. /\ frames' \in [Slots(frame_count') -> Chunks]
          /\ received_count' \in Nat
          /\ CountIsFilled'
          /\ is_complete(CountWith(slot)) => Filled' = Slots(frame_count')
      BY <1>0, <2>1, <3>1, <3>2, ChunkFact
    <3>4. StoringIsFull' /\ bpc' \in {"ready", "delete", "write", "writing", "finish"}
      BY <2>1, <3>1, <3>3 DEF StoringIsFull
    <3>5. BufferOK'
      BY <1>0, <3>1, <3>3, <3>4 DEF BufferOK
    <3>6. tx' \in Seq(Replies)
      BY <1>0, <3>1, ReplyFact DEF Replies
    <3>7. NoHoles'
      BY <1>0, <2>0, <3>1 DEF NoHoles, vaultVars
    <3> QED
      BY <1>0, <1>1, <1>2, <2>0, <2>1, <3>1, <3>4, <3>5, <3>6, <3>7, Assemble
  <2> QED
    BY <2>2, <2>3
<1>7. ASSUME bpc # "ready", bpc' \in {"write", "writing", "finish"},
             UNCHANGED <<hostVars, rx, tx, frame_count, frames, received_count, vaultVars>>,
             pddb' \in Pictures \cup {Torn}, NoHoles', faults' \in 0 .. MaxFaults
      PROVE  IInv'
  <2>1. BufferOK'
    BY <1>0, <1>7 DEF BufferOK, TypeOK, CountIsFilled, StoringIsFull, Filled
  <2> QED
    BY <1>0, <1>1, <1>2, <1>7, <2>1, Assemble
<1>8. CASE StoreDelete
  <2>1. pddb' \in Pictures \cup {Torn} /\ NoHoles' /\ faults' \in 0 .. MaxFaults
    BY <1>0, <1>8, DeleteFact DEF StoreDelete, vaultVars
  <2> QED
    BY <1>7, <1>8, <2>1 DEF StoreDelete
<1>9. CASE StoreBegin
  <2>1. faults' \in 0 .. MaxFaults
    BY <1>0, <1>9, FaultFact DEF StoreBegin
  <2>2. pddb' \in Pictures \cup {Torn} /\ NoHoles'
    BY <1>9, WriteFact DEF StoreBegin, vaultVars
  <2> QED
    BY <1>7, <1>9, <2>1, <2>2 DEF StoreBegin
<1>10. CASE StoreRest
  <2>1. faults' \in 0 .. MaxFaults
    BY <1>0, <1>10, FaultFact DEF StoreRest
  <2>2. pddb' \in Pictures \cup {Torn} /\ NoHoles'
    BY <1>10, WriteFact DEF StoreRest, vaultVars
  <2> QED
    BY <1>7, <1>10, <2>1, <2>2 DEF StoreRest
<1>11. CASE StoreFinish
  <2>1. bpc' = "ready" /\ Reset(1) /\ 1 \in 1 .. MaxFrames
    BY <1>11, SizesAssumption DEF StoreFinish
  <2>2. BufferOK'
    BY <2>1, ResetFact
  <2>3. tx' \in Seq(Replies)
    BY <1>0, <1>11, ReplyFact DEF StoreFinish, Replies
  <2>4. vq' \in Seq({0, 1})
    BY <1>0, <1>11, NotifyFact DEF StoreFinish
  <2>5. UNCHANGED <<hostVars, rx, pddb, user_frames, faults>>
    BY <1>11 DEF StoreFinish
  <2>6. NoHoles'
    BY <1>0, <2>5 DEF NoHoles
  <2> QED
    BY <1>0, <1>1, <2>1, <2>2, <2>3, <2>4, <2>5, <2>6, Assemble
<1> QED
  BY <1>3, <1>4, <1>5, <1>6, <1>8, <1>9, <1>10, <1>11 DEF ConsoleNext

\* The vault shows what it loads.
LEMMA VaultStep ==
    ASSUME IInv, ImageLoad PROVE IInv'
<1>1. TypeOK /\ CountIsFilled /\ NoHoles /\ StoringIsFull /\ JobHasImage
  BY DEF IInv
<1>2. /\ host' \in HostStates /\ jobs' \in 0 .. MaxJobs /\ faults' \in 0 .. MaxFaults
      /\ tx' \in Seq(Replies) /\ rx' \in Seq(Lines)
      /\ bpc' \in {"ready", "delete", "write", "writing", "finish"}
      /\ pddb' \in Pictures \cup {Torn} /\ JobHasImage'
  BY <1>1 DEF ImageLoad, TypeOK, hostVars, badgeVars, JobHasImage
<1>3. BufferOK'
  BY <1>1 DEF ImageLoad, TypeOK, badgeVars, BufferOK, CountIsFilled, StoringIsFull, Filled
<1>4. vq' \in Seq({0, 1})
  BY <1>1, HeadTailProperties DEF ImageLoad, TypeOK
<1>5. user_frames' \in Pictures /\ Solid(user_frames')
  <2>1. Load(pddb) \in Pictures /\ Solid(Load(pddb))
    BY <1>1, LoadFact DEF TypeOK, NoHoles, Solid
  <2>2. NoPicture \in Pictures /\ Solid(NoPicture)
    BY NoPictureFact DEF Solid
  <2> QED
    BY <2>1, <2>2 DEF ImageLoad
<1>6. NoHoles'
  BY <1>1, <1>5 DEF ImageLoad, badgeVars, NoHoles, Solid
<1> QED
  BY <1>2, <1>3, <1>4, <1>5, <1>6, Assemble

\* Faults damage lines and replies, and lose what is in RAM, but no more.
LEMMA FaultStep ==
    ASSUME IInv, FaultNext PROVE IInv'
<1>0. /\ TypeOK /\ CountIsFilled /\ NoHoles /\ StoringIsFull /\ JobHasImage
      /\ host \in HostStates /\ jobs \in 0 .. MaxJobs
      /\ tx \in Seq(Replies) /\ rx \in Seq(Lines)
  BY DEF IInv, TypeOK
<1>1. faults' \in 0 .. MaxFaults
  BY <1>0, FaultFact DEF FaultNext, Garble, Mute, Unplug, Crash
<1>2. CASE Garble
  <2>1. rx' \in Seq(Lines)
    <3>1. 1 \in 1 .. Len(rx) /\ GarbledLine \in Lines
      BY <1>0, <1>2, EmptySeq, LenProperties DEF Garble, GarbledLine, Lines
    <3> QED
      BY <1>0, <1>2, <3>1, ExceptSeq DEF Garble
  <2>2. UNCHANGED <<hostVars, tx, badgeVars, vaultVars>>
    BY <1>2 DEF Garble
  <2>3. host' \in HostStates /\ jobs' \in 0 .. MaxJobs /\ JobHasImage'
    BY <1>0, <2>2 DEF hostVars, JobHasImage
  <2> QED
    BY <1>0, <1>1, <2>1, <2>2, <2>3, Untouched, Assemble
<1>3. CASE Mute
  <2>1. tx' \in Seq(Replies)
    <3>1. 1 \in 1 .. Len(tx) /\ "noise" \in Replies
      BY <1>0, <1>3, EmptySeq, LenProperties DEF Mute, Replies
    <3> QED
      BY <1>0, <1>3, <3>1, ExceptSeq DEF Mute
  <2>2. UNCHANGED <<hostVars, rx, badgeVars, vaultVars>>
    BY <1>3 DEF Mute
  <2>3. host' \in HostStates /\ jobs' \in 0 .. MaxJobs /\ JobHasImage'
    BY <1>0, <2>2 DEF hostVars, JobHasImage
  <2> QED
    BY <1>0, <1>1, <2>1, <2>2, <2>3, Untouched, Assemble
<1>4. ASSUME Disconnect PROVE host' \in HostStates /\ JobHasImage' /\ tx' \in Seq(Replies)
  BY <1>0, <1>4, IdleHostFact DEF Disconnect, JobHasImage
<1>5. CASE Unplug
  <2>1. rx' \in Seq(Lines)
    <3>1. rx' = rx \/ rx' = <<>>
      BY <1>5 DEF Unplug
    <3> QED
      BY <1>0, <3>1, EmptySeq
  <2>2. Disconnect /\ UNCHANGED <<jobs, badgeVars, vaultVars>>
    BY <1>5 DEF Unplug
  <2> QED
    BY <1>0, <1>1, <1>4, <2>1, <2>2, Untouched, Assemble
<1>6. CASE Crash
  <2>1. bpc' = "ready" /\ Reset(1) /\ 1 \in 1 .. MaxFrames
    BY <1>6, SizesAssumption DEF Crash
  <2>2. BufferOK'
    BY <2>1, ResetFact
  <2>3. Load(pddb) \in Pictures /\ Solid(Load(pddb))
    BY <1>0, LoadFact DEF TypeOK, NoHoles, Solid
  <2>4. /\ rx' \in Seq(Lines) /\ vq' \in Seq({0, 1}) /\ user_frames' = Load(pddb)
        /\ UNCHANGED <<jobs, pddb>> /\ Disconnect
    BY <1>6 DEF Crash
  <2>5. NoHoles'
    BY <1>0, <2>3, <2>4 DEF NoHoles, Solid
  <2>6. pddb' \in Pictures \cup {Torn}
    BY <1>0, <2>4 DEF TypeOK
  <2> QED
    BY <1>0, <1>1, <1>4, <2>1, <2>2, <2>3, <2>4, <2>5, <2>6, Assemble
<1> QED
  BY <1>2, <1>3, <1>5, <1>6 DEF FaultNext

\* The badge starts with an empty buffer and no picture.
LEMMA InitFact == Init => IInv
<1> SUFFICES ASSUME Init PROVE IInv
  OBVIOUS
<1>1. frames \in [Slots(frame_count) -> Chunks] /\ Filled = {}
  BY DEF Init, Blank, Filled, Chunks
<1>2. CountIsFilled
  BY <1>1, FS_EmptySet DEF Init, CountIsFilled
<1>3. host \in HostStates /\ host.pc = "idle"
  BY IdleHostFact DEF Init
<1>4. TypeOK
  BY <1>1, <1>3, NoPictureFact, SizesAssumption, BoundsAssumption DEF Init, TypeOK
<1>5. NoHoles /\ StoringIsFull /\ JobHasImage
  BY <1>3, NoPictureFact DEF Init, NoHoles, StoringIsFull, JobHasImage
<1> QED
  BY <1>2, <1>4, <1>5 DEF IInv

LEMMA StutterFact ==
    ASSUME IInv, UNCHANGED vars PROVE IInv'
BY DEF IInv, TypeOK, CountIsFilled, NoHoles, StoringIsFull, JobHasImage, Filled, vars

\* The inductive invariant holds in every behaviour of the system.
THEOREM Invariance == Spec => []IInv
<1>1. IInv /\ [Next]_vars => IInv'
  BY HostStep, ConsoleStep, VaultStep, FaultStep, StutterFact DEF Next
<1> QED
  BY <1>1, InitFact, PTL DEF Spec

\* Every variable keeps its type; the indices the app sends are always in range.
THEOREM TypeCorrect == Spec => []TypeOK
<1>1. IInv => TypeOK
  BY DEF IInv
<1> QED
  BY <1>1, Invariance, PTL

\* The count that image.rs keeps by hand is right, however lines are resent,
\* damaged or left over from an abandoned upload.
THEOREM CountCorrect == Spec => []CountIsFilled
<1>1. IInv => CountIsFilled
  BY DEF IInv
<1> QED
  BY <1>1, Invariance, PTL

\* No picture with a hole is ever stored or shown, whatever fails.
THEOREM NoHolesEver == Spec => []NoHoles
<1>1. IInv => NoHoles
  BY DEF IInv
<1> QED
  BY <1>1, Invariance, PTL
=============================================================================
