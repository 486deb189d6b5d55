----------------------- MODULE ImageRefinementProofs -----------------------
(***************************************************************************)
(* ImageTransfer implements PictureStore, for every number of pictures,    *)
(* chunks, frames, retries and jobs, as long as no reply is lost or late   *)
(* and the PDDB does what it is told: lines may be damaged, the cable may  *)
(* be pulled and the badge may lose power at any time.                     *)
(***************************************************************************)
EXTENDS ImageTransferProofs

-----------------------------------------------------------------------------
(* The screen.                                                             *)

\* The last ImageLoad in the vault's mailbox makes it show what is stored.
MailIsNews ==
    bpc \in {"ready", "delete"} =>
        \/ vq = <<>> /\ user_frames = Load(pddb)
        \/ vq # <<>> /\ (vq[Len(vq)] = 0 => pddb = NoPicture)

\* The last message of a mailbox, after one is added and after one is read.
LEMMA LastMessage ==
    ASSUME NEW S, NEW s \in Seq(S)
    PROVE  /\ \A m \in S : Append(s, m) # <<>> /\ Append(s, m)[Len(Append(s, m))] = m
           /\ s # <<>> /\ Tail(s) # <<>> => Tail(s)[Len(Tail(s))] = s[Len(s)]
           /\ s # <<>> /\ Tail(s) = <<>> => s[Len(s)] = Head(s)
<1>1. ASSUME NEW m \in S
      PROVE  Append(s, m) # <<>> /\ Append(s, m)[Len(Append(s, m))] = m
  BY AppendProperties
<1>2. ASSUME s # <<>>
      PROVE  /\ Tail(s) # <<>> => Tail(s)[Len(Tail(s))] = s[Len(s)]
             /\ Tail(s) = <<>> => s[Len(s)] = Head(s)
  <2>1. /\ Tail(s) \in Seq(S) /\ Len(Tail(s)) = Len(s) - 1 /\ Len(s) \in Nat \ {0}
        /\ \A i \in 1 .. Len(Tail(s)) : Tail(s)[i] = s[i + 1]
    BY <1>2, HeadTailProperties, EmptySeq, LenProperties
  <2>2. Tail(s) # <<>> => Len(Tail(s)) >= 1
    BY <2>1, EmptySeq, LenProperties
  <2>3. Tail(s) = <<>> => Len(s) = 1
    BY <2>1, EmptySeq
  <2>4. Head(s) = s[1]
    BY <1>2, HeadTailProperties
  <2> QED
    BY <2>1, <2>2, <2>3, <2>4
<1> QED
  BY <1>1, <1>2

\* Every step keeps the mail up to date, if deleting a key does not fail.
LEMMA MailStep ==
    ASSUME "pddb" \notin Faults, TypeOK, MailIsNews, [Next]_vars
    PROVE  MailIsNews'
<1>0. vq \in Seq({0, 1})
  BY DEF TypeOK
<1>1. ASSUME UNCHANGED <<pddb, vaultVars>>, bpc' \in {"ready", "delete"} => bpc \in {"ready", "delete"}
      PROVE  MailIsNews'
  BY <1>1 DEF MailIsNews, vaultVars
<1>2. CASE HostNext
  BY <1>1, <1>2 DEF HostNext, StartUpload, StartClear, HostRead, HostTimeout, badgeVars
<1>3. CASE ProcessFrames \/ ProcessGarbled
  BY <1>1, <1>3 DEF ProcessFrames, ProcessGarbled, badgeVars
<1>4. CASE ProcessChunk
  <2>1. bpc = "ready" /\ UNCHANGED <<pddb, vaultVars>>
    BY <1>4 DEF ProcessChunk, Take, badgeVars
  <2> QED
    BY <1>1, <2>1
<1>5. CASE ProcessClear
  <2>1. vq' = Append(vq, 0) /\ pddb' = NoPicture
    BY <1>5 DEF ProcessClear, DeleteKey, Fault
  <2> QED
    BY <1>0, <2>1, LastMessage DEF MailIsNews
<1>6. CASE StoreDelete \/ StoreBegin \/ StoreRest
  BY <1>6 DEF StoreDelete, StoreBegin, StoreRest, MailIsNews
<1>7. CASE StoreFinish
  <2>1. vq' = Append(vq, 1)
    BY <1>7 DEF StoreFinish
  <2> QED
    BY <1>0, <2>1, LastMessage DEF MailIsNews
<1>8. CASE ImageLoad
  <2>1. /\ vq # <<>> /\ vq' = Tail(vq)
        /\ user_frames' = IF Head(vq) = 0 THEN NoPicture ELSE Load(pddb)
        /\ UNCHANGED <<bpc, pddb>>
    BY <1>8 DEF ImageLoad, badgeVars
  <2>2. pddb = NoPicture => Load(pddb) = NoPicture
    BY DEF Load
  <2>3. Head(vq) \in {0, 1}
    BY <1>0, <2>1, HeadTailProperties
  <2> QED
    BY <1>0, <2>1, <2>2, <2>3, LastMessage DEF MailIsNews
<1>9. CASE Garble \/ Mute \/ Unplug
  BY <1>1, <1>9 DEF Garble, Mute, Unplug, badgeVars
<1>10. CASE Crash
  BY <1>10 DEF Crash, MailIsNews
<1>11. CASE UNCHANGED vars
  BY <1>1, <1>11 DEF vars, vaultVars
<1> QED
  BY <1>2, <1>3, <1>4, <1>5, <1>6, <1>7, <1>8, <1>9, <1>10, <1>11 DEF Next, ConsoleNext, FaultNext

\* Whatever is lost, late, damaged or cut off, the screen ends up showing what the
\* PDDB holds (main.rs, ImageLoad), if no delete fails silently: delete_key(..).ok()
\* would leave the picture in the key and the vault without it.
THEOREM ViewFollowsStore ==
    ASSUME "pddb" \notin Faults PROVE Spec => []ViewConverges
<1>1. Init => MailIsNews
  BY DEF Init, MailIsNews, Load
<1>2. TypeOK /\ MailIsNews /\ [Next]_vars => MailIsNews'
  BY MailStep
<1>3. MailIsNews => ViewConverges
  BY DEF MailIsNews, ViewConverges
<1> QED
  BY <1>1, <1>2, <1>3, TypeCorrect, PTL DEF Spec

-----------------------------------------------------------------------------
(* The inductive invariant of the refinement.                              *)

\* The faults under which the upload protocol keeps its promise.
NoReplyLost == Faults \subseteq {"garble", "unplug", "crash"}

\* The app waits for the answer to one line before it sends another: a line,
\* a picture being stored or a reply is under way, never two of them.
OneInFlight ==
    \/ rx = <<>> /\ tx = <<>>
    \/ bpc = "ready" /\ rx # <<>> /\ Tail(rx) = <<>> /\ tx = <<>>
    \/ bpc = "ready" /\ rx = <<>> /\ tx # <<>> /\ Tail(tx) = <<>>

\* The line under way is the one the app waits for, unless it gave up.
LineOfJob ==
    rx # <<>> /\ host.pc # "idle" =>
        \/ Head(rx) = GarbledLine
        \/ host.pc = "frames" /\ Head(rx) = FramesLine(host.n)
        \/ host.pc = "chunk" /\ Head(rx) = ChunkLine(host.f, host.c, host.img)
        \/ host.pc = "clear" /\ Head(rx) = ClearLine

\* The slots of the receive buffer that come before slot (f, c).
Before(f, c) == {s \in Slots(frame_count) : s[1] < f \/ (s[1] = f /\ s[2] < c)}

\* They all hold chunks of this picture.
Written(img, f, c) == \A s \in Before(f, c) : frames[s] = img

\* A chunk comes after the chunks of the same picture that precede it, also one
\* that is left over from an upload the app gave up.
ChunkInOrder ==
    rx # <<>> /\ Head(rx).op = "chunk" => Written(Head(rx).img, Head(rx).f, Head(rx).c)

Succeeded == tx # <<>> /\ Head(tx) = "SUCCESS"

\* How far an upload has come.
UploadInv ==
    host.pc = "chunk" /\ ~Succeeded =>
        /\ host.f < host.n
        /\ host.n = 1 \/ host.n = frame_count
        /\ Written(host.img, host.f, host.c)
        /\ tx # <<>> /\ Head(tx) = "OK" => frames[<<host.f, host.c>>] = host.img

\* What a reply tells the app it answers.
ReplyInv ==
    tx # <<>> =>
        /\ host.pc = "frames" /\ Head(tx) = "OK" => frame_count = host.n
        /\ host.pc = "chunk" /\ Head(tx) = "SUCCESS" => pddb = Whole(host.img, host.n)
        /\ host.pc = "clear" /\ Head(tx) = "CLEAR" => pddb = NoPicture

LastSlot == <<frame_count - 1, NumChunks - 1>>

\* The last slot is the last to be filled.
LastIsEmpty == bpc = "ready" => frames[LastSlot] = NoChunk

\* What is stored is one whole picture, the one the app sent if it still waits.
StoreInv ==
    bpc # "ready" =>
        /\ \E img \in Images : frames = Whole(img, frame_count)
        /\ host.pc # "idle" => host.pc = "chunk" /\ frames = Whole(host.img, host.n)
        /\ bpc = "write" => pddb = NoPicture
        /\ bpc = "writing" => pddb = Torn
        /\ bpc = "finish" => pddb = frames

ProtocolInv ==
    /\ OneInFlight /\ LineOfJob /\ ChunkInOrder
    /\ UploadInv /\ ReplyInv /\ LastIsEmpty /\ StoreInv

-----------------------------------------------------------------------------
(* Lemmas.                                                                 *)

\* A queue of one.
LEMMA OneElement ==
    ASSUME NEW x
    PROVE  /\ Append(<<>>, x) # <<>>
           /\ Head(Append(<<>>, x)) = x
           /\ Tail(Append(<<>>, x)) = <<>>
OBVIOUS

\* The fields of lines and of idle hosts.
LEMMA LineFields ==
    /\ \A n : FramesLine(n).op = "frames" /\ FramesLine(n).n = n
    /\ \A f, c, img : /\ ChunkLine(f, c, img).op = "chunk"
                      /\ ChunkLine(f, c, img).f = f
                      /\ ChunkLine(f, c, img).c = c
                      /\ ChunkLine(f, c, img).img = img
    /\ ClearLine.op = "clear"
    /\ GarbledLine.op = "garbled"
    /\ \A r : IdleHost(r).pc = "idle"
BY DEF FramesLine, ChunkLine, ClearLine, GarbledLine, IdleHost

\* With no reply lost, the app's time runs out only when nothing is under way.
LEMMA NothingUnderWay ==
    ASSUME NoReplyLost, TimeRunsOut
    PROVE  rx = <<>> /\ bpc = "ready"
BY DEF NoReplyLost, TimeRunsOut, Settled, Fault

\* What the badge has is the same, so the buffer's part of the invariant is.
LEMMA BadgeUntouched ==
    ASSUME ProtocolInv, UNCHANGED badgeVars, bpc = "ready"
    PROVE  /\ LastIsEmpty' /\ StoreInv'
           /\ \A img, f, c : Written(img, f, c)' <=> Written(img, f, c)
BY DEF ProtocolInv, badgeVars, LastIsEmpty, LastSlot, StoreInv, Written, Before

\* The app sends the line its job is at.
LEMMA SendStep ==
    ASSUME ProtocolInv, rx = <<>>, bpc = "ready", tx' = <<>>, UNCHANGED badgeVars,
           NEW line, NEW h, Send(line, h),
           \/ h.pc = "frames" /\ line = FramesLine(h.n)
           \/ /\ h.pc = "chunk" /\ line = ChunkLine(h.f, h.c, h.img)
              /\ h.f < h.n
              /\ h.n = 1 \/ h.n = frame_count
              /\ Written(h.img, h.f, h.c)
           \/ h.pc = "clear" /\ line = ClearLine
    PROVE  ProtocolInv'
<1>1. rx' # <<>> /\ Head(rx') = line /\ Tail(rx') = <<>> /\ host' = h
  BY OneElement DEF Send
<1>2. bpc' = "ready" /\ frame_count' = frame_count
  BY DEF badgeVars
<1>3. OneInFlight'
  BY <1>1, <1>2 DEF OneInFlight
<1>4. LineOfJob'
  BY <1>1 DEF LineOfJob
<1>5. ChunkInOrder'
  BY <1>1, BadgeUntouched, LineFields DEF ChunkInOrder
<1>6. UploadInv' /\ ReplyInv'
  BY <1>1, <1>2, BadgeUntouched DEF UploadInv, ReplyInv
<1> QED
  BY <1>3, <1>4, <1>5, <1>6, BadgeUntouched DEF ProtocolInv

\* The job ends while nothing is under way.
LEMMA FinishStep ==
    ASSUME ProtocolInv, rx = <<>>, bpc = "ready", tx' = <<>>, UNCHANGED badgeVars,
           NEW r, Finish(r)
    PROVE  ProtocolInv'
<1>1. host'.pc = "idle" /\ rx' = <<>> /\ bpc' = "ready"
  BY LineFields DEF Finish, badgeVars
<1> QED
  BY <1>1, BadgeUntouched
  DEF ProtocolInv, OneInFlight, LineOfJob, ChunkInOrder, UploadInv, ReplyInv

\* The app sends the chunk it sent before, or gives up.
LEMMA RetryStep ==
    ASSUME IInv, ProtocolInv, rx = <<>>, bpc = "ready", tx' = <<>>, UNCHANGED badgeVars,
           host.pc \in {"chunk", "clear"}, ~Succeeded, Retry(host)
    PROVE  ProtocolInv'
<1>1. CASE host.attempt < MaxRetries
  <2> DEFINE h == [host EXCEPT !.attempt = host.attempt + 1]
             line == IF host.pc = "clear" THEN ClearLine ELSE ChunkLine(host.f, host.c, host.img)
  <2>1. Send(line, h)
    BY <1>1 DEF Retry
  <2>2. h.pc = host.pc /\ h.f = host.f /\ h.c = host.c /\ h.n = host.n /\ h.img = host.img
    BY DEF IInv, TypeOK, HostStates
  <2>3. CASE host.pc = "clear"
    <3>1. h.pc = "clear" /\ line = ClearLine
      BY <2>2, <2>3
    <3> HIDE DEF h, line
    <3> QED
      BY <2>1, <3>1, SendStep
  <2>4. CASE host.pc = "chunk"
    <3>1. /\ h.pc = "chunk" /\ line = ChunkLine(h.f, h.c, h.img)
          /\ h.f < h.n
          /\ h.n = 1 \/ h.n = frame_count
          /\ Written(h.img, h.f, h.c)
      BY <2>2, <2>4 DEF ProtocolInv, UploadInv
    <3> HIDE DEF h, line
    <3> QED
      BY <2>1, <3>1, SendStep
  <2> QED
    BY <2>3, <2>4
<1>2. CASE ~(host.attempt < MaxRetries)
  BY <1>2, FinishStep DEF Retry
<1> QED
  BY <1>1, <1>2

\* What is known of the slot the app is at.
LEMMA HostSlot ==
    ASSUME TypeOK, ProtocolInv, host.pc = "chunk", ~Succeeded
    PROVE  /\ host.f \in Nat /\ host.c \in Nat /\ host.n \in Nat
           /\ host.f < host.n /\ host.f < frame_count /\ host.c < NumChunks
           /\ <<host.f, host.c>> \in Slots(frame_count)
<1>1. /\ host.f \in 0 .. MaxFrames-1 /\ host.c \in 0 .. NumChunks-1
      /\ host.n \in 1 .. MaxFrames /\ frame_count \in 1 .. MaxFrames
  BY DEF TypeOK, HostStates
<1>2. host.f < host.n /\ (host.n = 1 \/ host.n = frame_count)
  BY DEF ProtocolInv, UploadInv
<1>3. host.f < frame_count
  BY <1>1, <1>2
<1> QED
  BY <1>1, <1>2, <1>3, SizesAssumption DEF Slots

\* The chunks before the next one are the chunks before this one and this one.
LEMMA BeforeNext ==
    ASSUME frame_count \in Nat, NEW f \in Nat, NEW c \in Nat, c < NumChunks
    PROVE  /\ Before(f, c + 1) \subseteq Before(f, c) \cup {<<f, c>>}
           /\ c + 1 = NumChunks => Before(f + 1, 0) \subseteq Before(f, c) \cup {<<f, c>>}
           /\ Before(0, 0) = {}
<1>1. ASSUME NEW s \in Slots(frame_count)
      PROVE  s = <<s[1], s[2]>> /\ s[1] \in Nat /\ s[2] \in Nat /\ s[2] < NumChunks
  BY SizesAssumption DEF Slots
<1>2. ASSUME NEW s \in Before(f, c + 1) PROVE s \in Before(f, c) \cup {<<f, c>>}
  BY <1>1, SizesAssumption DEF Before
<1>3. ASSUME c + 1 = NumChunks, NEW s \in Before(f + 1, 0)
      PROVE  s \in Before(f, c) \cup {<<f, c>>}
  BY <1>1, <1>3, SizesAssumption DEF Before
<1>4. Before(0, 0) = {}
  BY <1>1 DEF Before
<1> QED
  BY <1>2, <1>3, <1>4

-----------------------------------------------------------------------------
(* The protocol keeps its invariant.                                       *)

\* The first chunk of an upload: nothing comes before it.
LEMMA FirstChunkStep ==
    ASSUME IInv, ProtocolInv, rx = <<>>, bpc = "ready", tx' = <<>>, UNCHANGED badgeVars,
           NEW h \in HostStates, h.n = 1 \/ h.n = frame_count, SendChunk(h, 0, 0)
    PROVE  ProtocolInv'
<1> DEFINE g == [pc |-> "chunk", img |-> h.img, n |-> h.n, f |-> 0, c |-> 0,
                  attempt |-> 0, result |-> "none"]
<1>1. Before(0, 0) = {}
  BY BeforeNext, SizesAssumption DEF IInv, TypeOK
<1>2. g.pc = "chunk" /\ g.f = 0 /\ g.c = 0 /\ g.n = h.n /\ g.img = h.img
  OBVIOUS
<1>3. Send(ChunkLine(g.f, g.c, g.img), g)
  BY <1>2 DEF SendChunk
<1>4. g.f < g.n
  BY <1>2, SizesAssumption DEF HostStates
<1>5. Written(g.img, g.f, g.c)
  BY <1>1, <1>2 DEF Written
<1> HIDE DEF g
<1> QED
  BY <1>2, <1>3, <1>4, <1>5, SendStep

\* The next chunk: this one has been written.
LEMMA NextChunkStep ==
    ASSUME IInv, ProtocolInv, rx = <<>>, bpc = "ready", tx' = <<>>, UNCHANGED badgeVars,
           host.pc = "chunk", tx # <<>>, Head(tx) = "OK", NextChunk(host)
    PROVE  ProtocolInv'
<1>0. TypeOK /\ ~Succeeded
  BY DEF IInv, Succeeded
<1>1. /\ host.f \in Nat /\ host.c \in Nat /\ host.n \in Nat /\ host.c < NumChunks
      /\ host.f < host.n /\ <<host.f, host.c>> \in Slots(frame_count)
  BY <1>0, HostSlot
<1>2. /\ host.n = 1 \/ host.n = frame_count
      /\ Written(host.img, host.f, host.c)
      /\ frames[<<host.f, host.c>>] = host.img
  BY <1>0 DEF ProtocolInv, UploadInv
<1>3. frame_count \in Nat
  BY <1>0 DEF TypeOK
<1>4. ASSUME NEW f \in Nat, NEW c \in Nat, f < host.n, SendChunk(host, f, c),
             Before(f, c) \subseteq Before(host.f, host.c) \cup {<<host.f, host.c>>}
      PROVE  ProtocolInv'
  <2> DEFINE g == [pc |-> "chunk", img |-> host.img, n |-> host.n, f |-> f, c |-> c,
                    attempt |-> 0, result |-> "none"]
  <2>1. g.pc = "chunk" /\ g.f = f /\ g.c = c /\ g.n = host.n /\ g.img = host.img
    OBVIOUS
  <2>2. Send(ChunkLine(g.f, g.c, g.img), g)
    BY <1>4, <2>1 DEF SendChunk
  <2>3. Written(g.img, g.f, g.c)
    BY <1>2, <1>4, <2>1 DEF Written
  <2>4. g.f < g.n /\ (g.n = 1 \/ g.n = frame_count)
    BY <1>2, <1>4, <2>1
  <2> HIDE DEF g
  <2> QED
    BY <2>1, <2>2, <2>3, <2>4, SendStep
<1>5. CASE host.c + 1 < NumChunks /\ SendChunk(host, host.f, host.c + 1)
  BY <1>1, <1>3, <1>4, <1>5, BeforeNext
<1>6. CASE host.c + 1 = NumChunks /\ host.f + 1 < host.n /\ SendChunk(host, host.f + 1, 0)
  BY <1>1, <1>3, <1>4, <1>6, BeforeNext
<1>7. CASE Finish("failed")
  BY <1>7, FinishStep
<1> QED
  BY <1>5, <1>6, <1>7 DEF NextChunk

\* The steps of the app.
LEMMA HostProtocol ==
    ASSUME NoReplyLost, IInv, ProtocolInv, HostNext
    PROVE  ProtocolInv'
<1>0. TypeOK /\ host \in HostStates
  BY DEF IInv, TypeOK
<1>1. ASSUME NEW img \in Images, NEW n \in 1 .. MaxFrames, StartUpload(img, n)
      PROVE  ProtocolInv'
  <2>1. rx = <<>> /\ bpc = "ready" /\ tx' = <<>> /\ UNCHANGED badgeVars
    BY <1>1, NothingUnderWay DEF StartUpload, StartJob
  <2>2. CASE Send(FramesLine(n), NewJob("frames", img, n))
    <3>1. NewJob("frames", img, n).pc = "frames" /\ NewJob("frames", img, n).n = n
      BY DEF NewJob
    <3> QED
      BY <2>1, <2>2, <3>1, SendStep
  <2>3. CASE n = 1 /\ SendChunk(NewJob("chunk", img, n), 0, 0)
    <3>1. NewJob("chunk", img, n) \in HostStates /\ NewJob("chunk", img, n).n = 1
      BY <2>3, NewJobFact DEF NewJob, Chunks
    <3> QED
      BY <2>1, <2>3, <3>1, FirstChunkStep
  <2> QED
    BY <1>1, <2>2, <2>3 DEF StartUpload
<1>2. CASE StartClear
  <2>1. rx = <<>> /\ bpc = "ready" /\ tx' = <<>> /\ UNCHANGED badgeVars
    BY <1>2, NothingUnderWay DEF StartClear, StartJob
  <2>2. NewJob("clear", NoChunk, 1).pc = "clear"
    BY DEF NewJob
  <2> QED
    BY <1>2, <2>1, <2>2, SendStep DEF StartClear
<1>3. CASE HostRead
  <2>1. /\ tx # <<>> /\ rx = <<>> /\ bpc = "ready" /\ tx' = <<>> /\ UNCHANGED badgeVars
        /\ host.pc # "idle"
    BY <1>3 DEF HostRead, ProtocolInv, OneInFlight
  <2>2. CASE host.pc = "frames" /\ Head(tx) = "OK" /\ SendChunk(host, 0, 0)
    <3>1. host.n = frame_count
      BY <2>1, <2>2 DEF ProtocolInv, ReplyInv
    <3> QED
      BY <1>0, <2>1, <2>2, <3>1, FirstChunkStep
  <2>3. ASSUME NEW r, Finish(r) PROVE ProtocolInv'
    BY <2>1, <2>3, FinishStep
  <2>4. CASE host.pc = "chunk" /\ Head(tx) = "OK" /\ NextChunk(host)
    BY <2>1, <2>4, NextChunkStep
  <2>5. CASE host.pc = "chunk" /\ Head(tx) = "ERR" /\ Retry(host)
    BY <2>1, <2>5, RetryStep DEF Succeeded
  <2>6. CASE Head(tx) \notin Tokens(host.pc) /\ UNCHANGED <<host, rx>>
    <3>1. host.pc = "chunk" => ~Succeeded
      BY <2>6 DEF Succeeded, Tokens
    <3>2. UploadInv' /\ ReplyInv'
      BY <2>1, <2>6, <3>1, BadgeUntouched DEF ProtocolInv, UploadInv, ReplyInv, badgeVars
    <3>3. OneInFlight' /\ LineOfJob' /\ ChunkInOrder'
      BY <2>1, <2>6 DEF OneInFlight, LineOfJob, ChunkInOrder
    <3> QED
      BY <2>1, <3>2, <3>3, BadgeUntouched DEF ProtocolInv
  <2> QED
    BY <1>3, <2>2, <2>3, <2>4, <2>5, <2>6 DEF HostRead
<1>4. CASE HostTimeout
  <2>1. tx = <<>> /\ rx = <<>> /\ bpc = "ready" /\ tx' = <<>> /\ UNCHANGED badgeVars
    BY <1>4, NothingUnderWay DEF HostTimeout
  <2>2. CASE Finish("failed")
    BY <2>1, <2>2, FinishStep
  <2>3. CASE host.pc # "frames" /\ Retry(host)
    <3>1. host.pc \in {"chunk", "clear"} /\ ~Succeeded
      BY <1>0, <1>4, <2>1, <2>3 DEF HostTimeout, HostStates, Succeeded
    <3> QED
      BY <2>1, <2>3, <3>1, RetryStep
  <2> QED
    BY <1>4, <2>2, <2>3 DEF HostTimeout
<1> QED
  BY <1>1, <1>2, <1>3, <1>4 DEF HostNext

\* The console takes the only line there is.
LEMMA TakeOnly ==
    ASSUME ProtocolInv, NEW op, Take(op)
    PROVE  bpc = "ready" /\ rx # <<>> /\ Head(rx).op = op /\ tx = <<>> /\ rx' = <<>>
BY DEF ProtocolInv, OneInFlight, Take

\* The reply is then the only thing under way.
LEMMA ReplyOnly ==
    ASSUME rx' = <<>>, tx = <<>>, bpc' = "ready", NEW r, Reply(r)
    PROVE  /\ tx' # <<>> /\ Head(tx') = r
           /\ OneInFlight' /\ LineOfJob' /\ ChunkInOrder'
BY OneElement DEF Reply, OneInFlight, LineOfJob, ChunkInOrder

\* A buffer that was just reset has an empty last slot.
LEMMA ResetLast ==
    ASSUME NEW n \in Nat \ {0}, Reset(n), bpc' = "ready"
    PROVE  LastIsEmpty' /\ StoreInv'
<1>1. <<n - 1, NumChunks - 1>> \in Slots(n)
  BY SizesAssumption DEF Slots
<1> QED
  BY <1>1 DEF Reset, Blank, LastIsEmpty, LastSlot, StoreInv

\* The chunk for the last slot completes the picture, no other does.
LEMMA ChunkStep ==
    ASSUME IInv, ProtocolInv, ProcessChunk
    PROVE  ProtocolInv'
<1> DEFINE line == Head(rx)
           slot == <<line.f, line.c>>
<1>0. /\ TypeOK /\ CountIsFilled
      /\ frame_count \in Nat \ {0} /\ frames \in [Slots(frame_count) -> Chunks]
  BY DEF IInv, TypeOK
<1>1. /\ bpc = "ready" /\ rx # <<>> /\ line.op = "chunk" /\ tx = <<>> /\ rx' = <<>>
      /\ UNCHANGED <<hostVars, vaultVars, faults>>
  BY TakeOnly DEF ProcessChunk
<1>2. line.f \in Nat /\ line.c \in 0 .. NumChunks-1 /\ line.img \in Images
  <2>1. line \in Lines
    BY <1>0, TakeFact DEF ProcessChunk
  <2> QED
    BY <1>1, <2>1 DEF Lines
<1>3. Written(line.img, line.f, line.c)
  BY <1>1 DEF ProtocolInv, ChunkInOrder
<1>4. host.pc # "idle" => host.pc = "chunk" /\ line = ChunkLine(host.f, host.c, host.img)
  BY <1>1, LineFields DEF ProtocolInv, LineOfJob
<1>5. host.pc # "idle" => line.f = host.f /\ line.c = host.c /\ line.img = host.img
  BY <1>4, LineFields
<1>6. ~Succeeded
  BY <1>1 DEF Succeeded
<1>7. host.pc # "idle" => line.f < frame_count /\ (host.n = 1 \/ host.n = frame_count)
  BY <1>0, <1>4, <1>5, <1>6, HostSlot DEF ProtocolInv, UploadInv
<1>8. host' = host
  BY <1>1 DEF hostVars
<1>9. CASE line.f >= frame_count
  <2>1. Reply("noise") /\ UNCHANGED badgeVars
    BY <1>9 DEF ProcessChunk
  <2>2. host.pc = "idle"
    BY <1>0, <1>2, <1>7, <1>9
  <2>3. bpc' = "ready"
    BY <1>1, <2>1 DEF badgeVars
  <2>4. UploadInv' /\ ReplyInv'
    BY <1>8, <2>2 DEF UploadInv, ReplyInv
  <2> QED
    BY <1>1, <2>1, <2>3, <2>4, ReplyOnly, BadgeUntouched DEF ProtocolInv
<1>10. CASE ~(line.f >= frame_count)
  <2>1. /\ frames' = [frames EXCEPT ![slot] = line.img]
        /\ received_count' = CountWith(slot)
        /\ \/ is_complete(CountWith(slot)) /\ bpc' = "delete" /\ UNCHANGED tx
           \/ ~is_complete(CountWith(slot)) /\ Reply("OK") /\ UNCHANGED bpc
        /\ UNCHANGED <<frame_count, pddb>>
    BY <1>10 DEF ProcessChunk
  <2>2. slot \in Slots(frame_count)
    BY <1>0, <1>2, <1>10 DEF Slots
  <2>3. /\ CountIsFilled'
        /\ is_complete(CountWith(slot)) => Filled' = Slots(frame_count')
    BY <1>0, <1>2, <2>1, <2>2, ChunkFact
  <2>4. LastSlot \in Slots(frame_count)
    BY <1>0, SizesAssumption DEF LastSlot, Slots
  <2>5. frames[LastSlot] = NoChunk
    BY <1>1 DEF ProtocolInv, LastIsEmpty
  <2>6. \A s \in Slots(frame_count) : s # slot => frames'[s] = frames[s]
    BY <1>0, <2>1
  <2>7. frames'[slot] = line.img
    BY <1>0, <2>1, <2>2
  <2>8. CASE slot = LastSlot
    <3>1. \A s \in Slots(frame_count) : s \in Before(line.f, line.c) \cup {slot}
      <4>1. line.f = frame_count - 1 /\ line.c = NumChunks - 1
        BY <2>8 DEF LastSlot
      <4>2. ASSUME NEW s \in Slots(frame_count)
            PROVE  /\ s = <<s[1], s[2]>> /\ s[1] \in Nat /\ s[2] \in Nat
                   /\ s[1] < frame_count /\ s[2] < NumChunks
        BY <1>0, SizesAssumption DEF Slots
      <4> QED
        BY <1>0, <4>1, <4>2, SizesAssumption DEF Before
    <3>2. \A s \in Slots(frame_count) : frames'[s] = line.img
      BY <1>3, <2>6, <2>7, <3>1 DEF Written
    <3>3. frames' = Whole(line.img, frame_count)
      BY <1>0, <2>1, <3>2 DEF Whole
    <3>4. Filled' = Slots(frame_count)
      BY <1>2, <2>1, <3>2, ImagesAssumption DEF Filled
    <3>5. Cardinality(Filled') = NumChunks * frame_count
      BY <1>0, <3>4, SlotsSize
    <3>6. is_complete(CountWith(slot))
      BY <2>1, <2>3, <3>5 DEF CountIsFilled, is_complete
    <3>7. bpc' = "delete" /\ tx' = <<>>
      BY <1>1, <2>1, <3>6
    <3>8. host.pc # "idle" => host.pc = "chunk" /\ host.n = frame_count
      <4>1. line.f = frame_count - 1
        BY <2>8 DEF LastSlot
      <4>2. host.pc # "idle" => host.f < host.n /\ host.f \in Nat /\ host.n \in Nat
        BY <1>0, <1>4, <1>6, HostSlot
      <4> QED
        BY <1>0, <1>4, <1>5, <1>7, <4>1, <4>2
    <3>9. StoreInv'
      BY <1>2, <1>5, <1>8, <2>1, <3>3, <3>7, <3>8 DEF StoreInv
    <3>10. LastIsEmpty' /\ OneInFlight' /\ LineOfJob' /\ ChunkInOrder' /\ ReplyInv'
      BY <1>1, <3>7 DEF LastIsEmpty, OneInFlight, LineOfJob, ChunkInOrder, ReplyInv
    <3>11. UploadInv'
      <4>1. ASSUME host.pc = "chunk"
            PROVE  Written(host.img, host.f, host.c)' /\ host.f < host.n
        BY <1>0, <1>5, <1>6, <2>1, <3>2, <4>1, HostSlot, <1>8 DEF Written, Before
      <4> QED
        BY <1>8, <2>1, <3>7, <3>8, <4>1 DEF UploadInv
    <3> QED
      BY <3>9, <3>10, <3>11 DEF ProtocolInv
  <2>9. CASE slot # LastSlot
    <3>1. frames'[LastSlot] = NoChunk
      BY <2>4, <2>5, <2>6, <2>9
    <3>2. Filled' # Slots(frame_count')
      BY <2>1, <2>4, <3>1 DEF Filled
    <3>3. Reply("OK") /\ bpc' = "ready"
      BY <1>1, <2>1, <2>3, <3>2
    <3>4. tx' # <<>> /\ Head(tx') = "OK" /\ OneInFlight' /\ LineOfJob' /\ ChunkInOrder'
      BY <1>1, <3>3, ReplyOnly
    <3>5. LastIsEmpty' /\ StoreInv'
      BY <2>1, <3>1, <3>3 DEF LastIsEmpty, LastSlot, StoreInv
    <3>6. \A s \in Before(line.f, line.c) : frames'[s] = line.img
      BY <1>3, <2>6, <2>7 DEF Written, Before
    <3>7. UploadInv'
      BY <1>4, <1>5, <1>6, <1>8, <2>1, <2>7, <3>6 DEF ProtocolInv, UploadInv, Written, Before
    <3>8. ReplyInv'
      BY <1>4, <1>8, <3>4 DEF ReplyInv
    <3> QED
      BY <3>4, <3>5, <3>7, <3>8 DEF ProtocolInv
  <2> QED
    BY <2>8, <2>9
<1> QED
  BY <1>9, <1>10

\* Writing to a key that holds nothing leaves what was written.
LEMMA OverlayNothing ==
    ASSUME TypeOK PROVE Overlay(NoPicture, frames) = frames
BY NoPictureFact DEF TypeOK, Overlay

\* A whole picture is a picture, and loads as itself.
LEMMA WholeFact ==
    ASSUME NEW img \in Images, NEW n \in 1 .. MaxFrames
    PROVE  /\ Whole(img, n) \in Pictures /\ Whole(img, n) # Torn
           /\ Load(Whole(img, n)) = Whole(img, n)
<1>1. Whole(img, n) \in [Slots(n) -> Chunks] /\ n \in 0 .. MaxFrames
  BY DEF Whole, Chunks
<1> QED
  BY <1>1, IsPicture, TornAssumption DEF Load

\* A deleted key is empty.
LEMMA DeleteWorks ==
    ASSUME NoReplyLost, DeleteKey PROVE pddb' = NoPicture
BY DEF NoReplyLost, DeleteKey, Fault

\* The first step of writing a picture of several frames leaves a ragged key.
LEMMA WriteTears ==
    ASSUME TypeOK, frame_count > 1
    PROVE  ~(Slots(frame_count) \subseteq DOMAIN NoPicture)
<1>1. <<0, 0>> \in Slots(frame_count)
  BY SizesAssumption DEF TypeOK, Slots
<1> QED
  BY <1>1, NoPictureFact

\* What the key holds at each point of the store sequence.
LEMMA StoreStep ==
    ASSUME NoReplyLost, IInv, ProtocolInv, StoreDelete \/ StoreBegin \/ StoreRest
    PROVE  /\ ProtocolInv'
           /\ bpc' = "write" => pddb' = NoPicture
           /\ bpc' = "writing" => pddb = NoPicture /\ pddb' = Torn
           /\ bpc' = "finish" => pddb' = frames
<1>0. TypeOK /\ frame_count \in 1 .. MaxFrames
  BY DEF IInv, TypeOK
<1>1. /\ bpc # "ready" /\ bpc' \in {"write", "writing", "finish"}
      /\ UNCHANGED <<hostVars, rx, tx, frame_count, frames>>
  BY DEF StoreDelete, StoreBegin, StoreRest
<1>2. rx = <<>> /\ tx = <<>>
  BY <1>1 DEF ProtocolInv, OneInFlight
<1>3. /\ bpc' = "write" => pddb' = NoPicture
      /\ bpc' = "writing" => pddb = NoPicture /\ pddb' = Torn
      /\ bpc' = "finish" => pddb' = frames
  <2>1. CASE StoreDelete
    BY <2>1, DeleteWorks DEF StoreDelete
  <2>2. CASE StoreBegin
    <3>1. pddb = NoPicture /\ Load(NoPicture) = NoPicture
      BY <2>2 DEF StoreBegin, ProtocolInv, StoreInv, Load
    <3>2. ~Fault("pddb")
      BY DEF NoReplyLost, Fault
    <3>3. CASE bpc' = "finish"
      BY <1>0, <2>2, <3>1, <3>2, <3>3, OverlayNothing DEF StoreBegin
    <3>4. CASE bpc' = "writing"
      BY <1>0, <2>2, <3>1, <3>2, <3>4, WriteTears DEF StoreBegin
    <3> QED
      BY <2>2, <3>3, <3>4 DEF StoreBegin
  <2>3. CASE StoreRest
    <3>1. pddb = Torn /\ Load(pddb) = NoPicture
      BY <2>3 DEF StoreRest, ProtocolInv, StoreInv, Load
    <3>2. ~Fault("pddb")
      BY DEF NoReplyLost, Fault
    <3> QED
      BY <1>0, <2>3, <3>1, <3>2, OverlayNothing DEF StoreRest
  <2> QED
    BY <2>1, <2>2, <2>3
<1>4. StoreInv'
  BY <1>1, <1>3 DEF ProtocolInv, StoreInv, hostVars
<1>5. OneInFlight' /\ LineOfJob' /\ ChunkInOrder' /\ ReplyInv' /\ LastIsEmpty'
  BY <1>1, <1>2 DEF OneInFlight, LineOfJob, ChunkInOrder, ReplyInv, LastIsEmpty
<1>6. UploadInv'
  BY <1>1, <1>2 DEF ProtocolInv, UploadInv, Succeeded, Written, Before, hostVars
<1> QED
  BY <1>3, <1>4, <1>5, <1>6 DEF ProtocolInv

\* The steps of the console.
LEMMA ConsoleProtocol ==
    ASSUME NoReplyLost, IInv, ProtocolInv, ConsoleNext
    PROVE  ProtocolInv'
<1>0. TypeOK
  BY DEF IInv
<1>1. CASE ProcessFrames
  <2> DEFINE n == Head(rx).n
  <2>1. /\ bpc = "ready" /\ rx # <<>> /\ Head(rx).op = "frames" /\ tx = <<>> /\ rx' = <<>>
        /\ Reset(n) /\ Reply("OK") /\ UNCHANGED <<hostVars, bpc, pddb>>
    BY <1>1, TakeOnly DEF ProcessFrames
  <2>2. n \in Nat \ {0}
    BY <1>0, <1>1, TakeFact DEF ProcessFrames, Take, Lines
  <2>3. host.pc # "idle" => host.pc = "frames" /\ n = host.n
    BY <2>1, LineFields DEF ProtocolInv, LineOfJob
  <2>4. LastIsEmpty' /\ StoreInv'
    BY <2>1, <2>2, ResetLast
  <2>5. tx' # <<>> /\ Head(tx') = "OK" /\ OneInFlight' /\ LineOfJob' /\ ChunkInOrder'
    BY <2>1, ReplyOnly
  <2>6. UploadInv' /\ ReplyInv'
    BY <2>1, <2>3, <2>5 DEF UploadInv, ReplyInv, hostVars, Reset
  <2> QED
    BY <2>4, <2>5, <2>6 DEF ProtocolInv
<1>2. CASE ProcessClear
  <2>1. /\ bpc = "ready" /\ rx # <<>> /\ Head(rx).op = "clear" /\ tx = <<>> /\ rx' = <<>>
        /\ Reset(1) /\ Reply("CLEAR") /\ UNCHANGED <<hostVars, bpc>> /\ pddb' = NoPicture
    BY <1>2, TakeOnly, DeleteWorks DEF ProcessClear
  <2>2. host.pc # "idle" => host.pc = "clear"
    BY <2>1, LineFields DEF ProtocolInv, LineOfJob
  <2>3. LastIsEmpty' /\ StoreInv'
    BY <2>1, ResetLast
  <2>4. tx' # <<>> /\ Head(tx') = "CLEAR" /\ OneInFlight' /\ LineOfJob' /\ ChunkInOrder'
    BY <2>1, ReplyOnly
  <2>5. UploadInv' /\ ReplyInv'
    BY <2>1, <2>2, <2>4 DEF UploadInv, ReplyInv, hostVars
  <2> QED
    BY <2>3, <2>4, <2>5 DEF ProtocolInv
<1>3. CASE ProcessGarbled
  <2>1. PICK r \in {"ERR", "noise"} : Reply(r)
    BY <1>3 DEF ProcessGarbled
  <2>2. /\ bpc = "ready" /\ tx = <<>> /\ rx' = <<>> /\ bpc' = "ready"
        /\ UNCHANGED <<hostVars, badgeVars>>
    BY <1>3, TakeOnly DEF ProcessGarbled, badgeVars
  <2>3. tx' # <<>> /\ Head(tx') = r /\ OneInFlight' /\ LineOfJob' /\ ChunkInOrder'
    BY <2>1, <2>2, ReplyOnly
  <2>4. ~Succeeded /\ ~Succeeded'
    BY <2>2, <2>3 DEF Succeeded
  <2>5. UploadInv' /\ ReplyInv'
    BY <2>2, <2>3, <2>4, BadgeUntouched DEF ProtocolInv, UploadInv, ReplyInv, hostVars, badgeVars
  <2> QED
    BY <2>2, <2>3, <2>5, BadgeUntouched DEF ProtocolInv
<1>4. CASE ProcessChunk
  BY <1>4, ChunkStep
<1>5. CASE StoreDelete \/ StoreBegin \/ StoreRest
  BY <1>5, StoreStep
<1>6. CASE StoreFinish
  <2>1. /\ bpc = "finish" /\ bpc' = "ready" /\ Reset(1) /\ Reply("SUCCESS")
        /\ UNCHANGED <<hostVars, rx, pddb>>
    BY <1>6 DEF StoreFinish
  <2>2. rx = <<>> /\ tx = <<>>
    BY <2>1 DEF ProtocolInv, OneInFlight
  <2>3. host.pc # "idle" => host.pc = "chunk" /\ pddb = Whole(host.img, host.n)
    BY <2>1 DEF ProtocolInv, StoreInv
  <2>4. LastIsEmpty' /\ StoreInv'
    BY <2>1, ResetLast
  <2>5. tx' # <<>> /\ Head(tx') = "SUCCESS" /\ OneInFlight' /\ LineOfJob' /\ ChunkInOrder'
    BY <2>1, <2>2, ReplyOnly
  <2>6. UploadInv' /\ ReplyInv'
    BY <2>1, <2>3, <2>5 DEF UploadInv, ReplyInv, Succeeded, hostVars, Whole
  <2> QED
    BY <2>4, <2>5, <2>6 DEF ProtocolInv
<1> QED
  BY <1>1, <1>2, <1>3, <1>4, <1>5, <1>6 DEF ConsoleNext

\* A damaged line, a pulled cable and a loss of power.
LEMMA FaultProtocol ==
    ASSUME NoReplyLost, IInv, ProtocolInv, FaultNext
    PROVE  ProtocolInv'
<1>1. CASE Garble
  <2>1. /\ rx # <<>> /\ rx' = [rx EXCEPT ![1] = GarbledLine]
        /\ UNCHANGED <<hostVars, tx, badgeVars>>
    BY <1>1 DEF Garble
  <2>2. bpc = "ready" /\ Tail(rx) = <<>> /\ tx = <<>> /\ rx \in Seq(Lines)
    BY <2>1 DEF ProtocolInv, OneInFlight, IInv, TypeOK
  <2>3. rx' # <<>> /\ Head(rx') = GarbledLine /\ Tail(rx') = <<>>
    <3>1. Len(rx) = 1
      <4>1. Len(Tail(rx)) = Len(rx) - 1 /\ Len(rx) \in Nat
        BY <2>1, <2>2, HeadTailProperties, LenProperties
      <4>2. Len(Tail(rx)) = 0
        BY <2>2, EmptySeq
      <4> QED
        BY <4>1, <4>2
    <3>2. rx' = <<GarbledLine>>
      BY <2>1, <2>2, <3>1
    <3> QED
      BY <3>2
  <2>4. OneInFlight' /\ LineOfJob' /\ ChunkInOrder'
    BY <2>1, <2>2, <2>3, LineFields DEF OneInFlight, LineOfJob, ChunkInOrder, badgeVars
  <2>5. UploadInv' /\ ReplyInv'
    BY <2>1, <2>2, BadgeUntouched DEF ProtocolInv, UploadInv, ReplyInv, Succeeded, hostVars, badgeVars
  <2> QED
    BY <2>1, <2>2, <2>4, <2>5, BadgeUntouched DEF ProtocolInv
<1>2. CASE Mute
  BY <1>2 DEF Mute, Fault, NoReplyLost
<1>3. ASSUME Disconnect PROVE host'.pc = "idle" /\ tx' = <<>>
  BY <1>3, LineFields DEF Disconnect
<1>4. CASE Unplug
  <2>1. /\ host'.pc = "idle" /\ tx' = <<>> /\ (rx' = rx \/ rx' = <<>>) /\ UNCHANGED badgeVars
    BY <1>3, <1>4 DEF Unplug
  <2>2. OneInFlight'
    BY <2>1 DEF ProtocolInv, OneInFlight, badgeVars
  <2>3. LineOfJob' /\ UploadInv' /\ ReplyInv'
    BY <2>1 DEF LineOfJob, UploadInv, ReplyInv
  <2>4. ChunkInOrder'
    BY <2>1 DEF ProtocolInv, ChunkInOrder, Written, Before, badgeVars
  <2>5. LastIsEmpty' /\ StoreInv'
    BY <2>1 DEF ProtocolInv, LastIsEmpty, LastSlot, StoreInv, badgeVars
  <2> QED
    BY <2>2, <2>3, <2>4, <2>5 DEF ProtocolInv
<1>5. CASE Crash
  <2>1. host'.pc = "idle" /\ tx' = <<>> /\ rx' = <<>> /\ bpc' = "ready" /\ Reset(1)
    BY <1>3, <1>5 DEF Crash
  <2>2. LastIsEmpty' /\ StoreInv'
    BY <2>1, ResetLast
  <2> QED
    BY <2>1, <2>2
    DEF ProtocolInv, OneInFlight, LineOfJob, ChunkInOrder, UploadInv, ReplyInv
<1> QED
  BY <1>1, <1>2, <1>4, <1>5 DEF FaultNext

\* Neither the vault nor a stuttering step touches the protocol.
LEMMA RestProtocol ==
    ASSUME ProtocolInv, UNCHANGED <<hostVars, rx, tx, badgeVars>>
    PROVE  ProtocolInv'
BY DEF ProtocolInv, OneInFlight, LineOfJob, ChunkInOrder, UploadInv, ReplyInv, LastIsEmpty,
       StoreInv, Succeeded, Written, Before, LastSlot, hostVars, badgeVars

\* The protocol's invariant holds in every behaviour in which no reply is lost.
LEMMA ProtocolInvariance ==
    ASSUME NoReplyLost PROVE Spec => [](IInv /\ ProtocolInv)
<1>1. Init => ProtocolInv
  <2> SUFFICES ASSUME Init PROVE ProtocolInv
    OBVIOUS
  <2>1. host.pc = "idle" /\ rx = <<>> /\ tx = <<>> /\ bpc = "ready"
    BY LineFields DEF Init
  <2>2. frames[LastSlot] = NoChunk
    <3>1. <<0, NumChunks - 1>> \in Slots(1)
      BY SizesAssumption DEF Slots
    <3> QED
      BY <3>1 DEF Init, Blank, LastSlot
  <2> QED
    BY <2>1, <2>2
    DEF ProtocolInv, OneInFlight, LineOfJob, ChunkInOrder, UploadInv, ReplyInv, LastIsEmpty,
        StoreInv
<1>2. IInv /\ ProtocolInv /\ [Next]_vars => ProtocolInv'
  <2> SUFFICES ASSUME IInv, ProtocolInv, [Next]_vars PROVE ProtocolInv'
    OBVIOUS
  <2>1. CASE ImageLoad
    BY <2>1, RestProtocol DEF ImageLoad
  <2>2. CASE UNCHANGED vars
    BY <2>2, RestProtocol DEF vars, hostVars, badgeVars
  <2> QED
    BY <2>1, <2>2, HostProtocol, ConsoleProtocol, FaultProtocol DEF Next
<1> QED
  BY <1>1, <1>2, Invariance, PTL DEF Spec

-----------------------------------------------------------------------------
(* Theorems.                                                               *)

\* A job that goes on has reported nothing yet.
JobOpen == host.pc # "idle" => host.result = "none"

Uploading(h) == h.pc \in {"frames", "chunk"}

\* The app begins a job, goes on with it, or reports how it ended.
Asks ==
    /\ host.pc = "idle" /\ host'.pc # "idle" /\ host'.result = "none"
    /\ Uploading(host') => host'.img \in Images /\ host'.n \in 1 .. MaxFrames

GoesOn ==
    /\ host.pc # "idle" /\ host'.pc # "idle" /\ host'.result = "none"
    /\ Uploading(host') <=> Uploading(host)
    /\ host'.img = host.img /\ host'.n = host.n

Fails == host.pc # "idle" /\ host' = IdleHost("failed")

Succeeds ==
    \/ host.pc = "chunk" /\ host' = IdleHost("success") /\ pddb = Whole(host.img, host.n)
    \/ host.pc = "clear" /\ host' = IdleHost("cleared") /\ pddb = NoPicture

\* The badge's key changes, for another whole picture or for none.
Stores == Load(pddb') = NoPicture \/ \E img \in Images, n \in 1 .. MaxFrames : pddb' = Whole(img, n)

\* A retry goes on with the job or gives it up.
LEMMA RetryMoves ==
    ASSUME TypeOK, JobOpen, host.pc # "idle", Retry(host)
    PROVE  GoesOn \/ Fails
<1>1. CASE host.attempt < MaxRetries
  <2>1. host' = [host EXCEPT !.attempt = host.attempt + 1]
    BY <1>1 DEF Retry, Send
  <2> QED
    BY <2>1 DEF TypeOK, HostStates, JobOpen, GoesOn, Uploading
<1>2. CASE ~(host.attempt < MaxRetries)
  BY <1>2 DEF Retry, Finish, Fails
<1> QED
  BY <1>1, <1>2

\* Sending a chunk goes on with an upload.
LEMMA SendMoves ==
    ASSUME NEW f, NEW c, SendChunk(host, f, c), Uploading(host)
    PROVE  GoesOn
BY DEF SendChunk, Send, GoesOn, Uploading

\* What the app's steps are, seen from outside.
LEMMA HostMoves ==
    ASSUME IInv, ProtocolInv, JobOpen, HostNext
    PROVE  UNCHANGED pddb /\ (UNCHANGED host \/ Asks \/ GoesOn \/ Fails \/ Succeeds)
<1>0. TypeOK
  BY DEF IInv
<1>1. ASSUME NEW img \in Images, NEW n \in 1 .. MaxFrames, StartUpload(img, n)
      PROVE  UNCHANGED pddb /\ Asks
  BY <1>1 DEF StartUpload, StartJob, Send, SendChunk, NewJob, Asks, Uploading, badgeVars
<1>2. CASE StartClear
  BY <1>2 DEF StartClear, StartJob, Send, NewJob, Asks, Uploading, badgeVars
<1>3. CASE HostRead
  <2>1. host.pc # "idle" /\ tx # <<>> /\ UNCHANGED pddb
    BY <1>3 DEF HostRead, badgeVars
  <2>2. CASE host.pc = "frames" /\ Head(tx) = "OK" /\ SendChunk(host, 0, 0)
    BY <2>1, <2>2, SendMoves DEF Uploading
  <2>3. CASE Finish("failed")
    BY <2>1, <2>3 DEF Finish, Fails
  <2>4. CASE host.pc = "chunk" /\ Head(tx) = "SUCCESS" /\ Finish("success")
    BY <2>1, <2>4 DEF Finish, Succeeds, ProtocolInv, ReplyInv
  <2>5. CASE host.pc = "clear" /\ Head(tx) = "CLEAR" /\ Finish("cleared")
    BY <2>1, <2>5 DEF Finish, Succeeds, ProtocolInv, ReplyInv
  <2>6. CASE host.pc = "chunk" /\ NextChunk(host)
    BY <2>1, <2>3, <2>6, SendMoves DEF NextChunk, Uploading
  <2>7. CASE Retry(host)
    BY <1>0, <2>1, <2>7, RetryMoves
  <2>8. CASE UNCHANGED <<host, rx>>
    BY <2>1, <2>8
  <2> QED
    BY <1>3, <2>2, <2>3, <2>4, <2>5, <2>6, <2>7, <2>8 DEF HostRead
<1>4. CASE HostTimeout
  <2>1. host.pc # "idle" /\ UNCHANGED pddb /\ (Finish("failed") \/ Retry(host))
    BY <1>4 DEF HostTimeout, badgeVars
  <2> QED
    BY <1>0, <2>1, RetryMoves DEF Finish, Fails
<1> QED
  BY <1>1, <1>2, <1>3, <1>4 DEF HostNext

\* What the badge's steps are, seen from outside.
LEMMA ConsoleMoves ==
    ASSUME NoReplyLost, IInv, ProtocolInv, ConsoleNext
    PROVE  UNCHANGED host /\ (UNCHANGED pddb \/ Stores)
<1>0. TypeOK
  BY DEF IInv
<1>1. UNCHANGED host
  BY DEF ConsoleNext, ProcessFrames, ProcessClear, ProcessGarbled, ProcessChunk, StoreDelete,
         StoreBegin, StoreRest, StoreFinish, hostVars
<1>2. CASE ProcessFrames \/ ProcessGarbled \/ ProcessChunk \/ StoreFinish
  <2>1. UNCHANGED pddb
    BY <1>2 DEF ProcessFrames, ProcessGarbled, ProcessChunk, StoreFinish, badgeVars
  <2> QED
    BY <1>1, <2>1
<1>3. CASE ProcessClear
  BY <1>1, <1>3, DeleteWorks DEF ProcessClear, Stores, Load
<1>4. CASE StoreDelete \/ StoreBegin \/ StoreRest
  <2>1. bpc # "ready" /\ bpc' \in {"write", "writing", "finish"}
    BY <1>4 DEF StoreDelete, StoreBegin, StoreRest
  <2>2. \E img \in Images, n \in 1 .. MaxFrames : frames = Whole(img, n)
    BY <1>0, <2>1 DEF ProtocolInv, StoreInv, TypeOK
  <2>3. pddb' = NoPicture \/ pddb' = Torn \/ pddb' = frames
    BY <1>4, <2>1, StoreStep
  <2> QED
    BY <1>1, <2>2, <2>3 DEF Stores, Load
<1> QED
  BY <1>2, <1>3, <1>4 DEF ConsoleNext

\* What any step is, seen from outside.
LEMMA Moves ==
    ASSUME NoReplyLost, IInv, ProtocolInv, JobOpen, [Next]_vars
    PROVE  \/ UNCHANGED host /\ (UNCHANGED pddb \/ Stores)
           \/ UNCHANGED pddb /\ (Asks \/ GoesOn \/ Fails \/ Succeeds)
<1>1. CASE HostNext
  BY <1>1, HostMoves
<1>2. CASE ConsoleNext
  BY <1>2, ConsoleMoves
<1>3. CASE ImageLoad \/ Garble \/ Mute \/ UNCHANGED vars
  BY <1>3 DEF ImageLoad, Garble, Mute, vars, hostVars, badgeVars
<1>4. CASE Unplug \/ Crash
  BY <1>4 DEF Unplug, Crash, Disconnect, Fails, badgeVars
<1> QED
  BY <1>1, <1>2, <1>3, <1>4 DEF Next, FaultNext

\* The invariant of the theorems below.
LEMMA RefinementInvariance ==
    ASSUME NoReplyLost PROVE Spec => [](IInv /\ ProtocolInv /\ JobOpen)
<1>1. Init => JobOpen
  BY LineFields DEF Init, JobOpen
<1>2. IInv /\ ProtocolInv /\ JobOpen /\ [Next]_vars => JobOpen'
  BY Moves, LineFields DEF JobOpen, Asks, GoesOn, Fails, Succeeds
<1> QED
  BY <1>1, <1>2, ProtocolInvariance, PTL DEF Spec

\* When uploadImage returns true the key holds the whole picture the user chose, and
\* when clearSlots reports success there is none, for any number of frames, chunks
\* and retries, and whatever an upload that was cut short left in the buffer.
THEOREM SuccessIsStored ==
    ASSUME NoReplyLost PROVE Spec => SuccessMeansStored
<1>1. IInv /\ ProtocolInv /\ JobOpen /\ [Next]_vars =>
        [ /\ host.pc = "chunk" /\ host'.result = "success" => pddb = Whole(host.img, host.n)
          /\ host.pc = "clear" /\ host'.result = "cleared" => pddb = NoPicture ]_vars
  <2> SUFFICES ASSUME IInv, ProtocolInv, JobOpen, [Next]_vars
               PROVE  /\ host.pc = "chunk" /\ host'.result = "success"
                           => pddb = Whole(host.img, host.n)
                      /\ host.pc = "clear" /\ host'.result = "cleared" => pddb = NoPicture
    OBVIOUS
  <2>1. IdleHost("failed").result = "failed" /\ IdleHost("success").result = "success"
        /\ IdleHost("cleared").result = "cleared"
    BY DEF IdleHost
  <2> QED
    BY <2>1, Moves DEF JobOpen, Asks, GoesOn, Fails, Succeeds
<1> QED
  BY <1>1, RefinementInvariance, PTL DEF Spec, SuccessMeansStored

\* The upload implements PictureStore: what the badge stores is at all times nothing
\* or one whole picture of one upload, and success is reported only when it is the
\* picture asked for.
THEOREM Refinement ==
    ASSUME NoReplyLost PROVE Spec => ImplementsPictureStore
<1>1. Init => Abstract!Init
  BY LineFields DEF Init, IdleHost, Abstract!Init, Requested, Outcome, Load
<1>2. IInv /\ ProtocolInv /\ JobOpen /\ [Next]_vars => [Abstract!Next]_(Abstract!vars)
  <2> SUFFICES ASSUME IInv, ProtocolInv, JobOpen, [Next]_vars
               PROVE  Abstract!Next \/ UNCHANGED Abstract!vars
    OBVIOUS
  <2> DEFINE Complete == {Whole(img, n) : img \in Images, n \in 1 .. MaxFrames}
  <2>0. /\ host.result # "pending" /\ host.n \in 1 .. MaxFrames
        /\ host.pc = "chunk" => host.img \in Images
    BY DEF IInv, TypeOK, HostStates, JobHasImage
  <2>1. ASSUME UNCHANGED host PROVE Requested' = Requested /\ Outcome' = Outcome
    BY <2>1 DEF Requested, Outcome
  <2>2. ASSUME UNCHANGED pddb PROVE Load(pddb)' = Load(pddb)
    BY <2>2 DEF Load
  <2>3. CASE UNCHANGED host /\ UNCHANGED pddb
    BY <2>1, <2>2, <2>3 DEF Abstract!vars
  <2>4. CASE UNCHANGED host /\ Stores
    <3>1. Load(pddb') \in Complete \cup {NoPicture}
      BY <2>4, WholeFact DEF Stores
    <3>2. Abstract!Store(Load(pddb'))
      BY <2>1, <2>4 DEF Abstract!Store, Load
    <3> QED
      BY <3>1, <3>2 DEF Abstract!Next
  <2>5. CASE UNCHANGED pddb /\ Asks
    <3>1. Requested' \in Complete \cup {NoPicture}
      BY <2>5 DEF Asks, Requested, Uploading
    <3>2. Outcome # "pending" /\ Outcome' = "pending"
      BY <2>0, <2>5 DEF Asks, Outcome
    <3>3. Abstract!Ask(Requested')
      BY <2>2, <2>5, <3>2 DEF Abstract!Ask
    <3> QED
      BY <3>1, <3>3 DEF Abstract!Next
  <2>6. CASE UNCHANGED pddb /\ GoesOn
    <3>1. Requested' = Requested /\ Outcome' = Outcome
      BY <2>6 DEF GoesOn, Requested, Outcome, Uploading, Whole
    <3> QED
      BY <2>2, <2>6, <3>1 DEF Abstract!vars
  <2>7. CASE UNCHANGED pddb /\ Fails
    <3>1. Outcome = "pending" /\ Outcome' = "failed" /\ Requested' = NoPicture
      BY <2>7 DEF Fails, Outcome, Requested, IdleHost
    <3>2. Abstract!ReportFailed
      BY <2>2, <2>7, <3>1 DEF Abstract!ReportFailed, Requested, NoPicture
    <3> QED
      BY <3>2 DEF Abstract!Next
  <2>8. CASE UNCHANGED pddb /\ Succeeds
    <3>1. Outcome = "pending" /\ Outcome' = "done" /\ Requested' = NoPicture
      BY <2>8 DEF Succeeds, Outcome, Requested, IdleHost
    <3>2. Load(pddb) = Requested
      BY <2>0, <2>8, WholeFact DEF Succeeds, Requested, Load
    <3>3. Abstract!ReportDone
      BY <2>2, <2>8, <3>1, <3>2 DEF Abstract!ReportDone
    <3> QED
      BY <3>3 DEF Abstract!Next
  <2> QED
    BY <2>3, <2>4, <2>5, <2>6, <2>7, <2>8, Moves
<1> QED
  BY <1>1, <1>2, RefinementInvariance, PTL DEF Spec, ImplementsPictureStore, Abstract!Spec
=============================================================================
