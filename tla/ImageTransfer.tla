--------------------------- MODULE ImageTransfer ---------------------------
(***************************************************************************)
(* Uploading a picture to the badge.                                       *)
(*                                                                         *)
(* Four parties take part.  The Android app (MainActivity.kt) sends lines  *)
(* over a USB serial link and waits for a reply token to each, retrying a  *)
(* line that is refused or not answered in time.  The badge's console runs *)
(* the `image` command (cmds/image.rs): it gathers chunks in RAM and, when *)
(* the last one arrives, replaces the key in the PDDB.  The vault keeps    *)
(* its own copy of the picture and reloads it when the console tells it.   *)
(* The link, the PDDB and the power supply may fail.                       *)
(*                                                                         *)
(* A chunk's 64 bytes are abstracted to the picture they were cut from, so *)
(* a stored picture is a function from slots (frame, chunk) to pictures.   *)
(***************************************************************************)
EXTENDS Naturals, FiniteSets, Sequences

CONSTANTS
    Images,      \* the pictures a user may upload
    NumChunks,   \* NUM_CHUNKS: chunks in one frame (32 in the code)
    MaxFrames,   \* MAX_FRAMES: frames in one picture (32 in the code)
    MaxRetries,  \* MAX_RETRIES: how often the app resends a line (4 in the code)
    Faults,      \* the kinds of fault that may happen
    MaxFaults,   \* bound: how many faults may happen in a behaviour
    MaxJobs,     \* bound: how many uploads and clears the user asks for
    NoChunk,     \* None, in a slot of the receive buffer
    Torn         \* a key whose length is no whole number of frames

FaultKinds == {"garble", "mute", "slow", "unplug", "crash", "pddb"}

ASSUME ImagesAssumption == NoChunk \notin Images
ASSUME SizesAssumption  == NumChunks \in Nat \ {0} /\ MaxFrames \in Nat \ {0}
ASSUME BoundsAssumption == MaxRetries \in Nat /\ MaxFaults \in Nat /\ MaxJobs \in Nat
ASSUME FaultsAssumption == Faults \subseteq FaultKinds

VARIABLES
    host,            \* the app's worker thread: where it is in which job
    jobs,            \* how many jobs were started
    rx,              \* lines on their way to the console
    tx,              \* reply lines on their way to the app
    bpc,             \* where the console is inside Image::process
    frame_count,     \* Image.frame_count
    frames,          \* Image.frames, None is NoChunk
    received_count,  \* Image.received_count
    pddb,            \* the DC34_IMAGE key of the PDDB
    vq,              \* ImageLoad messages in the vault's mailbox
    user_frames,     \* VaultUi.user_frames: the picture on the screen
    faults           \* how many faults have happened

hostVars  == <<host, jobs>>
badgeVars == <<bpc, frame_count, frames, received_count, pddb>>
vaultVars == <<vq, user_frames>>
vars == <<host, jobs, rx, tx, bpc, frame_count, frames, received_count,
          pddb, vq, user_frames, faults>>

-----------------------------------------------------------------------------
(* Pictures.                                                               *)

\* The slots of a picture of n frames.
Slots(n) == (0 .. n-1) \X (0 .. NumChunks-1)

Chunks == Images \cup {NoChunk}

\* What a key of n whole frames can hold; n = 0 is a key that is missing or empty.
Pictures == UNION {[Slots(n) -> Chunks] : n \in 0 .. MaxFrames}

NoPicture == [s \in Slots(0) |-> NoChunk]

ASSUME TornAssumption == Torn \notin Pictures

\* The picture a job is to leave on the badge.
Whole(img, n) == [s \in Slots(n) |-> img]

\* load_image_frames: a key of a ragged length counts as no picture.
Load(key) == IF key = Torn THEN NoPicture ELSE key

\* Writing `blob' from the start of a key that still holds `old'.
Overlay(old, blob) ==
    [s \in DOMAIN old \cup DOMAIN blob |-> IF s \in DOMAIN blob THEN blob[s] ELSE old[s]]

-----------------------------------------------------------------------------
(* Lines and replies.  A garbled line is one that no longer decodes: a     *)
(* partial write, or the tail of one glued to the next line.               *)

FramesLine(n)         == [op |-> "frames", n |-> n]
ChunkLine(f, c, img)  == [op |-> "chunk", f |-> f, c |-> c, img |-> img]
ClearLine             == [op |-> "clear"]
GarbledLine           == [op |-> "garbled"]

Lines == [op : {"frames"}, n : 1 .. MaxFrames]
         \cup [op : {"chunk"}, f : 0 .. MaxFrames-1, c : 0 .. NumChunks-1, img : Images]
         \cup [op : {"clear"}] \cup [op : {"garbled"}]

\* "noise" is every line awaitResponse skips: no token of the list ends it.
\* `ERR bad_frame (send ...)' and the console's list of commands are such lines.
Replies == {"OK", "ERR", "SUCCESS", "CLEAR", "noise"}

\* A fault of this kind happens now.
Fault(kind) ==
    /\ kind \in Faults
    /\ faults < MaxFaults
    /\ faults' = faults + 1

\* Nothing the app sent is still unanswered.
Settled == rx = <<>> /\ bpc = "ready"

\* The app's timers run out: there is no answer to come, or it is too slow.
TimeRunsOut ==
    \/ Settled /\ UNCHANGED faults
    \/ ~Settled /\ Fault("slow")

-----------------------------------------------------------------------------
(* The app.  `result' is what the last job reported to the user.           *)

HostStates == [pc : {"idle", "frames", "chunk", "clear"},
               img : Chunks, n : 1 .. MaxFrames,
               f : 0 .. MaxFrames-1, c : 0 .. NumChunks-1,
               attempt : 0 .. MaxRetries,
               result : {"none", "success", "cleared", "failed"}]

IdleHost(result) ==
    [pc |-> "idle", img |-> NoChunk, n |-> 1, f |-> 0, c |-> 0,
     attempt |-> 0, result |-> result]

NewJob(pc, img, n) ==
    [pc |-> pc, img |-> img, n |-> n, f |-> 0, c |-> 0, attempt |-> 0, result |-> "none"]

Finish(result) == host' = IdleHost(result) /\ UNCHANGED rx

Send(line, h) == rx' = Append(rx, line) /\ host' = h

\* uploadImage and sendOneChunk send the chunk of slot (f, c) for the first time.
SendChunk(h, f, c) ==
    Send(ChunkLine(f, c, h.img),
         [pc |-> "chunk", img |-> h.img, n |-> h.n, f |-> f, c |-> c,
          attempt |-> 0, result |-> "none"])

\* Mutant: the chunk loop runs one past the end.
NextChunkPastEnd(h) ==
    \/ h.c < NumChunks /\ SendChunk(h, h.f, h.c + 1)
    \/ h.c = NumChunks /\ Finish("failed")

\* The loops over frames and chunks in uploadImage.
NextChunk(h) ==
    \/ h.c + 1 < NumChunks /\ SendChunk(h, h.f, h.c + 1)
    \/ h.c + 1 = NumChunks /\ h.f + 1 < h.n /\ SendChunk(h, h.f + 1, 0)
    \/ h.c + 1 = NumChunks /\ h.f + 1 = h.n /\ Finish("failed")

\* Mutant: a refused line is sent again without being counted.
RetryForever(h) ==
    Send(IF h.pc = "clear" THEN ClearLine ELSE ChunkLine(h.f, h.c, h.img), h)

\* The retry loops of sendOneChunk and clearSlots.
Retry(h) ==
    IF h.attempt < MaxRetries
    THEN Send(IF h.pc = "clear" THEN ClearLine ELSE ChunkLine(h.f, h.c, h.img),
              [h EXCEPT !.attempt = h.attempt + 1])
    ELSE Finish("failed")

\* A click on Upload or Clear, with the app connected and not busy.  drainInput
\* waits for the link to be quiet and drops what it reads.
StartJob ==
    /\ host.pc = "idle"
    /\ jobs < MaxJobs
    /\ jobs' = jobs + 1
    /\ TimeRunsOut
    /\ tx' = <<>>

StartUpload(img, n) ==
    /\ StartJob
    /\ \/ n > 1 /\ Send(FramesLine(n), NewJob("frames", img, n))
       \/ n = 1 /\ SendChunk(NewJob("chunk", img, n), 0, 0)
    /\ UNCHANGED <<badgeVars, vaultVars>>

StartClear ==
    /\ StartJob
    /\ Send(ClearLine, NewJob("clear", NoChunk, 1))
    /\ UNCHANGED <<badgeVars, vaultVars>>

\* The tokens awaitResponse is called with; a line that ends with none is skipped.
Tokens(pc) ==
    CASE pc = "frames" -> {"OK", "ERR"}
      [] pc = "chunk"  -> {"SUCCESS", "OK", "ERR"}
      [] pc = "clear"  -> {"CLEAR"}

\* awaitResponse returns a token, or skips a line, and the caller acts on it.
HostRead ==
    /\ host.pc # "idle"
    /\ tx # <<>>
    /\ tx' = Tail(tx)
    /\ LET r == Head(tx)
       IN  \/ host.pc = "frames" /\ r = "OK"      /\ SendChunk(host, 0, 0)
           \/ host.pc = "frames" /\ r = "ERR"     /\ Finish("failed")
           \/ host.pc = "chunk"  /\ r = "SUCCESS" /\ Finish("success")
           \/ host.pc = "chunk"  /\ r = "OK"      /\ NextChunk(host)
           \/ host.pc = "chunk"  /\ r = "ERR"     /\ Retry(host)
           \/ host.pc = "clear"  /\ r = "CLEAR"   /\ Finish("cleared")
           \/ r \notin Tokens(host.pc)            /\ UNCHANGED <<host, rx>>
    /\ UNCHANGED <<jobs, badgeVars, vaultVars, faults>>

\* awaitResponse returns null; the handshake has no retry.
HostTimeout ==
    /\ host.pc # "idle"
    /\ tx = <<>>
    /\ TimeRunsOut
    /\ \/ host.pc = "frames" /\ Finish("failed")
       \/ host.pc # "frames" /\ Retry(host)
    /\ UNCHANGED <<jobs, tx, badgeVars, vaultVars>>

-----------------------------------------------------------------------------
(* The console: Image::process.                                            *)

Blank(n) == [s \in Slots(n) |-> NoChunk]

\* Mutant: a buffer that already has the right size is not emptied.
ResetOnlyIfResized(n) ==
    /\ frame_count' = n
    /\ IF n = frame_count THEN UNCHANGED <<frames, received_count>>
       ELSE frames' = Blank(n) /\ received_count' = 0

\* Mutant: the buffer is emptied, its counter is not.
ResetKeepsCount(n) == frame_count' = n /\ frames' = Blank(n) /\ UNCHANGED received_count

\* self.frame_count = n; self.reset_frames()
Reset(n) == frame_count' = n /\ frames' = Blank(n) /\ received_count' = 0

\* Mutant: a chunk that is sent again is counted again.
CountEveryChunk(slot) == received_count + 1

\* received_count after a chunk for this slot: only an empty slot counts.
CountWith(slot) == IF frames[slot] = NoChunk THEN received_count + 1 ELSE received_count

\* Mutant: one chunk short.
CompleteOneEarly(count) == count + 1 >= NumChunks * frame_count

is_complete(count) == count = NumChunks * frame_count

\* The console takes the next line of its input.
Take(op) ==
    /\ bpc = "ready"
    /\ rx # <<>>
    /\ Head(rx).op = op
    /\ rx' = Tail(rx)

Reply(r) == tx' = Append(tx, r)

ProcessFrames ==
    /\ Take("frames")
    /\ Reset(Head(rx).n)
    /\ Reply("OK")
    /\ UNCHANGED <<hostVars, bpc, pddb, vaultVars, faults>>

\* delete_key(..).ok() ignores a failure.
DeleteKey ==
    \/ pddb' = NoPicture /\ UNCHANGED faults
    \/ pddb' = pddb /\ Fault("pddb")

ProcessClear ==
    /\ Take("clear")
    /\ DeleteKey
    /\ Reset(1)
    /\ vq' = Append(vq, 0)
    /\ Reply("CLEAR")
    /\ UNCHANGED <<hostVars, bpc, user_frames>>

ProcessGarbled ==
    /\ Take("garbled")
    /\ \E r \in {"ERR", "noise"} : Reply(r)
    /\ UNCHANGED <<hostVars, badgeVars, vaultVars, faults>>

\* A chunk with a good checksum.  The reply to the completing one comes later.
ProcessChunk ==
    /\ Take("chunk")
    /\ LET line == Head(rx)
           slot == <<line.f, line.c>>
       IN  IF line.f >= frame_count
           THEN Reply("noise") /\ UNCHANGED badgeVars
           ELSE LET count == CountWith(slot)
                IN  /\ frames' = [frames EXCEPT ![slot] = line.img]
                    /\ received_count' = count
                    /\ IF is_complete(count)
                       THEN bpc' = "delete" /\ UNCHANGED tx
                       ELSE Reply("OK") /\ UNCHANGED bpc
                    /\ UNCHANGED <<frame_count, pddb>>
    /\ UNCHANGED <<hostVars, vaultVars, faults>>

\* The complete buffer replaces the key: first the delete ...
StoreDelete ==
    /\ bpc = "delete"
    /\ DeleteKey
    /\ bpc' = "write"
    /\ UNCHANGED <<hostVars, rx, tx, frame_count, frames, received_count, vaultVars>>

\* ... then get(create) and write_all, which sends the blob a page at a time: only
\* a one-frame blob fits in one page.  A failure at any point is ignored.
StoreBegin ==
    /\ bpc = "write"
    /\ \/ /\ frame_count = 1
          /\ pddb' = Overlay(Load(pddb), frames)
          /\ UNCHANGED faults
          /\ bpc' = "finish"
       \/ /\ frame_count > 1
          /\ pddb' = IF pddb # Torn /\ Slots(frame_count) \subseteq DOMAIN pddb
                     THEN Overlay(pddb, [s \in Slots(1) |-> frames[s]])
                     ELSE Torn
          /\ UNCHANGED faults
          /\ bpc' = "writing"
       \/ /\ Fault("pddb")
          /\ pddb' = pddb
          /\ bpc' = "finish"
    /\ UNCHANGED <<hostVars, rx, tx, frame_count, frames, received_count, vaultVars>>

StoreRest ==
    /\ bpc = "writing"
    /\ bpc' = "finish"
    /\ \/ pddb' = Overlay(Load(pddb), frames) /\ UNCHANGED faults
       \/ pddb' = pddb /\ Fault("pddb")
    /\ UNCHANGED <<hostVars, rx, tx, frame_count, frames, received_count, vaultVars>>

\* Mutant: the vault is told only about a first picture.
StoreFinishSilent ==
    /\ bpc = "finish"
    /\ bpc' = "ready"
    /\ Reset(1)
    /\ vq' = IF user_frames = NoPicture THEN Append(vq, 1) ELSE vq
    /\ Reply("SUCCESS")
    /\ UNCHANGED <<hostVars, rx, pddb, user_frames, faults>>

StoreFinish ==
    /\ bpc = "finish"
    /\ bpc' = "ready"
    /\ Reset(1)
    /\ vq' = Append(vq, 1)
    /\ Reply("SUCCESS")
    /\ UNCHANGED <<hostVars, rx, pddb, user_frames, faults>>

-----------------------------------------------------------------------------
(* The vault's ImageLoad handler.                                          *)

ImageLoad ==
    /\ vq # <<>>
    /\ vq' = Tail(vq)
    /\ user_frames' = IF Head(vq) = 0 THEN NoPicture ELSE Load(pddb)
    /\ UNCHANGED <<hostVars, rx, tx, badgeVars, faults>>

-----------------------------------------------------------------------------
(* Faults.                                                                 *)

\* A line reaches the console damaged.
Garble ==
    /\ Fault("garble")
    /\ rx # <<>>
    /\ rx' = [rx EXCEPT ![1] = GarbledLine]
    /\ UNCHANGED <<hostVars, tx, badgeVars, vaultVars>>

\* Log output lands in the middle of a reply, which is then no token.
Mute ==
    /\ Fault("mute")
    /\ tx # <<>>
    /\ tx' = [tx EXCEPT ![1] = "noise"]
    /\ UNCHANGED <<hostVars, rx, badgeVars, vaultVars>>

\* The app loses the link: its writes and reads fail, so the job fails.
Disconnect ==
    /\ host' = IF host.pc = "idle" THEN host ELSE IdleHost("failed")
    /\ tx' = <<>>

\* The cable is pulled.  The badge has a battery and goes on with what it received.
Unplug ==
    /\ Fault("unplug")
    /\ Disconnect
    /\ rx' \in {rx, <<>>}
    /\ UNCHANGED <<jobs, badgeVars, vaultVars>>

\* The badge loses power and boots: Image::new, and main loads the picture.
Crash ==
    /\ Fault("crash")
    /\ Disconnect
    /\ rx' = <<>>
    /\ bpc' = "ready"
    /\ Reset(1)
    /\ vq' = <<>>
    /\ user_frames' = Load(pddb)
    /\ UNCHANGED <<jobs, pddb>>

-----------------------------------------------------------------------------
Init ==
    /\ host = IdleHost("none")
    /\ jobs = 0
    /\ rx = <<>>
    /\ tx = <<>>
    /\ bpc = "ready"
    /\ frame_count = 1
    /\ frames = Blank(1)
    /\ received_count = 0
    /\ pddb = NoPicture
    /\ vq = <<>>
    /\ user_frames = NoPicture
    /\ faults = 0

HostNext ==
    \/ \E img \in Images, n \in 1 .. MaxFrames : StartUpload(img, n)
    \/ StartClear
    \/ HostRead
    \/ HostTimeout

ConsoleNext ==
    \/ ProcessFrames
    \/ ProcessClear
    \/ ProcessGarbled
    \/ ProcessChunk
    \/ StoreDelete
    \/ StoreBegin
    \/ StoreRest
    \/ StoreFinish

FaultNext ==
    \/ Garble
    \/ Mute
    \/ Unplug
    \/ Crash

Next ==
    \/ HostNext
    \/ ConsoleNext
    \/ ImageLoad
    \/ FaultNext

\* The app's reads time out, and the console and the vault serve their mailboxes.
\* The user need not start a job and no fault need happen.
Fairness ==
    /\ WF_vars(HostRead)
    /\ WF_vars(HostTimeout)
    /\ WF_vars(ConsoleNext)
    /\ WF_vars(ImageLoad)

Spec == Init /\ [][Next]_vars

FairSpec == Spec /\ Fairness

-----------------------------------------------------------------------------
(* Properties.                                                             *)

\* Every variable has its type: in particular the receive buffer always has
\* frame_count frames, and every index the app sends is in range.
TypeOK ==
    /\ host \in HostStates
    /\ jobs \in 0 .. MaxJobs
    /\ rx \in Seq(Lines)
    /\ tx \in Seq(Replies)
    /\ bpc \in {"ready", "delete", "write", "writing", "finish"}
    /\ frame_count \in 1 .. MaxFrames
    /\ frames \in [Slots(frame_count) -> Chunks]
    /\ received_count \in Nat
    /\ pddb \in Pictures \cup {Torn}
    /\ vq \in Seq({0, 1})
    /\ user_frames \in Pictures
    /\ faults \in 0 .. MaxFaults

Filled == {s \in Slots(frame_count) : frames[s] # NoChunk}

\* received_count, which image.rs keeps by hand and is_complete trusts, is the
\* number of slots of the receive buffer that hold a chunk, whatever lines are
\* resent, damaged or left over from an abandoned upload.
CountIsFilled == received_count = Cardinality(Filled)

\* to_blob fills a missing chunk with zeros.  It never has to: no stored picture,
\* and no picture on the screen, has a hole.
NoHoles ==
    /\ pddb # Torn => \A s \in DOMAIN pddb : pddb[s] # NoChunk
    /\ \A s \in DOMAIN user_frames : user_frames[s] # NoChunk

\* When the console is between commands and the vault has read its mail, the
\* screen shows what the PDDB holds.
ViewConverges == bpc = "ready" /\ vq = <<>> => user_frames = Load(pddb)

\* When uploadImage returns true, the key holds the whole picture the user chose;
\* when clearSlots reports success, there is no picture.
SuccessMeansStored ==
    [][ /\ host.pc = "chunk" /\ host'.result = "success" => pddb = Whole(host.img, host.n)
        /\ host.pc = "clear" /\ host'.result = "cleared" => pddb = NoPicture ]_vars

Requested ==
    IF host.pc \in {"frames", "chunk"} THEN Whole(host.img, host.n) ELSE NoPicture

Outcome ==
    IF host.pc # "idle" THEN "pending"
    ELSE IF host.result \in {"success", "cleared"} THEN "done" ELSE host.result

Abstract == INSTANCE PictureStore WITH
    Complete <- {Whole(img, n) : img \in Images, n \in 1 .. MaxFrames},
    Nothing  <- NoPicture,
    picture  <- Load(pddb),
    request  <- Requested,
    outcome  <- Outcome

\* Four parties, retries, a delete and a write in pieces implement PictureStore:
\* the key is never put together from chunks of two uploads, although the receive
\* buffer keeps what an interrupted upload left in it, and success is reported
\* only for what is stored.
ImplementsPictureStore == Abstract!Spec

\* Every upload and every clear comes to an end and frees the app's worker: the
\* retries are bounded, also when every reply is lost.
JobsEnd == host.pc # "idle" ~> host.pc = "idle"

AtFirstChunk == host.pc = "chunk" /\ host.f = 0 /\ host.c = 0 /\ host.attempt = 0

\* An upload that meets no further fault succeeds, whatever earlier faults left in
\* the receive buffer, if it opens with `image frames' or finds a one-frame buffer.
CleanUploadSucceeds ==
    (AtFirstChunk /\ faults = MaxFaults /\ frame_count = host.n) ~> host.result = "success"

\* "legacy single-frame clients keep working as frame 0" (image.rs:13): a
\* single-frame upload that meets no further fault succeeds.
LegacyUploadSucceeds ==
    (AtFirstChunk /\ faults = MaxFaults /\ host.n = 1) ~> host.result = "success"
=============================================================================
