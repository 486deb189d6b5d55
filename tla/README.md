# Verification of the DEF CON 34 badge, Stealthcopter remix

TLA+ models of the badge's firmware and of the Android app that talks to it, model-checked with
TLC and, where it matters most, proved with TLAPS. Every definition that models code is tied to
its lines in `PROJECT.json` (`map`).

## 1. The system

Parts, with the state each keeps, what it does, and how the parts meet:

| Part | Source | State | Operations |
|---|---|---|---|
| Console | `firmware/dc34-console/src/{shell,repl,cmds}.rs` | the line being typed | hands each line of the USB serial link to a command, prints the reply |
| `image`, `imagedc` | `cmds/image.rs`, `cmds/imagedc.rs` | receive buffer, counter, frame count | `frames N`, chunks, `clear`; replaces a key of the PDDB, tells the vault |
| Power manager | `power.rs` | idle clock, flags, copies of pin and alarm state | serves polls, keys, motion, VBUS, boot and requests; suspends (WFI) or powers down |
| LED server, light genes | `leds.rs`, `cmds/led.rs`, `bio/lightgenes` | preset, gene | expresses genes, forces presets |
| Vault main loop | `firmware/src/main.rs` | mode, menu and key flags | serves keys, scans, menus, pictures, redraws |
| Configuration | `config.rs` | genes, nonces, mutation rate, always-on | generates nonces, breeds, configures the power manager |
| Screen and keys | `ux.rs` | what is drawn, per-mode navigation | `handle_key`, drawing |
| Actions | `actions.rs`, `action_handler.rs`, `storage.rs`, `totp.rs`, `itemcache.rs` | password and TOTP records | edits, scans, autotype |
| FIDO2: PIN and token | `ctap/{client_pin,token_state,config_command,storage,mod}.rs`, `libraries/persistent_store` | PIN, retry counter and policy in the PDDB; the token's permissions and timers in memory | sets, changes and checks the PIN, issues tokens, spends them, resets |
| FIDO2: user presence | `env/xous/mod.rs`, `xous-core/services/modals` | the request in progress, the key pressed, the dialog server's lock | asks the user, for U2F by polls and for CTAP2 by waiting |
| FIDO2: the rest | `fido2.rs`, `ctap/` | credentials, large blobs, channels | a fork of OpenSK |
| Android app | `android/app/.../{MainActivity,CdcAcmSerial,ImagePacker}.kt` | frame queue, serial link | uploads, clears, LED panel, flashing wizard |
| Xous (vendored) | `firmware/xous-core`, `firmware/libraries` | kernel, PDDB, keyboard, display, dialogs, susres | modelled as far as the parts above rely on it |

The firmware is a set of Xous servers: each is one thread with one mailbox, and messages are
either scalars that do not block, or blocking ones whose sender waits. Keys go to the power
manager and to the vault. The console tells the vault about pictures, the power manager tells it
to skip a key, the vault tells the power manager its timeouts and that it has booted. The PDDB is
shared. The app sees only lines of text. The authenticator is a thread of the vault that serves the
USB host; its questions to the user go to the dialog server, its keys to the PDDB.

What is hard: the upload protocol has retries but no sequence numbers or session, and its two ends fail
separately; the power manager stops the whole machine in the middle of a handler while interrupts go on
filling its mailbox; the vault's handlers share one mode and a handful of flags with timers, a camera
that blocks the loop, and a user who does not wait; nonces outlive the exchange they were made for. The
authenticator's store was rewritten for the PDDB: what OpenSK relies on as one atomic write is now a
delete, a create and a write, each durable on its own. Five kinds of threads share one dialog and take
each other's time-outs. `PROJECT.json` lists these hazards at the line where each bites.

What makes each part correct:

* upload: "done" is true; no picture is put together from two; a power loss leaves a picture or
  none; the screen shows what is stored; every job ends; an interrupted job can be repeated;
* power: a dark screen can be woken; the watchdog runs whenever code runs; the setting the user
  chose is in force; a badge left alone powers down, one on the cable does not;
* genes: nobody breeds with himself, or twice with one code; a new gene is kept only if its user
  says so; no exchange leaves a badge that ignores its user;
* PIN: guesses are limited, over all and per power-up, whatever is interrupted; a PIN below the
  policy buys nothing; a token is good for one PIN, one relying party and one touch;
* presence: one key approves one request; every dialog comes down although nobody polls it; no
  thread waits for ever.

## 2. Modules

| Module | What it is |
|---|---|
| `PictureStore` | what an upload promises: ask, store a whole picture or none, report |
| `ImageTransfer` | the app, the serial link, the `image` command, the PDDB key and the vault's copy |
| `ImageTransferProofs` | its theorems that hold whatever goes wrong |
| `ImageRefinementProofs` | its theorems that depend on what may go wrong: it implements `PictureStore`, the screen follows the store |
| `PowerManager` | the power manager, its interrupts and timers, and the vault's side of it |
| `PowerManagerProofs` | its theorems |
| `GeneExchange` | any number of badges exchanging genes by QR code |
| `GeneExchangeProofs` | its theorems |
| `ClientPin` | the authenticator's PIN, retry counter, policy and token, and the store's calls |
| `ClientPinProofs` | its theorems |
| `UserPresence` | the permission server, its watchdog, the CTAP2 prompt and the dialog server |
| `UserPresenceProofs` | its theorems |
| `MCImageTransfer`, `MCPowerManager`, `MCGeneExchange`, `MCClientPin`, `MCUserPresence` | instances for TLC |

### ImageTransfer

`host` is the app's worker thread: the job, the slot (frame, chunk) it is sending, the attempt. It
stands for the local variables of `uploadImage`, `sendOneChunk` and `clearSlots`. `rx` and `tx` are
the two directions of the link. `frames`, `received_count` and `frame_count` are the fields of
`Image`; `bpc` is where `Image::process` stands, because the store has points where power can be
lost: delete, write of the first page, rest of the write, reply. `pddb` is the key; `vq` and
`user_frames` are the vault's mailbox and copy.

A chunk's 64 bytes are abstracted to the picture they were cut from, so a stored picture is a
function from slots to pictures and "mixed" is visible. A line that no longer decodes is
"garbled": the console answers `ERR`, or with its list of commands, which is no token (`noise`).
`ERR bad_frame (send ...)` is `noise` too, because `awaitResponse` matches the end of a line. A key
whose length is no whole number of frames is `Torn`; `load_image_frames` reads it as no picture.
Of the PDDB (`xous-core/services/pddb`) the model takes what image.rs relies on: a write of more than
one page is not atomic, a delete is.

Faults, each from a named set and counted: `garble` (a damaged line), `mute` (log output in the
middle of a reply), `slow` (the app's timer beats an answer), `unplug`, `crash` (power loss and
reboot), `pddb` (an error that the code ignores). Without `slow` the app's timers run out only when
no answer is coming: 4 s are long for a console that answers in milliseconds.

### PowerManager

One action per message of `power_manager`, named `Handle...`; `q` is its mailbox. `run` is the
machine: running, in WFI, asked for deep sleep, off. `HandlePoll` goes up to the suspend; `Resume`,
part of every interrupt, is the rest of the handler. Time is what the handlers tell apart: `idle`
is 0, over the margin of one second (1), over the timeout (2); `alarm` is off, armed (1), or armed
since before the last poll (2), for the alarm is minutes or hours away and polls come every 2.5 s.
The vault's part is its loop: `update_power_state` at the top, then a message; `vpc` shows where
it blocks. `polled` and `fresh` are history variables.

A badge is attached (token mode is not modelled), and the modes in which the vault turns power
saving off for a factory test are left out. `power_off` is chosen at most once, since the vault
waits for it to happen.

### GeneExchange

Per badge: the mode, the menu, `skip_one_key`, the nonce, the cached, prior and saved gene, and the
mailbox `q`. A nonce is a pair of a badge and a number, fresh whenever it is generated: 96 random bits.
A gene is a number; `accepted` remembers the codes a badge bred with. `shown` holds every code that was
ever on a screen, since one can be photographed: any of them can be scanned by any badge at any time.
`scanning` is the loop blocked in `AcquireQr`. Keys come from the display server
(`bao-video/src/main.rs:599`): any key but a tilt ends a scan, whose result is then `AbortQr`, and the
key itself goes to the vault in front of it, unless a dialog of another server is up: then the dialog
has the key and the vault only the abort. `Press` has both cases (`heard`), and `unheard` remembers the
second until `skip_one_key` is cleared. `timers` are the threads that send the menu key half a second
after breeding; the `auto` field marks their key. `selected` and the menu's answers follow `genemenu.rs`
and the way `menu_matic` calls back; the selection stops at the last entry (`ux-api`, `scroll.rs`). A
camera error, a `test://` code, a scan that is not passed on and a suspend are counted as mishaps and
mark the badge `deaf`. Mutation and rendering are left out.

### ClientPin

One thread serves one command at a time, so a command is a walk through `stage`s: `decrement`,
`compare`, `restore`, `verified` are `verify_pin_hash_enc`, `store` and `unforce` are `set_pin`, `force`
and `raise` are `process_set_min_pin_length`, `presence` is the prompt, `clear` and `renew` are
`storage::reset` and `ClientPin::reset`. Each call to the PDDB is a step: an Insert walks through the
`phase`s delete, create, write (`store.rs`), after each of which power can be lost (`PowerCycle`) or the
store can fail (`StoreError`). Reads fail too (`ReadError`): that of the retries after a wrong PIN
(`client_pin.rs:183`), which returns before the mismatch is counted, and those after a right one; a read
in front of everything else only refuses the command. `disk` has the four keys; `Absent` and `Empty` are
a key that is not there and one that was created and not written. A PIN is a number with a length; a
guess that does not decrypt (`Malformed`) costs an attempt and is no mismatch. `token` is
`PinUvAuthTokenState` together with whether a platform still knows the token. `OtherCommand` is any
command a check refuses and any that touches no state of the PIN; its guard is `TRUE` because what it
does to the timers every command does.

The history variables count what the properties are about: wrong PINs compared since the last right one
(`guesses`) and since power-up (`wrongNow`), those of them that a failed read left `uncounted`, counters
lost half-written (`forgotten`), and what the last token was used for (`spent`).

The two PIN protocols are one here: both tokens are drawn and reset together. Key agreement is
abstracted to an arbitrary guess. `alwaysUv`, enterprise attestation and the relying parties that may
read the minimum length do not touch this state. From how `store.rs` uses it the PDDB
makes one delete, one create, one write of a few bytes and one delete of a list of keys durable
steps. Time passes between commands and during a prompt.

### UserPresence

`mbox`, `wbox` and `dbox` are the mailboxes of the permission server, of its watchdog and of the dialog
server; `lock`, `queue` and `slot` are the dialog server's `token_lock`, `work_queue` and
`dynamic_notification_listener`. `srv` and `fido` show where the two threads are blocked, and `call` what
each client is waiting for from the dialog server: the lock (`locking`), nothing, it was just given it
(`locked`), or its dialog (`showing`). One action per branch of `PollPermission` (changed, approved,
denied, timed out, waiting, refused, new), one per message of the watchdog, and one per message of the
dialog server:

* `GetMutex` gives the lock or queues the client (`modals/src/main.rs:188`);
* `DialogUp`, `Prompt`, `NameShown` and `OtherOpens` are the server taking the request for a dialog. Who has
  no lock gets none: a dynamic notification is dropped, its listener answered and registered all the
  same (`slot` is then `stale`), a name prompt is answered with a value of the wrong type;
* `CloseDynamicNotification` checks the lock and sends `DoCloseDynamicNotification` to the server itself
  (425-436); that handler gives the lock on and does not check again (783-795). Between the two any
  message may be taken, a second close too: `crossed` remembers that;
* a key or a close for a `stale` listener answers a sender that does not wait. The kernel refuses it and
  the server's `unwrap` panics (`lock` is then `down`).

`KeepaliveFails` is the panic of the FIDO thread inside a prompt (`env/xous/mod.rs:621`), which leaves the
dialog up. The dialog for the name of a new application (517) blocks the permission server until the
user types one, if ever. A listener thread is a key on its way: `pending` counts the keys, or the no-key
of a closed dialog, that listeners of the permission server have received and not yet stored to the one
`kbhit` they share. `credit` is history: keys pressed into a dialog of the permission server, less
requests approved. `Recorded` is what the PDDB holds at boot. Clocks count ticks up to where their values
make no more difference.

A listener is registered in the step that shows its dialog. In the code it is a message of its own, sent
microseconds later, while the next poll is hundreds of milliseconds away; a listener thread delayed until
after its dialog was closed is the part of the hazard at `modals/src/main.rs:474` that is left out. The
keys are the three that the code tells apart: for a U2F request every key but the down key approves, an
accelerometer event included; a CTAP2 prompt ignores other keys, and is deaf after one.

## 3. What TLC checks

Bounds are CONSTANTS given in the `.cfg` files. Runs stop when the bounded jobs, keys and faults
are used up, so deadlock is not checked there: a badge nobody touches may wait for ever. `pin` and
`presence` never stop, since commands go on and time passes; deadlock is checked.

| Run | Bounds | Result |
|---|---|---|
| `image_recovery` | 2 pictures, 3 chunks x 1-2 frames, 1 retry, 3 jobs, 2 faults of garble, unplug, crash | passes, 46 thousand states |
| `image_faults` | 2 chunks x 1-2 frames, 2 jobs, 3 faults of any kind | passes, 58 thousand states |
| `image_stale_chunk` | 1 lost reply, 2 jobs | violated, see below |
| `image_legacy` | 1 unplugging, 2 jobs | violated, see below |
| `power` | mailbox of 2, 3 events | passes, 592 thousand states |
| `power_cable` | mailbox of 3, 2 events | violated, see below |
| `genes` | 2 badges, 5 keys, mailbox of 2, 1 mishap | passes, 320 thousand states |
| `pin` | 2 PINs of lengths 4 and 6, minima 4 and 6, 3 retries, 2 mismatches, 2 relying parties, 1 lost counter | passes, 3.87 million states |
| `presence` | 2 applications, one of them with a record, 3 requests, 2 keys, time-outs of one tick | passes, 156 thousand states |
| `presence_lock` | the same, 1 key | violated, see below |
| `genes_one_time`, `genes_confirm` | 2 badges, 6 and 5 keys, no mishap, symmetric badges | violated, see below |

`image_recovery`: the detailed specification implements `PictureStore` (`ImplementsPictureStore`,
with the loaded key as the picture); `SuccessMeansStored` states the same of the app's word;
`ViewConverges`: the screen shows what is stored when all mail is read; `CleanUploadSucceeds`: after
the last fault, an upload whose frame count the badge knows succeeds, whatever is in the buffer.
Three jobs let an upload be interrupted, repeated and followed by another; with three chunks and
two frames there is a first, a middle and a last chunk, and a first and a last frame.

`image_faults`: `CountIsFilled`, `NoHoles` and `JobsEnd` under every fault. Three faults are enough
to lose a reply, lose the retry's reply and fail the write.

`power`: `ScreenCanWake`, `WatchdogRuns`, `SettingApplied` and, with fairness, `KeyResumes` (the key
that woke the badge turns the screen on before any poll suspends it again) and
`UnattendedPowersDown`. Three events are a key, a cable move and another, or a toggle between two
keys; polls, time and the alarm are not bounded. The last property has one exception, which is a
weakness of the code and named `StuckInWfi`: a poll that suspends with a message behind it sleeps
without serving it.

`genes`: `NoSelfBreeding`, `ListensAgain`, `ConfirmationRaised`. Five keys are a whole exchange
(side, fire; fire on the other badge; one more on each). `ListensAgain` has an exception that the code
has: when a dialog takes the key that ends a scan, `skip_one_key` stays set and the next key is lost.

`pin`: `GuessLimit` (the count is stored before the hash is compared, so neither power losses nor
errors buy guesses; one lost counter lets the exception happen and stay bounded), `PowerUpLimit`,
`PolicyHolds`, `TokenOfThisPin`, `OneRelyingParty`, `OnePresence`. Three retries against two mismatches
make the two limits meet in both orders; two PINs and two minima give a PIN that becomes too short
and one that does not; `UsageLimit = 0` is a token that expires with the next tick. Relying parties
are symmetric. Commands, time and power losses are not bounded.

The exceptions are named in the properties because the code has them. `uncounted`: a wrong PIN after
which the retries cannot be read is no mismatch, so `PowerUpLimit` grants it on top. `forgotten`: a
counter whose Insert is cut off after its delete reads as the maximum; cut off one call later it is
empty, and every PIN command fails until a Reset. `forceLost`: to mark again a PIN that is marked
deletes the mark first. `storeFailed`: an error after the PIN was written returns before the tokens are
reset. `forgotten` and `forceLost` come from the Insert that is not atomic, where
`persistent_store/src/lib.rs:27` says "Mutable operations are atomic, including when interrupted".

`presence`: `OneApprovalPerKey`, `Watched`, `LockInUse` and, with fairness, `PollAnswered`, `PromptOver`
and `DialogComesDown`. Three requests are a U2F request, the poll that ends it and a prompt waiting
behind it, or two applications, or a dialog of the vault's own in between; the watchdog's sleep, its late
ForceTimeout, the crossing closes and a name dialog all occur. Two keys are one for each of two dialogs,
or one more after the dialog server went astray. `LockInUse` leaves out what follows two closes that
crossed, which `presence_lock` is about. `PollAnswered` and `PromptOver` are about behaviours in which the
user types every name he is asked for (`NamesGiven`) and no server panics (`NoPanic`): without the one the
permission server waits for ever and the next poll with it, without the other the dialog server is gone.
`DialogComesDown` needs neither.

### Fairness

Weak fairness of each server's loop: a Xous server that has mail is scheduled, and no handler waits for
ever, but for the ones that wait for a user, which are steps of their own without fairness. Weak
fairness of timers: the app's read timeouts, the poll thread, the RTC, the sleeping threads. Users,
cables, codes before the camera and faults have none. `PowerDown` is fair: the susres server acts on the
request. In `UserPresence` the permission server, the watchdog, the FIDO thread, the dialog server with
the clients it answers, and the clock are fair, and the user leaves the vault's own dialogs
(`OtherCloses`) sooner or later, since nothing goes on there without him. Nothing makes him press a key
at the authenticator's dialogs or type a name, nor the host poll again: `NameGiven`, `Press` and the
requests have no fairness.

### Disagreements found

Each is a run that expects a violation, with the quoted sentence in `PROJECT.json` (`findings`).

1. `image_stale_chunk`: the reply SUCCESS is lost, the app resends the last chunk, the badge, whose
   buffer is already reset, takes it as the first chunk of a new picture. The next single-frame
   upload completes one chunk early, with the old chunk in it, and is reported done.
2. `image_legacy`: a multi-frame upload is cut short; the badge goes on expecting that many frames,
   and single-frame uploads are accepted chunk by chunk and never completed.
3. `power_cable`: `VbusIrq` arms the alarm without `alarm_set`; plugged in again before any key, the
   badge powers down on the cable.
4. `genes_one_time`: the nonce is not dropped after breeding, so one code breeds again.
5. `genes_confirm`: a quick press of the menu key turns the timer's menu key into "Keep".
6. `presence_lock`: the host's poll finds its request timed out and closes the dialog, and the watchdog's
   ForceTimeout, already in the mailbox, closes it again. Both closes pass the check before the first is
   carried out. That one gives the lock to a CTAP2 prompt that waits for it, the second takes it away:
   the prompt is never shown and waits for its time-out, with a stale listener behind it.

## 4. What TLAPS proves

Every safety property that a passing run checks, and the refinement, is the statement of a theorem,
for every value of the constants that satisfies the ASSUMEs of the modules: sizes, a mailbox and a
prompt's time limit at least one; other bounds and times natural numbers; `NoChunk` and `Torn` no
pictures, `None` no nonce and no gene, `NoApp` no application, no application named like a state of
the FIDO thread.

`ImageTransferProofs`: `TypeCorrect`, `CountCorrect`, `NoHolesEver`, from `Invariance`. The inductive
invariant `IInv` adds two facts to the three properties: while `bpc` is in the store sequence, every
slot is filled (`StoringIsFull`), without which the write could put a hole in the key; and the app
has a picture while it is sending one (`JobHasImage`), without which a chunk could be empty. The
step into the store rests on a counting argument: as many filled slots as slots means all of them,
from the library's cardinality theorems.

`ImageRefinementProofs`: three theorems that name the faults they can stand.

* `ViewFollowsStore`, if `pddb` is not among the faults: once the vault has read its mail, the screen
  shows what the key holds. The invariant `MailIsNews` says that the last `ImageLoad` in the mailbox is
  news of the key as it is. A delete that fails and is ignored would break it, so the assumption is
  needed.
* `SuccessIsStored` and `Refinement`, for faults among `garble`, `unplug` and `crash` (`NoReplyLost`),
  the set the run `image_recovery` has: damaged lines, a pulled cable and power loss at any point,
  for any number of pictures, frames, chunks, retries and jobs. The assumption is needed: the run
  `image_stale_chunk` has a reply that is lost, and violates `SuccessMeansStored`.

Neither property is inductive. `ProtocolInv` says what a line on the link means: one line or one
reply is under way, never both (`OneInFlight`); a line is the one the app waits for (`LineOfJob`); the
slots before the one in a chunk line hold chunks of the same picture (`ChunkInOrder`), also when the
app has given up since; what the app has been told is so (`UploadInv`, `ReplyInv`); the last slot is
the last to be filled (`LastIsEmpty`), so that the store starts with one whole picture (`StoreInv`).
A step that changes what the key reads as (the delete, the end of the write, a clear, and nothing in
between) is then a `Store` of a whole picture or of none, the first step of a job an `Ask`, its last one
`ReportDone` or `ReportFailed`, and every other step a stutter. `JobOpen`: a job that goes
on has reported nothing yet.

`GeneExchangeProofs`: `TypeCorrect`, `NeverSelf` and `AlwaysListensAgain`. `NoSelfBreeding` is not
inductive. The invariant `SelfInv` says of every code, on a screen, in a photograph or in a mailbox,
that its nonce was generated already, and that one a badge made for a nonce of its own is for an older
one (`Known`); and that a badge's nonce is the newest it generated (`Current`). Answering one's own key
generates a newer nonce (`AnswerKeepsInv`), so what a badge can still decrypt is never its own
(`BreedKeepsInv`). Nonces only grow, so what is known stays known (`KnownStays`). For `ListensAgain`,
`ListenInv` says of a badge with no mishap that, when it is not scanning, the message that will end
`GeneScan` is in its mailbox, that the one that will use up `skip_one_key` is, unless it is set for a
key that went to a dialog (`Skips`), and none that would undo it. `PressMail` is what a key adds to a
mailbox, in each of its cases.

`ClientPinProofs`: every property of the run `pin`, for any PINs, lengths, limits and timers, from
`Invariance`. None is inductive: each has to say what holds in the middle of a command. `CountInv` says
that the attempt being made is paid for (`guesses + args.len + 1 <= Limit`) from the first check to the
comparison; `WrongInv` that a wrong PIN which is neither a mismatch nor `uncounted` was the last
attempt, after which no other is possible (`ReadErrorStep` is the read that fails); `UseInv` that what a
token was used for binds what it can still be used for; `PinInv` which stages may have a token and a PIN
that do not belong together; `PolicyInv` that the mark is stored before the minimum it is about.
`CallInv` and `PhaseInv` tie stages to commands and phases to the key. One lemma per action;
`CutOffStep` covers what an error of the store and a loss of power have in common. Assumed: limits and
lengths are natural numbers, at least one retry and one mismatch, `NoRp` is no relying party.

`PowerManagerProofs`: all four invariants of the run `power`. `ScreenCanWake` and `WatchdogRuns` are
inductive together: a suspend that is refused, and every interrupt that ends one, does the second
half of `HandlePoll`. `SettingApplied` is not inductive. `CallInv` says that the mailbox holds at most
one message the vault blocks on, that it is the one the vault waits for, and that it carries the
setting the vault has now; `TopInv`, what the manager has when `update_power_state` is about to send
nothing because it thinks nothing has changed.

`UserPresenceProofs`: all four invariants of the run `presence`, for any applications, time limits and
numbers of requests and keys.

* `ApprovalNeedsKey`: `CreditInv` counts the keys that can still approve something, those received by
  listeners and the one in `kbhit`, against the keys pressed into the server's dialogs.
* `LockIsUsed`: `LockInv` says, unless two closes crossed, that who goes by having the lock has it, that
  who has it goes by it or has a close on its way, and that a close that passed the check is the only one
  and finds the lock where it was checked. The check and the release are two messages, so this rests on
  what may be in the dialog server's mailbox together and in which order (`BoxInv`: one request of a
  client at a time, no close of a client behind its next request for the lock, none while it uses the
  lock), and on what a client's call says of its state (`ClientInv`). An approval's update of the PDDB and
  a poll can be in the permission server's mailbox together, so `MailInv` has the order they come in. The
  invariant also says that without crossing closes no listener is stale and the dialog server does not
  panic.
* `DialogIsWatched`: `WatchInv` says that a watchdog that runs has a `Pump` ahead, and that while a dialog
  is up the last `Run` in the watchdog's mailbox has no `Stop` behind it (`RunAhead`), or the watchdog
  runs with no `Stop` ahead, or has asked for the timeout already.
* `TypeCorrect` needs `BusyInv`: a blocked server keeps the message it works on.

Only model-checked: the properties under fairness (`CleanUploadSucceeds`, `JobsEnd`, `KeyResumes`,
`UnattendedPowersDown`, `ConfirmationRaised`, `PollAnswered`, `PromptOver`, `DialogComesDown`), which are
out of the prover's reach, and the violations.

## 5. What is not modelled

Vendored Xous beyond what the modules take from it and OpenSK's cryptography; drawing; the LED renderer;
the accelerometer's registers; the factory tests; token mode; of the authenticator its credentials,
large blobs, U2F messages and HID packets; the app's dialogs, photograph conversion and downloads. Two
properties of the code that the models do not reach: a full kernel queue that drops a
`try_send_message`, and an edge on the VBUS pin between the read and the re-arming of its interrupt.
Which of the vault's menus is drawn (`main.rs:388`) is left out with the drawing.

## 6. Plan

1. LED presets and genes: `led`, `leds.rs`, `restore_led_preset`; what survives a reboot, which of
   preset and gene wins.
2. The vault's modes and menus on the token side, `BasisChange` included; composed with
   `GeneExchange` by the mailbox they share; a reboot of the badge in `GeneExchange`.
3. Password and TOTP records: storage, the item cache and the usage counters.
4. CTAPHID: channels, packets, timeouts; the enumerations `StatefulPermission` keeps between
   commands, with credentials deleted in between.
5. Pure algorithms: pixel packing at both ends of the link, the mutation's Gray code, the clamping
   of the frame rate, each against a reference definition.
6. Proofs: the safety half of the liveness properties, such as a poll in the mailbox for as long as
   the FIDO thread waits for its answer, a dialog's listener belonging to who has the lock, and an
   alarm or a poll timer set whenever the badge is to power down by itself.
