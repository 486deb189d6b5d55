--------------------------- MODULE UserPresence ----------------------------
(***************************************************************************)
(* How the authenticator asks whether the user is there.                   *)
(*                                                                         *)
(*   src/firmware/src/env/xous/mod.rs            the threads of XousEnv    *)
(*   src/firmware/xous-core/services/modals/src  the dialog server         *)
(*                                                                         *)
(* Four kinds of threads work on one dialog.  The FIDO thread serves the   *)
(* USB host.  For a U2F (CTAP1) request it polls the permission server,    *)
(* which puts the dialog up and answers later polls; nobody polls any more *)
(* when another authenticator answered the host, so a watchdog takes the   *)
(* dialog down.  For a CTAP2 request the FIDO thread puts up a dialog of   *)
(* its own and waits.  Every dialog has a listener thread, which receives  *)
(* one key from the dialog server and stores it for the one who asked.     *)
(* The dialog server lets one client at a time have a dialog; the vault's  *)
(* own dialogs are the client "other".  It works from a mailbox: a client  *)
(* asks for the lock and waits, asks for its dialog and goes on, and asks  *)
(* later for the dialog to be closed.  The lock is checked when that last  *)
(* request is taken, and given on when the server takes the message it     *)
(* then sends to itself.                                                   *)
(*                                                                         *)
(* A listener is registered with the dialog server together with its       *)
(* dialog: that takes microseconds, where the host polls every few hundred *)
(* milliseconds.                                                           *)
(***************************************************************************)
EXTENDS Integers, Sequences

CONSTANTS
    Apps, NoApp,    \* U2F applications; no application
    Recorded,       \* applications the PDDB has a record of from earlier sessions
    PromptTimeout,  \* U2F_UP_PROMPT_TIMEOUT, in clock ticks
    Margin,         \* MARGIN_MS, in clock ticks
    TouchTimeout,   \* TOUCH_TIMEOUT, in clock ticks
    MaxRequests,    \* bound: requests of the host
    MaxKeys         \* bound: keys the user presses

ASSUME AppsAssumption == NoApp \notin Apps /\ Recorded \subseteq Apps
\* What the FIDO thread is blocked on is never taken for an application.
ASSUME FidoAssumption == Apps \cap {"idle", "polling", "opening", "prompting", "dead"} = {}
ASSUME TimesAssumption == /\ PromptTimeout \in Nat \ {0} /\ Margin \in Nat
                          /\ TouchTimeout \in Nat \ {0}
ASSUME BoundsAssumption == MaxRequests \in Nat /\ MaxKeys \in Nat

VARIABLES
    \* the FIDO thread
    fido,       \* what it is blocked on
    kbhit2,     \* the key its current CTAP2 prompt has seen
    pending2,   \* the key its listener has and did not store yet
    age2,       \* ticks since its prompt was due
    \* the permission server
    srv,        \* ready, blocked on a dialog, or gone
    mbox,       \* its mailbox
    current,    \* current_id
    denied,     \* denied_id
    age,        \* ticks since request_start
    kbhit,      \* the key all its listeners store to
    pending,    \* keys its listeners have and did not store yet, by count
    named,      \* applications with a record in the PDDB
    \* the watchdog
    wbox,       \* its mailbox
    run, wage,  \* run; ticks since start_time
    sleep,      \* the sleep of a Pump
    \* the dialog server
    dbox,       \* its mailbox
    lock, queue,\* token_lock and work_queue; the lock is "down" after a panic
    slot,       \* dynamic_notification_listener
    call,       \* the call each client has to the dialog server
    other,      \* the vault's own dialog
    \* history
    requests, keys,
    credit,     \* keys for the server's dialogs not yet used to approve
    crossed     \* a dialog was closed a second time before its lock was given on

fidoVars  == <<fido, kbhit2, pending2, age2>>
srvVars   == <<srv, mbox, current, denied, age, kbhit, pending, named>>
wdVars    == <<wbox, run, wage, sleep>>
modalVars == <<dbox, lock, queue, slot, call, other>>
histVars  == <<requests, keys, credit, crossed>>
vars == <<fidoVars, srvVars, wdVars, modalVars, histVars>>

Clients == {"srv", "fido", "other"}
NoKey == "none"
Keys  == {"yes", "no", "event"}  \* an approving key, the down key, any other

Poll(a)   == [op |-> "PollPermission", app |-> a]
Update(a) == [op |-> "UpdateAppInfo", app |-> a]
Expire    == [op |-> "ForceTimeout", app |-> NoApp]
Messages  == {Poll(a) : a \in Apps} \cup {Update(a) : a \in Apps} \cup {Expire}

\* The messages of the dialog server.  Show stands for each of the requests that
\* put up a dialog.
Get(c)    == [op |-> "GetMutex", by |-> c]
Show(c)   == [op |-> "DynamicNotification", by |-> c]
Close(c)  == [op |-> "CloseDynamicNotification", by |-> c]
DoClose   == [op |-> "DoCloseDynamicNotification", by |-> "none"]
Requests  == {Get(c) : c \in Clients} \cup {Show(c) : c \in Clients}
               \cup {Close(c) : c \in Clients} \cup {DoClose}

Init ==
    /\ fido = "idle" /\ kbhit2 = NoKey /\ pending2 = NoKey /\ age2 = 0
    /\ srv = "ready" /\ mbox = <<>> /\ current = NoApp /\ denied = NoApp
    /\ age = 0 /\ kbhit = NoKey /\ pending = [k \in Keys \cup {NoKey} |-> 0]
    /\ named = Recorded
    /\ wbox = <<>> /\ run = FALSE /\ wage = 0 /\ sleep = "awake"
    /\ dbox = <<>> /\ lock = "none" /\ queue = <<>> /\ slot = "none"
    /\ call = [c \in Clients |-> "idle"] /\ other = "idle"
    /\ requests = 0 /\ keys = 0 /\ credit = 0 /\ crossed = FALSE

----------------------------------------------------------------------------
(* The dialog server.                                                      *)

Send(m) == dbox' = Append(dbox, m)

\* Modals::lock: the client waits for the answer.
AsksLock(c) == Send(Get(c)) /\ call' = [call EXCEPT ![c] = "locking"]

\* ... and, once answered, asks for its dialog.
AskDialog(c) ==
    /\ call[c] = "locked"
    /\ Send(Show(c)) /\ call' = [call EXCEPT ![c] = "showing"]
    /\ UNCHANGED <<fidoVars, srvVars, wdVars, lock, queue, slot, other, histVars>>

\* The server takes a message; a server that panicked takes none.
Takes(m) == lock # "down" /\ dbox # <<>> /\ Head(dbox) = m

GetMutex(c) ==
    /\ Takes(Get(c)) /\ dbox' = Tail(dbox)
    /\ IF lock = "none"
       THEN lock' = c /\ call' = [call EXCEPT ![c] = "locked"] /\ UNCHANGED queue
       ELSE queue' = Append(queue, c) /\ UNCHANGED <<lock, call>>
    /\ UNCHANGED <<fidoVars, srvVars, wdVars, slot, other, histVars>>

\* next_lock.
Unlock ==
    IF queue = <<>> THEN lock' = "none" /\ UNCHANGED <<queue, call>>
    ELSE /\ lock' = Head(queue) /\ queue' = Tail(queue)
         /\ call' = [call EXCEPT ![Head(queue)] = "locked"]

\* The request for a dialog and its listener: without the lock the dialog is
\* not shown, and the listener is answered and registered all the same.
Shown(c) ==
    /\ Takes(Show(c)) /\ dbox' = Tail(dbox)
    /\ call' = [call EXCEPT ![c] = "idle"]
Listens(c) == slot' = IF lock = c THEN c ELSE "stale"

\* Who has the lock may close; the rest is left for a message to itself.
CloseDynamicNotification(c) ==
    /\ Takes(Close(c))
    /\ IF lock # c THEN dbox' = Tail(dbox) /\ UNCHANGED crossed
       ELSE /\ dbox' = Append(Tail(dbox), DoClose)
            /\ crossed' = (crossed \/ \E i \in 1 .. Len(dbox) : dbox[i] = DoClose)
    /\ UNCHANGED <<fidoVars, srvVars, wdVars, lock, queue, slot, call, other,
                   requests, keys, credit>>

\* An answer to a listener that has had its answer: the server panics.
Panics == lock' = "down" /\ UNCHANGED <<queue, call, slot, pending>>

\* A listener still waiting is sent home with no key, and the lock goes to the
\* next in the queue, whoever has it now.
DoCloseDynamicNotification ==
    /\ Takes(DoClose) /\ dbox' = Tail(dbox)
    /\ IF slot = "stale" THEN Panics
       ELSE /\ slot' = "none"
            /\ pending' = IF slot = "srv" THEN [pending EXCEPT ![NoKey] = @ + 1]
                                          ELSE pending
            /\ Unlock
    /\ UNCHANGED <<fidoVars, srv, mbox, current, denied, age, kbhit, named, wdVars,
                   other, histVars>>

\* HandleDynamicNotificationKeyhit: the listener gets the key and leaves.  The
\* listener of a prompt that has ended stores it where nobody looks.
Press(k) ==
    /\ keys < MaxKeys /\ slot # "none" /\ lock # "down"
    /\ keys' = keys + 1
    /\ \/ slot = "stale" /\ Panics /\ UNCHANGED <<pending2, credit>>
       \/ /\ slot = "srv" /\ slot' = "none"
          /\ pending' = [pending EXCEPT ![k] = @ + 1]
          /\ credit' = IF k = "no" THEN credit ELSE credit + 1
          /\ UNCHANGED <<lock, queue, call, pending2>>
       \/ /\ slot = "fido" /\ slot' = "none"
          /\ pending2' = IF fido = "prompting" THEN k ELSE pending2
          /\ UNCHANGED <<lock, queue, call, pending, credit>>
    /\ UNCHANGED <<fido, kbhit2, age2, srv, mbox, current, denied, age, kbhit,
                   named, wdVars, dbox, other, requests, crossed>>

\* A listener of the permission server stores what it got; 0 for no key.
StoreKey(k) ==
    /\ pending[k] > 0
    /\ pending' = [pending EXCEPT ![k] = @ - 1]
    /\ kbhit' = k
    /\ UNCHANGED <<fidoVars, srv, mbox, current, denied, age, named, wdVars,
                   modalVars, histVars>>

\* The listener of a CTAP2 prompt stores what it got.
StoreKey2 ==
    /\ pending2 # NoKey
    /\ kbhit2' = pending2 /\ pending2' = NoKey
    /\ UNCHANGED <<fido, age2, srvVars, wdVars, modalVars, histVars>>

\* The vault asks for a dialog of its own,
OtherAsks ==
    /\ other = "idle" /\ call["other"] = "idle" /\ requests < MaxRequests
    /\ requests' = requests + 1
    /\ AsksLock("other")
    /\ UNCHANGED <<fidoVars, srvVars, wdVars, lock, queue, slot, other, keys, credit,
                   crossed>>

\* gets it, or goes on without it,
OtherOpens ==
    /\ Shown("other")
    /\ other' = IF lock = "other" THEN "open" ELSE "idle"
    /\ UNCHANGED <<fidoVars, srvVars, wdVars, lock, queue, slot, histVars>>

\* and the user leaves it.
OtherCloses ==
    /\ other = "open" /\ lock # "down"
    /\ other' = "idle"
    /\ Unlock
    /\ UNCHANGED <<fidoVars, srvVars, wdVars, dbox, slot, histVars>>

----------------------------------------------------------------------------
(* The FIDO thread.                                                        *)

\* poll_approval_ctap1: blocks until the server answers.
RequestCtap1(a) ==
    /\ fido = "idle" /\ requests < MaxRequests
    /\ requests' = requests + 1
    /\ fido' = "polling"
    /\ mbox' = Append(mbox, Poll(a))
    /\ UNCHANGED <<kbhit2, pending2, age2, srv, current, denied, age, kbhit,
                   pending, named, wdVars, modalVars, keys, credit, crossed>>

\* Approved: the record of the application is brought up to date.
SendUpdate ==
    /\ fido \in Apps
    /\ fido' = "idle"
    /\ mbox' = Append(mbox, Update(fido))
    /\ UNCHANGED <<kbhit2, pending2, age2, srv, current, denied, age, kbhit,
                   pending, named, wdVars, modalVars, histVars>>

\* wait_with_timeout: the time runs before the dialog is there.
RequestCtap2 ==
    /\ fido = "idle" /\ requests < MaxRequests
    /\ requests' = requests + 1
    /\ fido' = "opening"
    /\ kbhit2' = NoKey /\ pending2' = NoKey /\ age2' = 0
    /\ AsksLock("fido")
    /\ UNCHANGED <<srvVars, wdVars, lock, queue, slot, other, keys, credit, crossed>>

Prompt ==
    /\ fido = "opening" /\ Shown("fido") /\ Listens("fido")
    /\ fido' = "prompting"
    /\ UNCHANGED <<kbhit2, pending2, age2, srvVars, wdVars, lock, queue, other,
                   histVars>>

\* Mutant: a return from the loop that leaves the dialog up.
PromptEnds_Leaves ==
    /\ fido = "prompting"
    /\ age2 >= TouchTimeout \/ kbhit2 \in {"yes", "no"}
    /\ fido' = "idle"
    /\ kbhit2' = NoKey /\ pending2' = NoKey
    /\ UNCHANGED <<age2, srvVars, wdVars, modalVars, histVars>>

\* One round of the loop that ends it: no time left, approved or declined.
\* Any other key is ignored, and so is every key after it.
PromptEnds ==
    /\ fido = "prompting"
    /\ age2 >= TouchTimeout \/ kbhit2 \in {"yes", "no"}
    /\ fido' = "idle"
    /\ kbhit2' = NoKey /\ pending2' = NoKey
    /\ Send(Close("fido"))
    /\ UNCHANGED <<age2, srvVars, wdVars, lock, queue, slot, call, other, histVars>>

\* A keepalive the USB stack does not take: the thread panics and leaves its
\* dialog up.
KeepaliveFails ==
    /\ fido = "prompting"
    /\ fido' = "dead"
    /\ UNCHANGED <<kbhit2, pending2, age2, srvVars, wdVars, modalVars, histVars>>

----------------------------------------------------------------------------
(* The permission server.                                                  *)

Received(m) == srv = "ready" /\ mbox # <<>> /\ Head(mbox) = m /\ mbox' = Tail(mbox)

\* The answer to a poll unblocks the FIDO thread.
Answer(approved, a) == fido' = IF approved THEN a ELSE "idle"

\* The watchdog is told to stop, and the dialog to close.
StopAndClose == wbox' = Append(wbox, "Stop") /\ Send(Close("srv"))

\* Mutant: the dialog of the request that ends is not closed.
PollChanged_KeepsDialog(a) ==
    /\ Received(Poll(a)) /\ current \notin {a, NoApp}
    /\ current' = NoApp
    /\ wbox' = Append(wbox, "Stop")
    /\ Answer(FALSE, a)
    /\ UNCHANGED <<kbhit2, pending2, age2, srv, denied, age, kbhit, pending, named,
                   run, wage, sleep, modalVars, histVars>>

\* A poll for another application ends the request in progress.
PollChanged(a) ==
    /\ Received(Poll(a)) /\ current \notin {a, NoApp}
    /\ current' = NoApp
    /\ StopAndClose
    /\ Answer(FALSE, a)
    /\ UNCHANGED <<kbhit2, pending2, age2, srv, denied, age, kbhit, pending, named,
                   run, wage, sleep, lock, queue, slot, call, other, histVars>>

\* Mutant: an approved request stays the current one.
PollApproved_KeepsId(a) ==
    /\ Received(Poll(a)) /\ current = a /\ kbhit \in {"yes", "event"}
    /\ StopAndClose
    /\ Answer(TRUE, a)
    /\ credit' = credit - 1
    /\ UNCHANGED <<kbhit2, pending2, age2, srv, current, denied, age, kbhit, pending,
                   named, run, wage, sleep, lock, queue, slot, call, other, requests,
                   keys, crossed>>

\* Any key but the down key approves.
PollApproved(a) ==
    /\ Received(Poll(a)) /\ current = a /\ kbhit \in {"yes", "event"}
    /\ current' = NoApp
    /\ StopAndClose
    /\ Answer(TRUE, a)
    /\ credit' = credit - 1
    /\ UNCHANGED <<kbhit2, pending2, age2, srv, denied, age, kbhit, pending, named,
                   run, wage, sleep, lock, queue, slot, call, other, requests, keys,
                   crossed>>

PollDenied(a) ==
    /\ Received(Poll(a)) /\ current = a /\ kbhit = "no"
    /\ current' = NoApp /\ denied' = a
    /\ StopAndClose
    /\ Answer(FALSE, a)
    /\ UNCHANGED <<kbhit2, pending2, age2, srv, age, kbhit, pending, named,
                   run, wage, sleep, lock, queue, slot, call, other, histVars>>

PollTimedOut(a) ==
    /\ Received(Poll(a)) /\ current = a /\ kbhit = NoKey /\ age >= PromptTimeout
    /\ current' = NoApp /\ denied' = NoApp
    /\ StopAndClose
    /\ Answer(FALSE, a)
    /\ UNCHANGED <<kbhit2, pending2, age2, srv, age, kbhit, pending, named,
                   run, wage, sleep, lock, queue, slot, call, other, histVars>>

PollWaiting(a) ==
    /\ Received(Poll(a)) /\ current = a /\ kbhit = NoKey /\ age < PromptTimeout
    /\ Answer(FALSE, a)
    /\ UNCHANGED <<kbhit2, pending2, age2, srv, current, denied, age, kbhit,
                   pending, named, wdVars, modalVars, histVars>>

\* A request that was denied a moment ago is refused without asking.
PollRefused(a) ==
    /\ Received(Poll(a)) /\ current = NoApp /\ denied = a /\ age < PromptTimeout
    /\ Answer(FALSE, a)
    /\ UNCHANGED <<kbhit2, pending2, age2, srv, current, denied, age, kbhit,
                   pending, named, wdVars, modalVars, histVars>>

\* A new request: its time starts, then the server waits for the dialog.
PollNew(a) ==
    /\ srv = "ready" /\ mbox # <<>> /\ Head(mbox) = Poll(a)
    /\ current = NoApp /\ ~(denied = a /\ age < PromptTimeout)
    /\ srv' = "opening"
    /\ denied' = NoApp /\ age' = 0
    /\ AsksLock("srv")
    /\ UNCHANGED <<fidoVars, mbox, current, kbhit, pending, named, wdVars, lock, queue,
                   slot, other, histVars>>

\* ... goes on with it, starts its listener and the watchdog, and answers.
DialogUp(a) ==
    /\ srv = "opening" /\ Head(mbox) = Poll(a)
    /\ Shown("srv") /\ Listens("srv")
    /\ srv' = "ready" /\ mbox' = Tail(mbox)
    /\ current' = a /\ kbhit' = NoKey
    /\ pending' = IF lock = "srv" THEN pending ELSE [pending EXCEPT ![NoKey] = @ + 1]
    /\ wbox' = Append(wbox, "Run")
    /\ Answer(FALSE, a)
    /\ UNCHANGED <<kbhit2, pending2, age2, denied, age, named, run, wage, sleep, lock,
                   queue, other, histVars>>

\* UpdateAppInfo of an application with a record.
UpdateRecord(a) ==
    /\ Received(Update(a)) /\ a \in named
    /\ UNCHANGED <<fidoVars, srv, current, denied, age, kbhit, pending, named,
                   wdVars, modalVars, histVars>>

\* UpdateAppInfo of a new one: the user is asked for a name.
AskName(a) ==
    /\ srv = "ready" /\ mbox # <<>> /\ Head(mbox) = Update(a) /\ a \notin named
    /\ srv' = "naming"
    /\ AsksLock("srv")
    /\ UNCHANGED <<fidoVars, mbox, current, denied, age, kbhit, pending, named,
                   wdVars, lock, queue, slot, other, histVars>>

\* The dialog is there.  Without the lock the answer is one of another type:
\* the thread panics, or takes what it finds in it for the name.
NameShown(a) ==
    /\ srv = "naming" /\ Head(mbox) = Update(a)
    /\ Shown("srv")
    /\ \/ lock = "srv" /\ UNCHANGED <<srv, mbox, named>>
       \/ lock # "srv" /\ srv' = "dead" /\ UNCHANGED <<mbox, named>>
       \/ /\ lock # "srv" /\ srv' = "ready"
          /\ mbox' = Tail(mbox) /\ named' = named \cup {a}
    /\ UNCHANGED <<fidoVars, current, denied, age, kbhit, pending, wdVars, lock, queue,
                   slot, other, histVars>>

\* The server waits for the user to type a name.
WaitsForName == srv = "naming" /\ call["srv"] = "idle"

NameGiven(a) ==
    /\ WaitsForName /\ Head(mbox) = Update(a) /\ lock # "down"
    /\ srv' = "ready" /\ mbox' = Tail(mbox)
    /\ named' = named \cup {a}
    /\ IF lock = "srv" THEN Unlock ELSE UNCHANGED <<lock, queue, call>>
    /\ UNCHANGED <<fidoVars, current, denied, age, kbhit, pending, wdVars, dbox, slot,
                   other, histVars>>

\* Mutant: the timeout forgets the request and not its dialog.
ForceTimeout_KeepsDialog ==
    /\ Received(Expire)
    /\ current' = NoApp
    /\ UNCHANGED <<fidoVars, srv, denied, age, kbhit, pending, named, wdVars,
                   modalVars, histVars>>

\* The watchdog wants the dialog down, whichever dialog it is by now.
ForceTimeout ==
    /\ Received(Expire)
    /\ current' = NoApp
    /\ Send(Close("srv"))
    /\ UNCHANGED <<fidoVars, srv, denied, age, kbhit, pending, named, wdVars, lock,
                   queue, slot, call, other, histVars>>

----------------------------------------------------------------------------
(* The watchdog.                                                           *)

Handles(m) == sleep = "awake" /\ wbox # <<>> /\ Head(wbox) = m

\* Mutant: the first Pump is not sent.
Run_NoPump ==
    /\ Handles("Run")
    /\ run' = TRUE
    /\ wbox' = Tail(wbox)
    /\ wage' = IF run THEN wage ELSE 0
    /\ UNCHANGED <<fidoVars, srvVars, sleep, modalVars, histVars>>

\* A request to run restarts the clock only when the watchdog is not running.
Run ==
    /\ Handles("Run")
    /\ run' = TRUE
    /\ IF run THEN wbox' = Tail(wbox) /\ UNCHANGED wage
              ELSE wbox' = Append(Tail(wbox), "Pump") /\ wage' = 0
    /\ UNCHANGED <<fidoVars, srvVars, sleep, modalVars, histVars>>

\* Mutant: the watchdog gives up without asking for the timeout.
Pump_Silent ==
    /\ Handles("Pump")
    /\ wbox' = Tail(wbox)
    /\ IF ~run THEN UNCHANGED <<run, sleep>>
       ELSE IF wage > PromptTimeout + Margin
            THEN run' = FALSE /\ UNCHANGED sleep
            ELSE sleep' = "asleep" /\ UNCHANGED run
    /\ UNCHANGED <<fidoVars, srvVars, wage, modalVars, histVars>>

\* Too late: ask for the timeout.  Else sleep in the handler and go on.
Pump ==
    /\ Handles("Pump")
    /\ wbox' = Tail(wbox)
    /\ IF ~run THEN UNCHANGED <<run, sleep, mbox>>
       ELSE IF wage > PromptTimeout + Margin
            THEN run' = FALSE /\ mbox' = Append(mbox, Expire) /\ UNCHANGED sleep
            ELSE sleep' = "asleep" /\ UNCHANGED <<run, mbox>>
    /\ UNCHANGED <<fidoVars, srv, current, denied, age, kbhit, pending, named,
                   wage, modalVars, histVars>>

Wake ==
    /\ sleep = "due"
    /\ sleep' = "awake"
    /\ wbox' = Append(wbox, "Pump")
    /\ UNCHANGED <<fidoVars, srvVars, run, wage, modalVars, histVars>>

StopWatchdog ==
    /\ Handles("Stop")
    /\ wbox' = Tail(wbox) /\ run' = FALSE
    /\ UNCHANGED <<fidoVars, srvVars, wage, sleep, modalVars, histVars>>

----------------------------------------------------------------------------
\* Mutant: a clock that does not stop.
Older_Uncapped(t, limit) == t + 1

\* The clocks stop where nothing tells their values apart any more.
Older(t, limit) == IF t < limit THEN t + 1 ELSE t

Tick ==
    /\ age' = Older(age, PromptTimeout)
    /\ age2' = Older(age2, TouchTimeout)
    /\ wage' = Older(wage, PromptTimeout + Margin + 1)
    /\ sleep' = IF sleep = "asleep" THEN "due" ELSE sleep
    /\ UNCHANGED <<fido, kbhit2, pending2, srv, mbox, current, denied, kbhit,
                   pending, named, wbox, run, modalVars, histVars>>

Server ==
    \/ \E a \in Apps : \/ PollChanged(a) \/ PollApproved(a) \/ PollDenied(a)
                       \/ PollTimedOut(a) \/ PollWaiting(a) \/ PollRefused(a)
                       \/ PollNew(a) \/ UpdateRecord(a) \/ AskName(a)
    \/ ForceTimeout

Watchdog == Run \/ Pump \/ Wake \/ StopWatchdog

Fido == SendUpdate \/ PromptEnds

Listener == StoreKey2 \/ \E k \in Keys \cup {NoKey} : StoreKey(k)

\* The dialog server, and its clients while they wait for it.
Dialogs == \/ \E c \in Clients : \/ AskDialog(c) \/ GetMutex(c)
                                 \/ CloseDynamicNotification(c)
           \/ DoCloseDynamicNotification
           \/ Prompt \/ OtherOpens \/ \E a \in Apps : DialogUp(a) \/ NameShown(a)

Host == RequestCtap2 \/ KeepaliveFails \/ OtherAsks \/ \E a \in Apps : RequestCtap1(a)

User == \/ \E k \in Keys : Press(k)
        \/ \E a \in Apps : NameGiven(a)
        \/ OtherCloses

Next == Server \/ Watchdog \/ Fido \/ Listener \/ Dialogs \/ Host \/ User \/ Tick

\* The threads are scheduled and time passes.  The user leaves the vault's own
\* dialogs sooner or later; he need not answer the authenticator's, nor type a
\* name, and the host need not ask again.
Fairness == /\ WF_vars(Server) /\ WF_vars(Watchdog) /\ WF_vars(Fido)
            /\ WF_vars(Dialogs) /\ WF_vars(Tick) /\ WF_vars(OtherCloses)

Spec == Init /\ [][Next]_vars /\ Fairness

----------------------------------------------------------------------------
(* Properties.                                                             *)

TypeOK ==
    /\ fido \in {"idle", "polling", "opening", "prompting", "dead"} \cup Apps
    /\ kbhit2 \in Keys \cup {NoKey} /\ pending2 \in Keys \cup {NoKey}
    /\ age2 \in 0 .. TouchTimeout
    /\ srv \in {"ready", "opening", "naming", "dead"}
    /\ mbox \in Seq(Messages)
    /\ current \in Apps \cup {NoApp} /\ denied \in Apps \cup {NoApp}
    /\ age \in 0 .. PromptTimeout
    /\ kbhit \in Keys \cup {NoKey}
    /\ pending \in [Keys \cup {NoKey} -> Nat]
    /\ named \in SUBSET Apps
    /\ wbox \in Seq({"Run", "Pump", "Stop"})
    /\ run \in BOOLEAN /\ wage \in 0 .. PromptTimeout + Margin + 1
    /\ sleep \in {"awake", "asleep", "due"}
    /\ dbox \in Seq(Requests)
    /\ lock \in Clients \cup {"none", "down"} /\ queue \in Seq(Clients)
    /\ slot \in {"none", "srv", "fido", "stale"}
    /\ call \in [Clients -> {"idle", "locking", "locked", "showing"}]
    /\ other \in {"idle", "open"}
    /\ requests \in 0 .. MaxRequests /\ keys \in 0 .. MaxKeys /\ credit \in Int
    /\ crossed \in BOOLEAN

\* A U2F request is approved only with a key the user pressed while a dialog
\* of the permission server was up, and no key approves two requests.
OneApprovalPerKey == credit >= 0

Queued(m) == \E i \in 1 .. Len(wbox) : wbox[i] = m

\* A dialog of the permission server is always about to be taken down: the
\* watchdog runs and has a Pump ahead, will be told to run, or has already
\* asked for the timeout.
Watched ==
    current # NoApp =>
      \/ run /\ (Queued("Pump") \/ sleep # "awake")
      \/ Queued("Run")
      \/ \E i \in 1 .. Len(mbox) : mbox[i] = Expire

\* A client of the dialog server goes by having its lock: it was told so, or
\* takes its dialog to be up.
Uses(c) ==
    \/ call[c] \in {"locked", "showing"}
    \/ c = "srv" /\ (current # NoApp \/ WaitsForName)
    \/ c = "fido" /\ fido \in {"prompting", "dead"}
    \/ c = "other" /\ other = "open"

\* The lock is about to be given on.
Leaving(c) == \E i \in 1 .. Len(dbox) : dbox[i] \in {Close(c), DoClose}

\* "you must close this dialog using `dynamic_notification_close`" (lib.rs): the
\* dialog of a prompt or of a U2F request stays until its own client closes it.
PromptKeepsLock ==
    /\ fido = "prompting" => lock = "fido"
    /\ current # NoApp => lock = "srv"

\* Unless two closes of one dialog crossed, who goes by having the dialog
\* server's lock has it, and who has it goes by it or has asked to close: no
\* ended request keeps the others waiting.
LockInUse ==
    ~crossed => \A c \in Clients : (Uses(c) => lock = c)
                                   /\ (lock = c => Uses(c) \/ Leaving(c))

\* The user types every name he is asked for, sooner or later, and the dialog
\* server and the permission server do not panic.
NamesGiven == []<>~WaitsForName
NoPanic    == [](lock # "down" /\ srv # "dead")

\* A poll is answered, whatever else the user does with the authenticator's
\* dialogs: the FIDO thread, and with it the USB host, is not left waiting.  For
\* a name that is never typed it is, and it is when the dialog server panics.
PollAnswered == NamesGiven /\ NoPanic => (fido = "polling" ~> fido # "polling")

\* A CTAP2 prompt ends, also when it has to wait for a U2F dialog that the
\* host no longer polls.
PromptOver == NamesGiven /\ NoPanic => (fido = "opening" ~> fido \in {"idle", "dead"})

\* "start the timeout watchdog, because if another token responds to the
\* request, we will be left hanging": a request in progress always ends.
DialogComesDown == \A a \in Apps : current = a ~> current = NoApp
=============================================================================
