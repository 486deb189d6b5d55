------------------------- MODULE UserPresenceProofs -------------------------
(***************************************************************************)
(* The safety promises of UserPresence, proved for any applications, any   *)
(* time limits and any number of requests and keys.                        *)
(*                                                                         *)
(* Approvals: every key that may still approve a request is one the user   *)
(* pressed (CreditInv).                                                    *)
(* The lock: as long as no two closes of one dialog cross, the lock is     *)
(* where its clients believe it to be (LockInv).  The dialog server checks *)
(* it when it takes the close and gives it on later, so this rests on what *)
(* may be in its mailbox together, and in which order (BoxInv), and on     *)
(* what a client may do while it waits (ClientInv); the answers to polls   *)
(* do not disturb it because of the order of the messages in the           *)
(* permission server's mailbox (MailInv).                                  *)
(* The watchdog: a Stop in its mailbox never comes after the Run of the    *)
(* dialog that is up (WatchInv).                                           *)
(***************************************************************************)
EXTENDS UserPresence, SequenceTheorems, TLAPS

\* A server that is blocked has the message it works on in its mailbox.
BusyInv == srv # "ready" => mbox # <<>>

\* The keys not yet used cover the keys on their way to the server, and the
\* one that the current request has.
CreditInv ==
    credit >= pending["yes"] + pending["event"]
                + IF current # NoApp /\ kbhit \in {"yes", "event"} THEN 1 ELSE 0

Polls   == {Poll(a) : a \in Apps}
Updates == {Update(a) : a \in Apps}

\* The FIDO thread waits for the answer to a poll in the server's mailbox, and
\* sent it last; while an approval is on its way to the PDDB no request is open.
Mail(s, f, c) ==
    /\ \A i \in 1 .. Len(s) : s[i] \in Polls =>
          f = "polling" /\ \A j \in 1 .. Len(s) : j > i => s[j] = Expire
    /\ \A i \in 1 .. Len(s) : s[i] \in Updates => c = NoApp

MailInv == Mail(mbox, fido, current) /\ (fido \in Apps => current = NoApp)

Has(s, m) == \E i \in 1 .. Len(s) : s[i] = m
Follows(s, m, n) == \E i, j \in 1 .. Len(s) : i < j /\ s[i] = m /\ s[j] = n

\* A client's call to the dialog server goes with what it is doing.
ClientInv ==
    /\ srv \in {"ready", "dead"} => call["srv"] = "idle"
    /\ srv # "ready" => current = NoApp
    /\ fido # "opening" => call["fido"] = "idle"
    /\ other = "open" => call["other"] = "idle"

\* A client is waiting for its one request for the lock, in the dialog server's
\* mailbox or in the queue, and has closed what it had before; it is waiting for
\* its one dialog; and who goes by having the lock has no close on its way.
BoxInv == \A c \in Clients :
    /\ Has(queue, c) => call[c] = "locking" /\ ~Has(dbox, Close(c)) /\ ~Has(dbox, Get(c))
    /\ Has(dbox, Get(c)) => call[c] = "locking"
    /\ Has(dbox, Show(c)) => call[c] = "showing"
    /\ Uses(c) => ~Has(dbox, Close(c))
    /\ ~Follows(dbox, Get(c), Close(c))
    /\ ~Follows(dbox, Get(c), Get(c)) /\ ~Follows(dbox, Show(c), Show(c))
    /\ ~Follows(queue, c, c)

\* Unless two closes crossed: who goes by having the lock has it, who has it goes
\* by it or has a close on its way, and a close that passed the check is the only
\* one and finds the lock with the client it was checked for.
LockInv == ~crossed =>
    /\ slot # "stale" /\ lock # "down"
    /\ \A c \in Clients : Uses(c) => lock = c
    /\ \A c \in Clients : lock = c => Uses(c) \/ Has(dbox, Close(c)) \/ Has(dbox, DoClose)
    /\ Has(dbox, DoClose) => \E c \in Clients : lock = c /\ ~Uses(c)
    /\ ~Follows(dbox, DoClose, DoClose)

\* The last Run in the watchdog's mailbox is not followed by a Stop.
RunAhead == \E i \in 1 .. Len(wbox) :
    wbox[i] = "Run" /\ \A j \in 1 .. Len(wbox) : j > i => wbox[j] # "Stop"

\* A watchdog that runs has a Pump ahead; a dialog that is up has a watchdog that
\* runs and will not be stopped, or will run, or has asked for the timeout.
WatchInv ==
    /\ run => Queued("Pump") \/ sleep # "awake"
    /\ current # NoApp =>
          \/ RunAhead
          \/ run /\ ~Queued("Stop")
          \/ \E i \in 1 .. Len(mbox) : mbox[i] = Expire

-----------------------------------------------------------------------------
(* Sequences and messages.                                                 *)

\* What is in a mailbox after one message more.
LEMMA AppendFact ==
    ASSUME NEW S, NEW s \in Seq(S), NEW m \in S
    PROVE  /\ Append(s, m) \in Seq(S) /\ Append(s, m) # <<>>
           /\ Len(Append(s, m)) = Len(s) + 1
           /\ Len(s) \in Nat
           /\ \A i \in 1 .. Len(s) : Append(s, m)[i] = s[i]
           /\ Append(s, m)[Len(s) + 1] = m
BY AppendProperties, LenProperties

\* What is in a mailbox after one message less.
LEMMA TailFact ==
    ASSUME NEW S, NEW s \in Seq(S), s # <<>>
    PROVE  /\ Head(s) \in S /\ Head(s) = s[1]
           /\ Tail(s) \in Seq(S)
           /\ Len(s) \in Nat \ {0} /\ Len(Tail(s)) = Len(s) - 1
           /\ \A i \in 1 .. Len(s) - 1 : Tail(s)[i] = s[i + 1]
<1>1. Len(s) \in Nat /\ Len(s) # 0
  BY EmptySeq, LenProperties
<1> QED
  BY <1>1, HeadTailProperties

\* The three kinds of messages to the server are told apart.
LEMMA MessageFact ==
    /\ \A a \in Apps : Poll(a) \in Messages /\ Update(a) \in Messages
    /\ \A a \in Apps : Poll(a) \in Polls /\ Update(a) \in Updates
    /\ Expire \in Messages
    /\ \A m \in Polls : m \notin Updates /\ m # Expire
    /\ \A m \in Updates : m # Expire
<1>1. \A a \in Apps : Poll(a) \in Messages /\ Update(a) \in Messages
  BY DEF Messages
<1>2. \A a \in Apps : Poll(a) \in Polls /\ Update(a) \in Updates
  BY DEF Polls, Updates
<1>3. Expire \in Messages
  BY DEF Messages
<1>4. \A a, b \in Apps : Poll(a) # Update(b) /\ Poll(a) # Expire /\ Update(a) # Expire
  <2>1. \A a \in Apps : Poll(a).op = "PollPermission" /\ Update(a).op = "UpdateAppInfo"
    BY DEF Poll, Update
  <2>2. Expire.op = "ForceTimeout"
    BY DEF Expire
  <2> QED
    BY <2>1, <2>2
<1>5. \A m \in Polls : m \notin Updates /\ m # Expire
  BY <1>4 DEF Polls, Updates
<1>6. \A m \in Updates : m # Expire
  BY <1>4 DEF Updates
<1> QED
  BY <1>1, <1>2, <1>3, <1>5, <1>6

\* So are the messages to the dialog server, and one client's from another's.
LEMMA RequestFact ==
    /\ DoClose \in Requests
    /\ \A c \in Clients : /\ Get(c) \in Requests /\ Show(c) \in Requests /\ Close(c) \in Requests
                          /\ Get(c) # DoClose /\ Show(c) # DoClose /\ Close(c) # DoClose
    /\ \A c, d \in Clients : Get(c) # Show(d) /\ Get(c) # Close(d) /\ Show(c) # Close(d)
    /\ \A c, d \in Clients : c # d => Get(c) # Get(d) /\ Show(c) # Show(d) /\ Close(c) # Close(d)
<1>1. /\ DoClose \in Requests
      /\ \A c \in Clients : Get(c) \in Requests /\ Show(c) \in Requests /\ Close(c) \in Requests
  BY DEF Requests
<1>2. \A c : /\ Get(c).op = "GetMutex" /\ Show(c).op = "DynamicNotification"
             /\ Close(c).op = "CloseDynamicNotification"
             /\ Get(c).by = c /\ Show(c).by = c /\ Close(c).by = c
  BY DEF Get, Show, Close
<1>3. DoClose.op = "DoCloseDynamicNotification"
  BY DEF DoClose
<1> QED
  BY <1>1, <1>2, <1>3

-----------------------------------------------------------------------------
(* Types.                                                                  *)

Typed == TypeOK /\ BusyInv

\* The type invariant, thread by thread.
FidoType ==
    /\ fido \in {"idle", "polling", "opening", "prompting", "dead"} \cup Apps
    /\ kbhit2 \in Keys \cup {NoKey} /\ pending2 \in Keys \cup {NoKey}
    /\ age2 \in 0 .. TouchTimeout
SrvType ==
    /\ srv \in {"ready", "opening", "naming", "dead"}
    /\ mbox \in Seq(Messages)
    /\ current \in Apps \cup {NoApp} /\ denied \in Apps \cup {NoApp}
    /\ age \in 0 .. PromptTimeout
    /\ kbhit \in Keys \cup {NoKey}
    /\ pending \in [Keys \cup {NoKey} -> Nat]
    /\ named \in SUBSET Apps
WdType ==
    /\ wbox \in Seq({"Run", "Pump", "Stop"})
    /\ run \in BOOLEAN /\ wage \in 0 .. PromptTimeout + Margin + 1
    /\ sleep \in {"awake", "asleep", "due"}
ModalType ==
    /\ dbox \in Seq(Requests)
    /\ lock \in Clients \cup {"none", "down"} /\ queue \in Seq(Clients)
    /\ slot \in {"none", "srv", "fido", "stale"}
    /\ call \in [Clients -> {"idle", "locking", "locked", "showing"}]
    /\ other \in {"idle", "open"}
HistType ==
    /\ requests \in 0 .. MaxRequests /\ keys \in 0 .. MaxKeys /\ credit \in Int
    /\ crossed \in BOOLEAN

LEMMA TypeParts == TypeOK <=> FidoType /\ SrvType /\ WdType /\ ModalType /\ HistType
BY DEF TypeOK, FidoType, SrvType, WdType, ModalType, HistType

LEMMA TypePartsNext ==
    TypeOK' <=> FidoType' /\ SrvType' /\ WdType' /\ ModalType' /\ HistType'
BY DEF TypeOK, FidoType, SrvType, WdType, ModalType, HistType

\* A thread that does nothing keeps its types.
LEMMA TypeFrame ==
    ASSUME TypeOK
    PROVE  /\ UNCHANGED fidoVars => FidoType'
           /\ UNCHANGED srvVars => SrvType'
           /\ UNCHANGED wdVars => WdType'
           /\ UNCHANGED modalVars => ModalType'
           /\ UNCHANGED histVars => HistType'
<1>0. FidoType /\ SrvType /\ WdType /\ ModalType /\ HistType
  BY TypeParts
<1>1. UNCHANGED fidoVars => FidoType'
  BY <1>0 DEF fidoVars, FidoType
<1>2. UNCHANGED srvVars => SrvType'
  BY <1>0 DEF srvVars, SrvType
<1>3. UNCHANGED wdVars => WdType'
  BY <1>0 DEF wdVars, WdType
<1>4. UNCHANGED modalVars => ModalType'
  BY <1>0 DEF modalVars, ModalType
<1>5. UNCHANGED histVars => HistType'
  BY <1>0 DEF histVars, HistType
<1> QED
  BY <1>1, <1>2, <1>3, <1>4, <1>5

\* The server's message to itself, and a client's close, in the mailbox.
LEMMA SendType ==
    ASSUME ModalType, NEW m \in Requests, Send(m) PROVE dbox' \in Seq(Requests)
BY AppendFact DEF ModalType, Send

\* A client asks for the lock.
LEMMA AsksType ==
    ASSUME ModalType, NEW c \in Clients, AsksLock(c), UNCHANGED <<lock, queue, slot, other>>
    PROVE  ModalType'
<1>1. dbox' \in Seq(Requests)
  BY SendType, RequestFact DEF AsksLock
<1>2. call' \in [Clients -> {"idle", "locking", "locked", "showing"}]
  BY DEF ModalType, AsksLock
<1> QED
  BY <1>1, <1>2 DEF ModalType

\* A client asks for its dialog to be closed.
LEMMA ClosesType ==
    ASSUME ModalType, NEW c \in Clients, Send(Close(c)), UNCHANGED <<lock, queue, slot, call, other>>
    PROVE  ModalType'
<1>1. dbox' \in Seq(Requests)
  BY SendType, RequestFact
<1> QED
  BY <1>1 DEF ModalType

LEMMA TakesType ==
    ASSUME ModalType, NEW m, Takes(m) PROVE Tail(dbox) \in Seq(Requests)
BY TailFact DEF ModalType, Takes

\* The lock is given on.
LEMMA UnlockType ==
    ASSUME ModalType, Unlock
    PROVE  /\ lock' \in Clients \cup {"none", "down"} /\ queue' \in Seq(Clients)
           /\ call' \in [Clients -> {"idle", "locking", "locked", "showing"}]
<1>1. CASE queue = <<>>
  BY <1>1 DEF ModalType, Unlock
<1>2. CASE queue # <<>>
  <2>1. Head(queue) \in Clients /\ Tail(queue) \in Seq(Clients)
    BY <1>2, TailFact DEF ModalType
  <2>2. call' = [call EXCEPT ![Head(queue)] = "locked"] /\ lock' = Head(queue) /\ queue' = Tail(queue)
    BY <1>2 DEF Unlock
  <2>3. call' \in [Clients -> {"idle", "locking", "locked", "showing"}]
    BY <2>2 DEF ModalType
  <2> QED
    BY <2>1, <2>2, <2>3
<1> QED
  BY <1>1, <1>2

\* A dialog is shown, or refused.
LEMMA ShownType ==
    ASSUME ModalType, NEW c \in Clients, Shown(c), UNCHANGED <<lock, queue>>,
           slot' \in {"none", "srv", "fido", "stale"}, other' \in {"idle", "open"}
    PROVE  ModalType'
<1>1. dbox' \in Seq(Requests)
  BY TakesType DEF Shown
<1>2. call' \in [Clients -> {"idle", "locking", "locked", "showing"}]
  BY DEF ModalType, Shown
<1> QED
  BY <1>1, <1>2 DEF ModalType

\* The dialog server's own steps.
LEMMA DialogTypes ==
    ASSUME Typed, \/ \E c \in Clients : AskDialog(c) \/ GetMutex(c) \/ CloseDynamicNotification(c)
                  \/ DoCloseDynamicNotification
                  \/ \E k \in Keys : Press(k)
    PROVE  Typed'
<1>0. TypeOK /\ BusyInv /\ FidoType /\ SrvType /\ ModalType /\ HistType
  BY TypeParts DEF Typed
<1>1. ASSUME NEW c \in Clients, AskDialog(c) PROVE Typed'
  <2>1. dbox' \in Seq(Requests)
    BY <1>0, <1>1, SendType, RequestFact DEF AskDialog
  <2>2. call' \in [Clients -> {"idle", "locking", "locked", "showing"}]
    BY <1>0, <1>1 DEF AskDialog, ModalType
  <2>3. ModalType'
    BY <1>0, <1>1, <2>1, <2>2 DEF AskDialog, ModalType
  <2>4. UNCHANGED <<fidoVars, srvVars, wdVars, histVars>>
    BY <1>1 DEF AskDialog
  <2>5. TypeOK'
    BY <1>0, <2>3, <2>4, TypeFrame, TypePartsNext
  <2> QED
    BY <1>0, <2>4, <2>5 DEF Typed, BusyInv, srvVars
<1>2. ASSUME NEW c \in Clients, GetMutex(c) PROVE Typed'
  <2>1. dbox' \in Seq(Requests)
    BY <1>0, <1>2, TakesType DEF GetMutex
  <2>2. Append(queue, c) \in Seq(Clients)
    BY <1>0, AppendFact DEF ModalType
  <2>3. call' \in [Clients -> {"idle", "locking", "locked", "showing"}]
    BY <1>0, <1>2 DEF GetMutex, ModalType
  <2>4. lock' \in Clients \cup {"none", "down"} /\ queue' \in Seq(Clients)
    BY <1>0, <1>2, <2>2 DEF GetMutex, ModalType
  <2>5. UNCHANGED <<fidoVars, srvVars, wdVars, slot, other, histVars>>
    BY <1>2 DEF GetMutex
  <2>6. ModalType'
    BY <1>0, <2>1, <2>3, <2>4, <2>5 DEF ModalType
  <2>7. TypeOK'
    BY <1>0, <2>5, <2>6, TypeFrame, TypePartsNext
  <2> QED
    BY <1>0, <2>5, <2>7 DEF Typed, BusyInv, srvVars
<1>3. ASSUME NEW c \in Clients, CloseDynamicNotification(c) PROVE Typed'
  <2>1. Tail(dbox) \in Seq(Requests)
    BY <1>0, <1>3, TakesType DEF CloseDynamicNotification
  <2>2. Append(Tail(dbox), DoClose) \in Seq(Requests)
    BY <2>1, AppendFact, RequestFact
  <2>3. dbox' \in Seq(Requests)
    BY <1>3, <2>1, <2>2 DEF CloseDynamicNotification
  <2>4. UNCHANGED <<fidoVars, srvVars, wdVars, lock, queue, slot, call, other, requests, keys, credit>>
    BY <1>3 DEF CloseDynamicNotification
  <2>5. crossed' \in BOOLEAN
    BY <1>0, <1>3 DEF CloseDynamicNotification, HistType
  <2>6. ModalType' /\ HistType'
    BY <1>0, <2>3, <2>4, <2>5 DEF ModalType, HistType
  <2>7. TypeOK'
    BY <1>0, <2>4, <2>6, TypeFrame, TypePartsNext
  <2> QED
    BY <1>0, <2>4, <2>7 DEF Typed, BusyInv, srvVars
<1>4. CASE DoCloseDynamicNotification
  <2>1. dbox' \in Seq(Requests)
    BY <1>0, <1>4, TakesType DEF DoCloseDynamicNotification
  <2>2. pending' \in [Keys \cup {NoKey} -> Nat]
    BY <1>0, <1>4 DEF DoCloseDynamicNotification, Panics, SrvType
  <2>3. /\ lock' \in Clients \cup {"none", "down"} /\ queue' \in Seq(Clients)
        /\ call' \in [Clients -> {"idle", "locking", "locked", "showing"}]
        /\ slot' \in {"none", "srv", "fido", "stale"}
    <3>1. CASE slot = "stale"
      BY <1>0, <1>4, <3>1 DEF DoCloseDynamicNotification, Panics, ModalType
    <3>2. CASE slot # "stale"
      BY <1>0, <1>4, <3>2, UnlockType DEF DoCloseDynamicNotification
    <3> QED
      BY <3>1, <3>2
  <2>4. UNCHANGED <<fidoVars, srv, mbox, current, denied, age, kbhit, named, wdVars, other, histVars>>
    BY <1>4 DEF DoCloseDynamicNotification
  <2>5. SrvType' /\ ModalType'
    BY <1>0, <2>1, <2>2, <2>3, <2>4 DEF SrvType, ModalType
  <2>6. TypeOK'
    BY <1>0, <2>4, <2>5, TypeFrame, TypePartsNext
  <2> QED
    BY <1>0, <2>4, <2>6 DEF Typed, BusyInv
<1>5. ASSUME NEW k \in Keys, Press(k) PROVE Typed'
  <2>1. keys' \in 0 .. MaxKeys /\ credit' \in Int
    BY <1>0, <1>5, BoundsAssumption DEF Press, HistType
  <2>2. pending2' \in Keys \cup {NoKey}
    BY <1>0, <1>5 DEF Press, FidoType
  <2>3. pending' \in [Keys \cup {NoKey} -> Nat]
    BY <1>0, <1>5 DEF Press, Panics, SrvType
  <2>4. /\ lock' \in Clients \cup {"none", "down"} /\ UNCHANGED <<queue, call>>
        /\ slot' \in {"none", "srv", "fido", "stale"}
    BY <1>0, <1>5 DEF Press, Panics, ModalType
  <2>5. UNCHANGED <<fido, kbhit2, age2, srv, mbox, current, denied, age, kbhit, named, wdVars,
                    dbox, other, requests, crossed>>
    BY <1>5 DEF Press
  <2>6. FidoType' /\ HistType'
    BY <1>0, <2>1, <2>2, <2>5 DEF FidoType, HistType
  <2>7. SrvType'
    BY <1>0, <2>3, <2>5 DEF SrvType
  <2>8. ModalType'
    BY <1>0, <2>4, <2>5 DEF ModalType
  <2>9. TypeOK'
    BY <1>0, <2>5, <2>6, <2>7, <2>8, TypeFrame, TypePartsNext
  <2> QED
    BY <1>0, <2>5, <2>9 DEF Typed, BusyInv
<1> QED
  BY <1>1, <1>2, <1>3, <1>4, <1>5

\* The listeners, and the vault's own dialogs.
LEMMA OtherTypes ==
    ASSUME Typed, Listener \/ OtherAsks \/ OtherOpens \/ OtherCloses PROVE Typed'
<1>0. TypeOK /\ BusyInv /\ FidoType /\ SrvType /\ ModalType /\ HistType
  BY TypeParts DEF Typed
<1>1. ASSUME NEW k \in Keys \cup {NoKey}, StoreKey(k) PROVE Typed'
  <2>1. pending' \in [Keys \cup {NoKey} -> Nat]
    BY <1>0, <1>1 DEF StoreKey, SrvType
  <2>2. kbhit' = k /\ UNCHANGED <<fidoVars, srv, mbox, current, denied, age, named, wdVars,
                                  modalVars, histVars>>
    BY <1>1 DEF StoreKey
  <2>3. SrvType'
    BY <1>0, <2>1, <2>2 DEF SrvType
  <2>4. TypeOK'
    BY <1>0, <2>2, <2>3, TypeFrame, TypePartsNext
  <2> QED
    BY <1>0, <2>2, <2>4 DEF Typed, BusyInv
<1>2. CASE StoreKey2
  <2>1. FidoType'
    BY <1>0, <1>2 DEF StoreKey2, FidoType
  <2>2. UNCHANGED <<srvVars, wdVars, modalVars, histVars>>
    BY <1>2 DEF StoreKey2
  <2>3. TypeOK'
    BY <1>0, <2>1, <2>2, TypeFrame, TypePartsNext
  <2> QED
    BY <1>0, <2>2, <2>3 DEF Typed, BusyInv, srvVars
<1>3. CASE OtherAsks
  <2>1. ModalType'
    BY <1>0, <1>3, AsksType DEF OtherAsks, Clients
  <2>2. HistType'
    BY <1>0, <1>3, BoundsAssumption DEF OtherAsks, HistType
  <2>3. UNCHANGED <<fidoVars, srvVars, wdVars>>
    BY <1>3 DEF OtherAsks
  <2>4. TypeOK'
    BY <1>0, <2>1, <2>2, <2>3, TypeFrame, TypePartsNext
  <2> QED
    BY <1>0, <2>3, <2>4 DEF Typed, BusyInv, srvVars
<1>4. CASE OtherOpens
  <2>1. slot' \in {"none", "srv", "fido", "stale"} /\ other' \in {"idle", "open"}
    BY <1>0, <1>4 DEF OtherOpens, ModalType
  <2>2. ModalType'
    BY <1>0, <1>4, <2>1, ShownType DEF OtherOpens, Clients
  <2>3. UNCHANGED <<fidoVars, srvVars, wdVars, histVars>>
    BY <1>4 DEF OtherOpens
  <2>4. TypeOK'
    BY <1>0, <2>2, <2>3, TypeFrame, TypePartsNext
  <2> QED
    BY <1>0, <2>3, <2>4 DEF Typed, BusyInv, srvVars
<1>5. CASE OtherCloses
  <2>1. /\ lock' \in Clients \cup {"none", "down"} /\ queue' \in Seq(Clients)
        /\ call' \in [Clients -> {"idle", "locking", "locked", "showing"}]
    BY <1>0, <1>5, UnlockType DEF OtherCloses
  <2>2. ModalType'
    BY <1>0, <1>5, <2>1 DEF OtherCloses, ModalType
  <2>3. UNCHANGED <<fidoVars, srvVars, wdVars, histVars>>
    BY <1>5 DEF OtherCloses
  <2>4. TypeOK'
    BY <1>0, <2>2, <2>3, TypeFrame, TypePartsNext
  <2> QED
    BY <1>0, <2>3, <2>4 DEF Typed, BusyInv, srvVars
<1> QED
  BY <1>1, <1>2, <1>3, <1>4, <1>5 DEF Listener

\* One message more in the server's mailbox.
LEMMA MailGrows ==
    ASSUME TypeOK, NEW m \in Messages, mbox' = Append(mbox, m)
    PROVE  mbox' \in Seq(Messages) /\ mbox' # <<>>
BY AppendFact DEF TypeOK

\* The steps of the FIDO thread, and what the host asks of it.
LEMMA FidoTypes ==
    ASSUME Typed, \/ Fido \/ RequestCtap2 \/ Prompt \/ KeepaliveFails
                  \/ \E a \in Apps : RequestCtap1(a)
    PROVE  Typed'
<1>0. TypeOK /\ BusyInv /\ FidoType /\ SrvType /\ ModalType /\ HistType
  BY TypeParts DEF Typed
<1>1. ASSUME NEW a \in Apps, RequestCtap1(a) PROVE Typed'
  <2>1. mbox' \in Seq(Messages) /\ mbox' # <<>>
    BY <1>0, <1>1, MailGrows, MessageFact DEF RequestCtap1
  <2>2. HistType' /\ FidoType'
    BY <1>0, <1>1, BoundsAssumption DEF RequestCtap1, HistType, FidoType
  <2>3. SrvType'
    BY <1>0, <1>1, <2>1 DEF RequestCtap1, SrvType
  <2>4. UNCHANGED <<wdVars, modalVars>>
    BY <1>1 DEF RequestCtap1
  <2>5. TypeOK'
    BY <1>0, <2>2, <2>3, <2>4, TypeFrame, TypePartsNext
  <2> QED
    BY <2>1, <2>5 DEF Typed, BusyInv
<1>2. CASE SendUpdate
  <2>1. mbox' \in Seq(Messages) /\ mbox' # <<>>
    BY <1>0, <1>2, MailGrows, MessageFact DEF SendUpdate
  <2>2. FidoType'
    BY <1>0, <1>2 DEF SendUpdate, FidoType
  <2>3. SrvType'
    BY <1>0, <1>2, <2>1 DEF SendUpdate, SrvType
  <2>4. UNCHANGED <<wdVars, modalVars, histVars>>
    BY <1>2 DEF SendUpdate
  <2>5. TypeOK'
    BY <1>0, <2>2, <2>3, <2>4, TypeFrame, TypePartsNext
  <2> QED
    BY <2>1, <2>5 DEF Typed, BusyInv
<1>3. CASE RequestCtap2
  <2>1. ModalType'
    BY <1>0, <1>3, AsksType DEF RequestCtap2, Clients
  <2>2. HistType'
    BY <1>0, <1>3, BoundsAssumption DEF RequestCtap2, HistType
  <2>3. FidoType'
    BY <1>0, <1>3, TimesAssumption DEF RequestCtap2, FidoType
  <2>4. UNCHANGED <<srvVars, wdVars>>
    BY <1>3 DEF RequestCtap2
  <2>5. TypeOK'
    BY <1>0, <2>1, <2>2, <2>3, <2>4, TypeFrame, TypePartsNext
  <2> QED
    BY <1>0, <2>4, <2>5 DEF Typed, BusyInv, srvVars
<1>4. CASE Prompt
  <2>1. slot' \in {"none", "srv", "fido", "stale"} /\ other' \in {"idle", "open"}
    BY <1>0, <1>4 DEF Prompt, Listens, ModalType
  <2>2. ModalType'
    BY <1>0, <1>4, <2>1, ShownType DEF Prompt, Clients
  <2>3. FidoType'
    BY <1>0, <1>4 DEF Prompt, FidoType
  <2>4. UNCHANGED <<srvVars, wdVars, histVars>>
    BY <1>4 DEF Prompt
  <2>5. TypeOK'
    BY <1>0, <2>2, <2>3, <2>4, TypeFrame, TypePartsNext
  <2> QED
    BY <1>0, <2>4, <2>5 DEF Typed, BusyInv, srvVars
<1>5. CASE PromptEnds
  <2>1. ModalType'
    BY <1>0, <1>5, ClosesType DEF PromptEnds, Clients
  <2>2. FidoType'
    BY <1>0, <1>5 DEF PromptEnds, FidoType
  <2>3. UNCHANGED <<srvVars, wdVars, histVars>>
    BY <1>5 DEF PromptEnds
  <2>4. TypeOK'
    BY <1>0, <2>1, <2>2, <2>3, TypeFrame, TypePartsNext
  <2> QED
    BY <1>0, <2>3, <2>4 DEF Typed, BusyInv, srvVars
<1>6. CASE KeepaliveFails
  <2>1. FidoType'
    BY <1>0, <1>6 DEF KeepaliveFails, FidoType
  <2>2. UNCHANGED <<srvVars, wdVars, modalVars, histVars>>
    BY <1>6 DEF KeepaliveFails
  <2>3. TypeOK'
    BY <1>0, <2>1, <2>2, TypeFrame, TypePartsNext
  <2> QED
    BY <1>0, <2>2, <2>3 DEF Typed, BusyInv, srvVars
<1> QED
  BY <1>1, <1>2, <1>3, <1>4, <1>5, <1>6 DEF Fido

\* A message is taken from the server's mailbox.
LEMMA MailShrinks ==
    ASSUME TypeOK, mbox # <<>>, mbox' = Tail(mbox) PROVE mbox' \in Seq(Messages)
BY TailFact DEF TypeOK

\* The steps that end the current request.
LEMMA EndTypes ==
    ASSUME Typed, NEW a \in Apps,
           PollChanged(a) \/ PollApproved(a) \/ PollDenied(a) \/ PollTimedOut(a)
    PROVE  Typed'
<1>0. TypeOK /\ BusyInv /\ FidoType /\ SrvType /\ WdType /\ ModalType /\ HistType
  BY TypeParts DEF Typed
<1>1. /\ srv = "ready" /\ mbox # <<>> /\ mbox' = Tail(mbox) /\ StopAndClose /\ current' = NoApp
      /\ UNCHANGED <<lock, queue, slot, call, other>>
  BY DEF PollChanged, PollApproved, PollDenied, PollTimedOut, Received
<1>2. mbox' \in Seq(Messages)
  BY <1>0, <1>1, MailShrinks
<1>3. wbox' \in Seq({"Run", "Pump", "Stop"})
  BY <1>0, <1>1, AppendFact DEF StopAndClose, WdType
<1>4. ModalType'
  BY <1>0, <1>1, ClosesType DEF StopAndClose, Clients
<1>5. /\ fido' \in {"idle", "polling", "opening", "prompting", "dead"} \cup Apps
      /\ denied' \in Apps \cup {NoApp} /\ credit' \in Int
  BY <1>0
  DEF PollChanged, PollApproved, PollDenied, PollTimedOut, Answer, SrvType, HistType, histVars
<1>6. /\ UNCHANGED <<kbhit2, pending2, age2, srv, age, kbhit, pending, named>>
      /\ UNCHANGED <<run, wage, sleep, requests, keys, crossed>>
  BY DEF PollChanged, PollApproved, PollDenied, PollTimedOut, histVars
<1>7. SrvType'
  BY <1>0, <1>1, <1>2, <1>5, <1>6 DEF SrvType
<1>8. FidoType' /\ WdType' /\ HistType'
  BY <1>0, <1>3, <1>5, <1>6 DEF FidoType, WdType, HistType
<1>9. TypeOK'
  BY <1>4, <1>7, <1>8, TypePartsNext
<1> QED
  BY <1>1, <1>6, <1>9 DEF Typed, BusyInv

\* The other steps of the server.
LEMMA ServerTypes ==
    ASSUME Typed, Server PROVE Typed'
<1>0. TypeOK /\ BusyInv /\ FidoType /\ SrvType /\ ModalType /\ HistType
  BY TypeParts DEF Typed
<1>1. ASSUME NEW a \in Apps, PollWaiting(a) \/ PollRefused(a) PROVE Typed'
  <2>1. /\ srv = "ready" /\ mbox # <<>> /\ mbox' = Tail(mbox) /\ Answer(FALSE, a)
        /\ UNCHANGED <<kbhit2, pending2, age2, srv, current, denied, age, kbhit,
                       pending, named, wdVars, modalVars, histVars>>
    BY <1>1 DEF PollWaiting, PollRefused, Received
  <2>2. mbox' \in Seq(Messages)
    BY <1>0, <2>1, MailShrinks
  <2>3. FidoType' /\ SrvType'
    BY <1>0, <2>1, <2>2 DEF Answer, FidoType, SrvType
  <2>4. TypeOK'
    BY <1>0, <2>1, <2>3, TypeFrame, TypePartsNext
  <2> QED
    BY <2>1, <2>4 DEF Typed, BusyInv
<1>2. ASSUME NEW a \in Apps, PollNew(a) PROVE Typed'
  <2>1. ModalType'
    BY <1>0, <1>2, AsksType DEF PollNew, Clients
  <2>2. SrvType'
    BY <1>0, <1>2, TimesAssumption DEF PollNew, SrvType
  <2>3. UNCHANGED <<fidoVars, wdVars, histVars>> /\ mbox' # <<>>
    BY <1>2 DEF PollNew
  <2>4. TypeOK'
    BY <1>0, <2>1, <2>2, <2>3, TypeFrame, TypePartsNext
  <2> QED
    BY <2>3, <2>4 DEF Typed, BusyInv
<1>3. ASSUME NEW a \in Apps, UpdateRecord(a) PROVE Typed'
  <2>1. mbox' \in Seq(Messages) /\ srv = "ready"
    BY <1>0, <1>3, MailShrinks DEF UpdateRecord, Received
  <2>2. SrvType'
    BY <1>0, <1>3, <2>1 DEF UpdateRecord, SrvType
  <2>3. UNCHANGED <<fidoVars, srv, wdVars, modalVars, histVars>>
    BY <1>3 DEF UpdateRecord
  <2>4. TypeOK'
    BY <1>0, <2>2, <2>3, TypeFrame, TypePartsNext
  <2> QED
    BY <2>1, <2>3, <2>4 DEF Typed, BusyInv
<1>4. ASSUME NEW a \in Apps, AskName(a) PROVE Typed'
  <2>1. ModalType'
    BY <1>0, <1>4, AsksType DEF AskName, Clients
  <2>2. SrvType'
    BY <1>0, <1>4 DEF AskName, SrvType
  <2>3. UNCHANGED <<fidoVars, wdVars, histVars>> /\ mbox' # <<>>
    BY <1>4 DEF AskName
  <2>4. TypeOK'
    BY <1>0, <2>1, <2>2, <2>3, TypeFrame, TypePartsNext
  <2> QED
    BY <2>3, <2>4 DEF Typed, BusyInv
<1>5. CASE ForceTimeout
  <2>1. mbox' \in Seq(Messages) /\ srv = "ready"
    BY <1>0, <1>5, MailShrinks DEF ForceTimeout, Received
  <2>2. ModalType'
    BY <1>0, <1>5, ClosesType DEF ForceTimeout, Clients
  <2>3. SrvType'
    BY <1>0, <1>5, <2>1 DEF ForceTimeout, SrvType
  <2>4. UNCHANGED <<fidoVars, srv, wdVars, histVars>>
    BY <1>5 DEF ForceTimeout
  <2>5. TypeOK'
    BY <1>0, <2>2, <2>3, <2>4, TypeFrame, TypePartsNext
  <2> QED
    BY <2>1, <2>4, <2>5 DEF Typed, BusyInv
<1> QED
  BY <1>1, <1>2, <1>3, <1>4, <1>5, EndTypes DEF Server

\* The server's dialogs are shown, or refused, and its name dialog is answered.
LEMMA ServerDialogTypes ==
    ASSUME Typed, NEW a \in Apps, DialogUp(a) \/ NameShown(a) \/ NameGiven(a) PROVE Typed'
<1>0. TypeOK /\ BusyInv /\ FidoType /\ SrvType /\ WdType /\ ModalType /\ HistType
  BY TypeParts DEF Typed
<1>1. CASE DialogUp(a)
  <2>1. mbox' \in Seq(Messages)
    BY <1>0, <1>1, MailShrinks DEF DialogUp, BusyInv
  <2>2. wbox' \in Seq({"Run", "Pump", "Stop"})
    BY <1>0, <1>1, AppendFact DEF DialogUp, WdType
  <2>3. pending' \in [Keys \cup {NoKey} -> Nat]
    BY <1>0, <1>1 DEF DialogUp, SrvType
  <2>4. slot' \in {"none", "srv", "fido", "stale"} /\ other' \in {"idle", "open"}
    BY <1>0, <1>1 DEF DialogUp, Listens, ModalType
  <2>5. ModalType'
    BY <1>0, <1>1, <2>4, ShownType DEF DialogUp, Clients
  <2>6. FidoType' /\ WdType'
    BY <1>0, <1>1, <2>2 DEF DialogUp, Answer, FidoType, WdType
  <2>7. SrvType'
    BY <1>0, <1>1, <2>1, <2>3 DEF DialogUp, SrvType
  <2>8. UNCHANGED histVars /\ srv' = "ready"
    BY <1>1 DEF DialogUp
  <2>9. TypeOK'
    BY <1>0, <2>5, <2>6, <2>7, <2>8, TypeFrame, TypePartsNext
  <2> QED
    BY <2>8, <2>9 DEF Typed, BusyInv
<1>2. CASE NameShown(a)
  <2>1. mbox # <<>> /\ Tail(mbox) \in Seq(Messages)
    BY <1>0, <1>2, TailFact DEF NameShown, BusyInv, SrvType
  <2>2. slot' \in {"none", "srv", "fido", "stale"} /\ other' \in {"idle", "open"}
    BY <1>0, <1>2 DEF NameShown, ModalType
  <2>3. ModalType'
    BY <1>0, <1>2, <2>2, ShownType DEF NameShown, Clients
  <2>4. /\ UNCHANGED <<current, denied, age, kbhit, pending>>
        /\ UNCHANGED <<fidoVars, wdVars, histVars>>
    BY <1>2 DEF NameShown
  <2>5. /\ srv' \in {"ready", "opening", "naming", "dead"} /\ mbox' \in Seq(Messages)
        /\ named' \in SUBSET Apps /\ (srv' # "ready" => mbox' # <<>>)
    BY <1>0, <1>2, <2>1 DEF NameShown, SrvType
  <2>6. SrvType'
    BY <1>0, <2>4, <2>5 DEF SrvType
  <2>7. TypeOK'
    BY <1>0, <2>3, <2>4, <2>6, TypeFrame, TypePartsNext
  <2> QED
    BY <2>5, <2>7 DEF Typed, BusyInv
<1>3. CASE NameGiven(a)
  <2>1. mbox' \in Seq(Messages)
    BY <1>0, <1>3, MailShrinks DEF NameGiven, WaitsForName, BusyInv
  <2>2. /\ lock' \in Clients \cup {"none", "down"} /\ queue' \in Seq(Clients)
        /\ call' \in [Clients -> {"idle", "locking", "locked", "showing"}]
    <3>1. CASE lock = "srv"
      BY <1>0, <1>3, <3>1, UnlockType DEF NameGiven
    <3>2. CASE lock # "srv"
      BY <1>0, <1>3, <3>2 DEF NameGiven, ModalType
    <3> QED
      BY <3>1, <3>2
  <2>3. ModalType'
    BY <1>0, <1>3, <2>2 DEF NameGiven, ModalType
  <2>4. SrvType' /\ srv' = "ready"
    BY <1>0, <1>3, <2>1 DEF NameGiven, SrvType
  <2>5. UNCHANGED <<fidoVars, wdVars, histVars>>
    BY <1>3 DEF NameGiven
  <2>6. TypeOK'
    BY <1>0, <2>3, <2>4, <2>5, TypeFrame, TypePartsNext
  <2> QED
    BY <2>4, <2>6 DEF Typed, BusyInv
<1> QED
  BY <1>1, <1>2, <1>3

\* The watchdog and the clocks.
LEMMA WatchdogTypes ==
    ASSUME Typed, Watchdog \/ Tick PROVE Typed'
<1>0. TypeOK /\ BusyInv
  BY DEF Typed
<1>1. CASE Run
  <2>1. wbox # <<>> /\ (wbox' = Tail(wbox) \/ wbox' = Append(Tail(wbox), "Pump"))
    BY <1>1 DEF Run, Handles
  <2>2. wbox' \in Seq({"Run", "Pump", "Stop"})
    <3>1. Tail(wbox) \in Seq({"Run", "Pump", "Stop"})
      BY <1>0, <2>1, TailFact DEF TypeOK
    <3>2. Append(Tail(wbox), "Pump") \in Seq({"Run", "Pump", "Stop"})
      BY <3>1, AppendFact
    <3> QED
      BY <2>1, <3>1, <3>2
  <2>3. wage' \in 0 .. PromptTimeout + Margin + 1
    BY <1>0, <1>1, TimesAssumption DEF Run, TypeOK
  <2>4. run' \in BOOLEAN
    BY <1>1 DEF Run
  <2> QED
    BY <1>0, <1>1, <2>2, <2>3, <2>4
    DEF Run, Typed, TypeOK, BusyInv, fidoVars, srvVars, modalVars, histVars
<1>2. CASE Pump
  <2>1. wbox' \in Seq({"Run", "Pump", "Stop"})
    BY <1>0, <1>2, TailFact DEF Pump, Handles, TypeOK
  <2>2. mbox' = mbox \/ mbox' = Append(mbox, Expire)
    BY <1>2 DEF Pump
  <2>3. mbox' \in Seq(Messages) /\ (mbox # <<>> => mbox' # <<>>)
    BY <1>0, <2>2, MailGrows, MessageFact DEF TypeOK
  <2>4. run' \in BOOLEAN
    <3>1. run' = run \/ run' = FALSE
      BY <1>2 DEF Pump
    <3> QED
      BY <1>0, <3>1 DEF TypeOK
  <2>5. sleep' \in {"awake", "asleep", "due"}
    BY <1>0, <1>2 DEF Pump, TypeOK
  <2>6. UNCHANGED <<fidoVars, srv, current, denied, age, kbhit, pending, named,
                    wage, modalVars, histVars>>
    BY <1>2 DEF Pump
  <2>7. TypeOK'
    BY <1>0, <2>1, <2>3, <2>4, <2>5, <2>6 DEF TypeOK, fidoVars, modalVars, histVars
  <2> QED
    BY <1>0, <2>3, <2>6, <2>7 DEF Typed, BusyInv
<1>3. CASE Wake
  <2>1. wbox' \in Seq({"Run", "Pump", "Stop"})
    BY <1>0, <1>3, AppendFact DEF Wake, TypeOK
  <2> QED
    BY <1>0, <1>3, <2>1 DEF Wake, Typed, TypeOK, BusyInv, fidoVars, srvVars, modalVars, histVars
<1>4. CASE StopWatchdog
  <2>1. wbox' \in Seq({"Run", "Pump", "Stop"})
    BY <1>0, <1>4, TailFact DEF StopWatchdog, Handles, TypeOK
  <2>2. run' \in BOOLEAN
    BY <1>4 DEF StopWatchdog
  <2> QED
    BY <1>0, <1>4, <2>1, <2>2
    DEF StopWatchdog, Typed, TypeOK, BusyInv, fidoVars, srvVars, modalVars, histVars
<1>5. CASE Tick
  <2>1. /\ age' \in 0 .. PromptTimeout /\ age2' \in 0 .. TouchTimeout
        /\ wage' \in 0 .. PromptTimeout + Margin + 1
    BY <1>0, <1>5, TimesAssumption DEF Tick, Older, TypeOK
  <2>2. sleep' \in {"awake", "asleep", "due"}
    BY <1>0, <1>5 DEF Tick, TypeOK
  <2> QED
    BY <1>0, <1>5, <2>1, <2>2 DEF Tick, Typed, TypeOK, BusyInv, modalVars, histVars
<1> QED
  BY <1>1, <1>2, <1>3, <1>4, <1>5 DEF Watchdog

LEMMA TypedStep == ASSUME Typed, [Next]_vars PROVE Typed'
<1>1. CASE UNCHANGED vars
  <2>1. UNCHANGED <<fidoVars, srvVars, wdVars, modalVars, histVars>> /\ TypeOK /\ BusyInv
    BY <1>1 DEF vars, Typed
  <2>2. TypeOK'
    BY <2>1, TypeFrame, TypePartsNext
  <2> QED
    BY <2>1, <2>2 DEF Typed, BusyInv, srvVars
<1> QED
  BY <1>1, DialogTypes, OtherTypes, FidoTypes, ServerTypes, ServerDialogTypes, WatchdogTypes
  DEF Next, Dialogs, Host, User

LEMMA TypedInit == Init => Typed
<1> SUFFICES ASSUME Init PROVE Typed
  OBVIOUS
<1>1. /\ mbox \in Seq(Messages) /\ wbox \in Seq({"Run", "Pump", "Stop"})
      /\ queue \in Seq(Clients) /\ dbox \in Seq(Requests)
  BY EmptySeq DEF Init
<1>2. pending \in [Keys \cup {NoKey} -> Nat]
  BY DEF Init
<1>3. call \in [Clients -> {"idle", "locking", "locked", "showing"}]
  BY DEF Init
<1>0. run \in BOOLEAN /\ crossed \in BOOLEAN
  BY DEF Init
<1>4. FidoType /\ HistType
  BY <1>0, TimesAssumption, BoundsAssumption DEF Init, FidoType, HistType
<1>5. named \in SUBSET Apps
  BY AppsAssumption DEF Init
<1>6. SrvType
  BY <1>1, <1>2, <1>5, TimesAssumption DEF Init, SrvType
<1>7. WdType
  BY <1>0, <1>1, TimesAssumption DEF Init, WdType
<1>8. ModalType
  BY <1>1, <1>3 DEF Init, ModalType
<1> QED
  BY <1>4, <1>6, <1>7, <1>8, TypeParts DEF Typed, BusyInv, Init

LEMMA TypedAlways == Spec => []Typed
<1>1. Typed /\ [Next]_vars => Typed'
  BY TypedStep
<1> QED
  BY <1>1, TypedInit, PTL DEF Spec

\* Every variable keeps its type: no thread counts below zero, sends a message
\* the other does not know, or takes one from an empty mailbox.
THEOREM TypeCorrect == Spec => []TypeOK
<1>1. Typed => TypeOK
  BY DEF Typed
<1> QED
  BY <1>1, TypedAlways, PTL

-----------------------------------------------------------------------------
(* Approvals.                                                              *)

\* The keys on their way to the server, and the key it has.
LEMMA CreditFrame ==
    ASSUME TypeOK, CreditInv, TypeOK',
           UNCHANGED <<credit, kbhit>>, current' \in {current, NoApp},
           pending'["yes"] = pending["yes"], pending'["event"] = pending["event"]
    PROVE  CreditInv'
<1>1. pending["yes"] \in Nat /\ pending["event"] \in Nat /\ credit \in Int
  BY DEF TypeOK, Keys, NoKey
<1> QED
  BY <1>1 DEF CreditInv

LEMMA CreditStep ==
    ASSUME TypeOK, TypeOK', CreditInv, [Next]_vars PROVE CreditInv'
<1>0. /\ pending["yes"] \in Nat /\ pending["event"] \in Nat /\ credit \in Int
      /\ pending \in [{"yes", "no", "event", "none"} -> Nat]
  BY DEF TypeOK, Keys, NoKey
<1>1. ASSUME NEW k \in Keys, Press(k) PROVE CreditInv'
  <2>1. UNCHANGED <<current, kbhit>>
    BY <1>1 DEF Press
  <2>2. CASE UNCHANGED <<pending, credit>>
    BY <2>1, <2>2 DEF CreditInv
  <2>3. CASE /\ pending' = [pending EXCEPT ![k] = @ + 1]
             /\ credit' = IF k = "no" THEN credit ELSE credit + 1
    <3>1. pending'["yes"] + pending'["event"] - credit' = pending["yes"] + pending["event"] - credit
      BY <1>0, <1>1, <2>3 DEF Keys
    <3>2. pending'["yes"] \in Nat /\ pending'["event"] \in Nat /\ credit' \in Int
      BY DEF TypeOK, Keys, NoKey
    <3> QED
      BY <1>0, <2>1, <3>1, <3>2 DEF CreditInv
  <2> QED
    BY <1>1, <2>2, <2>3 DEF Press, Panics
<1>2. ASSUME NEW k \in Keys \cup {NoKey}, StoreKey(k) PROVE CreditInv'
  <2>1. /\ pending[k] > 0 /\ pending' = [pending EXCEPT ![k] = @ - 1] /\ kbhit' = k
        /\ credit' = credit /\ current' = current
    BY <1>2 DEF StoreKey, histVars
  <2>2. pending'["yes"] + pending'["event"] + (IF k \in {"yes", "event"} THEN 1 ELSE 0)
          = pending["yes"] + pending["event"]
    BY <1>0, <1>2, <2>1 DEF Keys, NoKey
  <2>3. pending'["yes"] \in Nat /\ pending'["event"] \in Nat
    BY DEF TypeOK, Keys, NoKey
  <2> QED
    BY <1>0, <2>1, <2>2, <2>3 DEF CreditInv
<1>3. CASE StoreKey2 \/ OtherAsks \/ OtherOpens \/ OtherCloses
  BY <1>3, CreditFrame DEF StoreKey2, OtherAsks, OtherOpens, OtherCloses, srvVars, histVars
<1>4. CASE \/ SendUpdate \/ Prompt \/ PromptEnds \/ KeepaliveFails \/ RequestCtap2
           \/ \E a \in Apps : RequestCtap1(a)
  BY <1>4, CreditFrame
  DEF SendUpdate, Prompt, PromptEnds, KeepaliveFails, RequestCtap2, RequestCtap1, srvVars, histVars
<1>5. CASE \E c \in Clients : AskDialog(c) \/ GetMutex(c) \/ CloseDynamicNotification(c)
  BY <1>5, CreditFrame DEF AskDialog, GetMutex, CloseDynamicNotification, srvVars, histVars
<1>6. CASE DoCloseDynamicNotification
  <2>1. pending'["yes"] = pending["yes"] /\ pending'["event"] = pending["event"]
    BY <1>0, <1>6 DEF DoCloseDynamicNotification, Panics, NoKey
  <2> QED
    BY <1>6, <2>1, CreditFrame DEF DoCloseDynamicNotification, histVars
<1>7. ASSUME NEW a \in Apps, PollApproved(a) PROVE CreditInv'
  <2>1. /\ current # NoApp /\ kbhit \in {"yes", "event"}
        /\ current' = NoApp /\ credit' = credit - 1 /\ pending' = pending
    BY <1>7, AppsAssumption DEF PollApproved
  <2> QED
    BY <1>0, <2>1 DEF CreditInv
<1>8. ASSUME NEW a \in Apps,
             \/ PollChanged(a) \/ PollDenied(a) \/ PollTimedOut(a)
             \/ PollWaiting(a) \/ PollRefused(a) \/ PollNew(a)
             \/ UpdateRecord(a) \/ AskName(a) \/ NameShown(a) \/ NameGiven(a)
      PROVE  CreditInv'
  BY <1>8, CreditFrame
  DEF PollChanged, PollDenied, PollTimedOut, PollWaiting, PollRefused, PollNew, UpdateRecord,
      AskName, NameShown, NameGiven, histVars
<1>9. ASSUME NEW a \in Apps, DialogUp(a) PROVE CreditInv'
  <2>1. /\ kbhit' = NoKey /\ credit' = credit
        /\ pending'["yes"] = pending["yes"] /\ pending'["event"] = pending["event"]
    BY <1>0, <1>9 DEF DialogUp, histVars, NoKey
  <2> QED
    BY <1>0, <2>1 DEF CreditInv, NoKey
<1>10. CASE ForceTimeout
  BY <1>10, CreditFrame DEF ForceTimeout, histVars
<1>11. CASE Watchdog \/ Tick
  BY <1>11, CreditFrame DEF Watchdog, Run, Pump, Wake, StopWatchdog, Tick, srvVars, histVars
<1>12. CASE UNCHANGED vars
  BY <1>12, CreditFrame DEF vars, srvVars, histVars
<1> QED
  BY <1>1, <1>2, <1>3, <1>4, <1>5, <1>6, <1>7, <1>8, <1>9, <1>10, <1>11, <1>12
  DEF Next, Server, Fido, Listener, Dialogs, Host, User

\* Every approval of a U2F request uses up a key that the user pressed at a dialog
\* of the permission server, whatever late listeners, timeouts and new requests
\* come between the key and the poll that sees it.
THEOREM ApprovalNeedsKey == Spec => []OneApprovalPerKey
<1>1. Init => CreditInv
  BY DEF Init, CreditInv, Keys, NoKey
<1>2. Typed /\ Typed' /\ CreditInv /\ [Next]_vars => CreditInv'
  BY CreditStep DEF Typed
<1>3. Typed /\ CreditInv => OneApprovalPerKey
  BY DEF Typed, TypeOK, CreditInv, OneApprovalPerKey, Keys, NoKey
<1> QED
  BY <1>1, <1>2, <1>3, TypedAlways, PTL DEF Spec

-----------------------------------------------------------------------------
(* The order of the messages in the server's mailbox.                      *)

OnlyExpires(s) == \A i \in 1 .. Len(s) : s[i] = Expire

\* Requests of the watchdog are in order whatever the others do.
LEMMA ExpiresMail ==
    ASSUME NEW s, NEW f, NEW c, OnlyExpires(s) PROVE Mail(s, f, c)
BY MessageFact DEF OnlyExpires, Mail

\* The current request may end; a FIDO thread that waits for no answer may do
\* something else.
LEMMA LooseMail ==
    ASSUME NEW s, NEW f, NEW c, Mail(s, f, c)
    PROVE  /\ Mail(s, f, NoApp)
           /\ \A g : f # "polling" => Mail(s, g, c)
BY DEF Mail

\* The message at the head is taken: behind a poll there are only requests of
\* the watchdog.
LEMMA TailMail ==
    ASSUME NEW s \in Seq(Messages), s # <<>>, NEW f, NEW c, Mail(s, f, c)
    PROVE  /\ Mail(Tail(s), f, c)
           /\ Head(s) \in Polls => f = "polling" /\ OnlyExpires(Tail(s))
           /\ Head(s) \in Updates => c = NoApp
<1> DEFINE t == Tail(s)
<1>1. /\ Len(t) = Len(s) - 1 /\ Len(s) \in Nat \ {0} /\ Head(s) = s[1]
      /\ \A i \in 1 .. Len(s) - 1 : t[i] = s[i + 1]
  BY TailFact
<1> HIDE DEF t
<1>2. /\ \A i \in 1 .. Len(t) : i + 1 \in 1 .. Len(s) /\ t[i] = s[i + 1] /\ i + 1 > 1
      /\ 1 \in 1 .. Len(s)
  BY <1>1
<1>3. \A i, j \in 1 .. Len(t) : j > i => j + 1 > i + 1
  BY <1>1
<1>4. Mail(t, f, c)
  BY <1>2, <1>3 DEF Mail
<1>5. Head(s) \in Polls => f = "polling" /\ OnlyExpires(t)
  BY <1>1, <1>2 DEF Mail, OnlyExpires
<1>6. Head(s) \in Updates => c = NoApp
  BY <1>1, <1>2 DEF Mail
<1> QED
  BY <1>4, <1>5, <1>6 DEF t

\* A message more: one of the watchdog, or one of a FIDO thread that has no poll out.
LEMMA AppendMail ==
    ASSUME NEW s \in Seq(Messages), NEW m \in Messages, NEW f, NEW c, Mail(s, f, c)
    PROVE  /\ m = Expire => Mail(Append(s, m), f, c)
           /\ f # "polling" /\ m \in Polls => Mail(Append(s, m), "polling", c)
           /\ \A g : f # "polling" /\ m \in Updates /\ c = NoApp => Mail(Append(s, m), g, c)
<1> DEFINE t == Append(s, m)
<1>1. /\ Len(t) = Len(s) + 1 /\ Len(s) \in Nat
      /\ \A i \in 1 .. Len(s) : t[i] = s[i]
      /\ t[Len(s) + 1] = m
  BY AppendFact
<1> HIDE DEF t
<1>2. \A i \in 1 .. Len(t) : \/ i \in 1 .. Len(s) /\ t[i] = s[i]
                             \/ i = Len(s) + 1 /\ t[i] = m
  BY <1>1
<1>3. \A i, j \in 1 .. Len(t) : j > i => i # Len(s) + 1
  BY <1>1
<1>4. m = Expire => Mail(t, f, c)
  <2> SUFFICES ASSUME m = Expire PROVE Mail(t, f, c)
    OBVIOUS
  <2>1. ASSUME NEW i \in 1 .. Len(t), t[i] \in Polls
        PROVE  f = "polling" /\ \A j \in 1 .. Len(t) : j > i => t[j] = Expire
    <3>1. i \in 1 .. Len(s) /\ t[i] = s[i]
      BY <1>2, <2>1, MessageFact
    <3> QED
      BY <1>2, <2>1, <3>1 DEF Mail
  <2>2. ASSUME NEW i \in 1 .. Len(t), t[i] \in Updates PROVE c = NoApp
    BY <1>2, <2>2, MessageFact DEF Mail
  <2> QED
    BY <2>1, <2>2 DEF Mail
<1>5. f # "polling" => \A i \in 1 .. Len(s) : s[i] \notin Polls
  BY DEF Mail
<1>6. f # "polling" /\ m \in Polls => Mail(t, "polling", c)
  BY <1>2, <1>3, <1>5, MessageFact DEF Mail
<1>7. ASSUME NEW g, f # "polling", m \in Updates, c = NoApp PROVE Mail(t, g, c)
  BY <1>2, <1>5, <1>7, MessageFact DEF Mail
<1> QED
  BY <1>4, <1>6, <1>7 DEF t

\* What the server knows of a poll that it takes from its mailbox.
LEMMA PollTaken ==
    ASSUME Typed, MailInv, NEW a \in Apps, mbox # <<>>, Head(mbox) = Poll(a)
    PROVE  fido = "polling" /\ OnlyExpires(Tail(mbox))
BY TailMail, MessageFact DEF Typed, TypeOK, MailInv

\* The steps that keep the FIDO thread and the mailbox as they are.
LEMMA MailFrame ==
    ASSUME MailInv, UNCHANGED <<mbox, fido>>, current' \in {current, NoApp} PROVE MailInv'
BY LooseMail DEF MailInv

LEMMA MailStep ==
    ASSUME Typed, MailInv, [Next]_vars PROVE MailInv'
<1>0. mbox \in Seq(Messages) /\ (srv # "ready" => mbox # <<>>)
  BY DEF Typed, TypeOK, BusyInv
<1>1. CASE \/ \E k \in Keys : Press(k)
           \/ Listener \/ OtherAsks \/ OtherOpens \/ OtherCloses
           \/ \E c \in Clients : AskDialog(c) \/ GetMutex(c) \/ CloseDynamicNotification(c)
           \/ DoCloseDynamicNotification
  <2>1. UNCHANGED <<mbox, fido, current>>
    BY <1>1
    DEF Press, Listener, StoreKey, StoreKey2, OtherAsks, OtherOpens, OtherCloses, AskDialog,
        GetMutex, CloseDynamicNotification, DoCloseDynamicNotification, srvVars, fidoVars
  <2> QED
    BY <2>1, MailFrame
<1>2. ASSUME NEW a \in Apps, RequestCtap1(a) PROVE MailInv'
  <2>1. /\ fido = "idle" /\ fido' = "polling" /\ mbox' = Append(mbox, Poll(a))
        /\ current' = current
    BY <1>2 DEF RequestCtap1
  <2>2. Mail(mbox', fido', current')
    BY <1>0, <2>1, AppendMail, MessageFact DEF MailInv
  <2> QED
    BY <2>1, <2>2, FidoAssumption DEF MailInv
<1>3. CASE SendUpdate
  <2>1. /\ fido \in Apps /\ fido' = "idle" /\ mbox' = Append(mbox, Update(fido))
        /\ current' = current
    BY <1>3 DEF SendUpdate
  <2>2. fido # "polling" /\ current = NoApp
    BY <2>1, FidoAssumption DEF MailInv
  <2>3. Mail(mbox', fido', current')
    BY <1>0, <2>1, <2>2, AppendMail, MessageFact DEF MailInv
  <2> QED
    BY <2>1, <2>3, FidoAssumption DEF MailInv
<1>4. CASE RequestCtap2 \/ Prompt \/ PromptEnds \/ KeepaliveFails
  <2>1. /\ fido \in {"idle", "opening", "prompting"}
        /\ fido' \in {"idle", "opening", "prompting", "dead"}
        /\ UNCHANGED <<mbox, current>>
    BY <1>4 DEF RequestCtap2, Prompt, PromptEnds, KeepaliveFails, srvVars
  <2>2. Mail(mbox', fido', current')
    BY <2>1, LooseMail DEF MailInv
  <2> QED
    BY <2>1, <2>2, FidoAssumption DEF MailInv
<1>5. ASSUME NEW a \in Apps,
             \/ PollChanged(a) \/ PollApproved(a) \/ PollDenied(a) \/ PollTimedOut(a)
             \/ PollWaiting(a) \/ PollRefused(a) \/ DialogUp(a)
      PROVE  MailInv'
  <2>1. mbox # <<>> /\ Head(mbox) = Poll(a) /\ mbox' = Tail(mbox)
    BY <1>0, <1>5
    DEF PollChanged, PollApproved, PollDenied, PollTimedOut, PollWaiting, PollRefused, DialogUp,
        Received
  <2>2. Mail(mbox', fido', current')
    BY <2>1, PollTaken, ExpiresMail
  <2>3. fido' = "idle" \/ current' = NoApp
    BY <1>5
    DEF PollChanged, PollApproved, PollDenied, PollTimedOut, PollWaiting, PollRefused, DialogUp,
        Answer
  <2> QED
    BY <2>2, <2>3, FidoAssumption DEF MailInv
<1>6. ASSUME NEW a \in Apps, PollNew(a) \/ AskName(a) PROVE MailInv'
  BY <1>6, MailFrame DEF PollNew, AskName, fidoVars
<1>7. CASE ForceTimeout \/ \E a \in Apps : UpdateRecord(a) \/ NameShown(a) \/ NameGiven(a)
  <2>1. /\ mbox # <<>> /\ mbox' \in {mbox, Tail(mbox)} /\ fido' = fido
        /\ current' \in {current, NoApp}
    BY <1>0, <1>7
    DEF ForceTimeout, UpdateRecord, NameShown, NameGiven, WaitsForName, Received, fidoVars
  <2>2. Mail(mbox', fido, current)
    BY <1>0, <2>1, TailMail DEF MailInv
  <2> QED
    BY <2>1, <2>2, LooseMail DEF MailInv
<1>8. CASE Pump
  <2>1. UNCHANGED <<fido, current>> /\ (mbox' = mbox \/ mbox' = Append(mbox, Expire))
    BY <1>8 DEF Pump, fidoVars
  <2>2. Mail(mbox', fido, current)
    BY <1>0, <2>1, AppendMail, MessageFact DEF MailInv
  <2> QED
    BY <2>1, <2>2 DEF MailInv
<1>9. CASE Run \/ Wake \/ StopWatchdog \/ Tick
  BY <1>9, MailFrame DEF Run, Wake, StopWatchdog, Tick, fidoVars, srvVars
<1>10. CASE UNCHANGED vars
  BY <1>10, MailFrame DEF vars, fidoVars, srvVars
<1> QED
  BY <1>1, <1>2, <1>3, <1>4, <1>5, <1>6, <1>7, <1>8, <1>9, <1>10
  DEF Next, Server, Watchdog, Fido, Dialogs, Host, User

LEMMA MailAlways == Spec => []MailInv
<1>1. Init => MailInv
  BY EmptySeq, FidoAssumption DEF Init, MailInv, Mail
<1>2. Typed /\ MailInv /\ [Next]_vars => MailInv'
  BY MailStep
<1> QED
  BY <1>1, <1>2, TypedAlways, PTL DEF Spec

-----------------------------------------------------------------------------
(* The lock of the dialog server.                                          *)

\* What is in a mailbox, and in which order, after one message more.
LEMMA AppendOrder ==
    ASSUME NEW S, NEW s \in Seq(S), NEW m \in S
    PROVE  /\ \A n : Has(Append(s, m), n) <=> Has(s, n) \/ n = m
           /\ \A k, n : Follows(Append(s, m), k, n) <=> Follows(s, k, n) \/ (n = m /\ Has(s, k))
<1> DEFINE t == Append(s, m)
<1>1. /\ Len(t) = Len(s) + 1 /\ Len(s) \in Nat
      /\ \A i \in 1 .. Len(s) : t[i] = s[i]
      /\ t[Len(s) + 1] = m
  BY AppendFact
<1> HIDE DEF t
<1>2. /\ \A i \in 1 .. Len(t) : \/ i \in 1 .. Len(s) /\ t[i] = s[i]
                                \/ i = Len(s) + 1 /\ t[i] = m
      /\ \A i \in 1 .. Len(s) : i \in 1 .. Len(t) /\ t[i] = s[i] /\ i < Len(s) + 1
      /\ Len(s) + 1 \in 1 .. Len(t)
  BY <1>1
<1>3. \A n : Has(t, n) <=> Has(s, n) \/ n = m
  BY <1>1, <1>2 DEF Has
<1>4. ASSUME NEW k, NEW n, Follows(t, k, n) PROVE Follows(s, k, n) \/ (n = m /\ Has(s, k))
  <2>1. PICK i \in 1 .. Len(t), j \in 1 .. Len(t) : i < j /\ t[i] = k /\ t[j] = n
    BY <1>4 DEF Follows
  <2>2. i \in 1 .. Len(s) /\ t[i] = s[i]
    BY <1>1, <1>2, <2>1
  <2>3. CASE j \in 1 .. Len(s)
    BY <1>2, <2>1, <2>2, <2>3 DEF Follows
  <2>4. CASE t[j] = m
    BY <2>1, <2>2, <2>4 DEF Has
  <2> QED
    BY <1>2, <2>1, <2>3, <2>4
<1>5. ASSUME NEW k, NEW n, Follows(s, k, n) PROVE Follows(t, k, n)
  BY <1>2, <1>5 DEF Follows
<1>6. ASSUME NEW k, Has(s, k) PROVE Follows(t, k, m)
  BY <1>1, <1>2, <1>6 DEF Follows, Has
<1> QED
  BY <1>3, <1>4, <1>5, <1>6 DEF t

\* The same after one message less.
LEMMA TailOrder ==
    ASSUME NEW S, NEW s \in Seq(S), s # <<>>
    PROVE  /\ Has(s, Head(s))
           /\ \A n : Has(Tail(s), n) => Has(s, n) /\ Follows(s, Head(s), n)
           /\ \A n : Has(s, n) => Has(Tail(s), n) \/ n = Head(s)
           /\ \A k, n : Follows(Tail(s), k, n) => Follows(s, k, n)
<1> DEFINE t == Tail(s)
<1>1. /\ Len(t) = Len(s) - 1 /\ Len(s) \in Nat \ {0} /\ Head(s) = s[1]
      /\ \A i \in 1 .. Len(s) - 1 : t[i] = s[i + 1]
  BY TailFact
<1> HIDE DEF t
<1>2. /\ \A i \in 1 .. Len(t) : i + 1 \in 1 .. Len(s) /\ t[i] = s[i + 1] /\ 1 < i + 1
      /\ \A i \in 1 .. Len(s) : i = 1 \/ (i - 1 \in 1 .. Len(t) /\ t[i - 1] = s[i])
      /\ 1 \in 1 .. Len(s)
  BY <1>1
<1>3. Has(s, Head(s))
  BY <1>1, <1>2 DEF Has
<1>4. \A n : Has(t, n) => Has(s, n) /\ Follows(s, Head(s), n)
  BY <1>1, <1>2 DEF Has, Follows
<1>5. \A n : Has(s, n) => Has(t, n) \/ n = Head(s)
  BY <1>1, <1>2 DEF Has
<1>6. ASSUME NEW k, NEW n, Follows(t, k, n) PROVE Follows(s, k, n)
  <2>1. PICK i \in 1 .. Len(t), j \in 1 .. Len(t) : i < j /\ t[i] = k /\ t[j] = n
    BY <1>6 DEF Follows
  <2>2. i + 1 < j + 1
    BY <1>1, <2>1
  <2> QED
    BY <1>2, <2>1, <2>2 DEF Follows
<1> QED
  BY <1>3, <1>4, <1>5, <1>6 DEF t

\* A message sent to the dialog server, and one taken by it.
LEMMA Sent ==
    ASSUME ModalType, NEW m \in Requests, Send(m)
    PROVE  /\ \A n : Has(dbox', n) <=> Has(dbox, n) \/ n = m
           /\ \A k, n : Follows(dbox', k, n) <=> Follows(dbox, k, n) \/ (n = m /\ Has(dbox, k))
BY AppendOrder DEF ModalType, Send

LEMMA Taken ==
    ASSUME ModalType, NEW m, Takes(m), dbox' = Tail(dbox)
    PROVE  /\ Has(dbox, m)
           /\ \A n : Has(dbox', n) => Has(dbox, n) /\ Follows(dbox, m, n)
           /\ \A n : Has(dbox, n) => Has(dbox', n) \/ n = m
           /\ \A k, n : Follows(dbox', k, n) => Follows(dbox, k, n)
BY TailOrder DEF ModalType, Takes

\* Steps that leave the dialog server alone, where no client begins to go by the
\* lock; for the lock itself, none stops either.
LEMMA BoxFrame ==
    ASSUME BoxInv, UNCHANGED <<dbox, queue, call>>, \A d \in Clients : Uses(d)' => Uses(d)
    PROVE  BoxInv'
BY DEF BoxInv

LEMMA LockFrame ==
    ASSUME LockInv, UNCHANGED <<dbox, lock, crossed>>, slot' = "stale" => slot = "stale",
           \A d \in Clients : Uses(d)' <=> Uses(d)
    PROVE  LockInv'
BY DEF LockInv

\* A client that has nothing to do with the dialog server asks for the lock.
LEMMA AskStep ==
    ASSUME ModalType, BoxInv, LockInv, NEW c \in Clients, call[c] = "idle", AsksLock(c),
           UNCHANGED <<lock, queue, slot, crossed>>,
           ~Uses(c)', \A d \in Clients : Uses(d)' <=> Uses(d)
    PROVE  BoxInv' /\ LockInv'
<1>1. /\ \A n : Has(dbox', n) <=> Has(dbox, n) \/ n = Get(c)
      /\ \A k, n : Follows(dbox', k, n) <=> Follows(dbox, k, n) \/ (n = Get(c) /\ Has(dbox, k))
  BY Sent, RequestFact DEF AsksLock
<1>2. call'[c] = "locking" /\ \A d \in Clients : d # c => call'[d] = call[d]
  BY DEF AsksLock, ModalType
<1>3. ~Has(queue, c) /\ ~Has(dbox, Get(c)) /\ ~Has(dbox, Show(c))
  BY DEF BoxInv
<1>4. BoxInv'
  BY <1>1, <1>2, <1>3, RequestFact DEF BoxInv
<1>5. LockInv'
  BY <1>1, RequestFact DEF LockInv
<1> QED
  BY <1>4, <1>5

\* A client asks for its dialog to be closed, and no longer goes by the lock.
LEMMA CloseStep ==
    ASSUME ModalType, BoxInv, LockInv, NEW c \in Clients, call[c] = "idle", Send(Close(c)),
           UNCHANGED <<lock, queue, slot, call, crossed>>,
           ~Uses(c)', \A d \in Clients : d # c => (Uses(d)' <=> Uses(d))
    PROVE  BoxInv' /\ LockInv'
<1>1. /\ \A n : Has(dbox', n) <=> Has(dbox, n) \/ n = Close(c)
      /\ \A k, n : Follows(dbox', k, n) <=> Follows(dbox, k, n) \/ (n = Close(c) /\ Has(dbox, k))
  BY Sent, RequestFact
<1>2. ~Has(queue, c) /\ ~Has(dbox, Get(c)) /\ ~Has(dbox, Show(c))
  BY DEF BoxInv
<1>3. BoxInv'
  BY <1>1, <1>2, RequestFact DEF BoxInv
<1>4. LockInv'
  BY <1>1, RequestFact DEF LockInv
<1> QED
  BY <1>3, <1>4

\* A client's dialog is shown, or refused: with the lock it then goes by it.
LEMMA ShowStep ==
    ASSUME ModalType, BoxInv, LockInv, NEW c \in Clients, Shown(c), Uses(c),
           UNCHANGED <<lock, queue, crossed>>,
           slot' = "stale" => slot = "stale" \/ lock # c,
           lock = c => Uses(c)', \A d \in Clients : d # c => (Uses(d)' <=> Uses(d))
    PROVE  BoxInv' /\ LockInv'
<1>1. /\ Has(dbox, Show(c))
      /\ \A n : Has(dbox', n) => Has(dbox, n) /\ Follows(dbox, Show(c), n)
      /\ \A n : Has(dbox, n) => Has(dbox', n) \/ n = Show(c)
      /\ \A k, n : Follows(dbox', k, n) => Follows(dbox, k, n)
  BY Taken DEF Shown
<1>2. call'[c] = "idle" /\ \A d \in Clients : d # c => call'[d] = call[d]
  BY DEF Shown, ModalType
<1>3. /\ call[c] = "showing" /\ ~Has(queue, c) /\ ~Has(dbox, Get(c)) /\ ~Has(dbox, Close(c))
      /\ ~Has(dbox', Show(c))
  BY <1>1 DEF BoxInv
<1>4. BoxInv'
  BY <1>1, <1>2, <1>3 DEF BoxInv
<1>5. LockInv'
  BY <1>1, RequestFact DEF LockInv
<1> QED
  BY <1>4, <1>5

\* The lock is given on, to the first in the queue: only he begins to go by it.
LEMMA GrantStep ==
    ASSUME ModalType, BoxInv, Unlock,
           \A n : Has(dbox', n) => Has(dbox, n),
           \A k, n : Follows(dbox', k, n) => Follows(dbox, k, n),
           \A d \in Clients : Uses(d)' => Uses(d) \/ (Has(queue, d) /\ lock' = d)
    PROVE  /\ BoxInv'
           /\ \A d \in Clients : lock' = d => call'[d] = "locked" /\ Has(queue, d)
           /\ \A d \in Clients : lock' # d => call'[d] = call[d]
           /\ lock' # "down"
<1>1. CASE queue = <<>>
  <2>1. lock' = "none" /\ UNCHANGED <<queue, call>>
    BY <1>1 DEF Unlock
  <2>2. BoxInv'
    BY <2>1 DEF BoxInv, Clients
  <2> QED
    BY <2>1, <2>2 DEF Clients
<1>2. CASE queue # <<>>
  <2> DEFINE g == Head(queue)
  <2>1. /\ g \in Clients /\ lock' = g /\ queue' = Tail(queue)
        /\ call' = [call EXCEPT ![g] = "locked"]
    BY <1>2, TailFact DEF Unlock, ModalType
  <2>2. /\ Has(queue, g)
        /\ \A n : Has(queue', n) => Has(queue, n) /\ Follows(queue, g, n)
        /\ \A k, n : Follows(queue', k, n) => Follows(queue, k, n)
    BY <1>2, <2>1, TailOrder DEF ModalType
  <2> HIDE DEF g
  <2>3. call'[g] = "locked" /\ \A d \in Clients : d # g => call'[d] = call[d]
    BY <2>1 DEF ModalType
  <2>4. /\ call[g] = "locking" /\ ~Has(dbox, Close(g)) /\ ~Has(dbox, Get(g))
        /\ ~Has(dbox, Show(g)) /\ ~Has(queue', g)
    BY <2>1, <2>2 DEF BoxInv
  <2>5. BoxInv'
    BY <2>1, <2>2, <2>3, <2>4 DEF BoxInv
  <2> QED
    BY <2>1, <2>2, <2>3, <2>5 DEF Clients
<1> QED
  BY <1>1, <1>2

\* Who goes by the lock after it was given on: who did before, or who was first in
\* the queue.
LEMMA UnlockUses ==
    ASSUME ModalType, Unlock, UNCHANGED <<current, fido>>, srv' \in {srv, "ready"},
           other' \in {other, "idle"}
    PROVE  \A d \in Clients : Uses(d)' => Uses(d) \/ (Has(queue, d) /\ lock' = d)
<1>1. CASE queue = <<>>
  <2>1. UNCHANGED call
    BY <1>1 DEF Unlock
  <2> QED
    BY <2>1 DEF Uses, WaitsForName, Clients
<1>2. CASE queue # <<>>
  <2> DEFINE g == Head(queue)
  <2>1. /\ g \in Clients /\ lock' = g /\ Has(queue, g)
        /\ call' = [call EXCEPT ![g] = "locked"]
    BY <1>2, TailFact, TailOrder DEF Unlock, ModalType
  <2> HIDE DEF g
  <2>2. \A d \in Clients : d # g => call'[d] = call[d]
    BY <2>1 DEF ModalType
  <2> QED
    BY <2>1, <2>2 DEF Uses, WaitsForName, Clients
<1> QED
  BY <1>1, <1>2

\* A dialog that is asked for is one its client waits for.
LEMMA ShowTaken ==
    ASSUME ModalType, BoxInv, NEW c \in Clients, Shown(c) PROVE call[c] = "showing"
BY Taken DEF Shown, BoxInv

\* A client that has the lock leaves its dialog and gives the lock on at once.
LEMMA ReleaseStep ==
    ASSUME ModalType, BoxInv, LockInv, NEW c \in Clients, Uses(c), call[c] = "idle",
           ~Has(queue, c), Unlock, UNCHANGED <<dbox, slot, crossed>>,
           call'[c] = "idle" => ~Uses(c)',
           \A d \in Clients : Uses(d)' => Uses(d) \/ (Has(queue, d) /\ lock' = d)
    PROVE  BoxInv' /\ LockInv'
<1>1. /\ BoxInv' /\ lock' # "down"
      /\ \A d \in Clients : lock' = d => call'[d] = "locked" /\ Has(queue, d)
      /\ \A d \in Clients : lock' # d => call'[d] = call[d]
  BY GrantStep
<1>2. \A d \in Clients : lock' = d => Uses(d)'
  BY <1>1 DEF Uses
<1>3. ~Uses(c)'
  BY <1>1
<1>4. ~crossed => ~Has(dbox, DoClose) /\ \A d \in Clients : Uses(d) => d = c
  BY DEF LockInv
<1>5. LockInv'
  BY <1>1, <1>2, <1>3, <1>4 DEF LockInv
<1> QED
  BY <1>1, <1>5

\* The dialog server's own steps.
LEMMA DialogLocks ==
    ASSUME ModalType, ClientInv, BoxInv, LockInv,
           \/ \E c \in Clients : AskDialog(c) \/ GetMutex(c) \/ CloseDynamicNotification(c)
           \/ DoCloseDynamicNotification
           \/ \E k \in Keys : Press(k)
    PROVE  BoxInv' /\ LockInv'
<1>1. ASSUME NEW c \in Clients, AskDialog(c) PROVE BoxInv' /\ LockInv'
  <2>1. /\ \A n : Has(dbox', n) <=> Has(dbox, n) \/ n = Show(c)
        /\ \A k, n : Follows(dbox', k, n) <=> Follows(dbox, k, n) \/ (n = Show(c) /\ Has(dbox, k))
    BY <1>1, Sent, RequestFact DEF AskDialog
  <2>2. /\ call[c] = "locked" /\ call'[c] = "showing"
        /\ \A d \in Clients : d # c => call'[d] = call[d]
    BY <1>1 DEF AskDialog, ModalType
  <2>3. UNCHANGED <<srv, current, fido, other, lock, queue, slot, crossed>>
    BY <1>1 DEF AskDialog, fidoVars, srvVars, histVars
  <2>4. \A d \in Clients : Uses(d)' <=> Uses(d)
    BY <2>2, <2>3 DEF Uses, WaitsForName, Clients
  <2>5. ~Has(queue, c) /\ ~Has(dbox, Show(c)) /\ ~Has(dbox, Get(c))
    BY <2>2 DEF BoxInv
  <2>6. BoxInv'
    BY <2>1, <2>2, <2>3, <2>4, <2>5, RequestFact DEF BoxInv
  <2>7. LockInv'
    BY <2>1, <2>3, <2>4, RequestFact DEF LockInv
  <2> QED
    BY <2>6, <2>7
<1>2. ASSUME NEW c \in Clients, GetMutex(c) PROVE BoxInv' /\ LockInv'
  <2>1. /\ Has(dbox, Get(c))
        /\ \A n : Has(dbox', n) => Has(dbox, n) /\ Follows(dbox, Get(c), n)
        /\ \A n : Has(dbox, n) => Has(dbox', n) \/ n = Get(c)
        /\ \A k, n : Follows(dbox', k, n) => Follows(dbox, k, n)
    BY <1>2, Taken DEF GetMutex
  <2>2. UNCHANGED <<srv, current, fido, other, slot, crossed>>
    BY <1>2 DEF GetMutex, fidoVars, srvVars, histVars
  <2>3. /\ call[c] = "locking" /\ ~Has(queue, c) /\ ~Has(dbox', Close(c)) /\ ~Has(dbox', Get(c))
        /\ ~Has(dbox, Show(c))
    BY <2>1 DEF BoxInv
  <2>4. CASE lock = "none"
    <3>1. lock' = c /\ call' = [call EXCEPT ![c] = "locked"] /\ queue' = queue
      BY <1>2, <2>4 DEF GetMutex
    <3>2. call'[c] = "locked" /\ \A d \in Clients : d # c => call'[d] = call[d]
      BY <3>1 DEF ModalType
    <3>3. Uses(c)' /\ \A d \in Clients : d # c => (Uses(d)' <=> Uses(d))
      BY <2>2, <3>2 DEF Uses, WaitsForName, Clients
    <3>4. BoxInv'
      BY <2>1, <2>3, <3>1, <3>2, <3>3 DEF BoxInv
    <3>5. ~crossed => ~Has(dbox, DoClose) /\ \A d \in Clients : ~Uses(d)
      BY <2>4 DEF LockInv, Clients
    <3>6. lock' # "down"
      BY <3>1 DEF Clients
    <3>7. LockInv'
      BY <2>1, <2>2, <3>1, <3>3, <3>5, <3>6 DEF LockInv
    <3> QED
      BY <3>4, <3>7
  <2>5. CASE lock # "none"
    <3>1. queue' = Append(queue, c) /\ UNCHANGED <<lock, call>>
      BY <1>2, <2>5 DEF GetMutex
    <3>2. /\ \A n : Has(queue', n) <=> Has(queue, n) \/ n = c
          /\ \A k, n : Follows(queue', k, n) <=> Follows(queue, k, n) \/ (n = c /\ Has(queue, k))
      BY <3>1, AppendOrder DEF ModalType
    <3>3. \A d \in Clients : Uses(d)' <=> Uses(d)
      BY <2>2, <3>1 DEF Uses, WaitsForName
    <3>4. BoxInv'
      BY <2>1, <2>3, <3>1, <3>2, <3>3 DEF BoxInv
    <3>5. LockInv'
      BY <2>1, <2>2, <3>1, <3>3, RequestFact DEF LockInv
    <3> QED
      BY <3>4, <3>5
  <2> QED
    BY <2>4, <2>5
<1>3. ASSUME NEW c \in Clients, CloseDynamicNotification(c) PROVE BoxInv' /\ LockInv'
  <2>1. UNCHANGED <<srv, current, fido, other, slot, call, lock, queue>>
    BY <1>3 DEF CloseDynamicNotification, fidoVars, srvVars
  <2>2. \A d \in Clients : Uses(d)' <=> Uses(d)
    BY <2>1 DEF Uses, WaitsForName
  <2> DEFINE t == Tail(dbox)
  <2>3. dbox # <<>> /\ Head(dbox) = Close(c) /\ t \in Seq(Requests)
    BY <1>3, TailFact DEF CloseDynamicNotification, Takes, ModalType
  <2>4. /\ \A n : Has(t, n) => Has(dbox, n)
        /\ \A n : Has(dbox, n) => Has(t, n) \/ n = Close(c)
        /\ \A k, n : Follows(t, k, n) => Follows(dbox, k, n)
        /\ Has(dbox, Close(c))
    BY <2>3, TailOrder DEF ModalType
  <2>5. CASE lock # c
    <3>1. dbox' = t /\ crossed' = crossed
      BY <1>3, <2>5 DEF CloseDynamicNotification
    <3> HIDE DEF t
    <3>2. BoxInv'
      BY <2>1, <2>2, <2>4, <3>1 DEF BoxInv
    <3>3. LockInv'
      BY <2>1, <2>2, <2>4, <2>5, <3>1, RequestFact DEF LockInv
    <3> QED
      BY <3>2, <3>3
  <2>6. CASE lock = c
    <3>1. dbox' = Append(t, DoClose) /\ (~crossed' => ~crossed /\ ~Has(dbox, DoClose))
      BY <1>3, <2>6 DEF CloseDynamicNotification, Has
    <3> HIDE DEF t
    <3>2. /\ \A n : Has(dbox', n) <=> Has(t, n) \/ n = DoClose
          /\ \A k, n : Follows(dbox', k, n) <=> Follows(t, k, n) \/ (n = DoClose /\ Has(t, k))
      BY <2>3, <3>1, AppendOrder, RequestFact
    <3>3. BoxInv'
      BY <2>1, <2>2, <2>4, <3>2, RequestFact DEF BoxInv
    <3>4. ~Uses(c)
      BY <2>4 DEF BoxInv
    <3>5. LockInv'
      BY <2>1, <2>2, <2>4, <2>6, <3>1, <3>2, <3>4 DEF LockInv
    <3> QED
      BY <3>3, <3>5
  <2> QED
    BY <2>5, <2>6
<1>4. CASE DoCloseDynamicNotification
  <2>1. /\ Has(dbox, DoClose)
        /\ \A n : Has(dbox', n) => Has(dbox, n) /\ Follows(dbox, DoClose, n)
        /\ \A k, n : Follows(dbox', k, n) => Follows(dbox, k, n)
    BY <1>4, Taken DEF DoCloseDynamicNotification
  <2>2. UNCHANGED <<srv, current, fido, other, crossed>>
    BY <1>4 DEF DoCloseDynamicNotification, fidoVars, histVars
  <2>3. CASE slot = "stale"
    <3>1. UNCHANGED <<call, queue>>
      BY <1>4, <2>3 DEF DoCloseDynamicNotification, Panics
    <3>2. \A d \in Clients : Uses(d)' <=> Uses(d)
      BY <2>2, <3>1 DEF Uses, WaitsForName
    <3>3. BoxInv'
      BY <2>1, <3>1, <3>2 DEF BoxInv
    <3>4. LockInv'
      BY <2>2, <2>3 DEF LockInv
    <3> QED
      BY <3>3, <3>4
  <2>4. CASE slot # "stale"
    <3>1. Unlock /\ slot' = "none"
      BY <1>4, <2>4 DEF DoCloseDynamicNotification
    <3>2. \A d \in Clients : Uses(d)' => Uses(d) \/ (Has(queue, d) /\ lock' = d)
      BY <2>2, <3>1, UnlockUses
    <3>3. /\ BoxInv' /\ lock' # "down"
          /\ \A d \in Clients : lock' = d => call'[d] = "locked"
      BY <2>1, <3>1, <3>2, GrantStep
    <3>4. \A d \in Clients : lock' = d => Uses(d)'
      BY <3>3 DEF Uses
    <3>5. ~crossed => \A d \in Clients : ~Uses(d)
      BY <2>1 DEF LockInv
    <3>6. LockInv'
      BY <2>1, <2>2, <3>1, <3>2, <3>3, <3>4, <3>5 DEF LockInv
    <3> QED
      BY <3>3, <3>6
  <2> QED
    BY <2>3, <2>4
<1>5. ASSUME NEW k \in Keys, Press(k) PROVE BoxInv' /\ LockInv'
  <2>1. UNCHANGED <<srv, current, fido, other, dbox, queue, call, crossed>>
    BY <1>5 DEF Press, Panics
  <2>2. \A d \in Clients : Uses(d)' <=> Uses(d)
    BY <2>1 DEF Uses, WaitsForName
  <2>3. BoxInv'
    BY <2>1, <2>2, BoxFrame
  <2>4. CASE slot = "stale"
    BY <2>1, <2>3, <2>4 DEF LockInv
  <2>5. CASE slot # "stale"
    <3>1. slot' = "none" /\ lock' = lock
      BY <1>5, <2>5 DEF Press
    <3> QED
      BY <2>1, <2>2, <2>3, <3>1, LockFrame
  <2> QED
    BY <2>3, <2>4, <2>5
<1> QED
  BY <1>1, <1>2, <1>3, <1>4, <1>5

\* The vault's own dialogs.
LEMMA OtherLocks ==
    ASSUME ModalType, ClientInv, BoxInv, LockInv, OtherAsks \/ OtherOpens \/ OtherCloses
    PROVE  BoxInv' /\ LockInv'
<1>1. CASE OtherAsks
  <2>1. /\ call["other"] = "idle" /\ AsksLock("other") /\ call'["other"] = "locking"
        /\ \A d \in Clients : d # "other" => call'[d] = call[d]
        /\ other = "idle" /\ UNCHANGED <<srv, current, fido, other, lock, queue, slot, crossed>>
    BY <1>1 DEF OtherAsks, AsksLock, ModalType, Clients, fidoVars, srvVars
  <2>2. ~Uses("other")' /\ \A d \in Clients : Uses(d)' <=> Uses(d)
    BY <2>1 DEF Uses, WaitsForName, Clients
  <2> QED
    BY <2>1, <2>2, AskStep DEF Clients
<1>2. CASE OtherOpens
  <2>1. /\ Shown("other") /\ UNCHANGED <<srv, current, fido, lock, queue, slot, crossed>>
        /\ other' = IF lock = "other" THEN "open" ELSE "idle"
    BY <1>2 DEF OtherOpens, fidoVars, srvVars, histVars
  <2>2. call["other"] = "showing"
    BY <2>1, ShowTaken DEF Clients
  <2>3. \A d \in Clients : d # "other" => call'[d] = call[d]
    BY <2>1 DEF Shown, ModalType
  <2>4. /\ Uses("other") /\ (lock = "other" => Uses("other")')
        /\ \A d \in Clients : d # "other" => (Uses(d)' <=> Uses(d))
    BY <2>1, <2>2, <2>3 DEF Uses, WaitsForName, Clients
  <2> QED
    BY <2>1, <2>4, ShowStep DEF Clients
<1>3. CASE OtherCloses
  <2>1. /\ other = "open" /\ other' = "idle" /\ Unlock
        /\ UNCHANGED <<srv, current, fido, dbox, slot, crossed>>
    BY <1>3 DEF OtherCloses, fidoVars, srvVars, histVars
  <2>2. \A d \in Clients : Uses(d)' => Uses(d) \/ (Has(queue, d) /\ lock' = d)
    BY <2>1, UnlockUses
  <2>3. /\ Uses("other") /\ call["other"] = "idle" /\ ~Has(queue, "other")
        /\ call'["other"] = "idle" => ~Uses("other")'
    BY <2>1 DEF Uses, ClientInv, BoxInv, Clients
  <2> QED
    BY <2>1, <2>2, <2>3, ReleaseStep DEF Clients
<1> QED
  BY <1>1, <1>2, <1>3

\* The FIDO thread.
LEMMA FidoLocks ==
    ASSUME ModalType, ClientInv, BoxInv, LockInv,
           \/ Fido \/ RequestCtap2 \/ Prompt \/ KeepaliveFails
           \/ \E a \in Apps : RequestCtap1(a)
    PROVE  BoxInv' /\ LockInv'
<1>1. CASE SendUpdate \/ KeepaliveFails \/ \E a \in Apps : RequestCtap1(a)
  <2>1. UNCHANGED <<srv, current, other, dbox, lock, queue, slot, call, crossed>>
    BY <1>1 DEF SendUpdate, KeepaliveFails, RequestCtap1, srvVars, modalVars, histVars
  <2>2. fido \in {"prompting", "dead"} <=> fido' \in {"prompting", "dead"}
    BY <1>1, FidoAssumption DEF SendUpdate, KeepaliveFails, RequestCtap1
  <2>3. \A d \in Clients : Uses(d)' <=> Uses(d)
    BY <2>1, <2>2 DEF Uses, WaitsForName
  <2> QED
    BY <2>1, <2>3, BoxFrame, LockFrame
<1>2. CASE RequestCtap2
  <2>1. /\ fido = "idle" /\ fido' = "opening" /\ AsksLock("fido") /\ call'["fido"] = "locking"
        /\ \A d \in Clients : d # "fido" => call'[d] = call[d]
        /\ UNCHANGED <<srv, current, other, lock, queue, slot, crossed>>
    BY <1>2 DEF RequestCtap2, AsksLock, ModalType, Clients, srvVars
  <2>2. call["fido"] = "idle"
    BY <2>1 DEF ClientInv
  <2>3. ~Uses("fido")' /\ \A d \in Clients : Uses(d)' <=> Uses(d)
    BY <2>1, <2>2 DEF Uses, WaitsForName, Clients
  <2> QED
    BY <2>1, <2>2, <2>3, AskStep DEF Clients
<1>3. CASE Prompt
  <2>1. /\ Shown("fido") /\ fido' = "prompting" /\ slot' = IF lock = "fido" THEN "fido" ELSE "stale"
        /\ UNCHANGED <<srv, current, other, lock, queue, crossed>>
    BY <1>3 DEF Prompt, Listens, srvVars, histVars
  <2>2. call["fido"] = "showing"
    BY <2>1, ShowTaken DEF Clients
  <2>3. \A d \in Clients : d # "fido" => call'[d] = call[d]
    BY <2>1 DEF Shown, ModalType
  <2>4. /\ Uses("fido") /\ Uses("fido")'
        /\ \A d \in Clients : d # "fido" => (Uses(d)' <=> Uses(d))
    BY <2>1, <2>2, <2>3 DEF Uses, WaitsForName, Clients
  <2> QED
    BY <2>1, <2>4, ShowStep DEF Clients
<1>4. CASE PromptEnds
  <2>1. /\ fido = "prompting" /\ fido' = "idle" /\ Send(Close("fido"))
        /\ UNCHANGED <<srv, current, other, lock, queue, slot, call, crossed>>
    BY <1>4 DEF PromptEnds, srvVars, histVars
  <2>2. call["fido"] = "idle"
    BY <2>1 DEF ClientInv
  <2>3. ~Uses("fido")' /\ \A d \in Clients : d # "fido" => (Uses(d)' <=> Uses(d))
    BY <2>1, <2>2 DEF Uses, WaitsForName, Clients
  <2> QED
    BY <2>1, <2>2, <2>3, CloseStep DEF Clients
<1> QED
  BY <1>1, <1>2, <1>3, <1>4 DEF Fido

\* The permission server.
LEMMA ServerLocks ==
    ASSUME Typed, MailInv, ModalType, ClientInv, BoxInv, LockInv, Server
    PROVE  BoxInv' /\ LockInv'
<1>1. ASSUME NEW a \in Apps,
             PollChanged(a) \/ PollApproved(a) \/ PollDenied(a) \/ PollTimedOut(a)
      PROVE  BoxInv' /\ LockInv'
  <2>1. /\ srv = "ready" /\ srv' = srv /\ current' = NoApp /\ Send(Close("srv"))
        /\ mbox # <<>> /\ Head(mbox) = Poll(a) /\ fido' \in {"idle", a}
        /\ UNCHANGED <<other, lock, queue, slot, call, crossed>>
    BY <1>1
    DEF PollChanged, PollApproved, PollDenied, PollTimedOut, Received, Answer, StopAndClose, histVars
  <2>2. fido = "polling" /\ fido' \notin {"prompting", "dead"}
    BY <2>1, PollTaken, FidoAssumption
  <2>3. call["srv"] = "idle"
    BY <2>1 DEF ClientInv
  <2>4. ~Uses("srv")' /\ \A d \in Clients : d # "srv" => (Uses(d)' <=> Uses(d))
    BY <2>1, <2>2, <2>3 DEF Uses, WaitsForName, Clients
  <2> QED
    BY <2>1, <2>3, <2>4, CloseStep DEF Clients
<1>2. ASSUME NEW a \in Apps, PollWaiting(a) \/ PollRefused(a) PROVE BoxInv' /\ LockInv'
  <2>1. /\ mbox # <<>> /\ Head(mbox) = Poll(a) /\ fido' = "idle"
        /\ UNCHANGED <<srv, current, other, dbox, lock, queue, slot, call, crossed>>
    BY <1>2 DEF PollWaiting, PollRefused, Received, Answer, modalVars, histVars
  <2>2. fido = "polling"
    BY <2>1, PollTaken
  <2>3. \A d \in Clients : Uses(d)' <=> Uses(d)
    BY <2>1, <2>2 DEF Uses, WaitsForName
  <2> QED
    BY <2>1, <2>3, BoxFrame, LockFrame
<1>3. ASSUME NEW a \in Apps, PollNew(a) \/ AskName(a) PROVE BoxInv' /\ LockInv'
  <2>1. /\ srv = "ready" /\ srv' \in {"opening", "naming"} /\ AsksLock("srv")
        /\ call'["srv"] = "locking"
        /\ \A d \in Clients : d # "srv" => call'[d] = call[d]
        /\ UNCHANGED <<current, fido, other, lock, queue, slot, crossed>>
    BY <1>3 DEF PollNew, AskName, AsksLock, ModalType, Clients, fidoVars, histVars
  <2>2. call["srv"] = "idle"
    BY <2>1 DEF ClientInv
  <2>3. current = NoApp
    <3>1. CASE PollNew(a)
      BY <3>1 DEF PollNew
    <3>2. CASE AskName(a)
      BY <3>2, TailMail, MessageFact DEF AskName, MailInv, Typed, TypeOK
    <3> QED
      BY <1>3, <3>1, <3>2
  <2>4. ~Uses("srv")' /\ \A d \in Clients : Uses(d)' <=> Uses(d)
    BY <2>1, <2>2, <2>3 DEF Uses, WaitsForName, Clients
  <2> QED
    BY <2>1, <2>2, <2>4, AskStep DEF Clients
<1>4. ASSUME NEW a \in Apps, UpdateRecord(a) PROVE BoxInv' /\ LockInv'
  <2>1. UNCHANGED <<srv, current, fido, other, dbox, lock, queue, slot, call, crossed>>
    BY <1>4 DEF UpdateRecord, fidoVars, modalVars, histVars
  <2>2. \A d \in Clients : Uses(d)' <=> Uses(d)
    BY <2>1 DEF Uses, WaitsForName
  <2> QED
    BY <2>1, <2>2, BoxFrame, LockFrame
<1>5. CASE ForceTimeout
  <2>1. /\ srv = "ready" /\ srv' = srv /\ current' = NoApp /\ Send(Close("srv"))
        /\ UNCHANGED <<fido, other, lock, queue, slot, call, crossed>>
    BY <1>5 DEF ForceTimeout, Received, fidoVars, histVars
  <2>2. call["srv"] = "idle"
    BY <2>1 DEF ClientInv
  <2>3. ~Uses("srv")' /\ \A d \in Clients : d # "srv" => (Uses(d)' <=> Uses(d))
    BY <2>1, <2>2 DEF Uses, WaitsForName, Clients
  <2> QED
    BY <2>1, <2>2, <2>3, CloseStep DEF Clients
<1> QED
  BY <1>1, <1>2, <1>3, <1>4, <1>5 DEF Server

\* Its dialogs.
LEMMA ServerDialogLocks ==
    ASSUME Typed, MailInv, ModalType, ClientInv, BoxInv, LockInv, NEW a \in Apps,
           DialogUp(a) \/ NameShown(a) \/ NameGiven(a)
    PROVE  BoxInv' /\ LockInv'
<1>1. CASE DialogUp(a)
  <2>1. /\ Shown("srv") /\ srv' = "ready" /\ current' = a /\ fido' = "idle"
        /\ slot' = IF lock = "srv" THEN "srv" ELSE "stale"
        /\ srv # "ready" /\ Head(mbox) = Poll(a)
        /\ UNCHANGED <<other, lock, queue, crossed>>
    BY <1>1 DEF DialogUp, Listens, Answer, histVars
  <2>2. fido = "polling" /\ a # NoApp
    BY <2>1, PollTaken, AppsAssumption DEF Typed, BusyInv
  <2>3. call["srv"] = "showing"
    BY <2>1, ShowTaken DEF Clients
  <2>4. \A d \in Clients : d # "srv" => call'[d] = call[d]
    BY <2>1 DEF Shown, ModalType
  <2>5. /\ Uses("srv") /\ Uses("srv")'
        /\ \A d \in Clients : d # "srv" => (Uses(d)' <=> Uses(d))
    BY <2>1, <2>2, <2>3, <2>4 DEF Uses, WaitsForName, Clients
  <2> QED
    BY <2>1, <2>5, ShowStep DEF Clients
<1>2. CASE NameShown(a)
  <2>1. /\ srv = "naming" /\ Shown("srv") /\ (lock = "srv" => srv' = srv)
        /\ UNCHANGED <<current, fido, other, lock, queue, slot, crossed>>
    BY <1>2 DEF NameShown, fidoVars, histVars
  <2>2. call["srv"] = "showing"
    BY <2>1, ShowTaken DEF Clients
  <2>3. call'["srv"] = "idle" /\ \A d \in Clients : d # "srv" => call'[d] = call[d]
    BY <2>1 DEF Shown, ModalType, Clients
  <2>4. /\ Uses("srv") /\ (lock = "srv" => Uses("srv")')
        /\ \A d \in Clients : d # "srv" => (Uses(d)' <=> Uses(d))
    BY <2>1, <2>2, <2>3 DEF Uses, WaitsForName, Clients
  <2> QED
    BY <2>1, <2>4, ShowStep DEF Clients
<1>3. CASE NameGiven(a)
  <2>1. /\ WaitsForName /\ srv' = "ready" /\ UNCHANGED <<current, fido, other, dbox, slot, crossed>>
    BY <1>3 DEF NameGiven, fidoVars, histVars
  <2>2. /\ Uses("srv") /\ call["srv"] = "idle" /\ ~Has(queue, "srv") /\ current = NoApp
        /\ call'["srv"] = "idle" => ~Uses("srv")'
    BY <2>1 DEF Uses, WaitsForName, ClientInv, BoxInv, Clients
  <2>3. CASE lock = "srv"
    <3>1. Unlock
      BY <1>3, <2>3 DEF NameGiven
    <3>2. \A d \in Clients : Uses(d)' => Uses(d) \/ (Has(queue, d) /\ lock' = d)
      BY <2>1, <3>1, UnlockUses
    <3> QED
      BY <2>1, <2>2, <3>1, <3>2, ReleaseStep DEF Clients
  <2>4. CASE lock # "srv"
    <3>1. UNCHANGED <<lock, queue, call>>
      BY <1>3, <2>4 DEF NameGiven
    <3>2. \A d \in Clients : Uses(d)' => Uses(d)
      BY <2>1, <3>1 DEF Uses, WaitsForName
    <3>3. BoxInv'
      BY <2>1, <3>1, <3>2, BoxFrame
    <3>4. crossed
      BY <2>2, <2>4 DEF LockInv, Clients
    <3> QED
      BY <2>1, <3>3, <3>4 DEF LockInv
  <2> QED
    BY <2>3, <2>4
<1> QED
  BY <1>1, <1>2, <1>3

\* What a client is doing goes with its call, step by step.
LEMMA ClientStep ==
    ASSUME Typed, MailInv, ModalType, ClientInv, BoxInv, [Next]_vars PROVE ClientInv'
<1>1. ASSUME NEW c \in Clients, GetMutex(c) PROVE ClientInv'
  <2>1. call[c] = "locking"
    BY <1>1, Taken DEF GetMutex, BoxInv
  <2>2. /\ UNCHANGED <<srv, current, fido, other>>
        /\ \A d \in Clients : d # c => call'[d] = call[d]
    BY <1>1 DEF GetMutex, ModalType, fidoVars, srvVars
  <2> QED
    BY <2>1, <2>2 DEF ClientInv, Clients
<1>2. ASSUME NEW c \in Clients, AskDialog(c) PROVE ClientInv'
  <2>1. /\ call[c] = "locked" /\ UNCHANGED <<srv, current, fido, other>>
        /\ \A d \in Clients : d # c => call'[d] = call[d]
    BY <1>2 DEF AskDialog, ModalType, fidoVars, srvVars
  <2> QED
    BY <2>1 DEF ClientInv, Clients
<1>3. CASE \/ \E c \in Clients : CloseDynamicNotification(c)
           \/ \E k \in Keys : Press(k)
           \/ Listener \/ Watchdog \/ Tick \/ UNCHANGED vars
           \/ \E a \in Apps : UpdateRecord(a)
  <2>1. UNCHANGED <<srv, current, fido, other, call>>
    BY <1>3
    DEF CloseDynamicNotification, Press, Panics, Listener, StoreKey, StoreKey2, Watchdog, Run, Pump,
        Wake, StopWatchdog, Tick, UpdateRecord, vars, fidoVars, srvVars, modalVars
  <2> QED
    BY <2>1 DEF ClientInv
<1>4. CASE DoCloseDynamicNotification \/ OtherCloses \/ \E a \in Apps : NameGiven(a)
  <2>1. /\ UNCHANGED <<current, fido>> /\ other' \in {other, "idle"}
        /\ srv' = srv \/ (srv = "naming" /\ call["srv"] = "idle" /\ srv' = "ready")
        /\ Unlock \/ UNCHANGED call
    BY <1>4
    DEF DoCloseDynamicNotification, Panics, OtherCloses, NameGiven, WaitsForName, fidoVars, srvVars
  <2>2. \A d \in Clients : call[d] = "idle" => call'[d] = "idle"
    <3>1. CASE UNCHANGED call
      BY <3>1
    <3>2. CASE Unlock /\ queue # <<>>
      <4>1. /\ Head(queue) \in Clients /\ Has(queue, Head(queue))
            /\ call' = [call EXCEPT ![Head(queue)] = "locked"]
        BY <3>2, TailFact, TailOrder DEF Unlock, ModalType
      <4>2. call[Head(queue)] = "locking"
        BY <4>1 DEF BoxInv
      <4> QED
        BY <4>1, <4>2 DEF ModalType
    <3>3. CASE Unlock /\ queue = <<>>
      BY <3>3 DEF Unlock
    <3> QED
      BY <2>1, <3>1, <3>2, <3>3
  <2> QED
    BY <2>1, <2>2 DEF ClientInv, Clients
<1>5. CASE OtherAsks \/ OtherOpens
  <2>1. /\ UNCHANGED <<srv, current, fido>>
        /\ \A d \in Clients : d # "other" => call'[d] = call[d]
        /\ other' = "open" => call'["other"] = "idle"
    BY <1>5 DEF OtherAsks, AsksLock, OtherOpens, Shown, ModalType, Clients, fidoVars, srvVars
  <2> QED
    BY <2>1 DEF ClientInv, Clients
<1>6. CASE SendUpdate \/ PromptEnds \/ KeepaliveFails \/ \E a \in Apps : RequestCtap1(a)
  <2>1. UNCHANGED <<srv, current, other, call>> /\ fido # "opening"
    BY <1>6, FidoAssumption
    DEF SendUpdate, PromptEnds, KeepaliveFails, RequestCtap1, srvVars, modalVars
  <2> QED
    BY <2>1 DEF ClientInv
<1>7. CASE RequestCtap2 \/ Prompt
  <2>1. /\ UNCHANGED <<srv, current, other>>
        /\ \A d \in Clients : d # "fido" => call'[d] = call[d]
        /\ fido' # "opening" => call'["fido"] = "idle"
    BY <1>7 DEF RequestCtap2, AsksLock, Prompt, Shown, ModalType, Clients, srvVars
  <2> QED
    BY <2>1 DEF ClientInv, Clients
<1>8. ASSUME NEW a \in Apps,
             \/ PollChanged(a) \/ PollApproved(a) \/ PollDenied(a) \/ PollTimedOut(a)
             \/ PollWaiting(a) \/ PollRefused(a)
      PROVE  ClientInv'
  <2>1. /\ srv = "ready" /\ mbox # <<>> /\ Head(mbox) = Poll(a) /\ UNCHANGED <<srv, other, call>>
    BY <1>8
    DEF PollChanged, PollApproved, PollDenied, PollTimedOut, PollWaiting, PollRefused, Received,
        modalVars
  <2>2. fido = "polling"
    BY <2>1, PollTaken
  <2> QED
    BY <2>1, <2>2 DEF ClientInv
<1>9. ASSUME NEW a \in Apps, PollNew(a) \/ AskName(a) PROVE ClientInv'
  <2>1. current = NoApp
    <3>1. CASE PollNew(a)
      BY <3>1 DEF PollNew
    <3>2. CASE AskName(a)
      BY <3>2, TailMail, MessageFact DEF AskName, MailInv, Typed, TypeOK
    <3> QED
      BY <1>9, <3>1, <3>2
  <2>2. /\ srv' \in {"opening", "naming"} /\ UNCHANGED <<current, fido, other>>
        /\ \A d \in Clients : d # "srv" => call'[d] = call[d]
    BY <1>9 DEF PollNew, AskName, AsksLock, ModalType, fidoVars
  <2> QED
    BY <2>1, <2>2 DEF ClientInv, Clients
<1>10. ASSUME NEW a \in Apps, DialogUp(a) \/ NameShown(a) PROVE ClientInv'
  <2>1. /\ call'["srv"] = "idle" /\ \A d \in Clients : d # "srv" => call'[d] = call[d]
        /\ UNCHANGED other
    BY <1>10 DEF DialogUp, NameShown, Shown, ModalType, Clients
  <2>2. srv' # "ready" => current' = NoApp
    BY <1>10 DEF DialogUp, NameShown, ClientInv
  <2>3. fido' = fido \/ fido = "polling"
    <3>1. CASE NameShown(a)
      BY <3>1 DEF NameShown, fidoVars
    <3>2. CASE DialogUp(a)
      BY <3>2, PollTaken DEF DialogUp, Typed, BusyInv
    <3> QED
      BY <1>10, <3>1, <3>2
  <2> QED
    BY <2>1, <2>2, <2>3 DEF ClientInv, Clients
<1>11. CASE ForceTimeout
  BY <1>11 DEF ForceTimeout, Received, ClientInv, fidoVars
<1> QED
  BY <1>1, <1>2, <1>3, <1>4, <1>5, <1>6, <1>7, <1>8, <1>9, <1>10, <1>11
  DEF Next, Server, Fido, Dialogs, Host, User

LockAll == ClientInv /\ BoxInv /\ LockInv

LEMMA LockStep ==
    ASSUME Typed, MailInv, LockAll, [Next]_vars PROVE LockAll'
<1>0. ModalType /\ ClientInv /\ BoxInv /\ LockInv
  BY TypeParts DEF Typed, LockAll
<1>1. ClientInv'
  BY <1>0, ClientStep
<1>2. CASE Listener \/ Watchdog \/ Tick \/ UNCHANGED vars
  <2>1. UNCHANGED <<srv, current, fido, other, dbox, lock, queue, slot, call, crossed>>
    BY <1>2
    DEF Listener, StoreKey, StoreKey2, Watchdog, Run, Pump, Wake, StopWatchdog, Tick, vars,
        fidoVars, srvVars, modalVars, histVars
  <2>2. \A d \in Clients : Uses(d)' <=> Uses(d)
    BY <2>1 DEF Uses, WaitsForName
  <2>3. BoxInv' /\ LockInv'
    BY <1>0, <2>1, <2>2, BoxFrame, LockFrame
  <2> QED
    BY <1>1, <2>3 DEF LockAll
<1>3. CASE Server
  BY <1>0, <1>1, <1>3, ServerLocks DEF LockAll
<1>4. CASE Fido \/ Host
  BY <1>0, <1>1, <1>4, FidoLocks, OtherLocks DEF LockAll, Host
<1>5. CASE Dialogs
  BY <1>0, <1>1, <1>5, DialogLocks, FidoLocks, OtherLocks, ServerDialogLocks DEF LockAll, Dialogs
<1>6. CASE User
  BY <1>0, <1>1, <1>6, DialogLocks, OtherLocks, ServerDialogLocks DEF LockAll, User
<1> QED
  BY <1>2, <1>3, <1>4, <1>5, <1>6 DEF Next

LEMMA LockAlways == Spec => []LockAll
<1>1. Init => LockAll
  <2> SUFFICES ASSUME Init PROVE LockAll
    OBVIOUS
  <2>1. Len(dbox) = 0 /\ Len(queue) = 0
    BY EmptySeq DEF Init
  <2>2. \A n : ~Has(dbox, n) /\ ~Has(queue, n)
    BY <2>1 DEF Has
  <2>3. \A k, n : ~Follows(dbox, k, n) /\ ~Follows(queue, k, n)
    BY <2>1 DEF Follows
  <2>4. \A c \in Clients : call[c] = "idle" /\ ~Uses(c)
    BY DEF Init, Uses, WaitsForName, Clients
  <2>5. ClientInv
    BY <2>4 DEF Init, ClientInv, Clients
  <2>6. BoxInv
    BY <2>2, <2>3, <2>4 DEF BoxInv
  <2>7. LockInv
    BY <2>2, <2>3, <2>4 DEF Init, LockInv, Clients
  <2> QED
    BY <2>5, <2>6, <2>7 DEF LockAll
<1>2. Typed /\ MailInv /\ LockAll /\ [Next]_vars => LockAll'
  BY LockStep
<1> QED
  BY <1>1, <1>2, TypedAlways, MailAlways, PTL DEF Spec

\* Unless two closes of one dialog crossed on their way through the dialog server,
\* the lock is with the client that goes by having it, and with no other: however
\* the threads interleave, no ended request keeps the lock.
THEOREM LockIsUsed == Spec => []LockInUse
<1>1. LockAll => LockInUse
  BY DEF LockAll, LockInv, LockInUse, Leaving, Has
<1> QED
  BY <1>1, LockAlways, PTL

-----------------------------------------------------------------------------
(* The watchdog.                                                           *)

Expiring == \E i \in 1 .. Len(mbox) : mbox[i] = Expire

\* The watchdog's mailbox after one message more.
LEMMA WboxGrows ==
    ASSUME TypeOK, NEW m \in {"Run", "Pump", "Stop"}, wbox' = Append(wbox, m)
    PROVE  /\ Queued(m)'
           /\ \A n : Queued(n)' <=> Queued(n) \/ n = m
           /\ RunAhead /\ m # "Stop" => RunAhead'
           /\ m = "Run" => RunAhead'
<1>1. /\ Len(wbox') = Len(wbox) + 1 /\ Len(wbox) \in Nat
      /\ \A i \in 1 .. Len(wbox) : wbox'[i] = wbox[i]
      /\ wbox'[Len(wbox) + 1] = m
  BY AppendFact DEF TypeOK
<1>2. /\ \A i \in 1 .. Len(wbox') : \/ i \in 1 .. Len(wbox) /\ wbox'[i] = wbox[i]
                                    \/ i = Len(wbox) + 1 /\ wbox'[i] = m
      /\ \A i \in 1 .. Len(wbox) : i \in 1 .. Len(wbox') /\ wbox'[i] = wbox[i]
      /\ Len(wbox) + 1 \in 1 .. Len(wbox')
      /\ \A j \in 1 .. Len(wbox') : ~(j > Len(wbox) + 1)
  BY <1>1
<1>3. Queued(m)'
  BY <1>1, <1>2 DEF Queued
<1>4. \A n : Queued(n)' <=> Queued(n) \/ n = m
  BY <1>1, <1>2 DEF Queued
<1>5. RunAhead /\ m # "Stop" => RunAhead'
  <2> SUFFICES ASSUME RunAhead, m # "Stop" PROVE RunAhead'
    OBVIOUS
  <2>1. PICK i \in 1 .. Len(wbox) :
            wbox[i] = "Run" /\ \A j \in 1 .. Len(wbox) : j > i => wbox[j] # "Stop"
    BY DEF RunAhead
  <2>2. /\ i \in 1 .. Len(wbox') /\ wbox'[i] = "Run"
        /\ \A j \in 1 .. Len(wbox') : j > i => wbox'[j] # "Stop"
    BY <1>2, <2>1
  <2> QED
    BY <2>2 DEF RunAhead
<1>6. m = "Run" => RunAhead'
  BY <1>1, <1>2 DEF RunAhead
<1> QED
  BY <1>3, <1>4, <1>5, <1>6

\* The watchdog's mailbox after one message less.
LEMMA WboxShrinks ==
    ASSUME TypeOK, wbox # <<>>
    PROVE  LET t == Tail(wbox)
               ahead == \E i \in 1 .. Len(t) :
                            t[i] = "Run" /\ \A j \in 1 .. Len(t) : j > i => t[j] # "Stop"
           IN  /\ t \in Seq({"Run", "Pump", "Stop"})
               /\ \A n : (\E i \in 1 .. Len(t) : t[i] = n) => Queued(n)
               /\ \A n : Queued(n) => (\E i \in 1 .. Len(t) : t[i] = n) \/ Head(wbox) = n
               /\ RunAhead => \/ ahead
                              \/ /\ Head(wbox) = "Run"
                                 /\ \A i \in 1 .. Len(t) : t[i] # "Stop"
<1> DEFINE t == Tail(wbox)
           ahead == \E i \in 1 .. Len(t) :
                        t[i] = "Run" /\ \A j \in 1 .. Len(t) : j > i => t[j] # "Stop"
<1>1. /\ t \in Seq({"Run", "Pump", "Stop"})
      /\ Len(t) = Len(wbox) - 1 /\ Len(wbox) \in Nat \ {0} /\ Head(wbox) = wbox[1]
      /\ \A i \in 1 .. Len(wbox) - 1 : t[i] = wbox[i + 1]
  BY TailFact DEF TypeOK
<1> HIDE DEF t
<1>2. /\ \A i \in 1 .. Len(t) : i + 1 \in 1 .. Len(wbox) /\ t[i] = wbox[i + 1] /\ i + 1 > 1
      /\ \A i \in 1 .. Len(wbox) : i = 1 \/ (i - 1 \in 1 .. Len(t) /\ t[i - 1] = wbox[i])
  BY <1>1
<1>3. \A n : (\E i \in 1 .. Len(t) : t[i] = n) => Queued(n)
  BY <1>2 DEF Queued
<1>4. \A n : Queued(n) => (\E i \in 1 .. Len(t) : t[i] = n) \/ Head(wbox) = n
  BY <1>1, <1>2 DEF Queued
<1>5. ASSUME RunAhead
      PROVE  ahead \/ (Head(wbox) = "Run" /\ \A i \in 1 .. Len(t) : t[i] # "Stop")
  <2>1. PICK i \in 1 .. Len(wbox) :
            wbox[i] = "Run" /\ \A j \in 1 .. Len(wbox) : j > i => wbox[j] # "Stop"
    BY <1>5 DEF RunAhead
  <2>2. CASE i = 1
    BY <1>1, <1>2, <2>1, <2>2
  <2>3. CASE i # 1
    <3>1. i - 1 \in 1 .. Len(t) /\ t[i - 1] = "Run"
      BY <1>2, <2>1, <2>3
    <3>2. \A j \in 1 .. Len(t) : j > i - 1 => j + 1 > i
      BY <1>1
    <3>3. \A j \in 1 .. Len(t) : j > i - 1 => t[j] # "Stop"
      BY <1>2, <2>1, <3>2
    <3> QED
      BY <3>1, <3>3
  <2> QED
    BY <2>2, <2>3
<1> QED
  BY <1>1, <1>3, <1>4, <1>5 DEF t

\* What is left of the watchdog's mailbox, in terms of the next state.
LEMMA WboxTail ==
    ASSUME TypeOK, wbox # <<>>, wbox' = Tail(wbox)
    PROVE  /\ \A n : Queued(n)' => Queued(n)
           /\ \A n : Queued(n) => Queued(n)' \/ Head(wbox) = n
           /\ RunAhead => RunAhead' \/ (Head(wbox) = "Run" /\ ~Queued("Stop")')
BY WboxShrinks DEF Queued, RunAhead

\* A request for the timeout stays in the mailbox until the server takes it.
LEMMA ExpiringStays ==
    ASSUME TypeOK, Expiring
    PROVE  /\ mbox' = mbox => Expiring'
           /\ \A m \in Messages : mbox' = Append(mbox, m) => Expiring'
           /\ mbox # <<>> /\ Head(mbox) # Expire /\ mbox' = Tail(mbox) => Expiring'
<1>1. PICK i \in 1 .. Len(mbox) : mbox[i] = Expire
  BY DEF Expiring
<1>2. ASSUME NEW m \in Messages, mbox' = Append(mbox, m) PROVE Expiring'
  <2>1. i \in 1 .. Len(mbox') /\ mbox'[i] = Expire
    BY <1>1, <1>2, AppendFact DEF TypeOK
  <2> QED
    BY <2>1 DEF Expiring
<1>3. ASSUME mbox # <<>>, Head(mbox) # Expire, mbox' = Tail(mbox) PROVE Expiring'
  <2>1. /\ Len(mbox') = Len(mbox) - 1 /\ Len(mbox) \in Nat \ {0} /\ Head(mbox) = mbox[1]
        /\ \A j \in 1 .. Len(mbox) - 1 : mbox'[j] = mbox[j + 1]
    BY <1>3, TailFact DEF TypeOK
  <2>2. i - 1 \in 1 .. Len(mbox') /\ mbox'[i - 1] = Expire
    BY <1>1, <1>3, <2>1
  <2> QED
    BY <2>2 DEF Expiring
<1>4. mbox' = mbox => Expiring'
  BY DEF Expiring
<1> QED
  BY <1>2, <1>3, <1>4

\* WatchInv, in the words of this section.
LEMMA WatchWords ==
    WatchInv <=> /\ run => Queued("Pump") \/ sleep # "awake"
                 /\ current # NoApp => RunAhead \/ (run /\ ~Queued("Stop")) \/ Expiring
BY DEF WatchInv, Expiring

\* Steps that leave the watchdog alone; a request may end, and a request for the
\* timeout is taken only with it.
LEMMA WatchFrame ==
    ASSUME WatchInv, UNCHANGED wdVars, current' \in {current, NoApp},
           current' # NoApp /\ Expiring => Expiring'
    PROVE  WatchInv'
<1>1. RunAhead' <=> RunAhead
  BY DEF wdVars, RunAhead
<1>2. \A n : Queued(n)' <=> Queued(n)
  BY DEF wdVars, Queued
<1> QED
  BY <1>1, <1>2 DEF WatchInv, Expiring, wdVars

\* The steps of the watchdog itself.
LEMMA WatchdogWatches ==
    ASSUME Typed, WatchInv, Watchdog \/ Tick PROVE WatchInv'
<1>0. TypeOK
  BY DEF Typed
<1>1. CASE Run
  <2>1. /\ wbox # <<>> /\ Head(wbox) = "Run" /\ run' = TRUE /\ sleep' = sleep /\ sleep = "awake"
        /\ UNCHANGED <<mbox, current>>
    BY <1>1 DEF Run, Handles, srvVars
  <2>2. CASE run /\ wbox' = Tail(wbox)
    <3>1. /\ \A n : Queued(n)' => Queued(n)
          /\ \A n : Queued(n) => Queued(n)' \/ n = "Run"
          /\ RunAhead => RunAhead' \/ ~Queued("Stop")'
      BY <1>0, <2>1, <2>2, WboxTail
    <3>2. Expiring' <=> Expiring
      BY <2>1 DEF Expiring
    <3>3. Queued("Pump")'
      BY <2>1, <2>2, <3>1, WatchWords
    <3>4. current # NoApp => RunAhead' \/ ~Queued("Stop")' \/ Expiring'
      BY <3>1, <3>2, WatchWords
    <3> QED
      BY <2>1, <3>3, <3>4 DEF WatchInv, Expiring
  <2>3. CASE wbox' = Append(Tail(wbox), "Pump")
    <3> DEFINE t == Tail(wbox)
    <3>1. /\ t \in Seq({"Run", "Pump", "Stop"})
          /\ \A n : (\E i \in 1 .. Len(t) : t[i] = n) => Queued(n)
          /\ RunAhead => \/ \E i \in 1 .. Len(t) :
                              t[i] = "Run" /\ \A j \in 1 .. Len(t) : j > i => t[j] # "Stop"
                         \/ \A i \in 1 .. Len(t) : t[i] # "Stop"
      BY <1>0, <2>1, WboxShrinks
    <3>2. wbox' = Append(t, "Pump")
      BY <2>3
    <3> HIDE DEF t
    <3>3. /\ Len(wbox') = Len(t) + 1 /\ Len(t) \in Nat
          /\ \A i \in 1 .. Len(t) : wbox'[i] = t[i]
          /\ wbox'[Len(t) + 1] = "Pump"
      BY <3>1, <3>2, AppendFact
    <3>4. /\ \A i \in 1 .. Len(wbox') : \/ i \in 1 .. Len(t) /\ wbox'[i] = t[i]
                                        \/ wbox'[i] = "Pump"
          /\ \A i \in 1 .. Len(t) : i \in 1 .. Len(wbox')
          /\ Len(t) + 1 \in 1 .. Len(wbox')
      BY <3>3
    <3>5. Queued("Pump")'
      BY <3>3, <3>4 DEF Queued
    <3>6. Queued("Stop")' => \E i \in 1 .. Len(t) : t[i] = "Stop"
      BY <3>4 DEF Queued
    <3>7. RunAhead => RunAhead' \/ ~Queued("Stop")'
      <4> SUFFICES ASSUME RunAhead, Queued("Stop")' PROVE RunAhead'
        OBVIOUS
      <4>1. PICK i \in 1 .. Len(t) :
                t[i] = "Run" /\ \A j \in 1 .. Len(t) : j > i => t[j] # "Stop"
        BY <3>1, <3>6
      <4>2. i \in 1 .. Len(wbox') /\ wbox'[i] = "Run"
        BY <3>3, <3>4, <4>1
      <4>3. \A j \in 1 .. Len(wbox') : j > i => wbox'[j] # "Stop"
        BY <3>4, <4>1
      <4> QED
        BY <4>2, <4>3 DEF RunAhead
    <3>8. Expiring' <=> Expiring
      BY <2>1 DEF Expiring
    <3>9. current # NoApp => RunAhead' \/ ~Queued("Stop")' \/ Expiring'
      BY <3>1, <3>6, <3>7, <3>8, WatchWords
    <3> QED
      BY <2>1, <3>5, <3>9 DEF WatchInv, Expiring
  <2> QED
    BY <1>1, <2>2, <2>3 DEF Run
<1>2. CASE Pump
  <2>1. /\ wbox # <<>> /\ Head(wbox) = "Pump" /\ wbox' = Tail(wbox) /\ sleep = "awake"
        /\ current' = current
    BY <1>2 DEF Pump, Handles
  <2>2. /\ \A n : Queued(n)' => Queued(n)
        /\ RunAhead => RunAhead'
    BY <1>0, <2>1, WboxTail
  <2>3. CASE ~run /\ UNCHANGED <<run, sleep, mbox>>
    <3>1. Expiring' <=> Expiring
      BY <2>3 DEF Expiring
    <3> QED
      BY <2>1, <2>2, <2>3, <3>1, WatchWords DEF WatchInv, Expiring
  <2>4. CASE run' = FALSE /\ mbox' = Append(mbox, Expire)
    <3>1. Len(mbox) + 1 \in 1 .. Len(mbox') /\ mbox'[Len(mbox) + 1] = Expire
      BY <1>0, <2>4, AppendFact, MessageFact DEF TypeOK
    <3>2. Expiring'
      BY <3>1 DEF Expiring
    <3> QED
      BY <2>4, <3>2 DEF WatchInv, Expiring
  <2>5. CASE sleep' = "asleep" /\ UNCHANGED <<run, mbox>>
    <3>1. Expiring' <=> Expiring
      BY <2>5 DEF Expiring
    <3> QED
      BY <2>1, <2>2, <2>5, <3>1, WatchWords DEF WatchInv, Expiring
  <2> QED
    BY <1>2, <2>3, <2>4, <2>5 DEF Pump
<1>3. CASE Wake
  <2>1. wbox' = Append(wbox, "Pump") /\ UNCHANGED <<run, mbox, current>>
    BY <1>3 DEF Wake, srvVars
  <2>2. /\ Queued("Pump")' /\ (Queued("Stop")' => Queued("Stop"))
        /\ RunAhead => RunAhead'
    BY <1>0, <2>1, WboxGrows
  <2>3. Expiring' <=> Expiring
    BY <2>1 DEF Expiring
  <2> QED
    BY <2>1, <2>2, <2>3, WatchWords DEF WatchInv, Expiring
<1>4. CASE StopWatchdog
  <2>1. /\ wbox # <<>> /\ Head(wbox) = "Stop" /\ wbox' = Tail(wbox) /\ run' = FALSE
        /\ UNCHANGED <<mbox, current>>
    BY <1>4 DEF StopWatchdog, Handles, srvVars
  <2>2. RunAhead => RunAhead'
    BY <1>0, <2>1, WboxTail
  <2>3. Queued("Stop")
    <3>1. 1 \in 1 .. Len(wbox) /\ wbox[1] = "Stop"
      BY <1>0, <2>1, TailFact DEF TypeOK
    <3> QED
      BY <3>1 DEF Queued
  <2>4. Expiring' <=> Expiring
    BY <2>1 DEF Expiring
  <2> QED
    BY <2>1, <2>2, <2>3, <2>4, WatchWords DEF WatchInv, Expiring
<1>5. CASE Tick
  <2>1. UNCHANGED <<mbox, current, wbox, run>> /\ (sleep # "awake" => sleep' # "awake")
    BY <1>5 DEF Tick
  <2>2. (RunAhead' <=> RunAhead) /\ (Expiring' <=> Expiring)
    BY <2>1 DEF RunAhead, Expiring
  <2>3. \A n : Queued(n)' <=> Queued(n)
    BY <2>1 DEF Queued
  <2> QED
    BY <2>1, <2>2, <2>3, WatchWords DEF WatchInv, Expiring
<1> QED
  BY <1>1, <1>2, <1>3, <1>4, <1>5 DEF Watchdog

LEMMA WatchStep ==
    ASSUME Typed, WatchInv, [Next]_vars PROVE WatchInv'
<1>0. TypeOK /\ BusyInv
  BY DEF Typed
<1>1. CASE \/ \E k \in Keys : Press(k)
           \/ \E c \in Clients : AskDialog(c) \/ GetMutex(c) \/ CloseDynamicNotification(c)
           \/ DoCloseDynamicNotification
           \/ Listener \/ OtherAsks \/ OtherOpens \/ OtherCloses
           \/ RequestCtap2 \/ Prompt \/ PromptEnds \/ KeepaliveFails
  <2>1. UNCHANGED <<mbox, current>> /\ UNCHANGED wdVars
    BY <1>1
    DEF Press, AskDialog, GetMutex, CloseDynamicNotification, DoCloseDynamicNotification, Listener,
        StoreKey, StoreKey2, OtherAsks, OtherOpens, OtherCloses, RequestCtap2, Prompt, PromptEnds,
        KeepaliveFails, srvVars
  <2> QED
    BY <1>0, <2>1, WatchFrame, ExpiringStays
<1>2. CASE SendUpdate \/ \E a \in Apps : RequestCtap1(a)
  <2>1. /\ \E m \in Messages : mbox' = Append(mbox, m)
        /\ current' = current /\ UNCHANGED wdVars
    BY <1>2, MessageFact DEF SendUpdate, RequestCtap1
  <2> QED
    BY <1>0, <2>1, WatchFrame, ExpiringStays
<1>3. ASSUME NEW a \in Apps,
             PollChanged(a) \/ PollApproved(a) \/ PollDenied(a) \/ PollTimedOut(a)
      PROVE  WatchInv'
  <2>1. wbox' = Append(wbox, "Stop") /\ UNCHANGED <<run, sleep>> /\ current' = NoApp
    BY <1>3 DEF PollChanged, PollApproved, PollDenied, PollTimedOut, StopAndClose
  <2>2. Queued("Pump") => Queued("Pump")'
    BY <1>0, <2>1, WboxGrows
  <2> QED
    BY <2>1, <2>2 DEF WatchInv
<1>4. ASSUME NEW a \in Apps, DialogUp(a) PROVE WatchInv'
  <2>1. wbox' = Append(wbox, "Run") /\ UNCHANGED <<run, sleep>>
    BY <1>4 DEF DialogUp
  <2>2. (Queued("Pump") => Queued("Pump")') /\ RunAhead'
    BY <1>0, <2>1, WboxGrows
  <2> QED
    BY <2>1, <2>2 DEF WatchInv
<1>5. ASSUME NEW a \in Apps,
             \/ PollWaiting(a) \/ PollRefused(a) \/ UpdateRecord(a)
             \/ NameShown(a) \/ NameGiven(a)
      PROVE  WatchInv'
  <2>1. /\ mbox # <<>> /\ Head(mbox) \in {Poll(a), Update(a)} /\ mbox' \in {mbox, Tail(mbox)}
        /\ current' = current /\ UNCHANGED wdVars
    BY <1>0, <1>5
    DEF PollWaiting, PollRefused, UpdateRecord, NameShown, NameGiven, WaitsForName, Received,
        BusyInv
  <2>2. Head(mbox) # Expire
    BY <2>1, MessageFact
  <2> QED
    BY <1>0, <2>1, <2>2, WatchFrame, ExpiringStays
<1>6. ASSUME NEW a \in Apps, PollNew(a) \/ AskName(a) PROVE WatchInv'
  BY <1>0, <1>6, WatchFrame, ExpiringStays DEF PollNew, AskName
<1>7. CASE ForceTimeout
  BY <1>7, WatchFrame DEF ForceTimeout
<1>8. CASE UNCHANGED vars
  BY <1>0, <1>8, WatchFrame, ExpiringStays DEF vars, srvVars
<1> QED
  BY <1>1, <1>2, <1>3, <1>4, <1>5, <1>6, <1>7, <1>8, WatchdogWatches
  DEF Next, Server, Fido, Dialogs, Host, User

\* A dialog of the permission server always has a watchdog on it: no order of the
\* Run, Stop and Pump messages of successive requests leaves a dialog up with
\* nobody to take it down.
THEOREM DialogIsWatched == Spec => []Watched
<1>1. Init => WatchInv
  BY DEF Init, WatchInv
<1>2. Typed /\ WatchInv /\ [Next]_vars => WatchInv'
  BY WatchStep
<1>3. WatchInv => Watched
  <2>1. RunAhead => Queued("Run")
    BY DEF RunAhead, Queued
  <2> QED
    BY <2>1 DEF WatchInv, Watched
<1> QED
  BY <1>1, <1>2, <1>3, TypedAlways, PTL DEF Spec
=============================================================================
