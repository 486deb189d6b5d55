---------------------------- MODULE GeneExchange ----------------------------
(***************************************************************************)
(* Exchanging light genes between badges with QR codes.                    *)
(*                                                                         *)
(* A recipient shows a key code with a nonce (ShowKey); a donor scans it   *)
(* and shows its gamete encrypted to that nonce (ResponseGene); the        *)
(* recipient scans that, breeds, and asks its user to keep or to revert    *)
(* the new gene (ConfirmGene).  Each badge is the vault's main loop        *)
(* (main.rs): one mailbox for keys, scan results, menu choices and a       *)
(* timer, and a mode that every handler reads and changes.  A scan blocks  *)
(* the loop while the keyboard goes on filling the mailbox.                *)
(*                                                                         *)
(* A code, once shown, can be photographed and scanned at any later time.  *)
(* A gene is a number: 0 the badge was born with, n the n-th it bred.      *)
(* A nonce is fresh whenever it is generated.                              *)
(***************************************************************************)
EXTENDS Naturals, Sequences

CONSTANTS
    Badges,
    MaxKeys,     \* bound: key presses, on all badges together
    QueueMax,    \* bound: messages waiting when a key is pressed
    MaxMishaps,  \* bound: camera errors, test codes, suspends
    None         \* no nonce_mine, no prior_gene

ASSUME BoundsAssumption == MaxKeys \in Nat /\ QueueMax \in Nat /\ MaxMishaps \in Nat
ASSUME NoneAssumption   == None \notin Nat /\ None \notin Badges \X Nat

VARIABLES
    mode, menu_active, skip_one_key,
    nonce_mine, gene_cache, prior_gene,
    saved,        \* the DC34_GENE key of the PDDB
    selected,     \* the entry of the gene menu: 0 Keep, 1 Revert
    scanning,     \* the loop is blocked in AcquireQr
    q,            \* the vault's mailbox
    timers,       \* threads about to raise the confirmation menu
    shown,        \* every code that was ever on a screen
    nonces,       \* how many nonces were generated on each badge
    accepted,     \* history: the codes each badge has bred with
    deaf,         \* history: a mishap may have left the badge waiting
    unheard,      \* history: the key skip_one_key is for went to a dialog
    keys, mishaps

uiVars    == <<mode, menu_active, skip_one_key, unheard, selected, scanning>>
geneVars  == <<nonce_mine, nonces, gene_cache, prior_gene, saved, accepted>>
worldVars == <<timers, shown, deaf, keys, mishaps>>
vars == <<uiVars, geneVars, q, worldVars>>

Modes == {"Idle", "ShowKey", "GeneScan", "ResponseGene", "ConfirmGene"}
Keys  == {"side", "fire", "menu", "down", "tilt"}   \* "side": left, right

KeyCode(n)        == [kind |-> "key", nonce |-> n]
GeneCode(n, from) == [kind |-> "gene", nonce |-> n, from |-> from]
Junk              == [kind |-> "junk"]     \* truncated, not base45, or a foreign URI
TestCode          == [kind |-> "test"]     \* test://

KeyPress(k, auto)  == [op |-> "KeyPress", k |-> k, auto |-> auto]
HandleQrMsg(code)  == [op |-> "HandleQr", code |-> code]
Msg(op, auto)      == [op |-> op, auto |-> auto]

\* Mutant: the generator starts over after clear_nonces.
FreshRepeats(b) == <<b, IF nonce_mine[b] = None THEN 1 ELSE nonces[b] + 1>>

\* generate_my_nonce: never a nonce that was used before.
Fresh(b) == <<b, nonces[b] + 1>>

NewNonce(b) ==
    /\ nonces' = [nonces EXCEPT ![b] = @ + 1]
    /\ nonce_mine' = [nonce_mine EXCEPT ![b] = Fresh(b)]

\* The main loop takes the next message of its mailbox.
Take(b, op) ==
    /\ ~scanning[b]
    /\ q[b] # <<>>
    /\ Head(q[b]).op = op

Rest(b) == Tail(q[b])

-----------------------------------------------------------------------------
(* The world.                                                              *)

\* The display server gets the key.  Any but a tilt ends a scan, whose result is
\* then AbortQr; the vault hears of the key itself unless a dialog of another
\* server is up.
Press(b, k, heard) ==
    /\ keys < MaxKeys
    /\ Len(q[b]) < QueueMax
    /\ keys' = keys + 1
    /\ scanning[b] => k # "tilt"               \* pause_accel
    /\ heard \/ scanning[b]                    \* else nothing happens here
    /\ q' = [q EXCEPT ![b] = @ \o (IF heard THEN <<KeyPress(k, FALSE)>> ELSE <<>>)
                               \o (IF scanning[b] THEN <<Msg("AbortQr", FALSE)>> ELSE <<>>)]
    /\ unheard' = [unheard EXCEPT ![b] = @ \/ ~heard]
    /\ scanning' = [scanning EXCEPT ![b] = FALSE]
    /\ UNCHANGED <<mode, menu_active, skip_one_key, selected, geneVars, timers, shown, deaf, mishaps>>

Mishap(b) ==
    /\ mishaps < MaxMishaps
    /\ mishaps' = mishaps + 1
    /\ deaf' = [deaf EXCEPT ![b] = TRUE]

\* The camera reads a code.  Only some modes pass it on to the main loop.
Scan(b, code) ==
    /\ scanning[b]
    /\ scanning' = [scanning EXCEPT ![b] = FALSE]
    /\ \/ /\ mode[b] # "ConfirmGene"
          /\ code # TestCode
          /\ q' = [q EXCEPT ![b] = Append(@, HandleQrMsg(code))]
          /\ UNCHANGED <<deaf, mishaps>>
       \/ /\ mode[b] # "ConfirmGene"
          /\ code = TestCode
          /\ q' = [q EXCEPT ![b] = Append(@, HandleQrMsg(code))]
          /\ Mishap(b)
       \/ /\ mode[b] = "ConfirmGene"
          /\ Mishap(b)
          /\ UNCHANGED q
    /\ UNCHANGED <<mode, menu_active, skip_one_key, unheard, selected, geneVars, timers, shown, keys>>

\* gfx.acquire_qr fails: acquire_qr returns and tells nobody.
CameraError(b) ==
    /\ scanning[b]
    /\ scanning' = [scanning EXCEPT ![b] = FALSE]
    /\ Mishap(b)
    /\ UNCHANGED <<mode, menu_active, skip_one_key, unheard, selected, geneVars, q, timers, shown, keys>>

\* The power manager is about to suspend the badge.
SuspendSkipsKey(b) ==
    /\ Len(q[b]) < QueueMax
    /\ q' = [q EXCEPT ![b] = Append(@, Msg("SkipKey", FALSE))]
    /\ Mishap(b)
    /\ UNCHANGED <<uiVars, geneVars, timers, shown, keys>>

\* The thread HandleQr started sends the menu key.
TimerRaisesMenu(b) ==
    /\ timers[b] > 0
    /\ timers' = [timers EXCEPT ![b] = @ - 1]
    /\ q' = [q EXCEPT ![b] = Append(@, KeyPress("menu", TRUE))]
    /\ UNCHANGED <<uiVars, geneVars, shown, deaf, keys, mishaps>>

-----------------------------------------------------------------------------
(* The main loop's handlers.                                               *)

\* A key is swallowed, whatever it is.
SkipKey(b) ==
    /\ Take(b, "KeyPress")
    /\ skip_one_key[b]
    /\ skip_one_key' = [skip_one_key EXCEPT ![b] = FALSE]
    /\ unheard' = [unheard EXCEPT ![b] = FALSE]
    /\ q' = [q EXCEPT ![b] = Rest(b)]
    /\ UNCHANGED <<mode, menu_active, selected, scanning, geneVars, worldVars>>

\* Mutant: the selection runs off the end of the menu.
SelectBeyond(s) == s + 1

\* The down key in a menu of two entries.
SelectNext(s) == 1

\* A key with a menu up goes to the menu, which answers at once: its choice, then
\* MenuDone.  Of the other menus only the closing matters here.
MenuKey(b) ==
    /\ Take(b, "KeyPress")
    /\ ~skip_one_key[b]
    /\ menu_active[b]
    /\ LET key   == Head(q[b])
           op    == IF selected[b] = 0 THEN "KeepGene" ELSE "RevertGene"
           close == Msg("MenuDone", key.auto)
       IN  \/ /\ key.k = "menu" /\ mode[b] = "ConfirmGene"
              /\ q' = [q EXCEPT ![b] = Rest(b) \o <<Msg(op, key.auto), close>>]
              /\ selected' = [selected EXCEPT ![b] = 0]
           \/ /\ key.k = "menu" /\ mode[b] # "ConfirmGene"
              /\ q' = [q EXCEPT ![b] = Append(Rest(b), close)]
              /\ UNCHANGED selected
           \/ /\ key.k = "down" /\ mode[b] = "ConfirmGene"
              /\ q' = [q EXCEPT ![b] = Rest(b)]
              /\ selected' = [selected EXCEPT ![b] = SelectNext(@)]
           \/ /\ key.k # "menu" /\ ~(key.k = "down" /\ mode[b] = "ConfirmGene")
              /\ q' = [q EXCEPT ![b] = Rest(b)]
              /\ UNCHANGED selected
    /\ UNCHANGED <<mode, menu_active, skip_one_key, unheard, scanning, geneVars, worldVars>>

\* handle_key: the mode after key k, which "tilt" does not get past.
ModeAfter(m, k) ==
    CASE m = "Idle" /\ k = "side"                -> "ShowKey"
      [] m \in {"Idle", "ShowKey"} /\ k = "fire" -> "GeneScan"
      [] m = "ShowKey" /\ k \notin {"fire", "tilt"} -> "Idle"
      [] m = "ResponseGene" /\ k # "tilt"        -> "Idle"
      [] OTHER                                   -> m

\* What handle_key does to the nonce, and what it puts on the screen.
KeyNonce(b, k) ==
    \/ /\ mode[b] = "Idle" /\ k = "side"
       /\ NewNonce(b)
       /\ shown' = shown \cup {KeyCode(Fresh(b))}
    \/ /\ mode[b] = "ResponseGene" /\ k # "tilt"
       /\ nonce_mine' = [nonce_mine EXCEPT ![b] = None]
       /\ UNCHANGED <<nonces, shown>>
    \/ /\ ~(mode[b] = "Idle" /\ k = "side") /\ ~(mode[b] = "ResponseGene" /\ k # "tilt")
       /\ UNCHANGED <<nonce_mine, nonces, shown>>

\* A key with no menu up: handle_key, then the menu or the camera.
PlainKey(b) ==
    /\ Take(b, "KeyPress")
    /\ ~skip_one_key[b]
    /\ ~menu_active[b]
    /\ LET k     == Head(q[b]).k
           fires == k = "fire" /\ mode[b] # "ResponseGene"
       IN  /\ mode' = [mode EXCEPT ![b] = ModeAfter(@, k)]
           /\ KeyNonce(b, k)
           /\ menu_active' = [menu_active EXCEPT ![b] = (k = "menu")]
           /\ scanning' = [scanning EXCEPT ![b] = fires]
           /\ skip_one_key' = [skip_one_key EXCEPT ![b] = fires]
    /\ q' = [q EXCEPT ![b] = Rest(b)]
    /\ UNCHANGED <<unheard, selected, gene_cache, prior_gene, saved, accepted, timers, deaf, keys, mishaps>>

AbortQr(b) ==
    /\ Take(b, "AbortQr")
    /\ mode' = [mode EXCEPT ![b] = "Idle"]
    /\ q' = [q EXCEPT ![b] = Rest(b)]
    /\ UNCHANGED <<menu_active, skip_one_key, unheard, selected, scanning, geneVars, worldVars>>

\* Their key: answer with a gamete encrypted to their nonce.
Answer(b, code) ==
    /\ code.kind = "key"
    /\ NewNonce(b)                             \* "also generate a new nonce for myself now"
    /\ shown' = shown \cup {GeneCode(code.nonce, b)}
    /\ mode' = [mode EXCEPT ![b] = "ResponseGene"]
    /\ UNCHANGED <<gene_cache, prior_gene, accepted, timers>>

\* A gene that decrypts with my nonce: breed, and raise the menu in half a second.
Breed(b, code) ==
    /\ code.kind = "gene"
    /\ nonce_mine[b] = code.nonce
    /\ accepted' = [accepted EXCEPT ![b] = Append(@, code)]
    /\ prior_gene' = [prior_gene EXCEPT ![b] = gene_cache[b]]
    /\ gene_cache' = [gene_cache EXCEPT ![b] = Len(accepted'[b])]
    /\ mode' = [mode EXCEPT ![b] = "ConfirmGene"]
    /\ timers' = [timers EXCEPT ![b] = @ + 1]
    /\ UNCHANGED <<nonce_mine, nonces, shown>>

\* Any other code, one for another nonce included, ends the attempt; test:// does not.
Refuse(b, code) ==
    /\ \/ code.kind = "gene" /\ nonce_mine[b] # code.nonce
       \/ code.kind \in {"junk", "test"}
    /\ mode' = IF code.kind = "test" THEN mode ELSE [mode EXCEPT ![b] = "Idle"]
    /\ UNCHANGED <<nonce_mine, nonces, gene_cache, prior_gene, accepted, timers, shown>>

\* Mutant: a scan's result leaves skip_one_key to the next key.
KeepSkipping(b) == skip_one_key[b]

\* skip_one_key = false
StopSkipping(b) == FALSE

HandleQr(b) ==
    /\ Take(b, "HandleQr")
    /\ skip_one_key' = [skip_one_key EXCEPT ![b] = StopSkipping(b)]
    /\ unheard' = [unheard EXCEPT ![b] = FALSE]
    /\ LET code == Head(q[b]).code
       IN  \/ /\ mode[b] \in {"GeneScan", "ResponseGene", "ShowKey"}
              /\ Answer(b, code) \/ Breed(b, code) \/ Refuse(b, code)
           \/ /\ mode[b] \notin {"GeneScan", "ResponseGene", "ShowKey"}
              /\ UNCHANGED <<mode, nonce_mine, nonces, gene_cache, prior_gene, accepted, timers, shown>>
    /\ q' = [q EXCEPT ![b] = Rest(b)]
    /\ UNCHANGED <<menu_active, selected, scanning, saved, deaf, keys, mishaps>>

KeepGene(b) ==
    /\ Take(b, "KeepGene")
    /\ saved' = [saved EXCEPT ![b] = gene_cache[b]]
    /\ mode' = [mode EXCEPT ![b] = "Idle"]
    /\ q' = [q EXCEPT ![b] = Rest(b)]
    /\ UNCHANGED <<menu_active, skip_one_key, unheard, selected, scanning, nonce_mine, nonces,
                   gene_cache, prior_gene, accepted, worldVars>>

\* prior_gene.take(): a second revert changes nothing.
RevertGene(b) ==
    /\ Take(b, "RevertGene")
    /\ gene_cache' = [gene_cache EXCEPT ![b] = IF prior_gene[b] = None THEN @ ELSE prior_gene[b]]
    /\ prior_gene' = [prior_gene EXCEPT ![b] = None]
    /\ mode' = [mode EXCEPT ![b] = "Idle"]
    /\ q' = [q EXCEPT ![b] = Rest(b)]
    /\ UNCHANGED <<menu_active, skip_one_key, unheard, selected, scanning, nonce_mine, nonces,
                   saved, accepted, worldVars>>

MenuDone(b) ==
    /\ Take(b, "MenuDone")
    /\ menu_active' = [menu_active EXCEPT ![b] = FALSE]
    /\ q' = [q EXCEPT ![b] = Rest(b)]
    /\ UNCHANGED <<mode, skip_one_key, unheard, selected, scanning, geneVars, worldVars>>

SkipKeyRequest(b) ==
    /\ Take(b, "SkipKey")
    /\ skip_one_key' = [skip_one_key EXCEPT ![b] = TRUE]
    /\ q' = [q EXCEPT ![b] = Rest(b)]
    /\ UNCHANGED <<mode, menu_active, unheard, selected, scanning, geneVars, worldVars>>

-----------------------------------------------------------------------------
Init ==
    /\ mode = [b \in Badges |-> "Idle"]
    /\ menu_active = [b \in Badges |-> FALSE]
    /\ skip_one_key = [b \in Badges |-> FALSE]
    /\ nonce_mine = [b \in Badges |-> None]
    /\ gene_cache = [b \in Badges |-> 0]
    /\ prior_gene = [b \in Badges |-> None]
    /\ saved = [b \in Badges |-> 0]
    /\ selected = [b \in Badges |-> 0]
    /\ scanning = [b \in Badges |-> FALSE]
    /\ q = [b \in Badges |-> <<>>]
    /\ timers = [b \in Badges |-> 0]
    /\ shown = {}
    /\ nonces = [b \in Badges |-> 0]
    /\ accepted = [b \in Badges |-> <<>>]
    /\ deaf = [b \in Badges |-> FALSE]
    /\ unheard = [b \in Badges |-> FALSE]
    /\ keys = 0
    /\ mishaps = 0

WorldNext(b) ==
    \/ \E k \in Keys, heard \in BOOLEAN : Press(b, k, heard)
    \/ \E code \in shown \cup {Junk, TestCode} : Scan(b, code)
    \/ CameraError(b)
    \/ SuspendSkipsKey(b)

LoopNext(b) ==
    \/ SkipKey(b)
    \/ MenuKey(b)
    \/ PlainKey(b)
    \/ AbortQr(b)
    \/ HandleQr(b)
    \/ KeepGene(b)
    \/ RevertGene(b)
    \/ MenuDone(b)
    \/ SkipKeyRequest(b)

Next == \E b \in Badges : WorldNext(b) \/ TimerRaisesMenu(b) \/ LoopNext(b)

\* The loop serves its mailbox and a sleeping thread wakes up; nobody has to press a
\* key or hold a code to the camera.
Fairness == \A b \in Badges : WF_vars(LoopNext(b)) /\ WF_vars(TimerRaisesMenu(b))

Spec == Init /\ [][Next]_vars

FairSpec == Spec /\ Fairness

-----------------------------------------------------------------------------
(* Properties.                                                             *)

Nonces == Badges \X (Nat \ {0})

GeneCodes == [kind : {"gene"}, nonce : Nonces, from : Badges]
Codes == [kind : {"key"}, nonce : Nonces] \cup GeneCodes
Messages == [op : {"KeyPress"}, k : Keys, auto : BOOLEAN]
            \cup [op : {"HandleQr"}, code : Codes \cup {Junk, TestCode}]
            \cup [op : {"AbortQr", "KeepGene", "RevertGene", "MenuDone", "SkipKey"}, auto : BOOLEAN]

\* Every variable has its type.
TypeOK ==
    /\ mode \in [Badges -> Modes]
    /\ menu_active \in [Badges -> BOOLEAN]
    /\ skip_one_key \in [Badges -> BOOLEAN]
    /\ nonce_mine \in [Badges -> Nonces \cup {None}]
    /\ gene_cache \in [Badges -> Nat]
    /\ prior_gene \in [Badges -> Nat \cup {None}]
    /\ saved \in [Badges -> Nat]
    /\ selected \in [Badges -> {0, 1}]
    /\ scanning \in [Badges -> BOOLEAN]
    /\ q \in [Badges -> Seq(Messages)]
    /\ timers \in [Badges -> Nat]
    /\ shown \in SUBSET Codes
    /\ nonces \in [Badges -> Nat]
    /\ accepted \in [Badges -> Seq(GeneCodes)]
    /\ deaf \in [Badges -> BOOLEAN]
    /\ unheard \in [Badges -> BOOLEAN]
    /\ keys \in 0 .. MaxKeys
    /\ mishaps \in 0 .. MaxMishaps

\* No badge breeds with itself: with a photograph of its own key it can make itself
\* answer, but the answer is for a nonce it no longer has (main.rs, HandleQr).
NoSelfBreeding == \A b \in Badges : \A i \in 1 .. Len(accepted[b]) : accepted[b][i].from # b

\* However a scan ends, and whatever was pressed meanwhile, a badge that has read
\* its mail has left GeneScan, where only another scan helps, and does not ignore the
\* next key - unless the key that ended the scan went to a dialog: then it does.
\* Suspends, camera errors, test codes and scans in ConfirmGene are left out.
ListensAgain ==
    \A b \in Badges : q[b] = <<>> /\ ~scanning[b] /\ ~deaf[b]
                       => (skip_one_key[b] => unheard[b]) /\ mode[b] # "GeneScan"

\* "raise the menu for confirmation" (main.rs:806): after breeding the menu comes up,
\* unless the user has left the mode or taken up the camera again.
ConfirmationRaised ==
    \A b \in Badges :
        mode[b] = "ConfirmGene" ~> (menu_active[b] \/ mode[b] # "ConfirmGene" \/ scanning[b] \/ deaf[b])

\* "An honest user cannot repeatedly scan a QR code and continue to "breed" with the
\* pattern" (defcon-scheme.md): no code is accepted twice.
OneTimeCode ==
    \A b \in Badges : \A i, j \in 1 .. Len(accepted[b]) :
        i # j => accepted[b][i] # accepted[b][j]

\* "raise the menu for confirmation" (main.rs:806): the key that raises the menu does
\* not choose from it.
KeepIsConfirmed ==
    \A b \in Badges : \A i \in 1 .. Len(q[b]) :
        q[b][i].op \in {"KeepGene", "RevertGene"} => ~q[b][i].auto
=============================================================================
