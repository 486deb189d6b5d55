----------------------------- MODULE ClientPin -----------------------------
(***************************************************************************)
(* The PIN of the FIDO2 authenticator: the retry counter, the PIN policy   *)
(* and the pinUvAuthToken that a correct PIN buys.                         *)
(*                                                                         *)
(*   src/firmware/src/ctap/client_pin.rs      the ClientPin commands       *)
(*   src/firmware/src/ctap/token_state.rs     what a token still permits   *)
(*   src/firmware/src/ctap/storage.rs         the keys kept in the PDDB    *)
(*   src/firmware/src/ctap/config_command.rs  setMinPINLength              *)
(*   src/firmware/src/ctap/mod.rs             who spends a token; Reset    *)
(*   src/firmware/libraries/persistent_store  Insert and Remove            *)
(*                                                                         *)
(* One thread (fido2.rs) serves one command at a time, so commands do not  *)
(* interleave with each other; they interleave with the clock, with errors *)
(* of the store and with loss of power.  The store's Insert is not one     *)
(* write: store.rs deletes the key, creates it empty and then writes the   *)
(* value.  A command is therefore a walk through stages, and each call to  *)
(* the PDDB is a step of its own.                                          *)
(***************************************************************************)
EXTENDS Integers, FiniteSets

CONSTANTS
    Pins,           \* the PINs a platform may choose or guess, as numbers
    PinLength,      \* code points of each PIN
    MinLengths,     \* the minimum lengths a platform may ask for
    DefaultMin,     \* default_min_pin_length: 4
    MaxRetries,     \* max_pin_retries: 8
    MaxMismatches,  \* wrong PINs in a row before a power cycle is due: 3
    RPs, NoRp,      \* relying parties; no permissions_rp_id
    Requests,       \* the permission sets a platform asks a token for
    UsageLimit,     \* INITIAL_USAGE_TIME_LIMIT, in clock ticks
    ResetWindow,    \* RESET_TIMEOUT_DURATION, in clock ticks
    MaxForgotten    \* bound: retry counters lost between two correct PINs

Permissions == {"mc", "ga", "acfg", "lbw"}

ASSUME PinsAssumption == Pins \subseteq Nat /\ PinLength \in [Pins -> Nat]
ASSUME LengthsAssumption == MinLengths \subseteq Nat /\ DefaultMin \in Nat
ASSUME LimitsAssumption == /\ MaxRetries \in Nat \ {0}
                           /\ MaxMismatches \in Nat \ {0}
                           /\ MaxForgotten \in Nat
ASSUME TimesAssumption == UsageLimit \in Nat /\ ResetWindow \in Nat
ASSUME RpsAssumption == NoRp \notin RPs
ASSUME RequestsAssumption == Requests \subseteq SUBSET Permissions

VARIABLES
    disk,        \* the authenticator's keys in the PDDB
    mismatches,  \* ClientPin::consecutive_pin_mismatches
    token,       \* PinUvAuthTokenState, and whether a platform knows the token
    resetTimer,  \* ticks in which Reset is still allowed, or Expired
    stage,       \* where the running command is
    phase,       \* where the running Insert is
    args,        \* the running command and its parameters
    guesses,     \* history: wrong PINs compared since the last correct one
    wrongNow,    \* history: the same, since power-up
    uncounted,   \* history: those of wrongNow after which the store failed to read
    forgotten,   \* history: times the retry counter was cut off half-written
    forceLost,   \* history: the last Insert of the force flag was cut off
    storeFailed, \* history: a write or a removal failed since power-up
    spent        \* history: what the last token issued was used for

diskVars  == <<disk, phase>>
pinVars   == <<mismatches, token>>
histVars  == <<guesses, wrongNow, uncounted, forgotten, forceLost, storeFailed, spent>>
vars == <<disk, mismatches, token, resetTimer, stage, phase, args,
          guesses, wrongNow, uncounted, forgotten, forceLost, storeFailed, spent>>

----------------------------------------------------------------------------
(* The store.                                                              *)

Keys == {"pin", "retries", "force", "minLen"}

\* A key that is not there, and one that was created and not written yet.
Absent == -1
Empty  == -2
Values == Nat \cup {Absent, Empty}

\* What storage.rs makes of a key; Empty stands for a key of the wrong
\* length, on which pin_retries and min_pin_length return an error.
pin_retries(d) == IF d["retries"] = Absent THEN MaxRetries ELSE d["retries"]
min_pin_length(d) == IF d["minLen"] = Absent THEN DefaultMin ELSE d["minLen"]
has_force_pin_change(d) == d["force"] # Absent
pin_hash_is_some(d) == d["pin"] \in Nat

----------------------------------------------------------------------------
(* The token.                                                              *)

Expired == -1

NoToken == [known |-> FALSE, perms |-> {}, rp |-> NoRp, timer |-> Expired,
            uv |-> FALSE, inUse |-> FALSE]

\* stop_using_pin_uv_auth_token: the token itself is not drawn again.
Stopped(t) == [known |-> t.known, perms |-> {}, rp |-> NoRp, timer |-> Expired,
               uv |-> FALSE, inUse |-> FALSE]

\* update_timeouts runs before every packet.
Observed(t) == IF t.inUse /\ t.timer = Expired THEN Stopped(t) ELSE t

\* begin_using_pin_uv_auth_token after both tokens were drawn again.
Issued(perms, rp) == [known |-> TRUE, perms |-> perms, rp |-> rp,
                      timer |-> UsageLimit, uv |-> TRUE, inUse |-> TRUE]

\* verify_pin_uv_auth_token and has_permission.
Accepts(t, permission) == t.inUse /\ t.known /\ permission \in t.perms

\* The checks MakeCredential and GetAssertion share.
AcceptsFor(t, permission, rp) ==
    Accepts(t, permission) /\ t.uv /\ t.rp \in {NoRp, rp}

\* Mutant: the relying party is checked and not recorded.
Bound_Forgets(t, rp) == t

\* ensure_rp_id_permission: the first relying party takes the token.
Bound(t, rp) == [t EXCEPT !.rp = rp]

\* Mutant: only the permission just used is taken back.
Cleared_OnlyMc(t) == [t EXCEPT !.perms = @ \ {"mc"}]

\* clear_token_flags.
Cleared(t) == [known |-> t.known, perms |-> t.perms \cap {"lbw"}, rp |-> t.rp,
               timer |-> t.timer, uv |-> FALSE, inUse |-> t.inUse]

----------------------------------------------------------------------------
(* Commands, stages and what each stage asks of the store.                 *)

\* A command: a guess of the PIN, a new PIN, the permissions and the relying
\* party asked for, and the number its Insert writes.
Call(op, guess, pin, perms, rp, len) ==
    [op |-> op, guess |-> guess, pin |-> pin, perms |-> perms, rp |-> rp, len |-> len]

NoCall == Call("none", 0, 0, {}, NoRp, 0)

InsertStages == {"decrement", "store", "force", "raise"}
RemoveStages == {"restore", "unforce", "forgive"}
Stages == InsertStages \cup RemoveStages
          \cup {"idle", "compare", "verified", "stored", "presence", "clear", "renew"}

\* A PIN hash that does not decrypt: it costs an attempt and is no mismatch.
Malformed == -1
Guesses == Pins \cup {Malformed}

KeyOf == [s \in InsertStages \cup RemoveStages |->
            CASE s \in {"decrement", "restore", "forgive"} -> "retries"
              [] s = "store" -> "pin"
              [] s \in {"force", "unforce"} -> "force"
              [] s = "raise" -> "minLen"]

\* The value an Insert stage writes.  The empty value of FORCE_PIN_CHANGE is
\* there as soon as the key is created.
NewValue == CASE stage = "decrement" -> args.len
              [] stage = "store" -> args.pin
              [] stage = "force" -> Empty
              [] stage = "raise" -> args.len
              [] OTHER -> Absent

\* The stage after a call to the store that went well.
NextStage == CASE stage = "decrement" -> "compare"
               [] stage = "restore" -> "verified"
               [] stage = "store" -> "unforce"
               [] stage = "unforce" /\ args.op = "set" -> "forgive"
               [] stage = "unforce" /\ args.op # "set" -> "stored"
               [] stage = "force" -> "raise"
               [] OTHER -> "idle"

\* The command is over, whatever it answers.
Done == stage' = "idle" /\ args' = NoCall /\ phase' = "delete"

\* A command begins.
Begin(call, first) ==
    /\ stage = "idle"
    /\ stage' = first
    /\ args' = call
    /\ phase' = "delete"

\* Any command but GetInfo, Selection and MakeCredential takes the permission
\* to reset away.
ForbidReset == resetTimer' = Expired

\* History of a token that was just bought with PIN p.
Unspent(p) == [rps |-> {}, uses |-> 0, pin |-> p]

----------------------------------------------------------------------------
Init ==
    /\ disk = [k \in Keys |-> Absent]
    /\ mismatches = 0
    /\ token = NoToken
    /\ resetTimer = ResetWindow
    /\ stage = "idle" /\ phase = "delete" /\ args = NoCall
    /\ guesses = 0 /\ wrongNow = 0 /\ uncounted = 0 /\ forgotten = 0
    /\ forceLost = FALSE /\ storeFailed = FALSE
    /\ spent = Unspent(0)

(* ------------------------- the PIN commands --------------------------- *)

\* process_set_pin.
SetPin(p) ==
    /\ disk["pin"] = Absent
    /\ min_pin_length(disk) # Empty /\ PinLength[p] >= min_pin_length(disk)
    /\ Begin(Call("set", 0, p, {}, NoRp, 0), "store")
    /\ token' = Observed(token)
    /\ ForbidReset
    /\ UNCHANGED <<disk, mismatches, histVars>>

\* Mutant: the hash is compared first and the counter kept in memory only.
Verify_NoDecrement(op, g, p, perms, rp) ==
    /\ pin_retries(disk) \notin {Empty, 0}
    /\ pin_hash_is_some(disk)
    /\ mismatches < MaxMismatches
    /\ Begin(Call(op, g, p, perms, rp, pin_retries(disk) - 1), "compare")
    /\ token' = Observed(token)
    /\ ForbidReset
    /\ UNCHANGED <<disk, mismatches, histVars>>

\* Mutant: consecutive_pin_mismatches is not checked.
Verify_Unblocked(op, g, p, perms, rp) ==
    /\ pin_retries(disk) \notin {Empty, 0}
    /\ pin_hash_is_some(disk)
    /\ Begin(Call(op, g, p, perms, rp, pin_retries(disk) - 1), "decrement")
    /\ token' = Observed(token)
    /\ ForbidReset
    /\ UNCHANGED <<disk, mismatches, histVars>>

\* The head of process_change_pin and process_get_pin_token, up to the call
\* of decr_pin_retries.
Verify(op, g, p, perms, rp) ==
    /\ pin_retries(disk) \notin {Empty, 0}
    /\ pin_hash_is_some(disk)
    /\ mismatches < MaxMismatches
    /\ Begin(Call(op, g, p, perms, rp, pin_retries(disk) - 1), "decrement")
    /\ token' = Observed(token)
    /\ ForbidReset
    /\ UNCHANGED <<disk, mismatches, histVars>>

ChangePin(g, p) == Verify("change", g, p, {}, NoRp)

\* process_get_pin_token gives the default permissions; with permissions of
\* its own the platform has to name a relying party for "mc" and "ga".
GetPinToken(g) == Verify("token", g, 0, {"mc", "ga"}, NoRp)

GetPinTokenWithPermissions(g, perms, rp) ==
    /\ perms # {}
    /\ perms \cap {"mc", "ga"} # {} => rp # NoRp
    /\ Verify("token", g, 0, perms, rp)

\* The comparison of verify_pin_hash_enc.
Compare ==
    /\ stage = "compare"
    /\ \/ /\ args.guess = Malformed
          /\ Done
          /\ UNCHANGED <<mismatches, guesses, wrongNow, uncounted, forgotten>>
       \/ /\ args.guess # Malformed /\ args.guess # disk["pin"]
          /\ guesses' = guesses + 1 /\ wrongNow' = wrongNow + 1
          /\ mismatches' = IF pin_retries(disk) = 0 THEN mismatches
                                                    ELSE mismatches + 1
          /\ Done
          /\ UNCHANGED <<uncounted, forgotten>>
       \/ /\ args.guess = disk["pin"]
          /\ stage' = "restore"
          /\ guesses' = 0 /\ wrongNow' = 0 /\ uncounted' = 0 /\ forgotten' = 0
          /\ UNCHANGED <<mismatches, args, phase>>
    /\ UNCHANGED <<disk, token, resetTimer, forceLost, storeFailed, spent>>

\* The PIN was right: issue a token, unless the PIN has to be changed first.
IssueToken ==
    /\ stage = "verified" /\ args.op = "token"
    /\ mismatches' = 0
    /\ IF has_force_pin_change(disk)
       THEN UNCHANGED <<token, spent>>
       ELSE /\ token' = Issued(args.perms, args.rp)
            /\ spent' = Unspent(disk["pin"])
    /\ Done
    /\ UNCHANGED <<disk, resetTimer, guesses, wrongNow, uncounted, forgotten, forceLost, storeFailed>>

\* The PIN was right: check the new one against the policy and store it.
CheckNewPin ==
    /\ stage = "verified" /\ args.op = "change"
    /\ mismatches' = 0
    /\ IF min_pin_length(disk) # Empty /\ PinLength[args.pin] >= min_pin_length(disk)
       THEN stage' = "store" /\ UNCHANGED <<args, phase>>
       ELSE Done
    /\ UNCHANGED <<disk, token, resetTimer, histVars>>

\* Mutant: the tokens survive a change of the PIN.
ResetTokens_Keeps ==
    /\ stage = "stored"
    /\ Done
    /\ UNCHANGED <<disk, token, mismatches, resetTimer, histVars>>

\* The end of process_change_pin: both tokens are drawn again.
ResetTokens ==
    /\ stage = "stored"
    /\ token' = [token EXCEPT !.known = FALSE]
    /\ Done
    /\ UNCHANGED <<disk, mismatches, resetTimer, histVars>>

\* Mutant: a PIN that became too short does not have to be changed.
SetMinPinLength_NotForced(n, f) ==
    LET t == Observed(token)
    IN /\ disk["pin"] # Empty
       /\ pin_hash_is_some(disk) => Accepts(t, "acfg")
       /\ min_pin_length(disk) # Empty /\ n >= min_pin_length(disk)
       /\ f => pin_hash_is_some(disk)
       /\ Begin(Call("config", 0, 0, {}, NoRp, n),
                IF f THEN "force" ELSE "raise")
       /\ token' = t
       /\ ForbidReset
       /\ UNCHANGED <<disk, mismatches, histVars>>

\* process_set_min_pin_length behind process_config.
SetMinPinLength(n, f) ==
    LET t == Observed(token)
        forced == f \/ (pin_hash_is_some(disk) /\ n > PinLength[disk["pin"]])
    IN /\ disk["pin"] # Empty
       /\ pin_hash_is_some(disk) => Accepts(t, "acfg")
       /\ min_pin_length(disk) # Empty /\ n >= min_pin_length(disk)
       /\ f => pin_hash_is_some(disk)
       /\ Begin(Call("config", 0, 0, {}, NoRp, n),
                IF forced THEN "force" ELSE "raise")
       /\ token' = t
       /\ ForbidReset
       /\ UNCHANGED <<disk, mismatches, histVars>>

(* --------------------- the commands that spend a token ---------------- *)

\* process_make_credential, up to the prompt for the user's presence.
MakeCredential(rp) ==
    LET t == Observed(token)
    IN /\ pin_hash_is_some(disk)
       /\ AcceptsFor(t, "mc", rp)
       /\ Begin(Call("make", 0, 0, {}, rp, 0), "presence")
       /\ token' = Bound(t, rp)
       /\ UNCHANGED <<disk, mismatches, resetTimer, histVars>>

\* process_get_assertion that asks for the user's presence.
GetAssertion(rp) ==
    LET t == Observed(token)
    IN /\ pin_hash_is_some(disk)
       /\ AcceptsFor(t, "ga", rp)
       /\ Begin(Call("assert", 0, 0, {}, rp, 0), "presence")
       /\ token' = Bound(t, rp)
       /\ ForbidReset
       /\ UNCHANGED <<disk, mismatches, histVars>>

\* process_get_assertion with up = false, answered at once: the token keeps
\* its permissions.  Without a credential nothing is signed for rp.
GetSilentAssertion(rp, found) ==
    LET t == Observed(token)
    IN /\ pin_hash_is_some(disk)
       /\ AcceptsFor(t, "ga", rp)
       /\ Begin(NoCall, "idle")
       /\ token' = Bound(t, rp)
       /\ ForbidReset
       /\ spent' = IF found THEN [spent EXCEPT !.rps = @ \cup {rp}] ELSE spent
       /\ UNCHANGED <<disk, mismatches, guesses, wrongNow, uncounted, forgotten, forceLost, storeFailed>>

\* MakeCredential or GetAssertion without a token, up to the prompt: the
\* token of another platform loses its flags all the same.
AskWithoutToken ==
    /\ Begin(Call("plain", 0, 0, {}, NoRp, 0), "presence")
    /\ token' = Observed(token)
    /\ ForbidReset \/ UNCHANGED resetTimer
    /\ UNCHANGED <<disk, mismatches, histVars>>

\* process_reset, up to the prompt.
Reset ==
    /\ resetTimer # Expired
    /\ Begin(Call("reset", 0, 0, {}, NoRp, 0), "presence")
    /\ token' = Observed(token)
    /\ UNCHANGED <<disk, mismatches, resetTimer, histVars>>

\* The user confirms.
PresenceGiven ==
    /\ stage = "presence"
    /\ \/ /\ args.op = "reset"
          /\ stage' = "clear"
          /\ UNCHANGED <<token, args, phase, spent>>
       \/ /\ args.op \in {"make", "assert"}
          /\ token' = Cleared(token)
          /\ spent' = [rps |-> spent.rps \cup {args.rp}, uses |-> spent.uses + 1,
                       pin |-> spent.pin]
          /\ Done
       \/ /\ args.op = "plain"
          /\ token' = Cleared(token)
          /\ Done
          /\ UNCHANGED spent
    /\ UNCHANGED <<disk, mismatches, resetTimer, guesses, wrongNow, uncounted, forgotten,
                   forceLost, storeFailed>>

\* The user declines or does not answer.
PresenceRefused ==
    /\ stage = "presence"
    /\ Done
    /\ UNCHANGED <<disk, mismatches, token, resetTimer, histVars>>

\* storage::reset deletes all keys in one call; nothing is left to guess.
ClearStore ==
    /\ stage = "clear"
    /\ disk' = [k \in Keys |-> Absent]
    /\ stage' = "renew"
    /\ guesses' = 0 /\ forgotten' = 0 /\ forceLost' = FALSE
    /\ UNCHANGED <<pinVars, resetTimer, phase, args, wrongNow, uncounted, storeFailed, spent>>

\* ... and makes new secrets; then ClientPin::reset.
RenewAll ==
    /\ stage = "renew"
    /\ token' = NoToken
    /\ mismatches' = 0
    /\ wrongNow' = 0 /\ uncounted' = 0
    /\ Done
    /\ UNCHANGED <<disk, resetTimer, guesses, forgotten, forceLost, storeFailed, spent>>

\* Any other command, and any command refused by a check above: only the
\* timers and the permission to reset are touched.
OtherCommand ==
    /\ Begin(NoCall, "idle")
    /\ token' = Observed(token)
    /\ ForbidReset \/ UNCHANGED resetTimer
    /\ UNCHANGED <<disk, mismatches, histVars>>

(* ------------------------- calls to the store ------------------------- *)

InInsert == stage \in InsertStages

\* transaction, Insert: the key is deleted first.
PreDelete ==
    /\ InInsert /\ phase = "delete"
    /\ disk' = [disk EXCEPT ![KeyOf[stage]] = Absent]
    /\ phase' = "create"
    /\ UNCHANGED <<pinVars, resetTimer, stage, args, histVars>>

\* pddb.get(create): the key exists and is empty.
CreateKey ==
    /\ InInsert /\ phase = "create"
    /\ disk' = [disk EXCEPT ![KeyOf[stage]] = Empty]
    /\ phase' = "write"
    /\ UNCHANGED <<pinVars, resetTimer, stage, args, histVars>>

\* write_all; a new PIN starts a new count of wrong guesses.
WriteValue ==
    /\ InInsert /\ phase = "write"
    /\ disk' = [disk EXCEPT ![KeyOf[stage]] = NewValue]
    /\ phase' = "delete"
    /\ stage' = NextStage
    /\ args' = IF NextStage = "idle" THEN NoCall ELSE args
    /\ forceLost' = (forceLost /\ stage # "force")
    /\ guesses' = IF stage = "store" THEN 0 ELSE guesses
    /\ UNCHANGED <<pinVars, resetTimer, wrongNow, uncounted, forgotten, storeFailed, spent>>

\* transaction, Remove.
RemoveKey ==
    /\ stage \in RemoveStages
    /\ disk' = [disk EXCEPT ![KeyOf[stage]] = Absent]
    /\ stage' = NextStage
    /\ args' = IF NextStage = "idle" THEN NoCall ELSE args
    /\ forceLost' = (forceLost /\ stage # "unforce")
    /\ UNCHANGED <<pinVars, resetTimer, phase, guesses, wrongNow, uncounted, forgotten,
                   storeFailed, spent>>

\* The running Insert, if any, has deleted its key and not written it again.
\* FORCE_PIN_CHANGE is complete once it is created.
Interrupted(k) ==
    /\ InInsert /\ KeyOf[stage] = k
    /\ phase = "create" \/ (phase = "write" /\ stage # "force")

\* What stays behind when the running command is cut off.
CutOff ==
    /\ forceLost' = (forceLost \/ Interrupted("force"))
    /\ Interrupted("retries") => forgotten < MaxForgotten
    /\ forgotten' = IF Interrupted("retries") THEN forgotten + 1 ELSE forgotten

\* A write or a removal reports an error (no space left, basis lost): the
\* command ends with it.  An error of the delete in front of an Insert is ignored.
StoreError ==
    /\ stage \in RemoveStages \cup {"clear", "renew"} \/ (InInsert /\ phase # "delete")
    /\ CutOff
    /\ storeFailed' = TRUE
    /\ Done
    /\ UNCHANGED <<disk, pinVars, resetTimer, guesses, wrongNow, uncounted, spent>>

\* A read reports an error in the middle of a command: that of the retries after
\* a wrong PIN, which is then not counted as a mismatch, or that of the force flag
\* or of the minimum length after a right one.  A read in front of everything else
\* refuses the command (OtherCommand).
ReadError ==
    /\ \/ /\ stage = "compare"
          /\ args.guess # Malformed /\ args.guess # disk["pin"]
          /\ guesses' = guesses + 1 /\ wrongNow' = wrongNow + 1 /\ uncounted' = uncounted + 1
          /\ UNCHANGED mismatches
       \/ /\ stage = "verified"
          /\ mismatches' = 0
          /\ UNCHANGED <<guesses, wrongNow, uncounted>>
    /\ Done
    /\ UNCHANGED <<disk, token, resetTimer, forgotten, forceLost, storeFailed, spent>>

(* --------------------------- the environment -------------------------- *)

\* Mutant: the timers run on below zero.
Tick_NoFloor ==
    /\ stage \in {"idle", "presence"}
    /\ token' = [token EXCEPT !.timer = @ - 1]
    /\ resetTimer' = resetTimer - 1
    /\ UNCHANGED <<disk, mismatches, stage, phase, args, histVars>>

\* Time passes between commands and while the user is asked; the calls to
\* the store take far less than a tick.
Tick ==
    /\ stage \in {"idle", "presence"}
    /\ token' = [token EXCEPT !.timer = IF @ = Expired THEN @ ELSE @ - 1]
    /\ resetTimer' = IF resetTimer = Expired THEN resetTimer ELSE resetTimer - 1
    /\ UNCHANGED <<disk, mismatches, stage, phase, args, histVars>>

\* Power is lost and comes back: ClientPin::new, StatefulPermission::new_reset.
PowerCycle ==
    /\ CutOff
    /\ mismatches' = 0
    /\ token' = NoToken
    /\ resetTimer' = ResetWindow
    /\ Done
    /\ wrongNow' = 0 /\ uncounted' = 0
    /\ storeFailed' = FALSE
    /\ spent' = Unspent(0)
    /\ UNCHANGED <<disk, guesses>>

PinCommand ==
    \/ \E p \in Pins : SetPin(p)
    \/ \E g \in Guesses, p \in Pins : ChangePin(g, p)
    \/ \E g \in Guesses : GetPinToken(g)
    \/ \E g \in Guesses, perms \in Requests, rp \in RPs \cup {NoRp} :
         GetPinTokenWithPermissions(g, perms, rp)
    \/ \E n \in MinLengths, f \in BOOLEAN : SetMinPinLength(n, f)

TokenCommand ==
    \/ \E rp \in RPs : MakeCredential(rp) \/ GetAssertion(rp)
    \/ \E rp \in RPs, found \in BOOLEAN : GetSilentAssertion(rp, found)

StoreCall == PreDelete \/ CreateKey \/ WriteValue \/ RemoveKey \/ StoreError \/ ReadError

Next ==
    \/ PinCommand \/ TokenCommand \/ AskWithoutToken \/ Reset \/ OtherCommand
    \/ Compare \/ IssueToken \/ CheckNewPin \/ ResetTokens
    \/ PresenceGiven \/ PresenceRefused \/ ClearStore \/ RenewAll
    \/ StoreCall
    \/ Tick \/ PowerCycle

Spec == Init /\ [][Next]_vars

----------------------------------------------------------------------------
(* Properties.                                                             *)

Tokens == [known : BOOLEAN, perms : SUBSET Permissions, rp : RPs \cup {NoRp},
           timer : Expired .. UsageLimit, uv : BOOLEAN, inUse : BOOLEAN]

Calls == [op : {"none", "set", "change", "token", "config", "make", "assert",
                "plain", "reset"},
          guess : Guesses \cup {0}, pin : Pins \cup {0},
          perms : SUBSET Permissions, rp : RPs \cup {NoRp}, len : Nat]

TypeOK ==
    /\ disk \in [Keys -> Values]
    /\ mismatches \in 0 .. MaxMismatches
    /\ token \in Tokens
    /\ resetTimer \in Expired .. ResetWindow
    /\ stage \in Stages
    /\ phase \in {"delete", "create", "write"}
    /\ args \in Calls
    /\ guesses \in Nat /\ wrongNow \in Nat /\ uncounted \in Nat
    /\ forgotten \in 0 .. MaxForgotten
    /\ forceLost \in BOOLEAN /\ storeFailed \in BOOLEAN
    /\ spent \in [rps : SUBSET RPs, uses : Nat, pin : Pins \cup {0}]

\* Attempts the counter still allows; an Insert in progress counts as done.
Attempts == IF stage = "decrement" THEN args.len
            ELSE IF disk["retries"] = Empty THEN 0 ELSE pin_retries(disk)

\* decr_pin_retries stores the new count before the hash is compared, so
\* wrong PINs and attempts left never exceed the limit, however often power
\* is lost.  Only an Insert of the counter that is cut off after its delete
\* gives attempts back, MaxRetries at a time.
GuessLimit == guesses + Attempts <= MaxRetries * (1 + forgotten)

\* No more than MaxMismatches wrong PINs are compared between two power
\* cycles, also when the last attempt, which does not count as a mismatch,
\* was among them; but a wrong PIN after which the store fails to read the
\* retries is not counted, and comes on top (verify_pin_hash_enc).
PowerUpLimit == wrongNow <= MaxMismatches + uncounted

\* A PIN shorter than the minimum length has to be changed before it buys a
\* token: force_pin_change is stored before the new minimum.  The flag is
\* lost only when its own Insert is cut off.
PolicyHolds ==
    pin_hash_is_some(disk) /\ PinLength[disk["pin"]] < min_pin_length(disk)
      => has_force_pin_change(disk) \/ Interrupted("force") \/ forceLost

\* Whenever a command may present a token, a token that is accepted was
\* bought with the PIN that is set now, unless a write failed since
\* power-up (an error in set_pin's transaction skips the reset of the tokens).
TokenOfThisPin ==
    stage \in {"idle", "presence"} /\ token.inUse /\ token.known /\ ~storeFailed
      => spent.pin = disk["pin"]

\* A token serves one relying party, also when it was issued without one.
OneRelyingParty == \A r, s \in spent.rps : r = s

\* A token stands for at most one operation with the user's presence.
OnePresence == spent.uses <= 1

=============================================================================
