-------------------------- MODULE ClientPinProofs ---------------------------
(***************************************************************************)
(* The promises of ClientPin, proved for every set of PINs, every limit    *)
(* and every length of the timers.                                         *)
(*                                                                         *)
(* IInv joins what each stage of a command may rely on.  Its conjuncts     *)
(* follow the promises: CallInv and PhaseInv say where a command and its   *)
(* Insert are, CountInv strengthens GuessLimit, WrongInv PowerUpLimit,     *)
(* UseInv OneRelyingParty and OnePresence, PinInv TokenOfThisPin and       *)
(* PolicyInv PolicyHolds.                                                  *)
(***************************************************************************)
EXTENDS ClientPin, TLAPS

\* Which command a stage belongs to, and the parameters it has.
CallInv ==
    /\ stage = "idle" => args.op = "none"
    /\ stage \in {"decrement", "compare", "restore", "verified"}
         => args.op \in {"change", "token"} /\ disk["pin"] \in Pins
    /\ stage \in {"store", "unforce"} => args.op \in {"set", "change"}
    /\ stage = "forgive" => args.op = "set"
    /\ stage = "stored" => args.op = "change"
    /\ stage \in {"force", "raise"} => args.op = "config" /\ args.len >= DefaultMin
    /\ stage \in {"clear", "renew"} => args.op = "reset"
    /\ stage = "presence" => args.op \in {"make", "assert", "plain", "reset"}
    /\ args.op \in {"set", "change"} => args.pin \in Pins
    /\ args.op \in {"make", "assert"} => args.rp \in RPs
    /\ disk["pin"] \in Pins \cup {Absent, Empty}

\* What the running Insert has done to its key.
PhaseInv ==
    /\ phase # "delete" => stage \in InsertStages
    /\ phase = "create" => disk[KeyOf[stage]] = Absent
    /\ phase = "write" => disk[KeyOf[stage]] = Empty

Limit == MaxRetries * (1 + forgotten)

\* The attempt that is being made is already paid for.
CountInv ==
    /\ guesses + Attempts <= Limit
    /\ disk["retries"] <= MaxRetries
    /\ stage \in {"decrement", "compare"} =>
         /\ guesses + args.len + 1 <= Limit
         /\ args.len + 1 <= MaxRetries
    /\ stage = "decrement" /\ phase = "delete" => pin_retries(disk) = args.len + 1
    /\ stage = "compare" => disk["retries"] = args.len
    /\ stage \in {"restore", "verified"} => guesses = 0 /\ forgotten = 0
    /\ stage \in {"unforce", "forgive"} /\ args.op = "set" => guesses = 0

\* A wrong PIN is a mismatch or uncounted, or it was the last attempt, and then
\* no other one is possible before the next power-up.
WrongInv ==
    /\ \/ wrongNow <= mismatches + uncounted
       \/ /\ wrongNow = mismatches + uncounted + 1 /\ mismatches < MaxMismatches
          /\ disk["retries"] = 0 /\ disk["pin"] \in Pins
          /\ stage \in {"idle", "presence", "force", "raise"}
    /\ stage \in {"decrement", "compare"} => mismatches < MaxMismatches
    /\ stage \in {"restore", "verified"} => wrongNow = 0
    /\ resetTimer # Expired =>
         wrongNow = 0 /\ stage \in {"idle", "presence", "clear", "renew"}
    /\ args.op = "reset" => wrongNow = 0

\* What a token was used for binds what it can still be used for.
UseInv ==
    /\ \A r, s \in spent.rps : r = s
    /\ spent.uses <= 1
    /\ token.inUse => \A r \in spent.rps : token.rp = r
    /\ token.inUse /\ token.uv => spent.uses = 0
    /\ stage = "presence" /\ args.op \in {"make", "assert"} =>
         token.inUse /\ token.uv /\ token.rp = args.rp

\* While the PIN changes, no token is presented.
PinInv ==
    token.inUse /\ token.known /\ ~storeFailed =>
      \/ spent.pin = disk["pin"] /\ args.op # "set"
      \/ args.op = "change" /\ stage \in {"store", "unforce", "stored"}
      \/ stage = "renew"

TooShort(p, n) == p \in Pins /\ PinLength[p] < n

\* The flag is stored before the minimum it is about; a new PIN is checked
\* before it replaces the flag.
PolicyInv ==
    /\ TooShort(disk["pin"], min_pin_length(disk)) =>
         has_force_pin_change(disk) \/ forceLost
           \/ (stage = "force" /\ phase = "create")
    /\ disk["minLen"] \in Nat => disk["minLen"] >= DefaultMin
    /\ stage = "store" => ~TooShort(args.pin, min_pin_length(disk))
    /\ stage = "unforce" => ~TooShort(disk["pin"], min_pin_length(disk))
    /\ stage = "raise" /\ TooShort(disk["pin"], args.len) =>
         has_force_pin_change(disk) \/ forceLost

IInv == /\ TypeOK /\ CallInv /\ PhaseInv /\ CountInv /\ WrongInv /\ UseInv
        /\ PinInv /\ PolicyInv

----------------------------------------------------------------------------
(* Types. *)

\* What is done to a token leaves it a token.
LEMMA TokenTypes ==
    ASSUME NEW t \in Tokens
    PROVE  /\ Observed(t) \in Tokens
           /\ Cleared(t) \in Tokens
           /\ \A rp \in RPs : Bound(t, rp) \in Tokens
           /\ [t EXCEPT !.known = FALSE] \in Tokens
           /\ [t EXCEPT !.timer = IF @ = Expired THEN @ ELSE @ - 1] \in Tokens
<1>1. Observed(t) \in Tokens
  BY TimesAssumption DEF Tokens, Observed, Stopped, Expired
<1>2. Cleared(t) \in Tokens
  BY DEF Tokens, Cleared
<1>3. \A rp \in RPs : Bound(t, rp) \in Tokens
  BY DEF Tokens, Bound
<1>4. [t EXCEPT !.known = FALSE] \in Tokens
  BY DEF Tokens
<1>5. [t EXCEPT !.timer = IF @ = Expired THEN @ ELSE @ - 1] \in Tokens
  BY TimesAssumption DEF Tokens, Expired
<1>6. QED
  BY <1>1, <1>2, <1>3, <1>4, <1>5

\* The tokens that are made new.
LEMMA NewTokenTypes ==
    /\ NoToken \in Tokens
    /\ \A perms \in SUBSET Permissions, rp \in RPs \cup {NoRp} :
         Issued(perms, rp) \in Tokens
  BY TimesAssumption DEF Tokens, NoToken, Issued, Expired

\* A command with parameters of the right kind.
LEMMA CallType ==
    ASSUME NEW op \in {"none", "set", "change", "token", "config", "make", "assert",
                       "plain", "reset"},
           NEW g \in Guesses \cup {0}, NEW p \in Pins \cup {0},
           NEW perms \in SUBSET Permissions, NEW rp \in RPs \cup {NoRp}, NEW n \in Nat
    PROVE  Call(op, g, p, perms, rp, n) \in Calls
  BY DEF Calls, Call

\* No command.
LEMMA NoCallType == NoCall \in Calls
  BY CallType DEF NoCall

----------------------------------------------------------------------------
(* Commands, up to their first call to the store or to the user. *)

\* process_set_pin: no token outlives the loss of the PIN.
LEMMA SetPinStep ==
    ASSUME IInv, NEW p \in Pins, SetPin(p)
    PROVE  IInv'
<1>1. TypeOK'
  <2>1. args' \in Calls
    BY CallType DEF SetPin, Begin
  <2>2. token' \in Tokens
    BY TokenTypes DEF IInv, TypeOK, SetPin
  <2>3. QED
    BY <2>1, <2>2, TimesAssumption
    DEF IInv, TypeOK, SetPin, Begin, Call, histVars, ForbidReset, Stages, InsertStages,
        Expired
<1>2. CallInv'
  BY DEF IInv, TypeOK, CallInv, SetPin, Begin, Call, histVars
<1>3. PhaseInv'
  BY DEF IInv, TypeOK, PhaseInv, InsertStages, SetPin, Begin, Call, histVars
<1>4. CountInv'
  BY DEF IInv, TypeOK, CallInv, CountInv, Attempts, Limit, pin_retries, SetPin, Begin, Call,
         histVars
<1>5. WrongInv'
  BY PinsAssumption
  DEF IInv, TypeOK, CallInv, WrongInv, SetPin, Begin, Call, histVars, ForbidReset, Absent
<1>6. UseInv'
  BY DEF IInv, TypeOK, CallInv, UseInv, SetPin, Begin, Call, histVars, Observed, Stopped
<1>7. PinInv'
  BY PinsAssumption
  DEF IInv, TypeOK, CallInv, PinInv, SetPin, Begin, Call, histVars, Observed, Stopped,
      Absent
<1>8. PolicyInv'
  BY PinsAssumption, LengthsAssumption
  DEF IInv, TypeOK, CallInv, PolicyInv, TooShort, min_pin_length, has_force_pin_change,
      SetPin, Begin, Call, histVars, Absent, Empty, Values, Keys
<1>9. QED
  BY <1>1, <1>2, <1>3, <1>4, <1>5, <1>6, <1>7, <1>8 DEF IInv

\* The attempt is counted when the command begins.
LEMMA VerifyStep ==
    ASSUME IInv, NEW op \in {"change", "token"}, NEW g \in Guesses,
           NEW p \in Pins \cup {0}, op = "change" => p \in Pins,
           NEW perms \in SUBSET Permissions, NEW rp \in RPs \cup {NoRp},
           Verify(op, g, p, perms, rp)
    PROVE  IInv'
<1>1. TypeOK'
  <2>1. pin_retries(disk) - 1 \in Nat
    BY LimitsAssumption DEF IInv, TypeOK, Verify, pin_retries, Values, Keys, Absent, Empty
  <2>2. args' \in Calls
    BY <2>1, CallType DEF Verify, Begin
  <2>3. token' \in Tokens
    BY TokenTypes DEF IInv, TypeOK, Verify
  <2>4. QED
    BY <2>1, <2>2, <2>3, TimesAssumption
    DEF IInv, TypeOK, Verify, Begin, Call, histVars, ForbidReset, Stages, InsertStages,
        Expired
<1>2. CallInv'
  BY PinsAssumption
  DEF IInv, TypeOK, CallInv, Verify, Begin, Call, histVars, pin_hash_is_some, Absent, Empty
<1>3. PhaseInv'
  BY DEF IInv, TypeOK, PhaseInv, InsertStages, Verify, Begin, Call, histVars
<1>4. CountInv'
  BY LimitsAssumption
  DEF IInv, TypeOK, CallInv, CountInv, Attempts, Limit, pin_retries, Verify, Begin, Call,
      histVars, Absent, Empty, Values, Keys
<1>5. WrongInv'
  BY PinsAssumption
  DEF IInv, TypeOK, CallInv, WrongInv, Verify, Begin, Call, histVars, ForbidReset, Absent,
      pin_retries
<1>6. UseInv'
  BY DEF IInv, TypeOK, CallInv, UseInv, Verify, Begin, Call, histVars, Observed, Stopped
<1>7. PinInv'
  BY PinsAssumption
  DEF IInv, TypeOK, CallInv, PinInv, Verify, Begin, Call, histVars, Observed, Stopped
<1>8. PolicyInv'
  BY PinsAssumption, LengthsAssumption
  DEF IInv, TypeOK, CallInv, PolicyInv, TooShort, min_pin_length, has_force_pin_change,
      Verify, Begin, Call, histVars, Absent, Empty, Values, Keys
<1>9. QED
  BY <1>1, <1>2, <1>3, <1>4, <1>5, <1>6, <1>7, <1>8 DEF IInv

\* A PIN too short for the new minimum is marked first.
LEMMA SetMinPinLengthStep ==
    ASSUME IInv, NEW n \in MinLengths, NEW f \in BOOLEAN, SetMinPinLength(n, f)
    PROVE  IInv'
<1>1. TypeOK'
  <2>1. args' \in Calls
    BY CallType, LengthsAssumption DEF SetMinPinLength, Begin
  <2>2. token' \in Tokens
    BY TokenTypes DEF IInv, TypeOK, SetMinPinLength
  <2>3. stage' \in Stages
    BY DEF SetMinPinLength, Begin, Stages, InsertStages
  <2>4. QED
    BY <2>1, <2>2, <2>3, TimesAssumption
    DEF IInv, TypeOK, SetMinPinLength, Begin, Call, histVars, ForbidReset, Expired
<1>2. CallInv'
  BY PinsAssumption, LengthsAssumption
  DEF IInv, TypeOK, CallInv, SetMinPinLength, Begin, Call, histVars, PolicyInv,
      min_pin_length, Absent, Empty, Values, Keys
<1>3. PhaseInv'
  BY DEF IInv, TypeOK, PhaseInv, InsertStages, SetMinPinLength, Begin, Call, histVars
<1>4. CountInv'
  BY DEF IInv, TypeOK, CallInv, CountInv, Attempts, Limit, pin_retries, SetMinPinLength,
         Begin, Call, histVars
<1>5. WrongInv'
  BY PinsAssumption
  DEF IInv, TypeOK, CallInv, WrongInv, SetMinPinLength, Begin, Call, histVars, ForbidReset
<1>6. UseInv'
  BY DEF IInv, TypeOK, CallInv, UseInv, SetMinPinLength, Begin, Call, histVars, Observed,
         Stopped
<1>7. PinInv'
  BY DEF IInv, TypeOK, CallInv, PinInv, SetMinPinLength, Begin, Call, histVars, Observed,
         Stopped
<1>8. PolicyInv'
  BY PinsAssumption, LengthsAssumption
  DEF IInv, TypeOK, CallInv, PolicyInv, TooShort, min_pin_length, has_force_pin_change,
      SetMinPinLength, Begin, Call, histVars, Absent, Empty, Values, Keys, pin_hash_is_some
<1>9. QED
  BY <1>1, <1>2, <1>3, <1>4, <1>5, <1>6, <1>7, <1>8 DEF IInv

\* MakeCredential takes the token for one relying party.
LEMMA MakeCredentialStep ==
    ASSUME IInv, NEW rp \in RPs, MakeCredential(rp)
    PROVE  IInv'
<1>1. TypeOK'
  <2>1. args' \in Calls
    BY CallType DEF MakeCredential, Begin
  <2>2. token' \in Tokens
    BY TokenTypes DEF IInv, TypeOK, MakeCredential
  <2>3. QED
    BY <2>1, <2>2, TimesAssumption
    DEF IInv, TypeOK, MakeCredential, Begin, Call, histVars, Stages, Expired
<1>2. CallInv'
  BY DEF IInv, TypeOK, CallInv, MakeCredential, Begin, Call, histVars
<1>3. PhaseInv'
  BY DEF IInv, TypeOK, PhaseInv, InsertStages, MakeCredential, Begin, Call, histVars
<1>4. CountInv'
  BY DEF IInv, TypeOK, CallInv, CountInv, Attempts, Limit, pin_retries, MakeCredential,
         Begin, Call, histVars
<1>5. WrongInv'
  BY DEF IInv, TypeOK, CallInv, WrongInv, MakeCredential, Begin, Call, histVars, Expired
<1>6. UseInv'
  BY RpsAssumption
  DEF IInv, TypeOK, CallInv, UseInv, MakeCredential, Begin, Call, histVars, Observed,
      Stopped, Bound, AcceptsFor, Accepts, Tokens
<1>7. PinInv'
  BY DEF IInv, TypeOK, CallInv, PinInv, MakeCredential, Begin, Call, histVars, Observed,
         Stopped, Bound, Tokens
<1>8. PolicyInv'
  BY PinsAssumption, LengthsAssumption
  DEF IInv, TypeOK, CallInv, PolicyInv, TooShort, min_pin_length, has_force_pin_change,
      MakeCredential, Begin, Call, histVars, Absent, Empty, Values, Keys
<1>9. QED
  BY <1>1, <1>2, <1>3, <1>4, <1>5, <1>6, <1>7, <1>8 DEF IInv

\* GetAssertion takes the token for one relying party.
LEMMA GetAssertionStep ==
    ASSUME IInv, NEW rp \in RPs, GetAssertion(rp)
    PROVE  IInv'
<1>1. TypeOK'
  <2>1. args' \in Calls
    BY CallType DEF GetAssertion, Begin
  <2>2. token' \in Tokens
    BY TokenTypes DEF IInv, TypeOK, GetAssertion
  <2>3. QED
    BY <2>1, <2>2, TimesAssumption
    DEF IInv, TypeOK, GetAssertion, Begin, Call, histVars, ForbidReset, Stages, Expired
<1>2. CallInv'
  BY DEF IInv, TypeOK, CallInv, GetAssertion, Begin, Call, histVars
<1>3. PhaseInv'
  BY DEF IInv, TypeOK, PhaseInv, InsertStages, GetAssertion, Begin, Call, histVars
<1>4. CountInv'
  BY DEF IInv, TypeOK, CallInv, CountInv, Attempts, Limit, pin_retries, GetAssertion, Begin,
         Call, histVars
<1>5. WrongInv'
  BY DEF IInv, TypeOK, CallInv, WrongInv, GetAssertion, Begin, Call, histVars, ForbidReset,
         Expired
<1>6. UseInv'
  BY RpsAssumption
  DEF IInv, TypeOK, CallInv, UseInv, GetAssertion, Begin, Call, histVars, Observed, Stopped,
      Bound, AcceptsFor, Accepts, Tokens
<1>7. PinInv'
  BY DEF IInv, TypeOK, CallInv, PinInv, GetAssertion, Begin, Call, histVars, Observed,
         Stopped, Bound, Tokens
<1>8. PolicyInv'
  BY PinsAssumption, LengthsAssumption
  DEF IInv, TypeOK, CallInv, PolicyInv, TooShort, min_pin_length, has_force_pin_change,
      GetAssertion, Begin, Call, histVars, Absent, Empty, Values, Keys
<1>9. QED
  BY <1>1, <1>2, <1>3, <1>4, <1>5, <1>6, <1>7, <1>8 DEF IInv

\* A silent assertion takes the token for one relying party, too.
LEMMA GetSilentAssertionStep ==
    ASSUME IInv, NEW rp \in RPs, NEW found \in BOOLEAN, GetSilentAssertion(rp, found)
    PROVE  IInv'
<1>1. TypeOK'
  <2>1. args' \in Calls
    BY NoCallType DEF GetSilentAssertion, Begin
  <2>2. token' \in Tokens
    BY TokenTypes DEF IInv, TypeOK, GetSilentAssertion
  <2>3. spent' \in [rps : SUBSET RPs, uses : Nat, pin : Pins \cup {0}]
    BY DEF IInv, TypeOK, GetSilentAssertion
  <2>4. QED
    BY <2>1, <2>2, <2>3, TimesAssumption
    DEF IInv, TypeOK, GetSilentAssertion, Begin, NoCall, Call, ForbidReset, Stages, Expired
<1>2. CallInv'
  BY DEF IInv, TypeOK, CallInv, GetSilentAssertion, Begin, NoCall, Call
<1>3. PhaseInv'
  BY DEF IInv, TypeOK, PhaseInv, InsertStages, GetSilentAssertion, Begin, NoCall, Call
<1>4. CountInv'
  BY DEF IInv, TypeOK, CallInv, CountInv, Attempts, Limit, pin_retries, GetSilentAssertion,
         Begin, NoCall, Call
<1>5. WrongInv'
  BY DEF IInv, TypeOK, CallInv, WrongInv, GetSilentAssertion, Begin, NoCall, Call,
         ForbidReset, Expired
<1>6. UseInv'
  BY RpsAssumption
  DEF IInv, TypeOK, CallInv, UseInv, GetSilentAssertion, Begin, NoCall, Call, Observed,
      Stopped, Bound, AcceptsFor, Accepts, Tokens
<1>7. PinInv'
  BY DEF IInv, TypeOK, CallInv, PinInv, GetSilentAssertion, Begin, NoCall, Call, Observed,
         Stopped, Bound, Tokens
<1>8. PolicyInv'
  BY PinsAssumption, LengthsAssumption
  DEF IInv, TypeOK, CallInv, PolicyInv, TooShort, min_pin_length, has_force_pin_change,
      GetSilentAssertion, Begin, NoCall, Call, Absent, Empty, Values, Keys
<1>9. QED
  BY <1>1, <1>2, <1>3, <1>4, <1>5, <1>6, <1>7, <1>8 DEF IInv

\* A command without a token.
LEMMA AskWithoutTokenStep ==
    ASSUME IInv, AskWithoutToken
    PROVE  IInv'
<1>1. TypeOK'
  <2>1. args' \in Calls
    BY CallType DEF AskWithoutToken, Begin
  <2>2. token' \in Tokens
    BY TokenTypes DEF IInv, TypeOK, AskWithoutToken
  <2>3. QED
    BY <2>1, <2>2, TimesAssumption
    DEF IInv, TypeOK, AskWithoutToken, Begin, Call, histVars, ForbidReset, Stages, Expired
<1>2. CallInv'
  BY DEF IInv, TypeOK, CallInv, AskWithoutToken, Begin, Call, histVars
<1>3. PhaseInv'
  BY DEF IInv, TypeOK, PhaseInv, InsertStages, AskWithoutToken, Begin, Call, histVars
<1>4. CountInv'
  BY DEF IInv, TypeOK, CallInv, CountInv, Attempts, Limit, pin_retries, AskWithoutToken,
         Begin, Call, histVars
<1>5. WrongInv'
  BY DEF IInv, TypeOK, CallInv, WrongInv, AskWithoutToken, Begin, Call, histVars,
         ForbidReset, Expired
<1>6. UseInv'
  BY DEF IInv, TypeOK, CallInv, UseInv, AskWithoutToken, Begin, Call, histVars, Observed,
         Stopped
<1>7. PinInv'
  BY DEF IInv, TypeOK, CallInv, PinInv, AskWithoutToken, Begin, Call, histVars, Observed,
         Stopped
<1>8. PolicyInv'
  BY PinsAssumption, LengthsAssumption
  DEF IInv, TypeOK, CallInv, PolicyInv, TooShort, min_pin_length, has_force_pin_change,
      AskWithoutToken, Begin, Call, histVars, Absent, Empty, Values, Keys
<1>9. QED
  BY <1>1, <1>2, <1>3, <1>4, <1>5, <1>6, <1>7, <1>8 DEF IInv

\* process_reset comes before any PIN was tried.
LEMMA ResetStep ==
    ASSUME IInv, Reset
    PROVE  IInv'
<1>1. TypeOK'
  <2>1. args' \in Calls
    BY CallType DEF Reset, Begin
  <2>2. token' \in Tokens
    BY TokenTypes DEF IInv, TypeOK, Reset
  <2>3. QED
    BY <2>1, <2>2, TimesAssumption
    DEF IInv, TypeOK, Reset, Begin, Call, histVars, Stages, Expired
<1>2. CallInv'
  BY DEF IInv, TypeOK, CallInv, Reset, Begin, Call, histVars
<1>3. PhaseInv'
  BY DEF IInv, TypeOK, PhaseInv, InsertStages, Reset, Begin, Call, histVars
<1>4. CountInv'
  BY DEF IInv, TypeOK, CallInv, CountInv, Attempts, Limit, pin_retries, Reset, Begin, Call,
         histVars
<1>5. WrongInv'
  BY DEF IInv, TypeOK, CallInv, WrongInv, Reset, Begin, Call, histVars, Expired
<1>6. UseInv'
  BY DEF IInv, TypeOK, CallInv, UseInv, Reset, Begin, Call, histVars, Observed, Stopped
<1>7. PinInv'
  BY DEF IInv, TypeOK, CallInv, PinInv, Reset, Begin, Call, histVars, Observed, Stopped
<1>8. PolicyInv'
  BY PinsAssumption, LengthsAssumption
  DEF IInv, TypeOK, CallInv, PolicyInv, TooShort, min_pin_length, has_force_pin_change,
      Reset, Begin, Call, histVars, Absent, Empty, Values, Keys
<1>9. QED
  BY <1>1, <1>2, <1>3, <1>4, <1>5, <1>6, <1>7, <1>8 DEF IInv

\* Commands that leave the PIN alone.
LEMMA OtherCommandStep ==
    ASSUME IInv, OtherCommand
    PROVE  IInv'
<1>1. TypeOK'
  <2>1. args' \in Calls
    BY NoCallType DEF OtherCommand, Begin
  <2>2. token' \in Tokens
    BY TokenTypes DEF IInv, TypeOK, OtherCommand
  <2>3. QED
    BY <2>1, <2>2, TimesAssumption
    DEF IInv, TypeOK, OtherCommand, Begin, Call, histVars, NoCall, ForbidReset, Stages,
        Expired
<1>2. CallInv'
  BY DEF IInv, TypeOK, CallInv, OtherCommand, Begin, Call, histVars, NoCall
<1>3. PhaseInv'
  BY DEF IInv, TypeOK, PhaseInv, InsertStages, OtherCommand, Begin, Call, histVars, NoCall
<1>4. CountInv'
  BY DEF IInv, TypeOK, CallInv, CountInv, Attempts, Limit, pin_retries, OtherCommand, Begin,
         Call, histVars, NoCall
<1>5. WrongInv'
  BY DEF IInv, TypeOK, CallInv, WrongInv, OtherCommand, Begin, Call, histVars, NoCall,
         ForbidReset, Expired
<1>6. UseInv'
  BY DEF IInv, TypeOK, CallInv, UseInv, OtherCommand, Begin, Call, histVars, NoCall,
         Observed, Stopped
<1>7. PinInv'
  BY DEF IInv, TypeOK, CallInv, PinInv, OtherCommand, Begin, Call, histVars, NoCall,
         Observed, Stopped
<1>8. PolicyInv'
  BY PinsAssumption, LengthsAssumption
  DEF IInv, TypeOK, CallInv, PolicyInv, TooShort, min_pin_length, has_force_pin_change,
      OtherCommand, Begin, Call, histVars, NoCall, Absent, Empty, Values, Keys
<1>9. QED
  BY <1>1, <1>2, <1>3, <1>4, <1>5, <1>6, <1>7, <1>8 DEF IInv

----------------------------------------------------------------------------
(* The stages after them. *)

\* The retry limit with f counters forgotten, as arithmetic the steps can use.
LEMMA LimitFacts ==
    ASSUME NEW f \in Nat
    PROVE  /\ MaxRetries * (1 + f) \in Nat
           /\ MaxRetries * (1 + 0) = MaxRetries
           /\ MaxRetries <= MaxRetries * (1 + f)
           /\ MaxRetries * (1 + (f + 1)) = MaxRetries * (1 + f) + MaxRetries
  BY LimitsAssumption

\* A PIN of at least the minimum length is not too short.
LEMMA LongEnough ==
    ASSUME NEW p \in Pins, NEW m \in Int, PinLength[p] >= m
    PROVE  ~TooShort(p, m)
  BY PinsAssumption DEF TooShort

\* A wrong PIN uses up the attempt that was paid for; a right one starts over.
LEMMA CompareStep ==
    ASSUME IInv, Compare
    PROVE  IInv'
<1>1. TypeOK'
  <2>1. args' \in Calls
    BY NoCallType DEF IInv, TypeOK, Compare, Done
  <2>2. mismatches' \in 0 .. MaxMismatches
    BY LimitsAssumption DEF IInv, TypeOK, WrongInv, Compare
  <2>3. QED
    BY <2>1, <2>2, LimitsAssumption
    DEF IInv, TypeOK, Compare, Done, NoCall, Call, Stages, InsertStages, RemoveStages,
        Expired
<1>2. CallInv'
  BY DEF IInv, TypeOK, CallInv, Compare, Done, NoCall, Call
<1>3. PhaseInv'
  BY DEF IInv, TypeOK, PhaseInv, InsertStages, Compare, Done, NoCall, Call
<1>4. CountInv'
  <2>1. disk["retries"] = args.len /\ args.len \in Nat /\ Limit \in Nat
    BY LimitsAssumption, LimitFacts DEF IInv, TypeOK, CountInv, Compare, Limit, Calls
  <2>2. CASE args.guess = disk["pin"] /\ stage' = "restore" /\ guesses' = 0 /\ forgotten' =
         0
    <3>1. Limit' = MaxRetries
      BY <2>2, LimitsAssumption, LimitFacts DEF Limit
    <3>2. QED
      BY <2>1, <2>2, <3>1, LimitsAssumption
      DEF IInv, TypeOK, CountInv, Attempts, pin_retries, Compare, Absent, Empty
  <2>3. CASE /\ stage' = "idle" /\ UNCHANGED forgotten
             /\ guesses' \in {guesses, guesses + 1}
    <3>1. Limit' = Limit
      BY <2>3 DEF Limit
    <3>2. /\ guesses \in Nat /\ guesses + args.len + 1 <= Limit
          /\ disk["retries"] <= MaxRetries /\ disk' = disk
      BY DEF IInv, TypeOK, CountInv, Compare
    <3>3. Attempts' = args.len
      BY <2>1, <2>3, <3>2 DEF Attempts, pin_retries, Absent, Empty
    <3>4. guesses' + Attempts' <= Limit'
      BY <2>1, <2>3, <3>1, <3>2, <3>3
    <3>5. QED
      BY <2>3, <3>2, <3>4 DEF CountInv
  <2>4. QED
    BY <2>2, <2>3 DEF Compare, Done
<1>5. WrongInv'
  BY LimitsAssumption, PinsAssumption
  DEF IInv, TypeOK, CallInv, WrongInv, Compare, Done, NoCall, Call, Absent, Empty, Values,
      Keys, CountInv, pin_retries, Expired
<1>6. UseInv'
  BY RpsAssumption
  DEF IInv, TypeOK, CallInv, UseInv, Compare, Done, NoCall, Call
<1>7. PinInv'
  BY DEF IInv, TypeOK, CallInv, PinInv, Compare, Done, NoCall, Call
<1>8. PolicyInv'
  BY PinsAssumption, LengthsAssumption
  DEF IInv, TypeOK, CallInv, PolicyInv, TooShort, min_pin_length, has_force_pin_change,
      Compare, Done, NoCall, Call, Absent, Empty, Values, Keys
<1>9. QED
  BY <1>1, <1>2, <1>3, <1>4, <1>5, <1>6, <1>7, <1>8 DEF IInv

\* A new token is unused and bought with the PIN that is set.
LEMMA IssueTokenStep ==
    ASSUME IInv, IssueToken
    PROVE  IInv'
<1>1. TypeOK'
  <2>1. args' \in Calls
    BY NoCallType DEF IInv, TypeOK, IssueToken, Done
  <2>2. token' \in Tokens
    BY NewTokenTypes DEF IInv, TypeOK, IssueToken, Calls
  <2>3. spent' \in [rps : SUBSET RPs, uses : Nat, pin : Pins \cup {0}]
    BY DEF IInv, TypeOK, CallInv, IssueToken, Unspent
  <2>4. QED
    BY <2>1, <2>2, <2>3, LimitsAssumption
    DEF IInv, TypeOK, IssueToken, Done, NoCall, Call, Stages, InsertStages, RemoveStages,
        Expired
<1>2. CallInv'
  BY DEF IInv, TypeOK, CallInv, IssueToken, Done, NoCall, Call
<1>3. PhaseInv'
  BY DEF IInv, TypeOK, PhaseInv, InsertStages, IssueToken, Done, NoCall, Call
<1>4. CountInv'
  BY LimitsAssumption, LimitFacts
  DEF IInv, TypeOK, CallInv, CountInv, Attempts, Limit, pin_retries, IssueToken, Done,
      NoCall, Call, Absent, Empty, Values, Keys
<1>5. WrongInv'
  BY LimitsAssumption
  DEF IInv, TypeOK, CallInv, WrongInv, IssueToken, Done, NoCall, Call, Absent, Empty,
      Values, Keys, Expired
<1>6. UseInv'
  BY RpsAssumption
  DEF IInv, TypeOK, CallInv, UseInv, IssueToken, Done, NoCall, Call, Issued, Unspent
<1>7. PinInv'
  BY DEF IInv, TypeOK, CallInv, PinInv, IssueToken, Done, NoCall, Call, Issued, Unspent
<1>8. PolicyInv'
  BY PinsAssumption, LengthsAssumption
  DEF IInv, TypeOK, CallInv, PolicyInv, TooShort, min_pin_length, has_force_pin_change,
      IssueToken, Done, NoCall, Call, Absent, Empty, Values, Keys
<1>9. QED
  BY <1>1, <1>2, <1>3, <1>4, <1>5, <1>6, <1>7, <1>8 DEF IInv

\* A new PIN is stored only if it is long enough.
LEMMA CheckNewPinStep ==
    ASSUME IInv, CheckNewPin
    PROVE  IInv'
<1>1. TypeOK'
  <2>1. args' \in Calls
    BY NoCallType DEF IInv, TypeOK, CheckNewPin, Done
  <2>2. QED
    BY <2>1, LimitsAssumption
    DEF IInv, TypeOK, CheckNewPin, Done, NoCall, Call, histVars, Stages, InsertStages,
        RemoveStages, Expired
<1>2. CallInv'
  BY DEF IInv, TypeOK, CallInv, CheckNewPin, Done, NoCall, Call, histVars
<1>3. PhaseInv'
  BY DEF IInv, TypeOK, PhaseInv, InsertStages, CheckNewPin, Done, NoCall, Call, histVars
<1>4. CountInv'
  BY LimitsAssumption, LimitFacts
  DEF IInv, TypeOK, CallInv, CountInv, Attempts, Limit, pin_retries, CheckNewPin, Done,
      NoCall, Call, histVars, Absent, Empty, Values, Keys
<1>5. WrongInv'
  BY LimitsAssumption
  DEF IInv, TypeOK, CallInv, WrongInv, CheckNewPin, Done, NoCall, Call, histVars, Absent,
      Empty, Values, Keys, Expired
<1>6. UseInv'
  BY DEF IInv, TypeOK, CallInv, UseInv, CheckNewPin, Done, NoCall, Call, histVars
<1>7. PinInv'
  BY DEF IInv, TypeOK, CallInv, PinInv, CheckNewPin, Done, NoCall, Call, histVars
<1>8. PolicyInv'
  <2>1. CASE stage' = "store" /\ UNCHANGED <<args, phase>>
    <3>1. PinLength[args.pin] >= min_pin_length(disk)
      BY <2>1 DEF CheckNewPin, Done
    <3>2. args.pin \in Pins
      BY DEF IInv, CallInv, CheckNewPin
    <3>3. min_pin_length(disk) \in Int
      BY LengthsAssumption
      DEF IInv, TypeOK, min_pin_length, Values, Keys, Absent, Empty
    <3>4. ~TooShort(args.pin, min_pin_length(disk))
      BY <3>1, <3>2, <3>3, LongEnough
    <3>5. QED
      BY <2>1, <3>4 DEF IInv, PolicyInv, CheckNewPin, histVars, has_force_pin_change,
             min_pin_length
  <2>2. CASE Done
    BY <2>2 DEF IInv, PolicyInv, CheckNewPin, histVars, has_force_pin_change,
           min_pin_length, Done
  <2>3. QED
    BY <2>1, <2>2 DEF CheckNewPin
<1>9. QED
  BY <1>1, <1>2, <1>3, <1>4, <1>5, <1>6, <1>7, <1>8 DEF IInv

\* After a change of the PIN no platform knows the token.
LEMMA ResetTokensStep ==
    ASSUME IInv, ResetTokens
    PROVE  IInv'
<1>1. TypeOK'
  <2>1. args' \in Calls
    BY NoCallType DEF IInv, TypeOK, ResetTokens, Done
  <2>2. token' \in Tokens
    BY TokenTypes DEF IInv, TypeOK, ResetTokens
  <2>3. QED
    BY <2>1, <2>2, LimitsAssumption
    DEF IInv, TypeOK, ResetTokens, Done, NoCall, Call, histVars, Stages, InsertStages,
        RemoveStages, Expired
<1>2. CallInv'
  BY DEF IInv, TypeOK, CallInv, ResetTokens, Done, NoCall, Call, histVars
<1>3. PhaseInv'
  BY DEF IInv, TypeOK, PhaseInv, InsertStages, ResetTokens, Done, NoCall, Call, histVars
<1>4. CountInv'
  BY LimitsAssumption, LimitFacts
  DEF IInv, TypeOK, CallInv, CountInv, Attempts, Limit, pin_retries, ResetTokens, Done,
      NoCall, Call, histVars, Absent, Empty, Values, Keys
<1>5. WrongInv'
  BY LimitsAssumption
  DEF IInv, TypeOK, CallInv, WrongInv, ResetTokens, Done, NoCall, Call, histVars, Expired
<1>6. UseInv'
  BY DEF IInv, TypeOK, CallInv, UseInv, ResetTokens, Done, NoCall, Call, histVars, Tokens
<1>7. PinInv'
  BY DEF IInv, TypeOK, CallInv, PinInv, ResetTokens, Done, NoCall, Call, histVars, Tokens
<1>8. PolicyInv'
  BY PinsAssumption, LengthsAssumption
  DEF IInv, TypeOK, CallInv, PolicyInv, TooShort, min_pin_length, has_force_pin_change,
      ResetTokens, Done, NoCall, Call, histVars, Absent, Empty, Values, Keys
<1>9. QED
  BY <1>1, <1>2, <1>3, <1>4, <1>5, <1>6, <1>7, <1>8 DEF IInv

\* One confirmation uses up the token, whoever asked.
LEMMA PresenceGivenStep ==
    ASSUME IInv, PresenceGiven
    PROVE  IInv'
<1>1. TypeOK'
  <2>1. args' \in Calls
    BY NoCallType DEF IInv, TypeOK, PresenceGiven, Done
  <2>2. token' \in Tokens
    BY TokenTypes DEF IInv, TypeOK, PresenceGiven
  <2>3. spent' \in [rps : SUBSET RPs, uses : Nat, pin : Pins \cup {0}]
    BY DEF IInv, TypeOK, CallInv, PresenceGiven
  <2>4. QED
    BY <2>1, <2>2, <2>3, LimitsAssumption
    DEF IInv, TypeOK, PresenceGiven, Done, NoCall, Call, Stages, InsertStages, RemoveStages,
        Expired
<1>2. CallInv'
  BY DEF IInv, TypeOK, CallInv, PresenceGiven, Done, NoCall, Call
<1>3. PhaseInv'
  BY DEF IInv, TypeOK, PhaseInv, InsertStages, PresenceGiven, Done, NoCall, Call
<1>4. CountInv'
  BY LimitsAssumption, LimitFacts
  DEF IInv, TypeOK, CallInv, CountInv, Attempts, Limit, pin_retries, PresenceGiven, Done,
      NoCall, Call, Absent, Empty, Values, Keys
<1>5. WrongInv'
  BY LimitsAssumption
  DEF IInv, TypeOK, CallInv, WrongInv, PresenceGiven, Done, NoCall, Call, Expired
<1>6. UseInv'
  BY DEF IInv, TypeOK, CallInv, UseInv, PresenceGiven, Done, NoCall, Call, Cleared, Tokens
<1>7. PinInv'
  BY DEF IInv, TypeOK, CallInv, PinInv, PresenceGiven, Done, NoCall, Call, Cleared, Tokens
<1>8. PolicyInv'
  BY PinsAssumption, LengthsAssumption
  DEF IInv, TypeOK, CallInv, PolicyInv, TooShort, min_pin_length, has_force_pin_change,
      PresenceGiven, Done, NoCall, Call, Absent, Empty, Values, Keys
<1>9. QED
  BY <1>1, <1>2, <1>3, <1>4, <1>5, <1>6, <1>7, <1>8 DEF IInv

\* Without a confirmation the token stays as it is.
LEMMA PresenceRefusedStep ==
    ASSUME IInv, PresenceRefused
    PROVE  IInv'
<1>1. TypeOK'
  <2>1. args' \in Calls
    BY NoCallType DEF IInv, TypeOK, PresenceRefused, Done
  <2>2. QED
    BY <2>1, LimitsAssumption
    DEF IInv, TypeOK, PresenceRefused, Done, NoCall, Call, histVars, Stages, InsertStages,
        RemoveStages, Expired
<1>2. CallInv'
  BY DEF IInv, TypeOK, CallInv, PresenceRefused, Done, NoCall, Call, histVars
<1>3. PhaseInv'
  BY DEF IInv, TypeOK, PhaseInv, InsertStages, PresenceRefused, Done, NoCall, Call, histVars
<1>4. CountInv'
  BY LimitsAssumption, LimitFacts
  DEF IInv, TypeOK, CallInv, CountInv, Attempts, Limit, pin_retries, PresenceRefused, Done,
      NoCall, Call, histVars, Absent, Empty, Values, Keys
<1>5. WrongInv'
  BY LimitsAssumption
  DEF IInv, TypeOK, CallInv, WrongInv, PresenceRefused, Done, NoCall, Call, histVars,
      Expired
<1>6. UseInv'
  BY DEF IInv, TypeOK, CallInv, UseInv, PresenceRefused, Done, NoCall, Call, histVars
<1>7. PinInv'
  BY DEF IInv, TypeOK, CallInv, PinInv, PresenceRefused, Done, NoCall, Call, histVars
<1>8. PolicyInv'
  BY PinsAssumption, LengthsAssumption
  DEF IInv, TypeOK, CallInv, PolicyInv, TooShort, min_pin_length, has_force_pin_change,
      PresenceRefused, Done, NoCall, Call, histVars, Absent, Empty, Values, Keys
<1>9. QED
  BY <1>1, <1>2, <1>3, <1>4, <1>5, <1>6, <1>7, <1>8 DEF IInv

\* Reset leaves nothing to guess.
LEMMA ClearStoreStep ==
    ASSUME IInv, ClearStore
    PROVE  IInv'
<1>1. TypeOK'
  <2>1. disk' \in [Keys -> Values]
    BY DEF ClearStore, Values
  <2>2. /\ UNCHANGED <<mismatches, token, resetTimer, phase, args, wrongNow, uncounted,
         storeFailed, spent>>
       /\ stage' = "renew" /\ guesses' = 0 /\ forgotten' = 0 /\ forceLost' = FALSE
    BY DEF ClearStore, pinVars
  <2>3. forceLost' \in BOOLEAN
    BY <2>2, Zenon
  <2>4. QED
    BY <2>1, <2>2, <2>3, LimitsAssumption
    DEF IInv, TypeOK, Stages, InsertStages, RemoveStages, Expired
<1>2. CallInv'
  BY PinsAssumption
  DEF IInv, TypeOK, CallInv, ClearStore, pinVars, Keys, Absent
<1>3. PhaseInv'
  BY DEF IInv, TypeOK, PhaseInv, InsertStages, ClearStore, pinVars, Keys, Absent
<1>4. CountInv'
  BY LimitsAssumption, LimitFacts
  DEF IInv, TypeOK, CallInv, CountInv, Attempts, Limit, pin_retries, ClearStore, pinVars,
      Absent, Empty, Values, Keys
<1>5. WrongInv'
  BY LimitsAssumption
  DEF IInv, TypeOK, CallInv, WrongInv, ClearStore, pinVars, Expired, Keys, Absent
<1>6. UseInv'
  BY DEF IInv, TypeOK, CallInv, UseInv, ClearStore, pinVars
<1>7. PinInv'
  BY DEF IInv, TypeOK, CallInv, PinInv, ClearStore, pinVars, Keys, Absent
<1>8. PolicyInv'
  BY PinsAssumption, LengthsAssumption
  DEF IInv, TypeOK, CallInv, PolicyInv, TooShort, min_pin_length, has_force_pin_change,
      ClearStore, pinVars, Absent, Empty, Values, Keys
<1>9. QED
  BY <1>1, <1>2, <1>3, <1>4, <1>5, <1>6, <1>7, <1>8 DEF IInv

\* ClientPin::reset.
LEMMA RenewAllStep ==
    ASSUME IInv, RenewAll
    PROVE  IInv'
<1>1. TypeOK'
  <2>1. args' \in Calls
    BY NoCallType DEF RenewAll, Done
  <2>2. token' \in Tokens
    BY NewTokenTypes DEF RenewAll
  <2>3. QED
    BY <2>1, <2>2, LimitsAssumption
    DEF IInv, TypeOK, RenewAll, Done, NoCall, Call, Stages, InsertStages, RemoveStages,
        Expired
<1>2. CallInv'
  BY DEF IInv, TypeOK, CallInv, RenewAll, Done, NoCall, Call
<1>3. PhaseInv'
  BY DEF IInv, TypeOK, PhaseInv, InsertStages, RenewAll, Done, NoCall, Call
<1>4. CountInv'
  BY LimitsAssumption, LimitFacts
  DEF IInv, TypeOK, CallInv, CountInv, Attempts, Limit, pin_retries, RenewAll, Done, NoCall,
      Call, Absent, Empty, Values, Keys
<1>5. WrongInv'
  BY LimitsAssumption
  DEF IInv, TypeOK, CallInv, WrongInv, RenewAll, Done, NoCall, Call, Expired
<1>6. UseInv'
  BY DEF IInv, TypeOK, CallInv, UseInv, RenewAll, Done, NoCall, Call, NoToken
<1>7. PinInv'
  BY DEF IInv, TypeOK, CallInv, PinInv, RenewAll, Done, NoCall, Call, NoToken
<1>8. PolicyInv'
  BY PinsAssumption, LengthsAssumption
  DEF IInv, TypeOK, CallInv, PolicyInv, TooShort, min_pin_length, has_force_pin_change,
      RenewAll, Done, NoCall, Call, Absent, Empty, Values, Keys
<1>9. QED
  BY <1>1, <1>2, <1>3, <1>4, <1>5, <1>6, <1>7, <1>8 DEF IInv

\* Time only takes permissions away.
LEMMA TickStep ==
    ASSUME IInv, Tick
    PROVE  IInv'
<1>1. TypeOK'
  <2>1. token' \in Tokens
    BY TokenTypes DEF IInv, TypeOK, Tick
  <2>2. QED
    BY <2>1, TimesAssumption
    DEF IInv, TypeOK, Tick, histVars, Stages, InsertStages, RemoveStages, Expired
<1>2. CallInv'
  BY DEF IInv, TypeOK, CallInv, Tick, histVars
<1>3. PhaseInv'
  BY DEF IInv, TypeOK, PhaseInv, InsertStages, Tick, histVars
<1>4. CountInv'
  BY LimitsAssumption, LimitFacts
  DEF IInv, TypeOK, CallInv, CountInv, Attempts, Limit, pin_retries, Tick, histVars, Absent,
      Empty, Values, Keys
<1>5. WrongInv'
  BY LimitsAssumption, TimesAssumption
  DEF IInv, TypeOK, CallInv, WrongInv, Tick, histVars, Expired
<1>6. UseInv'
  BY DEF IInv, TypeOK, CallInv, UseInv, Tick, histVars, Tokens
<1>7. PinInv'
  BY DEF IInv, TypeOK, CallInv, PinInv, Tick, histVars, Tokens
<1>8. PolicyInv'
  BY PinsAssumption, LengthsAssumption
  DEF IInv, TypeOK, CallInv, PolicyInv, TooShort, min_pin_length, has_force_pin_change,
      Tick, histVars, Absent, Empty, Values, Keys
<1>9. QED
  BY <1>1, <1>2, <1>3, <1>4, <1>5, <1>6, <1>7, <1>8 DEF IInv

----------------------------------------------------------------------------
(* The calls to the store. *)

\* The key each stage is about.
LEMMA StoreKeys ==
    /\ KeyOf["decrement"] = "retries" /\ KeyOf["restore"] = "retries"
    /\ KeyOf["forgive"] = "retries" /\ KeyOf["store"] = "pin"
    /\ KeyOf["force"] = "force" /\ KeyOf["unforce"] = "force"
    /\ KeyOf["raise"] = "minLen"
  BY DEF KeyOf, InsertStages, RemoveStages

\* The delete in front of an Insert.
LEMMA PreDeleteStep ==
    ASSUME IInv, PreDelete
    PROVE  IInv'
<1>1. CASE stage = "decrement"
  <2>1. /\ disk' \in [Keys -> Values] /\ disk'["retries"] = Absent
        /\ disk'["pin"] = disk["pin"] /\ disk'["force"] = disk["force"] /\ disk'["minLen"] =
               disk["minLen"]
    <3>1. disk' = [disk EXCEPT !["retries"] = Absent]
      BY <1>1, StoreKeys DEF PreDelete
    <3>2. Absent \in Values
      BY DEF Absent, Values
    <3>3. QED
      BY <3>1, <3>2 DEF IInv, TypeOK, Keys
  <2>2. /\ phase = "delete" /\ phase' = "create"
        /\ UNCHANGED <<pinVars, resetTimer, stage, args, histVars>>
    BY <1>1 DEF PreDelete
  <2>3. TypeOK'
    BY <1>1, <2>1, <2>2, NoCallType DEF IInv, TypeOK, Stages, InsertStages, RemoveStages,
           pinVars, histVars
  <2>4. CallInv' /\ PhaseInv'
    BY <1>1, <2>1, <2>2, StoreKeys, PinsAssumption DEF IInv, TypeOK, CallInv, PhaseInv,
           InsertStages, NoCall, Call
  <2>5. CountInv'
    BY <1>1, <2>1, <2>2, LimitsAssumption, LimitFacts DEF IInv, TypeOK, CallInv, PhaseInv,
           CountInv, Attempts, Limit, pin_retries, histVars, Absent, Empty, Values, Keys,
           Calls, NoCall, Call
  <2>6. WrongInv'
    BY <1>1, <2>1, <2>2 DEF IInv, TypeOK, CallInv, WrongInv, pinVars, histVars, NoCall, Call
  <2>7. UseInv' /\ PinInv'
    BY <1>1, <2>1, <2>2, PinsAssumption DEF IInv, TypeOK, CallInv, UseInv, PinInv, pinVars,
           histVars, NoCall, Call
  <2>8. PolicyInv'
    BY <1>1, <2>1, <2>2, PinsAssumption, LengthsAssumption, StoreKeys DEF IInv, TypeOK,
           CallInv, PhaseInv, PolicyInv, TooShort, min_pin_length, has_force_pin_change,
           histVars, Absent, Empty, Values, Keys, Calls, NoCall, Call
  <2>9. QED
    BY <2>3, <2>4, <2>5, <2>6, <2>7, <2>8 DEF IInv
<1>2. CASE stage = "store"
  <2>1. /\ disk' \in [Keys -> Values] /\ disk'["pin"] = Absent
        /\ disk'["retries"] = disk["retries"] /\ disk'["force"] = disk["force"] /\
               disk'["minLen"] = disk["minLen"]
    <3>1. disk' = [disk EXCEPT !["pin"] = Absent]
      BY <1>2, StoreKeys DEF PreDelete
    <3>2. Absent \in Values
      BY DEF Absent, Values
    <3>3. QED
      BY <3>1, <3>2 DEF IInv, TypeOK, Keys
  <2>2. /\ phase = "delete" /\ phase' = "create"
        /\ UNCHANGED <<pinVars, resetTimer, stage, args, histVars>>
    BY <1>2 DEF PreDelete
  <2>3. TypeOK'
    BY <1>2, <2>1, <2>2, NoCallType DEF IInv, TypeOK, Stages, InsertStages, RemoveStages,
           pinVars, histVars
  <2>4. CallInv' /\ PhaseInv'
    BY <1>2, <2>1, <2>2, StoreKeys, PinsAssumption DEF IInv, TypeOK, CallInv, PhaseInv,
           InsertStages, NoCall, Call
  <2>5. CountInv'
    BY <1>2, <2>1, <2>2, LimitsAssumption, LimitFacts DEF IInv, TypeOK, CallInv, PhaseInv,
           CountInv, Attempts, Limit, pin_retries, histVars, Absent, Empty, Values, Keys,
           Calls, NoCall, Call
  <2>6. WrongInv'
    BY <1>2, <2>1, <2>2 DEF IInv, TypeOK, CallInv, WrongInv, pinVars, histVars, NoCall, Call
  <2>7. UseInv' /\ PinInv'
    BY <1>2, <2>1, <2>2, PinsAssumption DEF IInv, TypeOK, CallInv, UseInv, PinInv, pinVars,
           histVars, NoCall, Call
  <2>8. PolicyInv'
    BY <1>2, <2>1, <2>2, PinsAssumption, LengthsAssumption, StoreKeys DEF IInv, TypeOK,
           CallInv, PhaseInv, PolicyInv, TooShort, min_pin_length, has_force_pin_change,
           histVars, Absent, Empty, Values, Keys, Calls, NoCall, Call
  <2>9. QED
    BY <2>3, <2>4, <2>5, <2>6, <2>7, <2>8 DEF IInv
<1>3. CASE stage = "force"
  <2>1. /\ disk' \in [Keys -> Values] /\ disk'["force"] = Absent
        /\ disk'["pin"] = disk["pin"] /\ disk'["retries"] = disk["retries"] /\
               disk'["minLen"] = disk["minLen"]
    <3>1. disk' = [disk EXCEPT !["force"] = Absent]
      BY <1>3, StoreKeys DEF PreDelete
    <3>2. Absent \in Values
      BY DEF Absent, Values
    <3>3. QED
      BY <3>1, <3>2 DEF IInv, TypeOK, Keys
  <2>2. /\ phase = "delete" /\ phase' = "create"
        /\ UNCHANGED <<pinVars, resetTimer, stage, args, histVars>>
    BY <1>3 DEF PreDelete
  <2>3. TypeOK'
    BY <1>3, <2>1, <2>2, NoCallType DEF IInv, TypeOK, Stages, InsertStages, RemoveStages,
           pinVars, histVars
  <2>4. CallInv' /\ PhaseInv'
    BY <1>3, <2>1, <2>2, StoreKeys, PinsAssumption DEF IInv, TypeOK, CallInv, PhaseInv,
           InsertStages, NoCall, Call
  <2>5. CountInv'
    BY <1>3, <2>1, <2>2, LimitsAssumption, LimitFacts DEF IInv, TypeOK, CallInv, PhaseInv,
           CountInv, Attempts, Limit, pin_retries, histVars, Absent, Empty, Values, Keys,
           Calls, NoCall, Call
  <2>6. WrongInv'
    BY <1>3, <2>1, <2>2 DEF IInv, TypeOK, CallInv, WrongInv, pinVars, histVars, NoCall, Call
  <2>7. UseInv' /\ PinInv'
    BY <1>3, <2>1, <2>2, PinsAssumption DEF IInv, TypeOK, CallInv, UseInv, PinInv, pinVars,
           histVars, NoCall, Call
  <2>8. PolicyInv'
    BY <1>3, <2>1, <2>2, PinsAssumption, LengthsAssumption, StoreKeys DEF IInv, TypeOK,
           CallInv, PhaseInv, PolicyInv, TooShort, min_pin_length, has_force_pin_change,
           histVars, Absent, Empty, Values, Keys, Calls, NoCall, Call
  <2>9. QED
    BY <2>3, <2>4, <2>5, <2>6, <2>7, <2>8 DEF IInv
<1>4. CASE stage = "raise"
  <2>1. /\ disk' \in [Keys -> Values] /\ disk'["minLen"] = Absent
        /\ disk'["pin"] = disk["pin"] /\ disk'["retries"] = disk["retries"] /\
               disk'["force"] = disk["force"]
    <3>1. disk' = [disk EXCEPT !["minLen"] = Absent]
      BY <1>4, StoreKeys DEF PreDelete
    <3>2. Absent \in Values
      BY DEF Absent, Values
    <3>3. QED
      BY <3>1, <3>2 DEF IInv, TypeOK, Keys
  <2>2. /\ phase = "delete" /\ phase' = "create"
        /\ UNCHANGED <<pinVars, resetTimer, stage, args, histVars>>
    BY <1>4 DEF PreDelete
  <2>3. TypeOK'
    BY <1>4, <2>1, <2>2, NoCallType DEF IInv, TypeOK, Stages, InsertStages, RemoveStages,
           pinVars, histVars
  <2>4. CallInv' /\ PhaseInv'
    BY <1>4, <2>1, <2>2, StoreKeys, PinsAssumption DEF IInv, TypeOK, CallInv, PhaseInv,
           InsertStages, NoCall, Call
  <2>5. CountInv'
    BY <1>4, <2>1, <2>2, LimitsAssumption, LimitFacts DEF IInv, TypeOK, CallInv, PhaseInv,
           CountInv, Attempts, Limit, pin_retries, histVars, Absent, Empty, Values, Keys,
           Calls, NoCall, Call
  <2>6. WrongInv'
    BY <1>4, <2>1, <2>2 DEF IInv, TypeOK, CallInv, WrongInv, pinVars, histVars, NoCall, Call
  <2>7. UseInv' /\ PinInv'
    BY <1>4, <2>1, <2>2, PinsAssumption DEF IInv, TypeOK, CallInv, UseInv, PinInv, pinVars,
           histVars, NoCall, Call
  <2>8. PolicyInv'
    BY <1>4, <2>1, <2>2, PinsAssumption, LengthsAssumption, StoreKeys DEF IInv, TypeOK,
           CallInv, PhaseInv, PolicyInv, TooShort, min_pin_length, has_force_pin_change,
           histVars, Absent, Empty, Values, Keys, Calls, NoCall, Call
  <2>9. QED
    BY <2>3, <2>4, <2>5, <2>6, <2>7, <2>8 DEF IInv
<1>5. QED
  BY <1>1, <1>2, <1>3, <1>4 DEF PreDelete, InInsert, InsertStages, RemoveStages

\* The key exists and is empty.
LEMMA CreateKeyStep ==
    ASSUME IInv, CreateKey
    PROVE  IInv'
<1>1. CASE stage = "decrement"
  <2>1. /\ disk' \in [Keys -> Values] /\ disk'["retries"] = Empty
        /\ disk'["pin"] = disk["pin"] /\ disk'["force"] = disk["force"] /\ disk'["minLen"] =
               disk["minLen"]
    <3>1. disk' = [disk EXCEPT !["retries"] = Empty]
      BY <1>1, StoreKeys DEF CreateKey
    <3>2. Empty \in Values
      BY DEF Empty, Values
    <3>3. QED
      BY <3>1, <3>2 DEF IInv, TypeOK, Keys
  <2>2. /\ phase = "create" /\ phase' = "write"
        /\ UNCHANGED <<pinVars, resetTimer, stage, args, histVars>>
    BY <1>1 DEF CreateKey
  <2>3. TypeOK'
    BY <1>1, <2>1, <2>2, NoCallType DEF IInv, TypeOK, Stages, InsertStages, RemoveStages,
           pinVars, histVars
  <2>4. CallInv' /\ PhaseInv'
    BY <1>1, <2>1, <2>2, StoreKeys, PinsAssumption DEF IInv, TypeOK, CallInv, PhaseInv,
           InsertStages, NoCall, Call
  <2>5. CountInv'
    BY <1>1, <2>1, <2>2, LimitsAssumption, LimitFacts DEF IInv, TypeOK, CallInv, PhaseInv,
           CountInv, Attempts, Limit, pin_retries, histVars, Absent, Empty, Values, Keys,
           Calls, NoCall, Call
  <2>6. WrongInv'
    BY <1>1, <2>1, <2>2 DEF IInv, TypeOK, CallInv, WrongInv, pinVars, histVars, NoCall, Call
  <2>7. UseInv' /\ PinInv'
    BY <1>1, <2>1, <2>2, PinsAssumption DEF IInv, TypeOK, CallInv, UseInv, PinInv, pinVars,
           histVars, NoCall, Call
  <2>8. PolicyInv'
    BY <1>1, <2>1, <2>2, PinsAssumption, LengthsAssumption, StoreKeys DEF IInv, TypeOK,
           CallInv, PhaseInv, PolicyInv, TooShort, min_pin_length, has_force_pin_change,
           histVars, Absent, Empty, Values, Keys, Calls, NoCall, Call
  <2>9. QED
    BY <2>3, <2>4, <2>5, <2>6, <2>7, <2>8 DEF IInv
<1>2. CASE stage = "store"
  <2>1. /\ disk' \in [Keys -> Values] /\ disk'["pin"] = Empty
        /\ disk'["retries"] = disk["retries"] /\ disk'["force"] = disk["force"] /\
               disk'["minLen"] = disk["minLen"]
    <3>1. disk' = [disk EXCEPT !["pin"] = Empty]
      BY <1>2, StoreKeys DEF CreateKey
    <3>2. Empty \in Values
      BY DEF Empty, Values
    <3>3. QED
      BY <3>1, <3>2 DEF IInv, TypeOK, Keys
  <2>2. /\ phase = "create" /\ phase' = "write"
        /\ UNCHANGED <<pinVars, resetTimer, stage, args, histVars>>
    BY <1>2 DEF CreateKey
  <2>3. TypeOK'
    BY <1>2, <2>1, <2>2, NoCallType DEF IInv, TypeOK, Stages, InsertStages, RemoveStages,
           pinVars, histVars
  <2>4. CallInv' /\ PhaseInv'
    BY <1>2, <2>1, <2>2, StoreKeys, PinsAssumption DEF IInv, TypeOK, CallInv, PhaseInv,
           InsertStages, NoCall, Call
  <2>5. CountInv'
    BY <1>2, <2>1, <2>2, LimitsAssumption, LimitFacts DEF IInv, TypeOK, CallInv, PhaseInv,
           CountInv, Attempts, Limit, pin_retries, histVars, Absent, Empty, Values, Keys,
           Calls, NoCall, Call
  <2>6. WrongInv'
    BY <1>2, <2>1, <2>2 DEF IInv, TypeOK, CallInv, WrongInv, pinVars, histVars, NoCall, Call
  <2>7. UseInv' /\ PinInv'
    BY <1>2, <2>1, <2>2, PinsAssumption DEF IInv, TypeOK, CallInv, UseInv, PinInv, pinVars,
           histVars, NoCall, Call
  <2>8. PolicyInv'
    BY <1>2, <2>1, <2>2, PinsAssumption, LengthsAssumption, StoreKeys DEF IInv, TypeOK,
           CallInv, PhaseInv, PolicyInv, TooShort, min_pin_length, has_force_pin_change,
           histVars, Absent, Empty, Values, Keys, Calls, NoCall, Call
  <2>9. QED
    BY <2>3, <2>4, <2>5, <2>6, <2>7, <2>8 DEF IInv
<1>3. CASE stage = "force"
  <2>1. /\ disk' \in [Keys -> Values] /\ disk'["force"] = Empty
        /\ disk'["pin"] = disk["pin"] /\ disk'["retries"] = disk["retries"] /\
               disk'["minLen"] = disk["minLen"]
    <3>1. disk' = [disk EXCEPT !["force"] = Empty]
      BY <1>3, StoreKeys DEF CreateKey
    <3>2. Empty \in Values
      BY DEF Empty, Values
    <3>3. QED
      BY <3>1, <3>2 DEF IInv, TypeOK, Keys
  <2>2. /\ phase = "create" /\ phase' = "write"
        /\ UNCHANGED <<pinVars, resetTimer, stage, args, histVars>>
    BY <1>3 DEF CreateKey
  <2>3. TypeOK'
    BY <1>3, <2>1, <2>2, NoCallType DEF IInv, TypeOK, Stages, InsertStages, RemoveStages,
           pinVars, histVars
  <2>4. CallInv' /\ PhaseInv'
    BY <1>3, <2>1, <2>2, StoreKeys, PinsAssumption DEF IInv, TypeOK, CallInv, PhaseInv,
           InsertStages, NoCall, Call
  <2>5. CountInv'
    BY <1>3, <2>1, <2>2, LimitsAssumption, LimitFacts DEF IInv, TypeOK, CallInv, PhaseInv,
           CountInv, Attempts, Limit, pin_retries, histVars, Absent, Empty, Values, Keys,
           Calls, NoCall, Call
  <2>6. WrongInv'
    BY <1>3, <2>1, <2>2 DEF IInv, TypeOK, CallInv, WrongInv, pinVars, histVars, NoCall, Call
  <2>7. UseInv' /\ PinInv'
    BY <1>3, <2>1, <2>2, PinsAssumption DEF IInv, TypeOK, CallInv, UseInv, PinInv, pinVars,
           histVars, NoCall, Call
  <2>8. PolicyInv'
    BY <1>3, <2>1, <2>2, PinsAssumption, LengthsAssumption, StoreKeys DEF IInv, TypeOK,
           CallInv, PhaseInv, PolicyInv, TooShort, min_pin_length, has_force_pin_change,
           histVars, Absent, Empty, Values, Keys, Calls, NoCall, Call
  <2>9. QED
    BY <2>3, <2>4, <2>5, <2>6, <2>7, <2>8 DEF IInv
<1>4. CASE stage = "raise"
  <2>1. /\ disk' \in [Keys -> Values] /\ disk'["minLen"] = Empty
        /\ disk'["pin"] = disk["pin"] /\ disk'["retries"] = disk["retries"] /\
               disk'["force"] = disk["force"]
    <3>1. disk' = [disk EXCEPT !["minLen"] = Empty]
      BY <1>4, StoreKeys DEF CreateKey
    <3>2. Empty \in Values
      BY DEF Empty, Values
    <3>3. QED
      BY <3>1, <3>2 DEF IInv, TypeOK, Keys
  <2>2. /\ phase = "create" /\ phase' = "write"
        /\ UNCHANGED <<pinVars, resetTimer, stage, args, histVars>>
    BY <1>4 DEF CreateKey
  <2>3. TypeOK'
    BY <1>4, <2>1, <2>2, NoCallType DEF IInv, TypeOK, Stages, InsertStages, RemoveStages,
           pinVars, histVars
  <2>4. CallInv' /\ PhaseInv'
    BY <1>4, <2>1, <2>2, StoreKeys, PinsAssumption DEF IInv, TypeOK, CallInv, PhaseInv,
           InsertStages, NoCall, Call
  <2>5. CountInv'
    BY <1>4, <2>1, <2>2, LimitsAssumption, LimitFacts DEF IInv, TypeOK, CallInv, PhaseInv,
           CountInv, Attempts, Limit, pin_retries, histVars, Absent, Empty, Values, Keys,
           Calls, NoCall, Call
  <2>6. WrongInv'
    BY <1>4, <2>1, <2>2 DEF IInv, TypeOK, CallInv, WrongInv, pinVars, histVars, NoCall, Call
  <2>7. UseInv' /\ PinInv'
    BY <1>4, <2>1, <2>2, PinsAssumption DEF IInv, TypeOK, CallInv, UseInv, PinInv, pinVars,
           histVars, NoCall, Call
  <2>8. PolicyInv'
    BY <1>4, <2>1, <2>2, PinsAssumption, LengthsAssumption, StoreKeys DEF IInv, TypeOK,
           CallInv, PhaseInv, PolicyInv, TooShort, min_pin_length, has_force_pin_change,
           histVars, Absent, Empty, Values, Keys, Calls, NoCall, Call
  <2>9. QED
    BY <2>3, <2>4, <2>5, <2>6, <2>7, <2>8 DEF IInv
<1>5. QED
  BY <1>1, <1>2, <1>3, <1>4 DEF CreateKey, InInsert, InsertStages, RemoveStages

\* The value is written, and the next stage begins.
LEMMA WriteValueStep ==
    ASSUME IInv, WriteValue
    PROVE  IInv'
<1>1. CASE stage = "decrement"
  <2>1. /\ disk' \in [Keys -> Values] /\ disk'["retries"] = args.len
        /\ disk'["pin"] = disk["pin"] /\ disk'["force"] = disk["force"] /\ disk'["minLen"] =
               disk["minLen"]
    <3>1. disk' = [disk EXCEPT !["retries"] = args.len]
      BY <1>1, StoreKeys DEF WriteValue, NewValue
    <3>2. args.len \in Values
      BY DEF IInv, TypeOK, Calls, Values
    <3>3. QED
      BY <3>1, <3>2 DEF IInv, TypeOK, Keys
  <2>2. /\ phase = "write" /\ phase' = "delete" /\ stage' = "compare"
        /\ args' = args
        /\ forceLost' = forceLost /\ guesses' = guesses
        /\ UNCHANGED <<pinVars, resetTimer, wrongNow, uncounted, forgotten, storeFailed,
               spent>>
    BY <1>1 DEF IInv, TypeOK, WriteValue, NextStage
  <2>3. TypeOK'
    BY <1>1, <2>1, <2>2, NoCallType DEF IInv, TypeOK, Stages, InsertStages, RemoveStages,
           pinVars, histVars
  <2>4. CallInv' /\ PhaseInv'
    BY <1>1, <2>1, <2>2, StoreKeys, PinsAssumption DEF IInv, TypeOK, CallInv, PhaseInv,
           InsertStages, NoCall, Call
  <2>5. CountInv'
    BY <1>1, <2>1, <2>2, LimitsAssumption, LimitFacts DEF IInv, TypeOK, CallInv, PhaseInv,
           CountInv, Attempts, Limit, pin_retries, histVars, Absent, Empty, Values, Keys,
           Calls, NoCall, Call
  <2>6. WrongInv'
    BY <1>1, <2>1, <2>2 DEF IInv, TypeOK, CallInv, WrongInv, pinVars, histVars, NoCall, Call
  <2>7. UseInv' /\ PinInv'
    BY <1>1, <2>1, <2>2, PinsAssumption DEF IInv, TypeOK, CallInv, UseInv, PinInv, pinVars,
           histVars, NoCall, Call
  <2>8. PolicyInv'
    BY <1>1, <2>1, <2>2, PinsAssumption, LengthsAssumption, StoreKeys DEF IInv, TypeOK,
           CallInv, PhaseInv, PolicyInv, TooShort, min_pin_length, has_force_pin_change,
           histVars, Absent, Empty, Values, Keys, Calls, NoCall, Call
  <2>9. QED
    BY <2>3, <2>4, <2>5, <2>6, <2>7, <2>8 DEF IInv
<1>2. CASE stage = "store"
  <2>1. /\ disk' \in [Keys -> Values] /\ disk'["pin"] = args.pin
        /\ disk'["retries"] = disk["retries"] /\ disk'["force"] = disk["force"] /\
               disk'["minLen"] = disk["minLen"]
    <3>1. disk' = [disk EXCEPT !["pin"] = args.pin]
      BY <1>2, StoreKeys DEF WriteValue, NewValue
    <3>2. args.pin \in Values
      BY <1>2, PinsAssumption DEF IInv, CallInv, Values
    <3>3. QED
      BY <3>1, <3>2 DEF IInv, TypeOK, Keys
  <2>2. /\ phase = "write" /\ phase' = "delete" /\ stage' = "unforce"
        /\ args' = args
        /\ forceLost' = forceLost /\ guesses' = 0
        /\ UNCHANGED <<pinVars, resetTimer, wrongNow, uncounted, forgotten, storeFailed,
               spent>>
    BY <1>2 DEF IInv, TypeOK, WriteValue, NextStage
  <2>3. TypeOK'
    BY <1>2, <2>1, <2>2, NoCallType DEF IInv, TypeOK, Stages, InsertStages, RemoveStages,
           pinVars, histVars
  <2>4. CallInv' /\ PhaseInv'
    BY <1>2, <2>1, <2>2, StoreKeys, PinsAssumption DEF IInv, TypeOK, CallInv, PhaseInv,
           InsertStages, NoCall, Call
  <2>5. CountInv'
    BY <1>2, <2>1, <2>2, LimitsAssumption, LimitFacts DEF IInv, TypeOK, CallInv, PhaseInv,
           CountInv, Attempts, Limit, pin_retries, histVars, Absent, Empty, Values, Keys,
           Calls, NoCall, Call
  <2>6. WrongInv'
    BY <1>2, <2>1, <2>2 DEF IInv, TypeOK, CallInv, WrongInv, pinVars, histVars, NoCall, Call
  <2>7. UseInv' /\ PinInv'
    BY <1>2, <2>1, <2>2, PinsAssumption DEF IInv, TypeOK, CallInv, UseInv, PinInv, pinVars,
           histVars, NoCall, Call
  <2>8. PolicyInv'
    BY <1>2, <2>1, <2>2, PinsAssumption, LengthsAssumption, StoreKeys DEF IInv, TypeOK,
           CallInv, PhaseInv, PolicyInv, TooShort, min_pin_length, has_force_pin_change,
           histVars, Absent, Empty, Values, Keys, Calls, NoCall, Call
  <2>9. QED
    BY <2>3, <2>4, <2>5, <2>6, <2>7, <2>8 DEF IInv
<1>3. CASE stage = "force"
  <2>1. /\ disk' \in [Keys -> Values] /\ disk'["force"] = Empty
        /\ disk'["pin"] = disk["pin"] /\ disk'["retries"] = disk["retries"] /\
               disk'["minLen"] = disk["minLen"]
    <3>1. disk' = [disk EXCEPT !["force"] = Empty]
      BY <1>3, StoreKeys DEF WriteValue, NewValue
    <3>2. Empty \in Values
      BY DEF Empty, Values
    <3>3. QED
      BY <3>1, <3>2 DEF IInv, TypeOK, Keys
  <2>2. /\ phase = "write" /\ phase' = "delete" /\ stage' = "raise"
        /\ args' = args
        /\ forceLost' = FALSE /\ guesses' = guesses
        /\ UNCHANGED <<pinVars, resetTimer, wrongNow, uncounted, forgotten, storeFailed,
               spent>>
    BY <1>3 DEF IInv, TypeOK, WriteValue, NextStage
  <2>3. TypeOK'
    BY <1>3, <2>1, <2>2, NoCallType DEF IInv, TypeOK, Stages, InsertStages, RemoveStages,
           pinVars, histVars
  <2>4. CallInv' /\ PhaseInv'
    BY <1>3, <2>1, <2>2, StoreKeys, PinsAssumption DEF IInv, TypeOK, CallInv, PhaseInv,
           InsertStages, NoCall, Call
  <2>5. CountInv'
    BY <1>3, <2>1, <2>2, LimitsAssumption, LimitFacts DEF IInv, TypeOK, CallInv, PhaseInv,
           CountInv, Attempts, Limit, pin_retries, histVars, Absent, Empty, Values, Keys,
           Calls, NoCall, Call
  <2>6. WrongInv'
    BY <1>3, <2>1, <2>2 DEF IInv, TypeOK, CallInv, WrongInv, pinVars, histVars, NoCall, Call
  <2>7. UseInv' /\ PinInv'
    BY <1>3, <2>1, <2>2, PinsAssumption DEF IInv, TypeOK, CallInv, UseInv, PinInv, pinVars,
           histVars, NoCall, Call
  <2>8. PolicyInv'
    BY <1>3, <2>1, <2>2, PinsAssumption, LengthsAssumption, StoreKeys DEF IInv, TypeOK,
           CallInv, PhaseInv, PolicyInv, TooShort, min_pin_length, has_force_pin_change,
           histVars, Absent, Empty, Values, Keys, Calls, NoCall, Call
  <2>9. QED
    BY <2>3, <2>4, <2>5, <2>6, <2>7, <2>8 DEF IInv
<1>4. CASE stage = "raise"
  <2>1. /\ disk' \in [Keys -> Values] /\ disk'["minLen"] = args.len
        /\ disk'["pin"] = disk["pin"] /\ disk'["retries"] = disk["retries"] /\
               disk'["force"] = disk["force"]
    <3>1. disk' = [disk EXCEPT !["minLen"] = args.len]
      BY <1>4, StoreKeys DEF WriteValue, NewValue
    <3>2. args.len \in Values
      BY DEF IInv, TypeOK, Calls, Values
    <3>3. QED
      BY <3>1, <3>2 DEF IInv, TypeOK, Keys
  <2>2. /\ phase = "write" /\ phase' = "delete" /\ stage' = "idle"
        /\ args' = NoCall
        /\ forceLost' = forceLost /\ guesses' = guesses
        /\ UNCHANGED <<pinVars, resetTimer, wrongNow, uncounted, forgotten, storeFailed,
               spent>>
    BY <1>4 DEF IInv, TypeOK, WriteValue, NextStage
  <2>3. TypeOK'
    BY <1>4, <2>1, <2>2, NoCallType DEF IInv, TypeOK, Stages, InsertStages, RemoveStages,
           pinVars, histVars
  <2>4. CallInv' /\ PhaseInv'
    BY <1>4, <2>1, <2>2, StoreKeys, PinsAssumption DEF IInv, TypeOK, CallInv, PhaseInv,
           InsertStages, NoCall, Call
  <2>5. CountInv'
    BY <1>4, <2>1, <2>2, LimitsAssumption, LimitFacts DEF IInv, TypeOK, CallInv, PhaseInv,
           CountInv, Attempts, Limit, pin_retries, histVars, Absent, Empty, Values, Keys,
           Calls, NoCall, Call
  <2>6. WrongInv'
    BY <1>4, <2>1, <2>2 DEF IInv, TypeOK, CallInv, WrongInv, pinVars, histVars, NoCall, Call
  <2>7. UseInv' /\ PinInv'
    BY <1>4, <2>1, <2>2, PinsAssumption DEF IInv, TypeOK, CallInv, UseInv, PinInv, pinVars,
           histVars, NoCall, Call
  <2>8. PolicyInv'
    BY <1>4, <2>1, <2>2, PinsAssumption, LengthsAssumption, StoreKeys DEF IInv, TypeOK,
           CallInv, PhaseInv, PolicyInv, TooShort, min_pin_length, has_force_pin_change,
           histVars, Absent, Empty, Values, Keys, Calls, NoCall, Call
  <2>9. QED
    BY <2>3, <2>4, <2>5, <2>6, <2>7, <2>8 DEF IInv
<1>5. QED
  BY <1>1, <1>2, <1>3, <1>4 DEF WriteValue, InInsert, InsertStages, RemoveStages

\* A key is removed, and the next stage begins.
LEMMA RemoveKeyStep ==
    ASSUME IInv, RemoveKey
    PROVE  IInv'
<1>1. CASE stage = "restore"
  <2>1. /\ disk' \in [Keys -> Values] /\ disk'["retries"] = Absent
        /\ disk'["pin"] = disk["pin"] /\ disk'["force"] = disk["force"] /\ disk'["minLen"] =
               disk["minLen"]
    <3>1. disk' = [disk EXCEPT !["retries"] = Absent]
      BY <1>1, StoreKeys DEF RemoveKey
    <3>2. Absent \in Values
      BY DEF Absent, Values
    <3>3. QED
      BY <3>1, <3>2 DEF IInv, TypeOK, Keys
  <2>2. /\ stage' = "verified" /\ args' = args
        /\ forceLost' = forceLost /\ phase' = phase
        /\ UNCHANGED <<pinVars, resetTimer, guesses, wrongNow, uncounted, forgotten, storeFailed,
               spent>>
    BY <1>1 DEF IInv, TypeOK, RemoveKey, NextStage, InsertStages, PhaseInv
  <2>3. TypeOK'
    BY <1>1, <2>1, <2>2, NoCallType DEF IInv, TypeOK, Stages, InsertStages, RemoveStages,
           pinVars, histVars
  <2>4. CallInv' /\ PhaseInv'
    BY <1>1, <2>1, <2>2, StoreKeys, PinsAssumption DEF IInv, TypeOK, CallInv, PhaseInv,
           InsertStages, NoCall, Call
  <2>5. CountInv'
    BY <1>1, <2>1, <2>2, LimitsAssumption, LimitFacts DEF IInv, TypeOK, CallInv, PhaseInv,
           CountInv, Attempts, Limit, pin_retries, histVars, Absent, Empty, Values, Keys,
           Calls, NoCall, Call
  <2>6. WrongInv'
    BY <1>1, <2>1, <2>2 DEF IInv, TypeOK, CallInv, WrongInv, pinVars, histVars, NoCall, Call
  <2>7. UseInv' /\ PinInv'
    BY <1>1, <2>1, <2>2, PinsAssumption DEF IInv, TypeOK, CallInv, UseInv, PinInv, pinVars,
           histVars, NoCall, Call
  <2>8. PolicyInv'
    BY <1>1, <2>1, <2>2, PinsAssumption, LengthsAssumption, StoreKeys DEF IInv, TypeOK,
           CallInv, PhaseInv, PolicyInv, TooShort, min_pin_length, has_force_pin_change,
           histVars, Absent, Empty, Values, Keys, Calls, NoCall, Call
  <2>9. QED
    BY <2>3, <2>4, <2>5, <2>6, <2>7, <2>8 DEF IInv
<1>2. CASE stage = "unforce"
  <2>1. /\ disk' \in [Keys -> Values] /\ disk'["force"] = Absent
        /\ disk'["pin"] = disk["pin"] /\ disk'["retries"] = disk["retries"] /\
               disk'["minLen"] = disk["minLen"]
    <3>1. disk' = [disk EXCEPT !["force"] = Absent]
      BY <1>2, StoreKeys DEF RemoveKey
    <3>2. Absent \in Values
      BY DEF Absent, Values
    <3>3. QED
      BY <3>1, <3>2 DEF IInv, TypeOK, Keys
  <2>2. /\ stage' = (IF args.op = "set" THEN "forgive" ELSE "stored") /\ args' = args
        /\ forceLost' = FALSE /\ phase' = phase
        /\ UNCHANGED <<pinVars, resetTimer, guesses, wrongNow, uncounted, forgotten, storeFailed,
               spent>>
    BY <1>2 DEF IInv, TypeOK, RemoveKey, NextStage, InsertStages, PhaseInv
  <2>3. TypeOK'
    BY <1>2, <2>1, <2>2, NoCallType DEF IInv, TypeOK, Stages, InsertStages, RemoveStages,
           pinVars, histVars
  <2>4. CallInv' /\ PhaseInv'
    BY <1>2, <2>1, <2>2, StoreKeys, PinsAssumption DEF IInv, TypeOK, CallInv, PhaseInv,
           InsertStages, NoCall, Call
  <2>5. CountInv'
    BY <1>2, <2>1, <2>2, LimitsAssumption, LimitFacts DEF IInv, TypeOK, CallInv, PhaseInv,
           CountInv, Attempts, Limit, pin_retries, histVars, Absent, Empty, Values, Keys,
           Calls, NoCall, Call
  <2>6. WrongInv'
    BY <1>2, <2>1, <2>2 DEF IInv, TypeOK, CallInv, WrongInv, pinVars, histVars, NoCall, Call
  <2>7. UseInv' /\ PinInv'
    BY <1>2, <2>1, <2>2, PinsAssumption DEF IInv, TypeOK, CallInv, UseInv, PinInv, pinVars,
           histVars, NoCall, Call
  <2>8. PolicyInv'
    BY <1>2, <2>1, <2>2, PinsAssumption, LengthsAssumption, StoreKeys DEF IInv, TypeOK,
           CallInv, PhaseInv, PolicyInv, TooShort, min_pin_length, has_force_pin_change,
           histVars, Absent, Empty, Values, Keys, Calls, NoCall, Call
  <2>9. QED
    BY <2>3, <2>4, <2>5, <2>6, <2>7, <2>8 DEF IInv
<1>3. CASE stage = "forgive"
  <2>1. /\ disk' \in [Keys -> Values] /\ disk'["retries"] = Absent
        /\ disk'["pin"] = disk["pin"] /\ disk'["force"] = disk["force"] /\ disk'["minLen"] =
               disk["minLen"]
    <3>1. disk' = [disk EXCEPT !["retries"] = Absent]
      BY <1>3, StoreKeys DEF RemoveKey
    <3>2. Absent \in Values
      BY DEF Absent, Values
    <3>3. QED
      BY <3>1, <3>2 DEF IInv, TypeOK, Keys
  <2>2. /\ stage' = "idle" /\ args' = NoCall
        /\ forceLost' = forceLost /\ phase' = phase
        /\ UNCHANGED <<pinVars, resetTimer, guesses, wrongNow, uncounted, forgotten, storeFailed,
               spent>>
    BY <1>3 DEF IInv, TypeOK, RemoveKey, NextStage, InsertStages, PhaseInv
  <2>3. TypeOK'
    BY <1>3, <2>1, <2>2, NoCallType DEF IInv, TypeOK, Stages, InsertStages, RemoveStages,
           pinVars, histVars
  <2>4. CallInv' /\ PhaseInv'
    BY <1>3, <2>1, <2>2, StoreKeys, PinsAssumption DEF IInv, TypeOK, CallInv, PhaseInv,
           InsertStages, NoCall, Call
  <2>5. CountInv'
    BY <1>3, <2>1, <2>2, LimitsAssumption, LimitFacts DEF IInv, TypeOK, CallInv, PhaseInv,
           CountInv, Attempts, Limit, pin_retries, histVars, Absent, Empty, Values, Keys,
           Calls, NoCall, Call
  <2>6. WrongInv'
    BY <1>3, <2>1, <2>2 DEF IInv, TypeOK, CallInv, WrongInv, pinVars, histVars, NoCall, Call
  <2>7. UseInv' /\ PinInv'
    BY <1>3, <2>1, <2>2, PinsAssumption DEF IInv, TypeOK, CallInv, UseInv, PinInv, pinVars,
           histVars, NoCall, Call
  <2>8. PolicyInv'
    BY <1>3, <2>1, <2>2, PinsAssumption, LengthsAssumption, StoreKeys DEF IInv, TypeOK,
           CallInv, PhaseInv, PolicyInv, TooShort, min_pin_length, has_force_pin_change,
           histVars, Absent, Empty, Values, Keys, Calls, NoCall, Call
  <2>9. QED
    BY <2>3, <2>4, <2>5, <2>6, <2>7, <2>8 DEF IInv
<1>4. QED
  BY <1>1, <1>2, <1>3 DEF RemoveKey, InInsert, InsertStages, RemoveStages

----------------------------------------------------------------------------
(* A command that is cut off, by an error of the store or by a loss of power. *)

\* Interrupted in terms of the stage: the only two keys it is asked about.
LEMMA InterruptedMeans ==
    /\ Interrupted("retries") <=> stage = "decrement" /\ phase \in {"create", "write"}
    /\ Interrupted("force") <=> stage = "force" /\ phase = "create"
  BY StoreKeys DEF Interrupted, InInsert, InsertStages

\* One counter more.
LEMMA OneMore ==
    ASSUME NEW g \in Nat, NEW a \in Nat, NEW l \in Nat, NEW m \in Nat, g <= l, a <= m
    PROVE  g + a <= l + m
  OBVIOUS

\* A command that is cut off leaves the store in order: the counter gives
\* attempts back only as often as forgotten says, and the force flag is
\* missing only when forceLost says so.
LEMMA CutOffStep ==
    ASSUME IInv, CutOff, Done, UNCHANGED <<disk, guesses>>
    PROVE  /\ forgotten' \in 0 .. MaxForgotten /\ forceLost' \in BOOLEAN
           /\ CallInv' /\ PhaseInv' /\ CountInv' /\ PolicyInv'
<1>1. forgotten' \in 0 .. MaxForgotten
  BY LimitsAssumption DEF IInv, TypeOK, CutOff
<1>2. forceLost' \in BOOLEAN
  BY Zenon DEF CutOff
<1>3. stage' = "idle" /\ phase' = "delete" /\ args' = NoCall /\ args'.op = "none"
  BY DEF Done, NoCall, Call
<1>4. CallInv' /\ PhaseInv'
  BY <1>3 DEF IInv, CallInv, PhaseInv, InsertStages
<1>5. guesses' + Attempts' <= Limit'
  <2>1. CASE stage = "decrement" /\ phase = "delete"
    <3>1. forgotten' = forgotten
      BY <2>1, InterruptedMeans DEF CutOff
    <3>2. QED
      BY <1>3, <2>1, <3>1, LimitsAssumption
      DEF IInv, TypeOK, CountInv, Attempts, Limit, pin_retries, Calls, Absent, Empty
  <2>2. CASE stage = "decrement" /\ phase # "delete"
    <3>1. forgotten' = forgotten + 1
      BY <2>2, InterruptedMeans DEF IInv, TypeOK, CutOff
    <3>2. disk["retries"] \in {Absent, Empty}
      BY <2>2, StoreKeys DEF IInv, TypeOK, PhaseInv
    <3>3. Attempts' \in 0 .. MaxRetries
      BY <1>3, <3>2, LimitsAssumption DEF Attempts, pin_retries, Absent, Empty
    <3>4. /\ Limit \in Nat /\ Limit' = Limit + MaxRetries
      BY <3>1, LimitsAssumption DEF IInv, TypeOK, Limit
    <3>5. guesses <= Limit
      <4>1. guesses + args.len + 1 <= Limit /\ args.len \in Nat /\ guesses \in Nat
        BY <2>2 DEF IInv, TypeOK, CountInv, Calls
      <4>2. QED
        BY <3>4, <4>1
    <3>6. guesses' = guesses /\ guesses \in Nat /\ MaxRetries \in Nat
      BY LimitsAssumption DEF IInv, TypeOK
    <3>7. Attempts' \in Nat /\ Attempts' <= MaxRetries
      BY <3>3, <3>6
    <3>8. guesses' + Attempts' <= Limit + MaxRetries
      BY <3>4, <3>5, <3>6, <3>7, OneMore
    <3>9. QED
      BY <3>4, <3>8
  <2>3. CASE stage # "decrement"
    <3>1. forgotten' = forgotten
      BY <2>3, InterruptedMeans DEF CutOff
    <3>2. Attempts' = Attempts
      BY <1>3, <2>3 DEF Attempts, pin_retries
    <3>3. QED
      BY <3>1, <3>2 DEF IInv, CountInv, Limit
  <2>4. QED
    BY <2>1, <2>2, <2>3
<1>6. CountInv'
  BY <1>3, <1>5 DEF IInv, CountInv
<1>7. PolicyInv'
  <2>1. /\ forceLost => forceLost'
        /\ stage = "force" /\ phase = "create" => forceLost'
    BY InterruptedMeans DEF CutOff
  <2>2. QED
    BY <1>3, <2>1 DEF IInv, PolicyInv, TooShort, min_pin_length, has_force_pin_change
<1>8. QED
  BY <1>1, <1>2, <1>4, <1>6, <1>7

\* An error of the store ends the command.
LEMMA StoreErrorStep ==
    ASSUME IInv, StoreError
    PROVE  IInv'
<1>1. CutOff /\ Done /\ UNCHANGED <<disk, guesses>>
  BY DEF StoreError
<1>2. /\ stage' = "idle" /\ phase' = "delete" /\ args' = NoCall /\ args'.op = "none"
      /\ UNCHANGED <<token, mismatches, resetTimer, wrongNow, uncounted, spent>>
  BY DEF StoreError, Done, NoCall, Call, pinVars
<1>3. storeFailed' = TRUE
  BY DEF StoreError
<1>4. storeFailed' \in BOOLEAN
  BY <1>3, Zenon
<1>5. TypeOK'
  BY <1>1, <1>2, <1>4, CutOffStep, NoCallType DEF IInv, TypeOK, Stages
<1>6. WrongInv'
  BY <1>1, <1>2 DEF IInv, WrongInv
<1>7. UseInv' /\ PinInv'
  BY <1>2, <1>3 DEF IInv, UseInv, PinInv
<1>8. QED
  BY <1>1, <1>5, <1>6, <1>7, CutOffStep DEF IInv

\* A failed read ends the command: a wrong PIN has used up its attempt all the
\* same, and a right one buys nothing.
LEMMA ReadErrorStep ==
    ASSUME IInv, ReadError
    PROVE  IInv'
<1>1. TypeOK'
  <2>1. args' \in Calls
    BY NoCallType DEF ReadError, Done
  <2>2. mismatches' \in 0 .. MaxMismatches
    BY LimitsAssumption DEF IInv, TypeOK, ReadError
  <2>3. QED
    BY <2>1, <2>2
    DEF IInv, TypeOK, ReadError, Done, NoCall, Call, Stages, InsertStages, RemoveStages
<1>2. CallInv'
  BY DEF IInv, TypeOK, CallInv, ReadError, Done, NoCall, Call
<1>3. PhaseInv'
  BY DEF IInv, TypeOK, PhaseInv, InsertStages, ReadError, Done, NoCall, Call
<1>4. CountInv'
  <2>1. stage' = "idle" /\ disk' = disk /\ forgotten' = forgotten /\ Limit' = Limit
    BY DEF ReadError, Done, Limit
  <2>2. CASE stage = "compare" /\ guesses' = guesses + 1
    <3>1. /\ disk["retries"] = args.len /\ args.len \in Nat /\ guesses \in Nat
          /\ guesses + args.len + 1 <= Limit /\ Limit \in Nat
      BY <2>2, LimitsAssumption, LimitFacts DEF IInv, TypeOK, CountInv, Limit, Calls
    <3>2. Attempts' = args.len
      BY <2>1, <3>1 DEF Attempts, pin_retries, Absent, Empty
    <3>3. guesses' + Attempts' <= Limit'
      BY <2>1, <2>2, <3>1, <3>2
    <3>4. QED
      BY <2>1, <3>3 DEF IInv, CountInv
  <2>3. CASE stage = "verified" /\ guesses' = guesses
    <3>1. Attempts' = Attempts
      BY <2>1, <2>3 DEF Attempts, pin_retries
    <3>2. QED
      BY <2>1, <2>3, <3>1 DEF IInv, CountInv
  <2>4. QED
    BY <2>2, <2>3 DEF ReadError
<1>5. WrongInv'
  BY LimitsAssumption
  DEF IInv, TypeOK, WrongInv, ReadError, Done, NoCall, Call, Expired
<1>6. UseInv'
  BY DEF IInv, TypeOK, UseInv, ReadError, Done, NoCall, Call
<1>7. PinInv'
  BY DEF IInv, TypeOK, CallInv, PinInv, ReadError, Done, NoCall, Call
<1>8. PolicyInv'
  BY DEF IInv, TypeOK, PolicyInv, TooShort, min_pin_length, has_force_pin_change,
         ReadError, Done, NoCall, Call
<1>9. QED
  BY <1>1, <1>2, <1>3, <1>4, <1>5, <1>6, <1>7, <1>8 DEF IInv

\* Power is lost in any stage and comes back.
LEMMA PowerCycleStep ==
    ASSUME IInv, PowerCycle
    PROVE  IInv'
<1>1. CutOff /\ Done /\ UNCHANGED <<disk, guesses>>
  BY DEF PowerCycle
<1>2. /\ stage' = "idle" /\ phase' = "delete" /\ args' = NoCall /\ args'.op = "none"
      /\ mismatches' = 0 /\ wrongNow' = 0 /\ uncounted' = 0
      /\ token' = NoToken /\ token'.inUse = FALSE
      /\ resetTimer' = ResetWindow
      /\ spent' = [rps |-> {}, uses |-> 0, pin |-> 0]
  BY DEF PowerCycle, Done, NoCall, Call, NoToken, Unspent
<1>3. storeFailed' = FALSE
  BY DEF PowerCycle
<1>4. storeFailed' \in BOOLEAN
  BY <1>3, Zenon
<1>5. spent' \in [rps : SUBSET RPs, uses : Nat, pin : Pins \cup {0}]
  BY <1>2
<1>6. TypeOK'
  BY <1>1, <1>2, <1>4, <1>5, CutOffStep, NoCallType, NewTokenTypes, LimitsAssumption,
     TimesAssumption DEF IInv, TypeOK, Stages, Expired
<1>7. WrongInv'
  BY <1>2, LimitsAssumption DEF WrongInv
<1>8. UseInv' /\ PinInv'
  BY <1>2 DEF UseInv, PinInv
<1>9. QED
  BY <1>1, <1>6, <1>7, <1>8, CutOffStep DEF IInv

----------------------------------------------------------------------------
(* The invariant. *)

\* A new badge: no PIN, no token, and Reset is allowed.
LEMMA InitStep ==
    ASSUME Init
    PROVE  IInv
<1>1. /\ disk \in [Keys -> Values] /\ disk["pin"] = Absent /\ disk["retries"] = Absent
      /\ disk["force"] = Absent /\ disk["minLen"] = Absent
  BY DEF Init, Keys, Values
<1>2. /\ stage = "idle" /\ phase = "delete" /\ args = NoCall /\ args.op = "none"
      /\ mismatches = 0 /\ wrongNow = 0 /\ uncounted = 0 /\ guesses = 0 /\ forgotten = 0
      /\ token = NoToken /\ token.inUse = FALSE /\ resetTimer = ResetWindow
      /\ spent = [rps |-> {}, uses |-> 0, pin |-> 0]
  BY DEF Init, NoCall, Call, NoToken, Unspent
<1>3. forceLost \in BOOLEAN /\ storeFailed \in BOOLEAN
  BY Zenon DEF Init
<1>4. spent \in [rps : SUBSET RPs, uses : Nat, pin : Pins \cup {0}]
  BY <1>2
<1>5. TypeOK
  BY <1>1, <1>2, <1>3, <1>4, NoCallType, NewTokenTypes, LimitsAssumption, TimesAssumption
  DEF TypeOK, Stages, Expired
<1>6. CallInv /\ PhaseInv
  BY <1>1, <1>2 DEF CallInv, PhaseInv, InsertStages
<1>7. CountInv
  BY <1>1, <1>2, LimitsAssumption
  DEF CountInv, Attempts, Limit, pin_retries, Absent, Empty
<1>8. WrongInv /\ UseInv /\ PinInv
  BY <1>2, LimitsAssumption DEF WrongInv, UseInv, PinInv
<1>9. PolicyInv
  BY <1>1, <1>2, PinsAssumption DEF PolicyInv, TooShort, Absent
<1>10. QED
  BY <1>5, <1>6, <1>7, <1>8, <1>9 DEF IInv

\* A step that changes nothing.
LEMMA StutterStep ==
    ASSUME IInv, UNCHANGED vars
    PROVE  IInv'
<1>1. TypeOK' /\ CallInv' /\ PhaseInv'
  BY DEF IInv, vars, TypeOK, CallInv, PhaseInv
<1>2. CountInv' /\ WrongInv'
  BY DEF IInv, vars, CountInv, WrongInv, Attempts, Limit, pin_retries
<1>3. UseInv' /\ PinInv' /\ PolicyInv'
  BY DEF IInv, vars, UseInv, PinInv, PolicyInv, TooShort, min_pin_length,
         has_force_pin_change
<1>4. QED
  BY <1>1, <1>2, <1>3 DEF IInv

\* A command of a platform begins.
LEMMA CommandStep ==
    ASSUME IInv, PinCommand \/ TokenCommand
    PROVE  IInv'
<1>1. ASSUME NEW p \in Pins, SetPin(p) PROVE IInv'
  BY <1>1, SetPinStep
<1>2. ASSUME NEW g \in Guesses, NEW p \in Pins, ChangePin(g, p) PROVE IInv'
  BY <1>2, VerifyStep DEF ChangePin
<1>3. ASSUME NEW g \in Guesses, GetPinToken(g) PROVE IInv'
  <2>1. {"mc", "ga"} \in SUBSET Permissions
    BY DEF Permissions
  <2>2. Verify("token", g, 0, {"mc", "ga"}, NoRp)
    BY <1>3 DEF GetPinToken
  <2>3. QED
    BY <2>1, <2>2, VerifyStep
<1>4. ASSUME NEW g \in Guesses, NEW perms \in Requests, NEW rp \in RPs \cup {NoRp},
             GetPinTokenWithPermissions(g, perms, rp)
      PROVE  IInv'
  <2>1. perms \in SUBSET Permissions
    BY RequestsAssumption
  <2>2. Verify("token", g, 0, perms, rp)
    BY <1>4 DEF GetPinTokenWithPermissions
  <2>3. QED
    BY <2>1, <2>2, VerifyStep
<1>5. ASSUME NEW n \in MinLengths, NEW f \in BOOLEAN, SetMinPinLength(n, f) PROVE IInv'
  BY <1>5, SetMinPinLengthStep
<1>6. ASSUME NEW rp \in RPs, MakeCredential(rp) \/ GetAssertion(rp) PROVE IInv'
  BY <1>6, MakeCredentialStep, GetAssertionStep
<1>7. ASSUME NEW rp \in RPs, NEW found \in BOOLEAN, GetSilentAssertion(rp, found)
      PROVE  IInv'
  BY <1>7, GetSilentAssertionStep
<1>8. CASE PinCommand
  BY <1>8, <1>1, <1>2, <1>3, <1>4, <1>5 DEF PinCommand
<1>9. CASE TokenCommand
  BY <1>9, <1>6, <1>7 DEF TokenCommand
<1>10. QED
  BY <1>8, <1>9

\* Every step keeps the invariant.
LEMMA NextStep ==
    ASSUME IInv, [Next]_vars
    PROVE  IInv'
<1>1. CASE PinCommand \/ TokenCommand
  BY <1>1, CommandStep
<1>2. CASE AskWithoutToken \/ Reset \/ OtherCommand
  BY <1>2, AskWithoutTokenStep, ResetStep, OtherCommandStep
<1>3. CASE Compare \/ IssueToken \/ CheckNewPin \/ ResetTokens
  BY <1>3, CompareStep, IssueTokenStep, CheckNewPinStep, ResetTokensStep
<1>4. CASE PresenceGiven \/ PresenceRefused \/ ClearStore \/ RenewAll
  BY <1>4, PresenceGivenStep, PresenceRefusedStep, ClearStoreStep, RenewAllStep
<1>5. CASE StoreCall
  BY <1>5, PreDeleteStep, CreateKeyStep, WriteValueStep, RemoveKeyStep, StoreErrorStep,
     ReadErrorStep
  DEF StoreCall
<1>6. CASE Tick \/ PowerCycle
  BY <1>6, TickStep, PowerCycleStep
<1>7. CASE UNCHANGED vars
  BY <1>7, StutterStep
<1>8. QED
  BY <1>1, <1>2, <1>3, <1>4, <1>5, <1>6, <1>7 DEF Next

\* The inductive invariant holds in every reachable state.
THEOREM Invariance == Spec => []IInv
<1>1. Init => IInv
  BY InitStep
<1>2. IInv /\ [Next]_vars => IInv'
  BY NextStep
<1>3. QED
  BY <1>1, <1>2, PTL DEF Spec

----------------------------------------------------------------------------
(* The promises. *)

\* The variables keep their types.
THEOREM TypeCorrect == Spec => []TypeOK
<1>1. IInv => TypeOK
  BY DEF IInv
<1>2. QED
  BY <1>1, Invariance, PTL

\* Wrong PINs and the attempts left never exceed the retry limit of storage.rs,
\* whatever is cut off, but for the counters lost in the middle of their Insert.
THEOREM GuessLimited == Spec => []GuessLimit
<1>1. IInv => GuessLimit
  BY DEF IInv, CountInv, Limit, GuessLimit
<1>2. QED
  BY <1>1, Invariance, PTL

\* verify_pin_hash_enc compares no more than MaxMismatches wrong PINs between
\* two power cycles, but for those after which the store failed to read the
\* retries.
THEOREM PowerUpLimited == Spec => []PowerUpLimit
<1>1. IInv => PowerUpLimit
  BY LimitsAssumption DEF IInv, TypeOK, WrongInv, PowerUpLimit
<1>2. QED
  BY <1>1, Invariance, PTL

\* A PIN that setMinPINLength made too short has to be changed, unless the
\* Insert of the flag itself was cut off.
THEOREM PolicyKept == Spec => []PolicyHolds
<1>1. ASSUME IInv PROVE PolicyHolds
  <2>1. pin_hash_is_some(disk) => disk["pin"] \in Pins
    BY <1>1 DEF IInv, CallInv, pin_hash_is_some, Absent, Empty
  <2>2. QED
    BY <1>1, <2>1, InterruptedMeans DEF IInv, PolicyInv, TooShort, PolicyHolds
<1>2. QED
  BY <1>1, Invariance, PTL

\* A token a command may present was bought with the PIN that is set now,
\* unless a write failed since power-up.
THEOREM TokenForThisPin == Spec => []TokenOfThisPin
<1>1. IInv => TokenOfThisPin
  BY DEF IInv, CallInv, PinInv, TokenOfThisPin
<1>2. QED
  BY <1>1, Invariance, PTL

\* ensure_rp_id_permission: a token serves one relying party, also one that
\* was issued without naming any.
THEOREM OneRp == Spec => []OneRelyingParty
<1>1. IInv => OneRelyingParty
  BY DEF IInv, UseInv, OneRelyingParty
<1>2. QED
  BY <1>1, Invariance, PTL

\* clear_token_flags: a token stands for at most one operation with the
\* user's presence.
THEOREM SinglePresence == Spec => []OnePresence
<1>1. IInv => OnePresence
  BY DEF IInv, UseInv, OnePresence
<1>2. QED
  BY <1>1, Invariance, PTL

=============================================================================
