------------------------- MODULE GeneExchangeProofs -------------------------
(***************************************************************************)
(* Proofs about GeneExchange: its type invariant, that no badge breeds     *)
(* with itself, and that it listens again after a scan, for any number of  *)
(* badges, keys, scans and mishaps.                                        *)
(***************************************************************************)
EXTENDS GeneExchange, TLAPS

-----------------------------------------------------------------------------
(* Messages.                                                               *)

\* The message the main loop takes is a message, and the rest are messages.
LEMMA TakeType ==
    ASSUME TypeOK, NEW b \in Badges, q[b] # <<>>
    PROVE  /\ Head(q[b]) \in Messages
           /\ Rest(b) \in Seq(Messages)
  <1>1. q[b] \in Seq(Messages)
    BY DEF TypeOK
  <1> QED
    BY <1>1 DEF Rest

\* The code of a HandleQr message is one the camera can read.
LEMMA CodeType ==
    ASSUME NEW m \in Messages, m.op = "HandleQr"
    PROVE  m.code \in Codes \cup {Junk, TestCode}
  BY DEF Messages

\* The key of a KeyPress message.
LEMMA KeyType ==
    ASSUME NEW m \in Messages, m.op = "KeyPress"
    PROVE  m.k \in Keys /\ m.auto \in BOOLEAN
  BY DEF Messages

\* What the constructors build.
LEMMA MessagesBuilt ==
    /\ \A k \in Keys, auto \in BOOLEAN : KeyPress(k, auto) \in Messages
    /\ \A code \in Codes \cup {Junk, TestCode} : HandleQrMsg(code) \in Messages
    /\ \A op \in {"AbortQr", "KeepGene", "RevertGene", "MenuDone", "SkipKey"}, auto \in BOOLEAN :
          Msg(op, auto) \in Messages
  <1>1. \A k \in Keys, auto \in BOOLEAN : KeyPress(k, auto) \in Messages
    BY DEF KeyPress, Messages
  <1>2. \A code \in Codes \cup {Junk, TestCode} : HandleQrMsg(code) \in Messages
    BY DEF HandleQrMsg, Messages
  <1>3. \A op \in {"AbortQr", "KeepGene", "RevertGene", "MenuDone", "SkipKey"}, auto \in BOOLEAN :
          Msg(op, auto) \in Messages
    BY DEF Msg, Messages
  <1> QED
    BY <1>1, <1>2, <1>3

\* Messages added to a mailbox leave it a mailbox.
LEMMA EnqueueType ==
    ASSUME TypeOK, NEW b \in Badges, NEW rest \in Seq(Messages),
           NEW m \in Messages, NEW n \in Messages
    PROVE  /\ q[b] \in Seq(Messages)
           /\ Append(rest, m) \in Seq(Messages)
           /\ rest \o <<m>> \in Seq(Messages)
           /\ rest \o <<m, n>> \in Seq(Messages)
  <1>1. q[b] \in Seq(Messages)
    BY DEF TypeOK
  <1>2. <<m>> \in Seq(Messages) /\ <<m, n>> \in Seq(Messages)
    OBVIOUS
  <1> QED
    BY <1>1, <1>2

\* A nonce that is generated is a nonce, and a code that is shown is a code.
LEMMA FreshType ==
    ASSUME TypeOK, NEW b \in Badges
    PROVE  /\ Fresh(b) \in Nonces
           /\ KeyCode(Fresh(b)) \in Codes
  <1>1. nonces[b] + 1 \in Nat \ {0}
    BY DEF TypeOK
  <1>2. Fresh(b) \in Nonces
    BY <1>1 DEF Fresh, Nonces
  <1> QED
    BY <1>2 DEF KeyCode, Codes

\* Generating a nonce keeps the types.
LEMMA NewNonceType ==
    ASSUME TypeOK, NEW b \in Badges, NewNonce(b)
    PROVE  /\ nonce_mine' \in [Badges -> Nonces \cup {None}]
           /\ nonces' \in [Badges -> Nat]
  <1>1. Fresh(b) \in Nonces
    BY FreshType
  <1>2. nonce_mine' = [nonce_mine EXCEPT ![b] = Fresh(b)]
    BY DEF NewNonce
  <1>3. nonces' \in [Badges -> Nat]
    BY DEF NewNonce, TypeOK
  <1> HIDE DEF Fresh
  <1> QED
    BY <1>1, <1>2, <1>3 DEF TypeOK

-----------------------------------------------------------------------------
(* Type correctness.                                                       *)

\* What a key puts into the vault's mailbox: itself, the end of a scan, or both.
LEMMA PressMail ==
    ASSUME TypeOK, NEW b \in Badges, NEW k \in Keys, NEW heard \in BOOLEAN, Press(b, k, heard)
    PROVE  \/ /\ heard /\ ~scanning[b]
              /\ q' = [q EXCEPT ![b] = Append(q[b], KeyPress(k, FALSE))]
           \/ /\ heard /\ scanning[b]
              /\ q' = [q EXCEPT ![b] = Append(Append(q[b], KeyPress(k, FALSE)), Msg("AbortQr", FALSE))]
           \/ /\ ~heard /\ scanning[b]
              /\ q' = [q EXCEPT ![b] = Append(q[b], Msg("AbortQr", FALSE))]
  <1> DEFINE s     == q[b]
             key   == KeyPress(k, FALSE)
             abort == Msg("AbortQr", FALSE)
  <1>1. s \in Seq(Messages) /\ key \in Messages /\ abort \in Messages
    BY MessagesBuilt DEF TypeOK
  <1>2. /\ heard \/ scanning[b]
        /\ q' = [q EXCEPT ![b] = s \o (IF heard THEN <<key>> ELSE <<>>)
                                   \o (IF scanning[b] THEN <<abort>> ELSE <<>>)]
    BY DEF Press
  <1> HIDE DEF s, key, abort
  <1>3. /\ (s \o <<key>>) \o <<>> = Append(s, key)
        /\ (s \o <<key>>) \o <<abort>> = Append(Append(s, key), abort)
        /\ (s \o <<>>) \o <<abort>> = Append(s, abort)
    BY <1>1
  <1>4. CASE heard /\ ~scanning[b]
    BY <1>2, <1>3, <1>4 DEF s, key, abort
  <1>5. CASE heard /\ scanning[b]
    BY <1>2, <1>3, <1>5 DEF s, key, abort
  <1>6. CASE ~heard /\ scanning[b]
    BY <1>2, <1>3, <1>6 DEF s, key, abort
  <1> QED
    BY <1>2, <1>4, <1>5, <1>6

\* What the world does keeps every variable in its type.
LEMMA WorldKeepsTypes ==
    ASSUME TypeOK, NEW b \in Badges, WorldNext(b) \/ TimerRaisesMenu(b)
    PROVE  TypeOK'
  <1> USE BoundsAssumption, MessagesBuilt
  <1>1. ASSUME NEW k \in Keys, NEW heard \in BOOLEAN, Press(b, k, heard) PROVE TypeOK'
    <2> DEFINE key   == KeyPress(k, FALSE)
               abort == Msg("AbortQr", FALSE)
    <2>1. key \in Messages /\ abort \in Messages /\ q[b] \in Seq(Messages)
      BY DEF TypeOK
    <2>2. \/ q' = [q EXCEPT ![b] = Append(q[b], key)]
          \/ q' = [q EXCEPT ![b] = Append(Append(q[b], key), abort)]
          \/ q' = [q EXCEPT ![b] = Append(q[b], abort)]
      BY <1>1, PressMail
    <2> HIDE DEF key, abort
    <2>3. /\ Append(q[b], key) \in Seq(Messages)
          /\ Append(Append(q[b], key), abort) \in Seq(Messages)
          /\ Append(q[b], abort) \in Seq(Messages)
      BY <2>1
    <2>4. q' \in [Badges -> Seq(Messages)]
      BY <2>2, <2>3 DEF TypeOK
    <2>5. keys' \in 0 .. MaxKeys
      BY <1>1 DEF Press, TypeOK
    <2>6. unheard' \in [Badges -> BOOLEAN]
      BY <1>1 DEF Press, TypeOK
    <2> QED
      BY <1>1, <2>4, <2>5, <2>6 DEF Press, TypeOK, geneVars
  <1>2. ASSUME NEW code \in shown \cup {Junk, TestCode}, Scan(b, code) PROVE TypeOK'
    <2>1. code \in Codes \cup {Junk, TestCode}
      BY DEF TypeOK
    <2>2. q' \in [Badges -> Seq(Messages)]
      <3>1. HandleQrMsg(code) \in Messages
        BY <2>1
      <3>2. Append(q[b], HandleQrMsg(code)) \in Seq(Messages)
        BY <3>1, EnqueueType DEF TypeOK
      <3>3. q' = q \/ q' = [q EXCEPT ![b] = Append(q[b], HandleQrMsg(code))]
        BY <1>2 DEF Scan
      <3> QED
        BY <3>2, <3>3 DEF TypeOK
    <2>3. deaf' \in [Badges -> BOOLEAN] /\ mishaps' \in 0 .. MaxMishaps
      <3>1. Mishap(b) \/ UNCHANGED <<deaf, mishaps>>
        BY <1>2 DEF Scan
      <3>2. CASE Mishap(b)
        BY <3>2 DEF Mishap, TypeOK
      <3>3. CASE UNCHANGED <<deaf, mishaps>>
        BY <3>3 DEF TypeOK
      <3> QED
        BY <3>1, <3>2, <3>3
    <2> QED
      BY <1>2, <2>2, <2>3 DEF Scan, TypeOK, geneVars
  <1>3. CASE CameraError(b)
    BY <1>3 DEF CameraError, Mishap, TypeOK, geneVars
  <1>4. CASE SuspendSkipsKey(b)
    <2>1. Append(q[b], Msg("SkipKey", FALSE)) \in Seq(Messages)
      BY EnqueueType DEF TypeOK
    <2>2. q' \in [Badges -> Seq(Messages)]
      BY <1>4, <2>1 DEF SuspendSkipsKey, TypeOK
    <2>3. deaf' \in [Badges -> BOOLEAN] /\ mishaps' \in 0 .. MaxMishaps
      BY <1>4 DEF SuspendSkipsKey, Mishap, TypeOK
    <2> QED
      BY <1>4, <2>2, <2>3 DEF SuspendSkipsKey, TypeOK, uiVars, geneVars
  <1>5. CASE TimerRaisesMenu(b)
    <2>1. Append(q[b], KeyPress("menu", TRUE)) \in Seq(Messages)
      BY EnqueueType DEF TypeOK, Keys
    <2>2. q' \in [Badges -> Seq(Messages)]
      BY <1>5, <2>1 DEF TimerRaisesMenu, TypeOK
    <2>3. timers' \in [Badges -> Nat]
      BY <1>5 DEF TimerRaisesMenu, TypeOK
    <2> QED
      BY <1>5, <2>2, <2>3 DEF TimerRaisesMenu, TypeOK, uiVars, geneVars
  <1> QED
    BY <1>1, <1>2, <1>3, <1>4, <1>5 DEF WorldNext

\* So do the main loop's handlers.
LEMMA LoopKeepsTypes ==
    ASSUME TypeOK, NEW b \in Badges, LoopNext(b)
    PROVE  TypeOK'
  <1> USE MessagesBuilt
  <1>1. /\ Head(q[b]) \in Messages
        /\ Rest(b) \in Seq(Messages)
    BY TakeType DEF LoopNext, SkipKey, MenuKey, PlainKey, AbortQr, HandleQr, KeepGene,
                    RevertGene, MenuDone, SkipKeyRequest, Take
  <1>2. CASE SkipKey(b)
    BY <1>1, <1>2 DEF SkipKey, TypeOK, geneVars, worldVars
  <1>3. CASE MenuKey(b)
    <2>1. Head(q[b]).auto \in BOOLEAN
      BY <1>1, <1>3, KeyType DEF MenuKey, Take
    <2>2. q' \in [Badges -> Seq(Messages)]
      <3> DEFINE close == Msg("MenuDone", Head(q[b]).auto)
                 keep  == Msg("KeepGene", Head(q[b]).auto)
                 undo  == Msg("RevertGene", Head(q[b]).auto)
      <3>1. close \in Messages /\ keep \in Messages /\ undo \in Messages
        BY <2>1
      <3>2. \/ q' = [q EXCEPT ![b] = Rest(b)]
            \/ q' = [q EXCEPT ![b] = Append(Rest(b), close)]
            \/ q' = [q EXCEPT ![b] = Rest(b) \o <<keep, close>>]
            \/ q' = [q EXCEPT ![b] = Rest(b) \o <<undo, close>>]
        BY <1>3 DEF MenuKey
      <3> HIDE DEF close, keep, undo
      <3>3. /\ Append(Rest(b), close) \in Seq(Messages)
            /\ Rest(b) \o <<keep, close>> \in Seq(Messages)
            /\ Rest(b) \o <<undo, close>> \in Seq(Messages)
        BY <1>1, <3>1, EnqueueType
      <3> QED
        BY <1>1, <3>2, <3>3 DEF TypeOK
    <2>3. selected' \in [Badges -> {0, 1}]
      BY <1>3 DEF MenuKey, SelectNext, TypeOK
    <2> QED
      BY <1>3, <2>2, <2>3 DEF MenuKey, TypeOK, geneVars, worldVars
  <1>4. CASE PlainKey(b)
    <2>1. mode' \in [Badges -> Modes]
      BY <1>4 DEF PlainKey, ModeAfter, Modes, TypeOK
    <2>2. /\ nonce_mine' \in [Badges -> Nonces \cup {None}]
          /\ nonces' \in [Badges -> Nat]
          /\ shown' \in SUBSET Codes
      <3> DEFINE k == Head(q[b]).k
      <3>1. CASE NewNonce(b) /\ shown' = shown \cup {KeyCode(Fresh(b))}
        BY <3>1, FreshType, NewNonceType DEF TypeOK
      <3>2. CASE nonce_mine' = [nonce_mine EXCEPT ![b] = None] /\ UNCHANGED <<nonces, shown>>
        BY <3>2 DEF TypeOK
      <3>3. CASE UNCHANGED <<nonce_mine, nonces, shown>>
        BY <3>3 DEF TypeOK
      <3>4. KeyNonce(b, k)
        BY <1>4 DEF PlainKey
      <3> QED
        BY <3>1, <3>2, <3>3, <3>4 DEF KeyNonce
    <2> QED
      BY <1>1, <1>4, <2>1, <2>2 DEF PlainKey, TypeOK
  <1>5. CASE AbortQr(b)
    BY <1>1, <1>5 DEF AbortQr, Modes, TypeOK, geneVars, worldVars
  <1>6. CASE HandleQr(b)
    <2> DEFINE code == Head(q[b]).code
    <2>1. code \in Codes \cup {Junk, TestCode}
      BY <1>1, <1>6, CodeType DEF HandleQr, Take
    <2>6. /\ q' \in [Badges -> Seq(Messages)]
          /\ skip_one_key' \in [Badges -> BOOLEAN]
          /\ unheard' \in [Badges -> BOOLEAN]
          /\ UNCHANGED <<menu_active, selected, scanning, saved, deaf, keys, mishaps>>
      BY <1>1, <1>6 DEF HandleQr, StopSkipping, TypeOK
    <2>2. CASE Answer(b, code)
      <3>1. code.nonce \in Nonces
        BY <2>1, <2>2 DEF Answer, Codes, GeneCodes, Junk, TestCode
      <3>2. GeneCode(code.nonce, b) \in Codes
        BY <3>1 DEF GeneCode, Codes, GeneCodes
      <3>3. /\ nonce_mine' \in [Badges -> Nonces \cup {None}]
            /\ nonces' \in [Badges -> Nat]
        BY <2>2, NewNonceType DEF Answer
      <3> QED
        BY <2>6, <2>2, <3>2, <3>3 DEF Answer, Modes, TypeOK
    <2>3. CASE Breed(b, code)
      <3>1. code \in GeneCodes
        BY <2>1, <2>3 DEF Breed, Codes, GeneCodes, Junk, TestCode
      <3>2. accepted' \in [Badges -> Seq(GeneCodes)]
        BY <2>3, <3>1 DEF Breed, TypeOK
      <3>3. Len(accepted'[b]) \in Nat
        BY <3>2
      <3>4. gene_cache' \in [Badges -> Nat] /\ prior_gene' \in [Badges -> Nat \cup {None}]
        BY <2>3, <3>3 DEF Breed, TypeOK
      <3>5. timers' \in [Badges -> Nat]
        BY <2>3 DEF Breed, TypeOK
      <3> QED
        BY <2>6, <2>3, <3>2, <3>4, <3>5 DEF Breed, Modes, TypeOK
    <2>4. CASE Refuse(b, code)
      BY <2>6, <2>4 DEF Refuse, Modes, TypeOK
    <2>5. CASE UNCHANGED <<mode, nonce_mine, nonces, gene_cache, prior_gene, accepted, timers, shown>>
      BY <2>6, <2>5 DEF TypeOK
    <2> QED
      BY <1>6, <2>2, <2>3, <2>4, <2>5 DEF HandleQr
  <1>7. CASE KeepGene(b)
    BY <1>1, <1>7 DEF KeepGene, Modes, TypeOK, worldVars
  <1>8. CASE RevertGene(b)
    <2>1. gene_cache' \in [Badges -> Nat] /\ prior_gene' \in [Badges -> Nat \cup {None}]
      BY <1>8 DEF RevertGene, TypeOK
    <2> QED
      BY <1>1, <1>8, <2>1 DEF RevertGene, Modes, TypeOK, worldVars
  <1>9. CASE MenuDone(b)
    BY <1>1, <1>9 DEF MenuDone, TypeOK, geneVars, worldVars
  <1>10. CASE SkipKeyRequest(b)
    BY <1>1, <1>10 DEF SkipKeyRequest, TypeOK, geneVars, worldVars
  <1> QED
    BY <1>2, <1>3, <1>4, <1>5, <1>6, <1>7, <1>8, <1>9, <1>10 DEF LoopNext

\* Theorem: GeneExchange is type correct.
THEOREM TypeCorrect == Spec => []TypeOK
  <1>1. Init => TypeOK
    BY BoundsAssumption DEF Init, TypeOK, Modes
  <1>2. TypeOK /\ [Next]_vars => TypeOK'
    <2> SUFFICES ASSUME TypeOK, [Next]_vars PROVE TypeOK'
      OBVIOUS
    <2>1. ASSUME NEW b \in Badges, WorldNext(b) \/ TimerRaisesMenu(b) PROVE TypeOK'
      BY <2>1, WorldKeepsTypes
    <2>2. ASSUME NEW b \in Badges, LoopNext(b) PROVE TypeOK'
      BY <2>2, LoopKeepsTypes
    <2>3. CASE UNCHANGED vars
      BY <2>3 DEF vars, uiVars, geneVars, worldVars, TypeOK
    <2> QED
      BY <2>1, <2>2, <2>3 DEF Next
  <1> QED
    BY <1>1, <1>2, PTL DEF Spec

-----------------------------------------------------------------------------
(* No badge breeds with itself.  The invariant that carries the proof: a   *)
(* badge's nonce, if it has one, is the newest it generated (Current), and *)
(* a code that a badge made for its own nonce is for an older one (Known), *)
(* whether the code is on a screen, in a photograph or in a mailbox.       *)

Current == \A b \in Badges : nonce_mine[b] = None \/ nonce_mine[b] = <<b, nonces[b]>>

Known(code) ==
    /\ code.kind \in {"key", "gene"} => code.nonce[2] <= nonces[code.nonce[1]]
    /\ code.kind = "gene" /\ code.from = code.nonce[1] => code.nonce[2] < nonces[code.nonce[1]]

Good(m) == m.op = "HandleQr" => Known(m.code)

AllGood(s) == \A i \in 1 .. Len(s) : Good(s[i])

CodesKnown ==
    /\ \A code \in shown : Known(code)
    /\ \A b \in Badges : AllGood(q[b])

SelfInv == TypeOK /\ Current /\ CodesKnown /\ NoSelfBreeding

\* Taking a message from good messages.
LEMMA GoodTake ==
    ASSUME NEW s \in Seq(Messages), AllGood(s), s # <<>>
    PROVE  AllGood(Tail(s)) /\ Good(Head(s))
  BY DEF AllGood

\* Adding good messages to good messages.
LEMMA GoodSequences ==
    ASSUME NEW s \in Seq(Messages), AllGood(s),
           NEW m \in Messages, Good(m), NEW n \in Messages, Good(n)
    PROVE  /\ AllGood(Append(s, m))
           /\ AllGood(s \o <<m>>)
           /\ AllGood(s \o <<m, n>>)
  <1>1. AllGood(Append(s, m))
    BY DEF AllGood
  <1>2. s \o <<m>> = Append(s, m)
    OBVIOUS
  <1>3. AllGood(s \o <<m, n>>)
    <2> SUFFICES ASSUME NEW i \in 1 .. Len(s \o <<m, n>>) PROVE Good((s \o <<m, n>>)[i])
      BY DEF AllGood
    <2>1. Len(s \o <<m, n>>) = Len(s) + 2
      OBVIOUS
    <2>2. CASE i \in 1 .. Len(s)
      <3>1. (s \o <<m, n>>)[i] = s[i]
        BY <2>2
      <3> QED
        BY <2>2, <3>1 DEF AllGood
    <2>3. CASE i = Len(s) + 1
      BY <2>3
    <2>4. CASE i = Len(s) + 2
      BY <2>4
    <2> QED
      BY <2>1, <2>2, <2>3, <2>4
  <1> QED
    BY <1>1, <1>2, <1>3

\* Nonces only grow, so what is known stays known.
LEMMA KnownStays ==
    ASSUME NEW code \in Codes \cup {Junk, TestCode}, Known(code),
           \A o \in Badges : nonces[o] \in Nat /\ nonces'[o] \in Nat /\ nonces[o] <= nonces'[o]
    PROVE  Known(code)'
  <1>1. CASE code \in {Junk, TestCode}
    BY <1>1 DEF Known, Junk, TestCode
  <1>2. CASE code \in Codes
    <2>1. code.nonce[1] \in Badges /\ code.nonce[2] \in Nat
      BY <1>2 DEF Codes, GeneCodes, Nonces
    <2> QED
      BY <2>1 DEF Known
  <1> QED
    BY <1>1, <1>2

\* Every step leaves good messages in every mailbox.
LEMMA MailboxesGood ==
    ASSUME SelfInv, NEW b \in Badges, WorldNext(b) \/ TimerRaisesMenu(b) \/ LoopNext(b),
           NEW c \in Badges
    PROVE  AllGood(q'[c])
  <1> DEFINE Only(s) == q' = [q EXCEPT ![b] = s]
  <1>1. ASSUME NEW s, Only(s), AllGood(s) PROVE AllGood(q'[c])
    BY <1>1 DEF SelfInv, TypeOK, CodesKnown
  <1>2. CASE q' = q
    BY <1>2 DEF SelfInv, CodesKnown
  <1>3. q[b] \in Seq(Messages) /\ AllGood(q[b])
    BY DEF SelfInv, TypeOK, CodesKnown
  <1>4. \A op, auto : op # "HandleQr" => Good(Msg(op, auto))
    BY DEF Good, Msg
  <1>5. \A k, auto : Good(KeyPress(k, auto))
    BY DEF Good, KeyPress
  <1> HIDE DEF Only
  <1>6. ASSUME NEW k \in Keys, NEW heard \in BOOLEAN, Press(b, k, heard) PROVE AllGood(q'[c])
    <2> DEFINE key   == KeyPress(k, FALSE)
               abort == Msg("AbortQr", FALSE)
    <2>1. key \in Messages /\ abort \in Messages /\ Good(key) /\ Good(abort)
      BY <1>4, <1>5, MessagesBuilt
    <2>2. Only(Append(q[b], key)) \/ Only(Append(Append(q[b], key), abort)) \/ Only(Append(q[b], abort))
      BY <1>6, PressMail DEF Only, SelfInv
    <2> HIDE DEF key, abort
    <2>3. AllGood(Append(q[b], key)) /\ AllGood(Append(q[b], abort))
      BY <1>3, <2>1, GoodSequences
    <2>5. Append(q[b], key) \in Seq(Messages)
      BY <1>3, <2>1
    <2>4. AllGood(Append(Append(q[b], key), abort))
      BY <2>1, <2>3, <2>5, GoodSequences
    <2> QED
      BY <1>1, <2>2, <2>3, <2>4
  <1>7. ASSUME NEW code \in shown \cup {Junk, TestCode}, Scan(b, code) PROVE AllGood(q'[c])
    <2> DEFINE m == HandleQrMsg(code)
    <2>1. Known(code)
      <3>1. Known(Junk) /\ Known(TestCode)
        BY DEF Known, Junk, TestCode
      <3> QED
        BY <3>1 DEF SelfInv, CodesKnown
    <2>2. m \in Messages /\ Good(m)
      <3>1. code \in Codes \cup {Junk, TestCode}
        BY DEF SelfInv, TypeOK
      <3>2. m \in Messages
        BY <3>1, MessagesBuilt
      <3>3. Good(m)
        BY <2>1 DEF Good, HandleQrMsg
      <3> QED
        BY <3>2, <3>3
    <2>3. q' = q \/ Only(Append(q[b], m))
      BY <1>7 DEF Scan, Only
    <2> HIDE DEF m
    <2>4. AllGood(Append(q[b], m))
      BY <1>3, <2>2, GoodSequences
    <2> QED
      BY <1>1, <1>2, <2>3, <2>4
  <1>8. CASE CameraError(b)
    BY <1>2, <1>8 DEF CameraError
  <1>9. CASE SuspendSkipsKey(b) \/ TimerRaisesMenu(b)
    <2>1. PICK m \in Messages : Good(m) /\ Only(Append(q[b], m))
      BY <1>4, <1>5, <1>9, MessagesBuilt DEF SuspendSkipsKey, TimerRaisesMenu, Only, Keys
    <2>2. AllGood(Append(q[b], m))
      BY <1>3, <2>1, GoodSequences
    <2> QED
      BY <1>1, <2>1, <2>2
  <1>10. CASE LoopNext(b)
    <2>1. q[b] # <<>>
      BY <1>10 DEF LoopNext, SkipKey, MenuKey, PlainKey, AbortQr, HandleQr, KeepGene,
                   RevertGene, MenuDone, SkipKeyRequest, Take
    <2>2. Head(q[b]) \in Messages /\ Rest(b) \in Seq(Messages) /\ Good(Head(q[b])) /\ AllGood(Rest(b))
      BY <1>3, <2>1, TakeType, GoodTake DEF Rest, SelfInv
    <2>3. CASE Only(Rest(b))
      BY <1>1, <2>2, <2>3
    <2>4. CASE MenuKey(b)
      <3> DEFINE auto  == Head(q[b]).auto
                 close == Msg("MenuDone", auto)
                 keep  == Msg("KeepGene", auto)
                 undo  == Msg("RevertGene", auto)
      <3>1. auto \in BOOLEAN
        BY <2>2, <2>4, KeyType DEF MenuKey, Take
      <3>2. /\ close \in Messages /\ keep \in Messages /\ undo \in Messages
            /\ Good(close) /\ Good(keep) /\ Good(undo)
        BY <1>4, <3>1, MessagesBuilt
      <3>3. \/ Only(Rest(b))
            \/ Only(Append(Rest(b), close))
            \/ Only(Rest(b) \o <<keep, close>>)
            \/ Only(Rest(b) \o <<undo, close>>)
        BY <2>4 DEF MenuKey, Only
      <3> HIDE DEF auto, close, keep, undo
      <3>4. /\ AllGood(Append(Rest(b), close))
            /\ AllGood(Rest(b) \o <<keep, close>>)
            /\ AllGood(Rest(b) \o <<undo, close>>)
        BY <2>2, <3>2, GoodSequences
      <3> QED
        BY <1>1, <2>3, <3>3, <3>4
    <2>5. MenuKey(b) \/ Only(Rest(b))
      BY <1>10 DEF LoopNext, SkipKey, PlainKey, AbortQr, HandleQr, KeepGene, RevertGene,
                   MenuDone, SkipKeyRequest, Only
    <2> QED
      BY <2>3, <2>4, <2>5
  <1> QED
    BY <1>6, <1>7, <1>8, <1>9, <1>10 DEF WorldNext

\* The parts of the state the invariant speaks of change in two handlers only.
LEMMA OtherStepsLeaveGenes ==
    ASSUME NEW b \in Badges, WorldNext(b) \/ TimerRaisesMenu(b) \/ LoopNext(b),
           ~PlainKey(b), ~HandleQr(b)
    PROVE  UNCHANGED <<nonce_mine, nonces, shown, accepted>>
  BY DEF WorldNext, LoopNext, TimerRaisesMenu, Press, Scan, CameraError, SuspendSkipsKey, SkipKey,
         MenuKey, AbortQr, KeepGene, RevertGene, MenuDone, SkipKeyRequest, geneVars, worldVars

\* Generating a nonce: it is the newest, and the counters grow.
LEMMA NewNonceFact ==
    ASSUME SelfInv, NEW b \in Badges, NewNonce(b)
    PROVE  /\ Current'
           /\ nonces'[b] = nonces[b] + 1
           /\ \A o \in Badges : nonces[o] \in Nat /\ nonces'[o] \in Nat /\ nonces[o] <= nonces'[o]
           /\ Fresh(b) = <<b, nonces'[b]>>
  <1>1. nonces'[b] = nonces[b] + 1 /\ nonces[b] \in Nat
    BY DEF SelfInv, TypeOK, NewNonce
  <1>2. ASSUME NEW o \in Badges, o # b PROVE nonces'[o] = nonces[o] /\ nonce_mine'[o] = nonce_mine[o]
    BY <1>2 DEF SelfInv, TypeOK, NewNonce
  <1>3. ASSUME NEW o \in Badges PROVE nonces[o] \in Nat /\ nonces'[o] \in Nat /\ nonces[o] <= nonces'[o]
    <2>1. nonces[o] \in Nat
      BY <1>3 DEF SelfInv, TypeOK
    <2> QED
      BY <1>1, <1>2, <2>1
  <1>4. Fresh(b) = <<b, nonces'[b]>>
    BY <1>1 DEF Fresh
  <1>5. nonce_mine'[b] = Fresh(b)
    BY DEF SelfInv, TypeOK, NewNonce
  <1>6. ASSUME NEW o \in Badges PROVE nonce_mine'[o] = None \/ nonce_mine'[o] = <<o, nonces'[o]>>
    BY <1>2, <1>4, <1>5 DEF SelfInv, Current
  <1> QED
    BY <1>1, <1>3, <1>4, <1>6 DEF Current

\* Dropping or keeping a nonce.
LEMMA OldNonceFact ==
    ASSUME SelfInv, NEW b \in Badges, UNCHANGED nonces,
           UNCHANGED nonce_mine \/ nonce_mine' = [nonce_mine EXCEPT ![b] = None]
    PROVE  /\ Current'
           /\ \A o \in Badges : nonces[o] \in Nat /\ nonces'[o] \in Nat /\ nonces[o] <= nonces'[o]
  <1>1. ASSUME NEW o \in Badges PROVE nonces[o] \in Nat /\ nonces'[o] = nonces[o]
    BY <1>1 DEF SelfInv, TypeOK
  <1>2. ASSUME NEW o \in Badges PROVE nonce_mine'[o] = None \/ nonce_mine'[o] = nonce_mine[o]
    BY <1>2 DEF SelfInv, TypeOK
  <1>3. ASSUME NEW o \in Badges PROVE nonce_mine'[o] = None \/ nonce_mine'[o] = <<o, nonces'[o]>>
    BY <1>1, <1>2 DEF SelfInv, Current
  <1> QED
    BY <1>1, <1>3 DEF Current

\* The codes of the new state are known, if the codes that were added are.
LEMMA CodesStayKnown ==
    ASSUME SelfInv, TypeOK', NEW b \in Badges, WorldNext(b) \/ TimerRaisesMenu(b) \/ LoopNext(b),
           \A o \in Badges : nonces[o] \in Nat /\ nonces'[o] \in Nat /\ nonces[o] <= nonces'[o],
           NEW code, Known(code)', shown' \subseteq shown \cup {code}
    PROVE  CodesKnown'
  <1>1. ASSUME NEW d \in shown PROVE Known(d)'
    BY <1>1, KnownStays DEF SelfInv, TypeOK, CodesKnown
  <1>2. ASSUME NEW c \in Badges PROVE AllGood(q[c])'
    <2>1. AllGood(q'[c])
      BY <1>2, MailboxesGood
    <2>2. ASSUME NEW i \in 1 .. Len(q'[c]) PROVE Good(q[c][i])'
      <3>1. q'[c][i] \in Messages
        BY <1>2, <2>2 DEF TypeOK
      <3>2. ASSUME q'[c][i].op = "HandleQr" PROVE Known(q[c][i].code)'
        <4>1. q'[c][i].code \in Codes \cup {Junk, TestCode}
          BY <3>1, <3>2, CodeType
        <4>2. Known(q'[c][i].code)
          BY <2>1, <2>2, <3>2 DEF AllGood, Good
        <4> QED
          BY <4>1, <4>2, KnownStays
      <3> QED
        BY <3>2 DEF Good
    <2> QED
      BY <2>2 DEF AllGood
  <1> QED
    BY <1>1, <1>2 DEF CodesKnown

\* A key that shows a code shows the newest nonce of its badge.
LEMMA KeyKeepsInv ==
    ASSUME SelfInv, TypeOK', NEW b \in Badges, PlainKey(b)
    PROVE  SelfInv'
  <1> DEFINE k == Head(q[b]).k
  <1>1. NoSelfBreeding'
    BY DEF PlainKey, SelfInv, NoSelfBreeding
  <1>2. LoopNext(b)
    BY DEF LoopNext
  <1>3. CASE NewNonce(b) /\ shown' = shown \cup {KeyCode(Fresh(b))}
    <2>1. PICK code : code = KeyCode(Fresh(b))
      OBVIOUS
    <2>2. nonces'[b] \in Nat /\ Fresh(b) = <<b, nonces'[b]>>
      BY <1>3, NewNonceFact
    <2>3. code.kind = "key" /\ code.nonce = <<b, nonces'[b]>>
      BY <2>1, <2>2 DEF KeyCode
    <2>4. Known(code)'
      BY <2>2, <2>3 DEF Known
    <2> QED
      BY <1>1, <1>2, <1>3, <2>1, <2>4, NewNonceFact, CodesStayKnown DEF SelfInv
  <1>4. CASE UNCHANGED <<nonces, shown>> /\ (UNCHANGED nonce_mine \/ nonce_mine' = [nonce_mine EXCEPT ![b] = None])
    <2>1. Known(Junk)'
      BY DEF Known, Junk
    <2> QED
      BY <1>1, <1>2, <1>4, <2>1, OldNonceFact, CodesStayKnown DEF SelfInv
  <1>5. KeyNonce(b, k)
    BY DEF PlainKey
  <1> QED
    BY <1>3, <1>4, <1>5 DEF KeyNonce

\* The code of a scan's message, and what is known of it.
LEMMA ScannedCode ==
    ASSUME SelfInv, NEW b \in Badges, HandleQr(b)
    PROVE  Head(q[b]).code \in Codes \cup {Junk, TestCode} /\ Known(Head(q[b]).code)
  <1>1. q[b] \in Seq(Messages) /\ AllGood(q[b]) /\ q[b] # <<>> /\ Head(q[b]).op = "HandleQr"
    BY DEF HandleQr, Take, SelfInv, TypeOK, CodesKnown
  <1>2. Head(q[b]) \in Messages /\ Good(Head(q[b]))
    BY <1>1, GoodTake
  <1> QED
    BY <1>1, <1>2, CodeType DEF Good

\* The answer to a code that was shown by the answering badge itself is for a nonce
\* that is no longer its newest, because answering generates another.
LEMMA AnswerKeepsInv ==
    ASSUME SelfInv, TypeOK', NEW b \in Badges, HandleQr(b), Answer(b, Head(q[b]).code)
    PROVE  SelfInv'
  <1>1. PICK theirs : theirs = Head(q[b]).code
    OBVIOUS
  <1>2. PICK code : code = GeneCode(theirs.nonce, b)
    OBVIOUS
  <1>3. /\ NewNonce(b)
        /\ shown' = shown \cup {code}
        /\ UNCHANGED accepted
        /\ theirs.kind = "key"
    BY <1>1, <1>2 DEF Answer
  <1>4. theirs \in Codes \cup {Junk, TestCode} /\ Known(theirs)
    BY <1>1, ScannedCode
  <1>5. theirs.nonce \in Nonces
    BY <1>3, <1>4 DEF Codes, GeneCodes, Junk, TestCode
  <1>6. theirs.nonce[1] \in Badges /\ theirs.nonce[2] \in Nat
    BY <1>5 DEF Nonces
  <1>7. theirs.nonce[2] <= nonces[theirs.nonce[1]]
    BY <1>3, <1>4 DEF Known
  <1>8. code.kind = "gene" /\ code.nonce = theirs.nonce /\ code.from = b
    BY <1>2 DEF GeneCode
  <1>9. Known(code)'
    <2>1. code.nonce[2] <= nonces'[code.nonce[1]]
      BY <1>3, <1>6, <1>7, <1>8, NewNonceFact
    <2>2. ASSUME code.from = code.nonce[1] PROVE code.nonce[2] < nonces'[code.nonce[1]]
      BY <1>3, <1>6, <1>7, <1>8, <2>2, NewNonceFact
    <2> QED
      BY <2>1, <2>2 DEF Known
  <1>10. NoSelfBreeding'
    BY <1>3 DEF SelfInv, NoSelfBreeding
  <1>11. CodesKnown'
    BY <1>3, <1>9, NewNonceFact, CodesStayKnown DEF LoopNext
  <1> QED
    BY <1>3, <1>10, <1>11, NewNonceFact DEF SelfInv

\* A code that decrypts with the newest nonce of a badge was not made by that badge.
LEMMA BreedKeepsInv ==
    ASSUME SelfInv, TypeOK', NEW b \in Badges, HandleQr(b), Breed(b, Head(q[b]).code)
    PROVE  SelfInv'
  <1>1. PICK code : code = Head(q[b]).code
    OBVIOUS
  <1>2. /\ code.kind = "gene"
        /\ nonce_mine[b] = code.nonce
        /\ accepted' = [accepted EXCEPT ![b] = Append(accepted[b], code)]
        /\ UNCHANGED <<nonce_mine, nonces, shown>>
    BY <1>1 DEF Breed
  <1>3. code \in Codes \cup {Junk, TestCode} /\ Known(code)
    BY <1>1, ScannedCode
  <1>4. code \in GeneCodes
    BY <1>2, <1>3 DEF Codes, GeneCodes, Junk, TestCode
  <1>5. code.nonce \in Nonces /\ code.from \in Badges
    BY <1>4 DEF GeneCodes
  <1>6. code.nonce = <<b, nonces[b]>>
    <2>1. code.nonce # None
      BY <1>5, NoneAssumption DEF Nonces
    <2> QED
      BY <1>2, <2>1 DEF SelfInv, Current
  <1>7. code.from # b
    <2>1. nonces[b] \in Nat
      BY DEF SelfInv, TypeOK
    <2> QED
      BY <1>2, <1>3, <1>6, <2>1 DEF Known
  <1>8. NoSelfBreeding'
    <2> SUFFICES ASSUME NEW o \in Badges, NEW i \in 1 .. Len(accepted'[o])
                 PROVE  accepted'[o][i].from # o
      BY DEF NoSelfBreeding
    <2>1. CASE o # b
      <3>1. accepted'[o] = accepted[o]
        BY <1>2, <2>1 DEF SelfInv, TypeOK
      <3> QED
        BY <3>1 DEF SelfInv, NoSelfBreeding
    <2>2. CASE o = b
      <3>1. accepted[b] \in Seq(GeneCodes) /\ accepted'[b] = Append(accepted[b], code)
        BY <1>2 DEF SelfInv, TypeOK
      <3>2. CASE i \in 1 .. Len(accepted[b])
        BY <2>2, <3>1, <3>2 DEF SelfInv, NoSelfBreeding
      <3>3. CASE i = Len(accepted[b]) + 1
        BY <1>7, <2>2, <3>1, <3>3
      <3> QED
        BY <2>2, <3>1, <3>2, <3>3
    <2> QED
      BY <2>1, <2>2
  <1>9. CodesKnown' /\ Current'
    <2>1. Known(Junk)'
      BY DEF Known, Junk
    <2> QED
      BY <1>2, <2>1, OldNonceFact, CodesStayKnown DEF LoopNext
  <1> QED
    BY <1>8, <1>9 DEF SelfInv

\* A step that leaves nonces, codes and accepted codes alone.
LEMMA QuietKeepsInv ==
    ASSUME SelfInv, TypeOK', NEW b \in Badges, WorldNext(b) \/ TimerRaisesMenu(b) \/ LoopNext(b),
           UNCHANGED <<nonce_mine, nonces, shown, accepted>>
    PROVE  SelfInv'
  <1>1. Known(Junk)'
    BY DEF Known, Junk
  <1>2. NoSelfBreeding'
    BY DEF SelfInv, NoSelfBreeding
  <1> QED
    BY <1>1, <1>2, OldNonceFact, CodesStayKnown DEF SelfInv

\* Theorem: no badge ever breeds with itself, whatever codes were photographed, in
\* whatever order they are scanned and whatever keys are pressed (main.rs, HandleQr;
\* config.rs, generate_my_nonce).
THEOREM NeverSelf == Spec => []NoSelfBreeding
  <1>1. Init => SelfInv
    <2> SUFFICES ASSUME Init PROVE SelfInv
      OBVIOUS
    <2>1. TypeOK
      BY BoundsAssumption DEF Init, TypeOK, Modes
    <2>2. Current /\ NoSelfBreeding
      BY DEF Init, Current, NoSelfBreeding
    <2>3. CodesKnown
      BY DEF Init, CodesKnown, AllGood
    <2> QED
      BY <2>1, <2>2, <2>3 DEF SelfInv
  <1>2. SelfInv /\ [Next]_vars => SelfInv'
    <2> SUFFICES ASSUME SelfInv, [Next]_vars PROVE SelfInv'
      OBVIOUS
    <2>1. ASSUME NEW b \in Badges, WorldNext(b) \/ TimerRaisesMenu(b) \/ LoopNext(b) PROVE SelfInv'
      <3>1. TypeOK'
        BY <2>1, WorldKeepsTypes, LoopKeepsTypes DEF SelfInv
      <3>2. CASE PlainKey(b)
        BY <3>1, <3>2, KeyKeepsInv
      <3>3. CASE HandleQr(b)
        <4>1. \/ Answer(b, Head(q[b]).code)
              \/ Breed(b, Head(q[b]).code)
              \/ UNCHANGED <<nonce_mine, nonces, shown, accepted>>
          BY <3>3 DEF HandleQr, Refuse
        <4> QED
          BY <2>1, <3>1, <3>3, <4>1, AnswerKeepsInv, BreedKeepsInv, QuietKeepsInv
      <3>4. CASE ~PlainKey(b) /\ ~HandleQr(b)
        BY <2>1, <3>1, <3>4, OtherStepsLeaveGenes, QuietKeepsInv
      <3> QED
        BY <3>2, <3>3, <3>4
    <2>2. CASE UNCHANGED vars
      BY <2>2 DEF vars, uiVars, geneVars, worldVars, SelfInv, TypeOK, Current, CodesKnown, AllGood,
                  Good, Known, NoSelfBreeding
    <2> QED
      BY <2>1, <2>2 DEF Next
  <1>3. SelfInv => NoSelfBreeding
    BY DEF SelfInv
  <1> QED
    BY <1>1, <1>2, <1>3, PTL DEF Spec

-----------------------------------------------------------------------------
(* A badge listens again after a scan.  The invariant that carries the     *)
(* proof: once the camera is done, what will end GeneScan and what will    *)
(* use up skip_one_key is in the mailbox, in whatever place, and no        *)
(* message that undoes it is (Clean).  A key that went to a dialog leaves  *)
(* nothing to use up skip_one_key (Skips).                                 *)

Harmless(m) == m.op # "SkipKey" /\ (m.op = "HandleQr" => m.code # TestCode)

Clean(s) == \A i \in 1 .. Len(s) : Harmless(s[i])

Has(s, ops) == \E i \in 1 .. Len(s) : s[i].op \in ops

EndsSkip == {"KeyPress", "HandleQr"}
EndsScan == {"AbortQr", "HandleQr"}

Attentive(s, skip, m) ==
    /\ skip => Has(s, EndsSkip)
    /\ m = "GeneScan" => Has(s, EndsScan)

Skips(b) == skip_one_key[b] /\ ~unheard[b]

Listening(b) ==
    deaf[b] \/ (Clean(q[b]) /\ (scanning[b] \/ Attentive(q[b], Skips(b), mode[b])))

ListenInv == \A b \in Badges : Listening(b)

\* Taking a message from the mailbox.
LEMMA HasTake ==
    ASSUME NEW s \in Seq(Messages), s # <<>>
    PROVE  /\ Clean(s) => Clean(Tail(s)) /\ Harmless(Head(s))
           /\ \A ops : Has(s, ops) => Has(Tail(s), ops) \/ Head(s).op \in ops
  <1> DEFINE t == Tail(s)
  <1>1. /\ Len(t) = Len(s) - 1 /\ Len(s) \in Nat \ {0} /\ Head(s) = s[1]
        /\ \A i \in 1 .. Len(s) - 1 : t[i] = s[i + 1]
    OBVIOUS
  <1> HIDE DEF t
  <1>2. /\ \A i \in 1 .. Len(t) : i + 1 \in 1 .. Len(s) /\ t[i] = s[i + 1]
        /\ \A i \in 1 .. Len(s) : i = 1 \/ (i - 1 \in 1 .. Len(t) /\ t[i - 1] = s[i])
        /\ 1 \in 1 .. Len(s)
    BY <1>1
  <1>3. Clean(s) => Clean(t) /\ Harmless(Head(s))
    BY <1>1, <1>2 DEF Clean
  <1>4. \A ops : Has(s, ops) => Has(t, ops) \/ Head(s).op \in ops
    BY <1>1, <1>2 DEF Has
  <1> QED
    BY <1>3, <1>4 DEF t

\* Adding a message to the mailbox.
LEMMA HasAppend ==
    ASSUME NEW s \in Seq(Messages), NEW m \in Messages
    PROVE  /\ Append(s, m) \in Seq(Messages)
           /\ Clean(s) /\ Harmless(m) => Clean(Append(s, m))
           /\ \A ops : Has(s, ops) \/ m.op \in ops => Has(Append(s, m), ops)
  <1> DEFINE t == Append(s, m)
  <1>1. /\ t \in Seq(Messages)
        /\ Len(t) = Len(s) + 1 /\ Len(s) \in Nat
        /\ \A i \in 1 .. Len(s) : t[i] = s[i]
        /\ t[Len(s) + 1] = m
    OBVIOUS
  <1> HIDE DEF t
  <1>2. /\ \A i \in 1 .. Len(t) : (i \in 1 .. Len(s) /\ t[i] = s[i]) \/ t[i] = m
        /\ \A i \in 1 .. Len(s) : i \in 1 .. Len(t) /\ t[i] = s[i]
        /\ Len(s) + 1 \in 1 .. Len(t)
    BY <1>1
  <1>3. Clean(s) /\ Harmless(m) => Clean(t)
    BY <1>2 DEF Clean
  <1>4. \A ops : Has(s, ops) \/ m.op \in ops => Has(t, ops)
    BY <1>1, <1>2 DEF Has
  <1> QED
    BY <1>1, <1>3, <1>4 DEF t

\* Two messages are one and another.
LEMMA TwoMessages ==
    ASSUME NEW s \in Seq(Messages), NEW m \in Messages, NEW n \in Messages
    PROVE  s \o <<m>> = Append(s, m) /\ s \o <<m, n>> = Append(Append(s, m), n)
  OBVIOUS

\* What the constructors build.
LEMMA HarmlessBuilt ==
    /\ \A k, auto : Harmless(KeyPress(k, auto)) /\ KeyPress(k, auto).op \in EndsSkip
    /\ \A op, auto : op \notin {"SkipKey", "HandleQr"} => Harmless(Msg(op, auto))
    /\ \A auto : Msg("AbortQr", auto).op \in EndsScan
    /\ \A code : code # TestCode => Harmless(HandleQrMsg(code))
    /\ \A code : HandleQrMsg(code).op \in EndsSkip /\ HandleQrMsg(code).op \in EndsScan
  BY DEF Harmless, KeyPress, Msg, HandleQrMsg, EndsSkip, EndsScan

\* The mailbox only grew, and the badge is as it was.
LEMMA StillAttentive ==
    ASSUME NEW s \in Seq(Messages), NEW m \in Messages, NEW skip, NEW md, Attentive(s, skip, md)
    PROVE  Attentive(Append(s, m), skip, md)
  BY HasAppend DEF Attentive

\* A message was taken that ends neither, or what it ends is over.
LEMMA AttentiveAfter ==
    ASSUME NEW s \in Seq(Messages), s # <<>>, NEW skip, NEW md, Attentive(s, skip, md),
           NEW skip2, NEW md2,
           skip2 => skip /\ Head(s).op \notin EndsSkip,
           md2 = "GeneScan" => md = "GeneScan" /\ Head(s).op \notin EndsScan
    PROVE  Attentive(Tail(s), skip2, md2)
  BY HasTake DEF Attentive

\* The steps of the world and of the timer, on the badge they happen to.
LEMMA WorldListens ==
    ASSUME TypeOK, NEW b \in Badges, Listening(b), WorldNext(b) \/ TimerRaisesMenu(b)
    PROVE  Listening(b)'
  <1>0. q[b] \in Seq(Messages) /\ b \in DOMAIN q /\ b \in DOMAIN deaf /\ b \in DOMAIN scanning
    BY DEF TypeOK
  <1>1. CASE Mishap(b)
    <2>1. deaf'[b]
      BY <1>0, <1>1 DEF Mishap
    <2> QED
      BY <2>1 DEF Listening
  <1>2. ASSUME NEW k \in Keys, NEW heard \in BOOLEAN, Press(b, k, heard) PROVE Listening(b)'
    <2> DEFINE key   == KeyPress(k, FALSE)
               abort == Msg("AbortQr", FALSE)
    <2>1. /\ key \in Messages /\ abort \in Messages /\ Harmless(key) /\ Harmless(abort)
          /\ key.op \in EndsSkip /\ abort.op \in EndsScan
      BY MessagesBuilt, HarmlessBuilt
    <2>2. /\ UNCHANGED <<mode, skip_one_key, deaf>>
          /\ unheard' = [unheard EXCEPT ![b] = unheard[b] \/ ~heard]
      BY <1>2 DEF Press
    <2>8. unheard'[b] = (unheard[b] \/ ~heard)
      BY <2>2 DEF TypeOK
    <2>6. \/ heard /\ ~scanning[b] /\ q'[b] = Append(q[b], key)
          \/ heard /\ scanning[b] /\ q'[b] = Append(Append(q[b], key), abort)
          \/ ~heard /\ scanning[b] /\ q'[b] = Append(q[b], abort)
      BY <1>0, <1>2, PressMail
    <2> HIDE DEF key, abort
    <2>3. CASE deaf[b]
      BY <2>2, <2>3 DEF Listening
    <2>4. CASE ~deaf[b] /\ heard /\ scanning[b]
      <3>1. Clean(q[b])
        BY <2>4 DEF Listening
      <3>2. q'[b] = Append(Append(q[b], key), abort)
        BY <2>4, <2>6
      <3>3. /\ Append(q[b], key) \in Seq(Messages) /\ Clean(Append(q[b], key))
            /\ Has(Append(q[b], key), EndsSkip)
        BY <1>0, <2>1, <3>1, HasAppend
      <3>4. Clean(q'[b]) /\ Has(q'[b], EndsSkip) /\ Has(q'[b], EndsScan)
        BY <2>1, <3>2, <3>3, HasAppend
      <3> QED
        BY <3>4 DEF Listening, Attentive
    <2>5. CASE ~deaf[b] /\ heard /\ ~scanning[b]
      <3>1. Clean(q[b]) /\ Attentive(q[b], Skips(b), mode[b])
        BY <2>5 DEF Listening
      <3>2. q'[b] = Append(q[b], key)
        BY <2>5, <2>6
      <3>3. Clean(q'[b]) /\ Attentive(q'[b], Skips(b), mode[b])
        BY <1>0, <2>1, <3>1, <3>2, HasAppend, StillAttentive
      <3>4. Skips(b)' = Skips(b)
        BY <2>2, <2>5, <2>8 DEF Skips
      <3> QED
        BY <2>2, <3>3, <3>4 DEF Listening
    <2>7. CASE ~deaf[b] /\ ~heard
      <3>1. Clean(q[b])
        BY <2>6, <2>7 DEF Listening
      <3>2. q'[b] = Append(q[b], abort)
        BY <2>6, <2>7
      <3>3. Clean(q'[b]) /\ Has(q'[b], EndsScan)
        BY <1>0, <2>1, <3>1, <3>2, HasAppend
      <3>4. ~Skips(b)'
        BY <2>7, <2>8 DEF Skips
      <3> QED
        BY <3>3, <3>4 DEF Listening, Attentive
    <2> QED
      BY <2>3, <2>4, <2>5, <2>7
  <1>3. ASSUME NEW code \in shown \cup {Junk, TestCode}, Scan(b, code), ~Mishap(b)
        PROVE  Listening(b)'
    <2> DEFINE m == HandleQrMsg(code)
    <2>1. /\ code # TestCode /\ q'[b] = Append(q[b], m)
          /\ UNCHANGED <<mode, skip_one_key, deaf>> /\ scanning[b]
      BY <1>0, <1>3 DEF Scan
    <2>2. m \in Messages
      BY MessagesBuilt DEF TypeOK
    <2>3. Harmless(m) /\ m.op \in EndsSkip /\ m.op \in EndsScan
      BY <2>1, HarmlessBuilt
    <2> HIDE DEF m
    <2>4. Clean(q[b]) => Clean(q'[b])
      BY <1>0, <2>1, <2>2, <2>3, HasAppend
    <2>5. Has(q'[b], EndsSkip) /\ Has(q'[b], EndsScan)
      BY <1>0, <2>1, <2>2, <2>3, HasAppend
    <2> QED
      BY <2>1, <2>4, <2>5 DEF Listening, Attentive
  <1>4. CASE TimerRaisesMenu(b)
    <2> DEFINE m == KeyPress("menu", TRUE)
    <2>1. q'[b] = Append(q[b], m) /\ UNCHANGED <<mode, skip_one_key, unheard, scanning, deaf>>
      BY <1>0, <1>4 DEF TimerRaisesMenu, uiVars
    <2>2. m \in Messages /\ Harmless(m)
      BY MessagesBuilt, HarmlessBuilt DEF Keys
    <2> HIDE DEF m
    <2>3. Clean(q[b]) => Clean(q'[b])
      BY <1>0, <2>1, <2>2, HasAppend
    <2>4. Attentive(q[b], Skips(b), mode[b]) => Attentive(q'[b], Skips(b), mode[b])
      BY <1>0, <2>1, <2>2, StillAttentive
    <2>5. Skips(b)' = Skips(b)
      BY <2>1 DEF Skips
    <2> QED
      BY <2>1, <2>3, <2>4, <2>5 DEF Listening
  <1>5. CASE CameraError(b) \/ SuspendSkipsKey(b)
    BY <1>1, <1>5 DEF CameraError, SuspendSkipsKey
  <1> QED
    BY <1>1, <1>2, <1>3, <1>4, <1>5 DEF WorldNext

\* A handler that adds nothing to the mailbox.
LEMMA HandlerListens ==
    ASSUME TypeOK, NEW b \in Badges, Listening(b), ~scanning[b], q[b] # <<>>,
           deaf' = deaf, q'[b] = Tail(q[b]),
           ~deaf[b] /\ Clean(q[b]) =>
             \/ scanning'[b]
             \/ /\ Skips(b)' => Skips(b) /\ Head(q[b]).op \notin EndsSkip
                /\ mode'[b] = "GeneScan" => mode[b] = "GeneScan" /\ Head(q[b]).op \notin EndsScan
    PROVE  Listening(b)'
  <1>1. q[b] \in Seq(Messages)
    BY DEF TypeOK
  <1>2. CASE deaf[b]
    BY <1>2 DEF Listening
  <1>3. CASE ~deaf[b]
    <2>1. Clean(q[b]) /\ Attentive(q[b], Skips(b), mode[b])
      BY <1>3 DEF Listening
    <2>2. Clean(q'[b])
      BY <1>1, <2>1, HasTake
    <2>3. scanning'[b] \/ Attentive(q'[b], Skips(b)', mode'[b])
      BY <1>1, <1>3, <2>1, AttentiveAfter
    <2> QED
      BY <2>2, <2>3 DEF Listening
  <1> QED
    BY <1>2, <1>3

\* The steps of the main loop, on its own badge.
LEMMA LoopListens ==
    ASSUME TypeOK, NEW b \in Badges, Listening(b), LoopNext(b)
    PROVE  Listening(b)'
  <1>0. /\ q[b] \in Seq(Messages) /\ b \in DOMAIN q /\ b \in DOMAIN scanning
        /\ b \in DOMAIN skip_one_key /\ b \in DOMAIN mode
    BY DEF TypeOK
  <1>1. ~scanning[b] /\ q[b] # <<>>
    BY DEF LoopNext, SkipKey, MenuKey, PlainKey, AbortQr, HandleQr, KeepGene,
           RevertGene, MenuDone, SkipKeyRequest, Take
  <1>2. deaf' = deaf
    BY DEF LoopNext, SkipKey, MenuKey, PlainKey, AbortQr, HandleQr, KeepGene,
           RevertGene, MenuDone, SkipKeyRequest, worldVars
  <1>3. Head(q[b]) \in Messages /\ Tail(q[b]) \in Seq(Messages)
    BY <1>1, TakeType DEF Rest
  <1>4. CASE SkipKey(b)
    <2>1. /\ Head(q[b]).op = "KeyPress" /\ q'[b] = Tail(q[b]) /\ skip_one_key'[b] = FALSE
          /\ mode' = mode
      BY <1>0, <1>4 DEF SkipKey, Take, Rest
    <2> QED
      BY <1>1, <1>2, <2>1, HandlerListens DEF EndsScan, Skips
  <1>5. CASE PlainKey(b)
    <2> DEFINE k     == Head(q[b]).k
               fires == k = "fire" /\ mode[b] # "ResponseGene"
    <2>1. /\ Head(q[b]).op = "KeyPress" /\ q'[b] = Tail(q[b])
          /\ skip_one_key'[b] = fires /\ scanning'[b] = fires
          /\ mode'[b] = ModeAfter(mode[b], k)
      BY <1>0, <1>5 DEF PlainKey, Take, Rest
    <2>2. ~fires /\ ModeAfter(mode[b], k) = "GeneScan" => mode[b] = "GeneScan"
      <3> HIDE DEF k
      <3> QED
        BY DEF ModeAfter
    <2> HIDE DEF fires, k
    <2>3. CASE fires
      BY <1>1, <1>2, <2>1, <2>3, HandlerListens
    <2>4. CASE ~fires
      <3>1. ~skip_one_key'[b] /\ (mode'[b] = "GeneScan" => mode[b] = "GeneScan")
        BY <2>1, <2>2, <2>4
      <3> QED
        BY <1>1, <1>2, <2>1, <3>1, HandlerListens DEF EndsScan, Skips
    <2> QED
      BY <2>3, <2>4
  <1>6. CASE HandleQr(b)
    <2> DEFINE code == Head(q[b]).code
    <2>1. /\ Head(q[b]).op = "HandleQr" /\ q'[b] = Tail(q[b]) /\ skip_one_key'[b] = FALSE
      BY <1>0, <1>6 DEF HandleQr, Take, Rest, StopSkipping
    <2>2. code \in Codes \cup {Junk, TestCode}
      BY <1>3, <2>1, CodeType
    <2>3. Clean(q[b]) => code # TestCode
      BY <1>0, <1>1, <2>1, HasTake DEF Harmless
    <2>4. code # TestCode => code.kind # "test"
      BY <2>2 DEF Codes, GeneCodes, Junk
    <2>5. \/ Answer(b, code) \/ Breed(b, code) \/ Refuse(b, code)
          \/ mode[b] # "GeneScan" /\ mode' = mode
      BY <1>6 DEF HandleQr
    <2> HIDE DEF code
    <2>6. code.kind # "test" => mode'[b] # "GeneScan"
      BY <1>0, <2>5 DEF Answer, Breed, Refuse
    <2> QED
      BY <1>1, <1>2, <2>1, <2>3, <2>4, <2>6, HandlerListens DEF Skips
  <1>7. CASE AbortQr(b) \/ KeepGene(b) \/ RevertGene(b)
    <2>1. /\ Head(q[b]).op \in {"AbortQr", "KeepGene", "RevertGene"} /\ q'[b] = Tail(q[b])
          /\ mode'[b] = "Idle" /\ UNCHANGED <<skip_one_key, unheard>>
      BY <1>0, <1>7 DEF AbortQr, KeepGene, RevertGene, Take, Rest
    <2> QED
      BY <1>1, <1>2, <2>1, HandlerListens DEF EndsSkip, Skips
  <1>8. CASE MenuDone(b)
    <2>1. /\ Head(q[b]).op = "MenuDone" /\ q'[b] = Tail(q[b])
          /\ UNCHANGED <<mode, skip_one_key, unheard>>
      BY <1>0, <1>8 DEF MenuDone, Take, Rest
    <2> QED
      BY <1>1, <1>2, <2>1, HandlerListens DEF EndsSkip, EndsScan, Skips
  <1>9. CASE SkipKeyRequest(b)
    <2>1. Head(q[b]).op = "SkipKey" /\ q'[b] = Tail(q[b])
      BY <1>0, <1>9 DEF SkipKeyRequest, Take, Rest
    <2>2. ~Clean(q[b])
      BY <1>0, <1>1, <2>1, HasTake DEF Harmless
    <2> QED
      BY <1>1, <1>2, <2>1, <2>2, HandlerListens
  <1>10. CASE MenuKey(b)
    <2> DEFINE auto  == Head(q[b]).auto
               close == Msg("MenuDone", auto)
               keep  == Msg("KeepGene", auto)
               undo  == Msg("RevertGene", auto)
               t     == Tail(q[b])
    <2>1. /\ Head(q[b]).op = "KeyPress" /\ ~skip_one_key[b]
          /\ UNCHANGED <<mode, skip_one_key, unheard, scanning>>
      BY <1>10 DEF MenuKey, Take
    <2>2. auto \in BOOLEAN
      BY <1>3, <2>1, KeyType
    <2>3. /\ close \in Messages /\ keep \in Messages /\ undo \in Messages
          /\ Harmless(close) /\ Harmless(keep) /\ Harmless(undo)
      BY <2>2, MessagesBuilt, HarmlessBuilt
    <2>4. \/ q'[b] = t
          \/ q'[b] = Append(t, close)
          \/ q'[b] = t \o <<keep, close>>
          \/ q'[b] = t \o <<undo, close>>
      BY <1>0, <1>10 DEF MenuKey, Rest
    <2>5. t \in Seq(Messages)
      BY <1>3
    <2>6. CASE deaf[b]
      BY <1>2, <2>6 DEF Listening
    <2>7. CASE ~deaf[b]
      <3>1. Clean(q[b]) /\ Attentive(q[b], Skips(b), mode[b])
        BY <1>1, <2>7 DEF Listening
      <3>2. Clean(t) /\ Attentive(t, Skips(b), mode[b])
        BY <1>0, <1>1, <2>1, <3>1, HasTake, AttentiveAfter DEF EndsScan, Skips
      <3> HIDE DEF auto, close, keep, undo, t
      <3>3. /\ t \o <<keep, close>> = Append(Append(t, keep), close)
            /\ t \o <<undo, close>> = Append(Append(t, undo), close)
        BY <2>3, <2>5, TwoMessages
      <3>4. \A m \in {keep, undo, close} :
                /\ Append(t, m) \in Seq(Messages) /\ Clean(Append(t, m))
                /\ Attentive(Append(t, m), Skips(b), mode[b])
        BY <2>3, <2>5, <3>2, HasAppend, StillAttentive
      <3>5. \A m \in {keep, undo} :
                /\ Clean(Append(Append(t, m), close))
                /\ Attentive(Append(Append(t, m), close), Skips(b), mode[b])
        BY <2>3, <3>4, HasAppend, StillAttentive
      <3>6. Clean(q'[b]) /\ Attentive(q'[b], Skips(b), mode[b])
        BY <2>4, <3>2, <3>3, <3>4, <3>5
      <3>7. Skips(b)' = Skips(b)
        BY <2>1 DEF Skips
      <3> QED
        BY <2>1, <3>6, <3>7 DEF Listening
    <2> QED
      BY <2>6, <2>7
  <1> QED
    BY <1>4, <1>5, <1>6, <1>7, <1>8, <1>9, <1>10 DEF LoopNext

\* A step of one badge is nothing to the others.
LEMMA OthersListen ==
    ASSUME TypeOK, NEW b \in Badges, WorldNext(b) \/ TimerRaisesMenu(b) \/ LoopNext(b),
           NEW c \in Badges, c # b
    PROVE  /\ q'[c] = q[c] /\ deaf'[c] = deaf[c] /\ scanning'[c] = scanning[c]
           /\ skip_one_key'[c] = skip_one_key[c] /\ unheard'[c] = unheard[c] /\ mode'[c] = mode[c]
  <1>0. /\ q \in [Badges -> Seq(Messages)] /\ deaf \in [Badges -> BOOLEAN]
        /\ scanning \in [Badges -> BOOLEAN] /\ skip_one_key \in [Badges -> BOOLEAN]
        /\ mode \in [Badges -> Modes] /\ unheard \in [Badges -> BOOLEAN]
    BY DEF TypeOK
  <1>1. CASE WorldNext(b)
    BY <1>0, <1>1 DEF WorldNext, Press, Scan, CameraError, SuspendSkipsKey, Mishap, uiVars
  <1>2. CASE TimerRaisesMenu(b)
    BY <1>0, <1>2 DEF TimerRaisesMenu, uiVars
  <1>3. CASE SkipKey(b) \/ AbortQr(b) \/ KeepGene(b) \/ RevertGene(b) \/ MenuDone(b) \/ SkipKeyRequest(b)
    BY <1>0, <1>3 DEF SkipKey, AbortQr, KeepGene, RevertGene, MenuDone, SkipKeyRequest, worldVars
  <1>4. CASE MenuKey(b)
    BY <1>0, <1>4 DEF MenuKey, worldVars
  <1>5. CASE PlainKey(b)
    BY <1>0, <1>5 DEF PlainKey
  <1>6. CASE HandleQr(b)
    BY <1>0, <1>6 DEF HandleQr, Answer, Breed, Refuse
  <1> QED
    BY <1>1, <1>2, <1>3, <1>4, <1>5, <1>6 DEF LoopNext

\* Theorem: however a scan ends and whatever keys, menu choices and timers fill the
\* mailbox meanwhile, a badge that has read its mail has left GeneScan, and will not
\* swallow the next key unless a dialog took the one that ended the scan (main.rs,
\* acquire_qr, AbortQr, HandleQr, skip_one_key; bao-video main.rs, KeyPress).
THEOREM AlwaysListensAgain == Spec => []ListensAgain
  <1>1. Init => ListenInv
    <2> SUFFICES ASSUME Init, NEW b \in Badges PROVE Listening(b)
      BY DEF ListenInv
    <2>1. q[b] = <<>> /\ skip_one_key[b] = FALSE /\ mode[b] = "Idle"
      BY DEF Init
    <2>2. Clean(q[b])
      BY <2>1 DEF Clean
    <2>3. Attentive(q[b], Skips(b), mode[b])
      BY <2>1 DEF Attentive, Skips
    <2> QED
      BY <2>2, <2>3 DEF Listening
  <1>2. TypeOK /\ ListenInv /\ [Next]_vars => ListenInv'
    <2> SUFFICES ASSUME TypeOK, ListenInv, [Next]_vars, NEW c \in Badges PROVE Listening(c)'
      BY DEF ListenInv
    <2>0. Listening(c)
      BY DEF ListenInv
    <2>1. ASSUME NEW b \in Badges, WorldNext(b) \/ TimerRaisesMenu(b) \/ LoopNext(b)
          PROVE  Listening(c)'
      <3>1. CASE c = b
        BY <2>0, <2>1, <3>1, WorldListens, LoopListens
      <3>2. CASE c # b
        BY <2>0, <2>1, <3>2, OthersListen DEF Listening, Skips
      <3> QED
        BY <3>1, <3>2
    <2>2. CASE UNCHANGED vars
      BY <2>0, <2>2 DEF vars, uiVars, worldVars, Listening, Skips
    <2> QED
      BY <2>1, <2>2 DEF Next
  <1>3. ListenInv => ListensAgain
    <2> SUFFICES ASSUME ListenInv, NEW b \in Badges, q[b] = <<>>, ~scanning[b], ~deaf[b]
                 PROVE  (skip_one_key[b] => unheard[b]) /\ mode[b] # "GeneScan"
      BY DEF ListensAgain
    <2>1. Attentive(q[b], Skips(b), mode[b])
      BY DEF ListenInv, Listening
    <2>2. \A ops : ~Has(q[b], ops)
      BY DEF Has
    <2> QED
      BY <2>1, <2>2 DEF Attentive, Skips
  <1> QED
    BY <1>1, <1>2, <1>3, TypeCorrect, PTL DEF Spec
=============================================================================
