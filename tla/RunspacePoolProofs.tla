-------------------------- MODULE RunspacePoolProofs --------------------------
(***************************************************************************)
(* What the driver of a runspace pool guarantees for every number of host  *)
(* calls, operations, messages and faults: parked answers, secrets, its    *)
(* types, and the promise of PoolLifecycle.  That one is kept when the     *)
(* pool is not disconnected: disconnecting asks for no state, so a pool    *)
(* that has ended could come back by it.                                   *)
(***************************************************************************)
EXTENDS RunspacePool, TLAPS

(* ParkedHasExchange is not inductive.  Between two awaits an answer may be *)
(* parked on the strength of a key pair that is only on its way into        *)
(* pending_client_key, and a flush goes on with a key it looked at before.  *)

\* The public key being sent is that of a pair.
PairIsKept ==
  (pc = "send" /\ after \in {"ask", "park", "requested"}) => out.key # None

\* Answers are flushed with a key only.
FlushHasKey == (pc = "send" /\ after = "flush") => session_key # None

ParkedInv == keys \in Nat /\ ParkedHasExchange /\ PairIsKept /\ FlushHasKey

\* Handing a message on sends nothing.
LEMMA HandOnReads ==
  ASSUME NEW m, NEW k, HandOn(m, k) PROVE pc' \in {"idle", "top"}
<1>1. \/ Return("err") \/ Return("ok") \/ (Goto("top") /\ cur' = Nothing)
  BY Zenon DEF HandOn
<1> QED
  BY <1>1 DEF Return, Goto

\* The number of a key pair, or of a key set out of band, is not None.
LEMMA NumberIsNotNone == \A n \in Int : n # None
  BY ConstantsAssumption

\* The calls of the pool keep it: a key pair is generated before its number is
\* used, and a pool that is disconnected takes no parked answer along.
LEMMA OperationKeepsParked == ParkedInv /\ Operation => ParkedInv'
<1> SUFFICES ASSUME ParkedInv, Operation PROVE ParkedInv'
  OBVIOUS
<1> USE DEF ParkedInv, ParkedHasExchange, PairIsKept, FlushHasKey, Send
<1>1. CASE OpenWithOptions
  BY <1>1 DEF OpenWithOptions, key, store
<1>2. CASE OpenFromTransport
  BY <1>2 DEF OpenFromTransport, key, store
<1>3. CASE RequestSessionKey
  <2>1. CASE pending_client_key = None
    <3>1. keys' \in Nat /\ keys' # None
      BY <1>3, <2>1, NumberIsNotNone DEF RequestSessionKey, Exchange
    <3> QED
      BY <1>3, <2>1, <3>1 DEF RequestSessionKey, Exchange, Public, Plain, key, store
  <2>2. CASE pending_client_key # None
    BY <1>3, <2>2 DEF RequestSessionKey, key, store
  <2> QED
    BY <2>1, <2>2
<1>4. CASE RunPipeline
  BY <1>4 DEF RunPipeline, key, store
<1>5. CASE SetSessionKey
  <2>1. OutOfBandKey # None
    BY NumberIsNotNone DEF OutOfBandKey
  <2> QED
    BY <1>5, <2>1 DEF SetSessionKey, Idle, store, call, send
<1>6. CASE Close
  BY <1>6 DEF Close, key, store
<1>7. ASSUME NEW ok \in BOOLEAN, Disconnect(ok) PROVE ParkedInv'
  BY <1>7 DEF Disconnect, Idle, send
<1>8. CASE Reconnect
  BY <1>8 DEF Reconnect, key, store
<1> QED
  BY <1>1, <1>2, <1>3, <1>4, <1>5, <1>6, <1>7, <1>8 DEF Operation

\* next_message keeps it: an exchange only ends with its key, or together with
\* the answers parked for it.
LEMMA ReadLoopKeepsParked == ParkedInv /\ (ReadLoop \/ ReceiveEmpty) => ParkedInv'
<1> SUFFICES ASSUME ParkedInv, ReadLoop \/ ReceiveEmpty PROVE ParkedInv'
  OBVIOUS
<1> USE DEF ParkedInv, ParkedHasExchange, PairIsKept, FlushHasKey, Goto
<1>1. CASE FlushFirst
  BY <1>1 DEF FlushFirst, Send, key, store
<1>2. CASE PopHostCall \/ PopUnreadableCall
  BY <1>2 DEF PopHostCall, PopUnreadableCall, Return, send, key
<1>3. CASE PopPublicKeyRequest
  <2>1. CASE pending_client_key # None
    <3>1. HandOn(Head(pending_messages), session_key) /\ UNCHANGED <<key, deferred, send>>
      BY <1>3, <2>1 DEF PopPublicKeyRequest
    <3> QED
      BY <3>1, HandOnReads DEF key, send
  <2>2. CASE pending_client_key = None
    <3>1. keys' \in Nat /\ keys' # None
      BY <1>3, <2>2, NumberIsNotNone DEF PopPublicKeyRequest, Exchange
    <3>2. out'.key = keys'
      BY <1>3, <2>2 DEF PopPublicKeyRequest, Exchange, Send, Public, Plain
    <3>3. UNCHANGED <<key, deferred>> /\ after' = "requested"
      BY <1>3, <2>2 DEF PopPublicKeyRequest, Exchange, Send
    <3> QED
      BY <3>1, <3>2, <3>3 DEF key
  <2> QED
    BY <2>1, <2>2
<1>4. ASSUME NEW kind, PopOther(kind) PROVE ParkedInv'
  <2>1. HandOn(Head(pending_messages), session_key) /\ UNCHANGED <<key, deferred, send>>
    BY <1>4 DEF PopOther
  <2> QED
    BY <2>1, HandOnReads DEF key, send
<1>5. CASE PopUnexpectedKey
  <2>1. HandOn(Head(pending_messages), session_key) /\ UNCHANGED <<key, deferred, send>>
    BY <1>5 DEF PopUnexpectedKey
  <2> QED
    BY <2>1, HandOnReads DEF key, send
\* The reply gives the key that the parked answers wait for.
<1>6. CASE PopSessionKey
  <2>1. session_key' # None /\ UNCHANGED deferred
    BY <1>6 DEF PopSessionKey
  <2>2. keys' = keys /\ (pc' = "send" => after' = "flush")
    <3>1. CASE deferred = <<>>
      <4>1. HandOn(Head(pending_messages), pending_client_key) /\ UNCHANGED send
        BY <1>6, <3>1 DEF PopSessionKey
      <4> QED
        BY <4>1, HandOnReads DEF send
    <3>2. CASE deferred # <<>>
      BY <1>6, <3>2 DEF PopSessionKey, Send
    <3> QED
      BY <3>1, <3>2
  <2> QED
    BY <2>1, <2>2
\* An unusable reply ends the exchange, and takes the parked answers along.
<1>7. CASE PopUnusableKey
  <2>1. deferred' = <<>> /\ session_key' = session_key
    BY <1>7 DEF PopUnusableKey
  <2>2. keys' = keys /\ (pc' = "send" => after' = "fail")
    <3>1. CASE deferred = <<>>
      BY <1>7, <3>1 DEF PopUnusableKey, Return, send
    <3>2. CASE deferred # <<>>
      BY <1>7, <3>2 DEF PopUnusableKey, Send
    <3> QED
      BY <3>1, <3>2
  <2> QED
    BY <2>1, <2>2
<1>8. CASE WaitForChunk
  BY <1>8 DEF WaitForChunk, key, store, send
<1>9. ASSUME NEW n \in 1..Len(s2c), ReceiveChunk(n) PROVE ParkedInv'
  <2>1. UNCHANGED <<key, deferred, send>>
    BY <1>9 DEF ReceiveChunk
  <2>2. pc' \in {"idle", "top"}
    BY <1>9 DEF ReceiveChunk, Return
  <2> QED
    BY <2>1, <2>2 DEF key, send
<1>10. CASE ReceiveEmpty
  <2>1. HandOn(Nothing, session_key) /\ UNCHANGED <<key, store, send>>
    BY <1>10 DEF ReceiveEmpty
  <2> QED
    BY <2>1, HandOnReads DEF key, store, send
<1> QED
  BY <1>1, <1>2, <1>3, <1>4, <1>5, <1>6, <1>7, <1>8, <1>9, <1>10 DEF ReadLoop

\* handle_host_call keeps it: an answer is parked for an exchange under way.
LEMMA HostAnswersKeepParked == ParkedInv /\ HostAnswers => ParkedInv'
<1> SUFFICES ASSUME ParkedInv, HostAnswers PROVE ParkedInv'
  OBVIOUS
<1> USE DEF ParkedInv, ParkedHasExchange, PairIsKept, FlushHasKey, Goto, Send
<1>1. CASE HostVoid
  BY <1>1 DEF HostVoid, key, store, send
<1>2. ASSUME NEW m, HostPlain(m) PROVE ParkedInv'
  BY <1>2 DEF HostPlain, key, store
<1>3. CASE HostSecret
  BY <1>3 DEF HostSecret, key, store
\* An answer is parked at once when an exchange is under way; otherwise the
\* exchange is started first.
<1>4. CASE HostSecretParks
  <2>1. CASE pending_client_key # None
    BY <1>4, <2>1 DEF HostSecretParks, key, send
  <2>2. CASE pending_client_key = None
    <3>1. keys' \in Nat /\ keys' # None
      BY <1>4, <2>2, NumberIsNotNone DEF HostSecretParks, Exchange
    <3>2. out'.key = keys'
      BY <1>4, <2>2 DEF HostSecretParks, Exchange, Public, Plain
    <3>3. UNCHANGED <<key, deferred>> /\ after' = "park"
      BY <1>4, <2>2 DEF HostSecretParks, Exchange
    <3> QED
      BY <3>1, <3>2, <3>3 DEF key
  <2> QED
    BY <2>1, <2>2
<1> QED
  BY <1>1, <1>2, <1>3, <1>4 DEF HostAnswers

\* The end of a send keeps it: the pair that was announced is remembered, and
\* a flush goes on with the key it started with.
LEMMA SendReturnsKeepParked == ParkedInv /\ SendReturns => ParkedInv'
<1> SUFFICES ASSUME ParkedInv, SendReturns PROVE ParkedInv'
  OBVIOUS
<1> USE DEF ParkedInv, ParkedHasExchange, PairIsKept, FlushHasKey, Goto
<1>1. CASE SentCapability
  BY <1>1 DEF SentCapability, Send, key, store
<1>2. CASE SentFlushed
  <2>1. session_key # None /\ UNCHANGED key
    BY <1>2 DEF SentFlushed, Sent
  <2>2. keys' = keys /\ (pc' = "send" => after' = "flush")
    <3>1. CASE Tail(deferred) # <<>>
      BY <1>2, <3>1 DEF SentFlushed, Send
    <3>2. CASE Tail(deferred) = <<>> /\ cur # Nothing
      <4>1. HandOn(cur, session_key) /\ UNCHANGED send
        BY <1>2, <3>2, Zenon DEF SentFlushed
      <4> QED
        BY <4>1, HandOnReads DEF send
    <3>3. CASE Tail(deferred) = <<>> /\ cur = Nothing
      BY <1>2, <3>3 DEF SentFlushed, send
    <3> QED
      BY <3>1, <3>2, <3>3
  <2> QED
    BY <2>1, <2>2 DEF key
<1>3. CASE SentError
  <2>1. UNCHANGED <<key, store, keys>>
    BY <1>3 DEF SentError, FailNext, Send
  <2>2. pc' = "send" => after' = "fail"
    BY <1>3 DEF SentError, FailNext, Send, Return
  <2> QED
    BY <2>1, <2>2 DEF key, store
<1>4. CASE SentClose
  BY <1>4 DEF SentClose, key, store, send
<1>5. ASSUME NEW then \in {"init", "run", "answer"}, SentAndReadOn(then) PROVE ParkedInv'
  BY <1>5 DEF SentAndReadOn, key, store, send
\* The pair takes its place: what is parked from now on waits for it.
<1>6. ASSUME NEW then \in {"ask", "park", "requested"}, SentPublicKey(then) PROVE ParkedInv'
  <2>1. pending_client_key' = out.key /\ UNCHANGED send
    BY <1>6 DEF SentPublicKey
  <2>2. out.key # None
    BY <1>6 DEF SentPublicKey, Sent
  <2>3. pc' \in {"idle", "top"}
    <3>1. CASE then = "requested"
      <4>1. HandOn(cur, session_key)
        BY <1>6, <3>1 DEF SentPublicKey
      <4> QED
        BY <4>1, HandOnReads
    <3>2. CASE then # "requested"
      BY <1>6, <3>2 DEF SentPublicKey
    <3> QED
      BY <3>1, <3>2
  <2> QED
    BY <2>1, <2>2, <2>3 DEF send
<1>7. ASSUME NEW ok \in BOOLEAN, Closed(ok) PROVE ParkedInv'
  BY <1>7 DEF Closed, Return, key, store, send
<1> QED
  BY <1>1, <1>2, <1>3, <1>4, <1>5, <1>6, <1>7 DEF SendReturns

\* A failed send or read, a dropped call and a cancelled one keep it: none of
\* them touches the exchange or the parked answers.
LEMMA FaultsKeepParked == ParkedInv /\ Faults => ParkedInv'
<1> SUFFICES ASSUME ParkedInv, Faults PROVE ParkedInv'
  OBVIOUS
<1> USE DEF ParkedInv, ParkedHasExchange, PairIsKept, FlushHasKey, Return
<1>1. CASE SendFails
  <2>1. UNCHANGED <<key, store, keys>>
    BY <1>1 DEF SendFails, FailNext, Send, send
  <2>2. pc' = "send" => after' = "fail"
    BY <1>1 DEF SendFails, FailNext, Send, Goto
  <2> QED
    BY <2>1, <2>2 DEF key, store
<1>2. CASE ReceiveFails
  BY <1>2 DEF ReceiveFails, key, store, send
<1>3. ASSUME NEW is_out \in BOOLEAN, Drop(is_out) PROVE ParkedInv'
  BY <1>3 DEF Drop, Interrupted, key, store
<1>4. ASSUME NEW is_out \in BOOLEAN, Cancel(is_out) PROVE ParkedInv'
  BY <1>4 DEF Cancel, Interrupted, key, store
<1> QED
  BY <1>1, <1>2, <1>3, <1>4 DEF Faults

\* Nothing the server says changes it before it is read.
LEMMA ServerKeepsParked == ParkedInv /\ ServerSpeaks => ParkedInv'
<1> SUFFICES ASSUME ParkedInv, ServerSpeaks PROVE ParkedInv'
  OBVIOUS
<1>1. UNCHANGED <<key, store, call, send>>
  BY DEF ServerSpeaks, CallHost, AskForKey, ReplyKey, SayOther, SayOpened
<1> QED
  BY <1>1 DEF ParkedInv, ParkedHasExchange, PairIsKept, FlushHasKey, key, store, call, send

\* ParkedInv is an invariant of the pool.
THEOREM ParkedInvariant == Spec => []ParkedInv
<1>1. Init => ParkedInv
  BY DEF Init, ParkedInv, ParkedHasExchange, PairIsKept, FlushHasKey
<1>2. ParkedInv /\ [Next]_vars => ParkedInv'
  <2> SUFFICES ASSUME ParkedInv, [Next]_vars PROVE ParkedInv'
    OBVIOUS
  <2>1. CASE Next
    BY <2>1, OperationKeepsParked, ReadLoopKeepsParked, HostAnswersKeepParked,
       SendReturnsKeepParked, FaultsKeepParked, ServerKeepsParked DEF Next
  <2>2. CASE UNCHANGED vars
    BY <2>2 DEF vars, ParkedInv, ParkedHasExchange, PairIsKept, FlushHasKey, key, store, call,
                send
  <2> QED
    BY <2>1, <2>2
<1> QED
  BY <1>1, <1>2, PTL DEF Spec

\* For any number of host calls, calls of the pool, messages and faults, an
\* answer is parked only while a key is held or an exchange is under way
\* (deferred_host_responses).
THEOREM ParkedAlwaysSettled == Spec => []ParkedHasExchange
<1>1. ParkedInv => ParkedHasExchange
  BY DEF ParkedInv
<1> QED
  BY <1>1, ParkedInvariant, PTL

-----------------------------------------------------------------------------
(* A SecureString leaves encrypted.  What makes it so is where the keys     *)
(* come from: each is the number of a pair that was generated, or of a key  *)
(* the application set.                                                     *)

Asking == {"ask", "park", "requested"}

\* The keys the pool has, and the one it announces.
KeysAreNumbered ==
  /\ session_key \in Exchanges \cup {None} /\ pending_client_key \in Exchanges \cup {None}
  /\ (pc = "send" /\ after \in Asking) => out.key \in Exchanges

\* A SecureString in hand is encrypted already.
OutIsEncrypted == out.secret => out.key \in Exchanges

\* The answers a call got are a sequence, of whatever elements.
AnswersAreSeqs ==
  answers = [c \in Calls |-> answers[c]] /\ \A c \in Calls : \E S : answers[c] \in Seq(S)

SecretInv == KeysAreNumbered /\ OutIsEncrypted /\ AnswersAreSeqs /\ SecretsEncrypted

\* What every step does to them: it sends on what it has, something that is no
\* SecureString, one that is encrypted, or a new public key.
SendsSafely ==
  \/ out' = out /\ (pc' # "send" \/ UNCHANGED <<pc, after>>)
  \/ after' \notin Asking /\ (out'.secret => out'.key \in Exchanges)
  \/ keys' = keys + 1 /\ out' = Public(keys + 1)
KeysSafely ==
  /\ keys' \in {keys, keys + 1}
  /\ session_key' \in {session_key} \cup Exchanges
  /\ pending_client_key' \in {pending_client_key, None} \cup Exchanges
SafeStep == SendsSafely /\ KeysSafely /\ (Deliver \/ UNCHANGED answers)

\* The numbers of the keys stay in use.
LEMMA ExchangesGrow ==
  ASSUME keys \in Nat, keys' \in {keys, keys + 1}
  PROVE  Exchanges \subseteq Exchanges'
<1>1. keys' \in Nat /\ keys <= keys'
  OBVIOUS
<1>2. \A a, b \in Nat : a <= b => (-1 - a)..a \subseteq (-1 - b)..b
  <2> SUFFICES ASSUME NEW a \in Nat, NEW b \in Nat, a <= b, NEW n \in (-1 - a)..a
               PROVE  n \in (-1 - b)..b
    OBVIOUS
  <2>1. n \in Int /\ -1 - a <= n /\ n <= a
    OBVIOUS
  <2>2. -1 - b <= -1 - a
    OBVIOUS
  <2>3. -1 - b <= n /\ n <= b
    BY <2>1, <2>2
  <2> QED
    BY <2>1, <2>3
<1> QED
  BY <1>1, <1>2 DEF Exchanges

\* What is delivered adds one answer, encrypted if it has a SecureString.
LEMMA DeliveredIsEncrypted ==
  ASSUME SecretInv, Deliver
  PROVE  /\ AnswersAreSeqs'
         /\ \A c \in Calls : \A i \in DOMAIN answers'[c] :
              answers'[c][i].secret => answers'[c][i].key \in Exchanges
<1> DEFINE new == [secret |-> out.secret, key |-> out.key]
<1>1. CASE out.call = None
  BY <1>1 DEF Deliver, SecretInv, AnswersAreSeqs, SecretsEncrypted
<1>2. CASE out.call # None
  <2>1. answers' = [answers EXCEPT ![out.call] = Append(@, new)]
    BY <1>2 DEF Deliver
  <2>2. answers' = [c \in Calls |-> IF c = out.call THEN Append(answers[c], new) ELSE answers[c]]
    BY <2>1 DEF SecretInv, AnswersAreSeqs
  <2>3. ASSUME NEW c \in Calls
        PROVE  /\ \E S : answers'[c] \in Seq(S)
               /\ \A i \in DOMAIN answers'[c] :
                    answers'[c][i].secret => answers'[c][i].key \in Exchanges
    <3>1. PICK S : answers[c] \in Seq(S)
      BY DEF SecretInv, AnswersAreSeqs
    <3>2. CASE c # out.call
      BY <2>2, <3>1, <3>2 DEF SecretInv, SecretsEncrypted
    <3>3. CASE c = out.call
      <4>1. answers'[c] = Append(answers[c], new)
        BY <2>2, <3>3
      <4>2. answers[c] \in Seq(S \cup {new})
        BY <3>1
      <4>3. answers'[c] \in Seq(S \cup {new})
        BY <4>1, <4>2
      <4>4. ASSUME NEW i \in DOMAIN answers'[c]
            PROVE  answers'[c][i].secret => answers'[c][i].key \in Exchanges
        <5>1. CASE i \in DOMAIN answers[c]
          <6>1. answers'[c][i] = answers[c][i]
            BY <4>1, <4>2, <5>1
          <6> QED
            BY <5>1, <6>1 DEF SecretInv, SecretsEncrypted
        <5>2. CASE i \notin DOMAIN answers[c]
          <6>1. answers'[c][i] = new
            BY <4>1, <4>2, <4>4, <5>2
          <6> QED
            BY <6>1 DEF SecretInv, OutIsEncrypted
        <5> QED
          BY <5>1, <5>2
      <4> QED
        BY <4>3, <4>4
    <3> QED
      BY <3>2, <3>3
  <2> QED
    BY <2>2, <2>3 DEF AnswersAreSeqs
<1> QED
  BY <1>1, <1>2

\* Such a step keeps the invariant.
LEMMA SafeStepKeepsSecrets ==
  ASSUME keys \in Nat, SecretInv, SafeStep
  PROVE  SecretInv'
<1>1. Exchanges \subseteq Exchanges'
  BY ExchangesGrow DEF SafeStep, KeysSafely
<1>2. keys' = keys + 1 => keys + 1 \in Exchanges'
  BY DEF Exchanges
<1>3. out' = Public(keys + 1) => out'.key = keys + 1 /\ ~out'.secret
  BY DEF Public, Plain
<1>4. KeysAreNumbered'
  BY <1>1, <1>2, <1>3 DEF SecretInv, KeysAreNumbered, SafeStep, SendsSafely, KeysSafely
<1>5. OutIsEncrypted'
  BY <1>1, <1>3 DEF SecretInv, OutIsEncrypted, SafeStep, SendsSafely
<1>6. AnswersAreSeqs' /\ SecretsEncrypted'
  <2>1. CASE Deliver
    BY <1>1, <2>1, DeliveredIsEncrypted DEF SecretsEncrypted
  <2>2. CASE UNCHANGED answers
    BY <1>1, <2>2 DEF SecretInv, AnswersAreSeqs, SecretsEncrypted
  <2> QED
    BY <2>1, <2>2 DEF SafeStep
<1> QED
  BY <1>4, <1>5, <1>6 DEF SecretInv
\* The values that are sent carry what their names say.
LEMMA WhatIsSent ==
  /\ \A kind : ~Plain(kind).secret
  /\ \A c : ~Answer(c).secret /\ ~Error(c).secret
  /\ \A c, k : Secret(c, k).key = k
BY DEF Plain, Answer, Error, Secret

\* A key that is held has a number.
LEMMA HeldIsNumbered ==
  ASSUME SecretInv
  PROVE  /\ session_key # None => session_key \in Exchanges
         /\ pending_client_key # None => pending_client_key \in Exchanges
BY DEF SecretInv, KeysAreNumbered

\* The calls of the pool send no SecureString.
LEMMA OperationIsSafe ==
  ASSUME keys \in Nat, SecretInv, Operation PROVE SafeStep
<1> USE WhatIsSent DEF SafeStep, SendsSafely, KeysSafely, Asking
<1>1. CASE OpenWithOptions
  BY <1>1 DEF OpenWithOptions, Send, key, seen
<1>2. CASE OpenFromTransport
  BY <1>2 DEF OpenFromTransport, key
<1>3. CASE RequestSessionKey
  BY <1>3 DEF RequestSessionKey, Exchange, Send, key, seen
<1>4. CASE RunPipeline
  BY <1>4 DEF RunPipeline, Send, key, seen
<1>5. CASE SetSessionKey
  <2>1. OutOfBandKey \in Exchanges
    BY DEF OutOfBandKey, Exchanges
  <2> QED
    BY <1>5, <2>1 DEF SetSessionKey, call, send, seen
<1>6. CASE Close
  BY <1>6 DEF Close, Send, key, seen
<1>7. ASSUME NEW ok \in BOOLEAN, Disconnect(ok) PROVE SafeStep
  BY <1>7 DEF Disconnect, send, seen
<1>8. CASE Reconnect
  BY <1>8 DEF Reconnect, key, seen
<1> QED
  BY <1>1, <1>2, <1>3, <1>4, <1>5, <1>6, <1>7, <1>8 DEF Operation

\* next_message sends a public key, parked answers under the key that is held
\* by then, or errors.
LEMMA ReadLoopIsSafe ==
  ASSUME keys \in Nat, SecretInv, ReadLoop \/ ReceiveEmpty PROVE SafeStep
<1> USE WhatIsSent DEF SafeStep, SendsSafely, KeysSafely, Asking, outside, seen
\* A message that is only handed on sends nothing.
<1>0. ASSUME NEW m, NEW k, HandOn(m, k), UNCHANGED <<send, answers>>,
             session_key' \in {session_key} \cup Exchanges,
             pending_client_key' \in {pending_client_key, None}
      PROVE  SafeStep
  BY <1>0, HandOnReads DEF send
<1>1. CASE FlushFirst
  BY <1>1, HeldIsNumbered DEF FlushFirst, Send, key
<1>2. CASE PopHostCall \/ PopUnreadableCall
  BY <1>2 DEF PopHostCall, PopUnreadableCall, Goto, Return, send, key
<1>3. CASE PopPublicKeyRequest
  <2>1. CASE pending_client_key # None
    <3>1. HandOn(Head(pending_messages), session_key) /\ UNCHANGED <<key, send, answers>>
      BY <1>3, <2>1 DEF PopPublicKeyRequest
    <3> QED
      BY <3>1, <1>0 DEF key
  <2>2. CASE pending_client_key = None
    BY <1>3, <2>2 DEF PopPublicKeyRequest, Exchange, Send, key
  <2> QED
    BY <2>1, <2>2
<1>4. ASSUME NEW kind, PopOther(kind) PROVE SafeStep
  BY <1>4, <1>0 DEF PopOther, key
<1>5. CASE PopUnexpectedKey
  BY <1>5, <1>0 DEF PopUnexpectedKey, key
<1>6. CASE PopSessionKey
  <2>1. /\ pending_client_key # None /\ UNCHANGED answers
        /\ session_key' = pending_client_key /\ pending_client_key' = None
    BY <1>6 DEF PopSessionKey
  <2>2. session_key' \in Exchanges
    BY <2>1, HeldIsNumbered
  <2>3. CASE deferred = <<>>
    <3>1. HandOn(Head(pending_messages), pending_client_key) /\ UNCHANGED send
      BY <1>6, <2>3 DEF PopSessionKey
    <3> QED
      BY <2>1, <2>2, <3>1, <1>0
  <2>4. CASE deferred # <<>>
    <3>1. /\ Send(Secret(Head(deferred), session_key'), "flush") /\ UNCHANGED keys
      BY <1>6, <2>4 DEF PopSessionKey
    <3> QED
      BY <2>1, <2>2, <3>1 DEF Send
  <2> QED
    BY <2>3, <2>4
<1>7. CASE PopUnusableKey
  <2>1. pending_client_key' = None /\ UNCHANGED <<session_key, answers>>
    BY <1>7 DEF PopUnusableKey
  <2>2. CASE deferred = <<>>
    BY <1>7, <2>1, <2>2 DEF PopUnusableKey, Return, send
  <2>3. CASE deferred # <<>>
    <3>1. Send(Error(Head(deferred)), "fail") /\ UNCHANGED keys
      BY <1>7, <2>3 DEF PopUnusableKey
    <3> QED
      BY <2>1, <3>1 DEF Send
  <2> QED
    BY <2>2, <2>3
<1>8. CASE WaitForChunk
  BY <1>8 DEF WaitForChunk, Goto, key, send
<1>9. ASSUME NEW n \in 1..Len(s2c), ReceiveChunk(n) PROVE SafeStep
  <2>1. UNCHANGED <<key, send, answers>>
    BY <1>9 DEF ReceiveChunk
  <2>2. pc' \in {"idle", "top"}
    BY <1>9 DEF ReceiveChunk, Return, Goto
  <2> QED
    BY <2>1, <2>2 DEF key, send
<1>10. CASE ReceiveEmpty
  BY <1>10, <1>0 DEF ReceiveEmpty, key
<1> QED
  BY <1>1, <1>2, <1>3, <1>4, <1>5, <1>6, <1>7, <1>8, <1>9, <1>10 DEF ReadLoop

\* handle_host_call encrypts a SecureString, or waits for the key.
LEMMA HostAnswersAreSafe ==
  ASSUME keys \in Nat, SecretInv, HostAnswers PROVE SafeStep
<1> USE WhatIsSent DEF SafeStep, SendsSafely, KeysSafely, Asking, outside, seen
<1>1. CASE HostVoid
  BY <1>1 DEF HostVoid, Goto, key, send
<1>2. ASSUME NEW m \in Replies(cur.arg), HostPlain(m) PROVE SafeStep
  BY <1>2 DEF HostPlain, Replies, Send, key
<1>3. CASE HostSecret
  BY <1>3, HeldIsNumbered DEF HostSecret, Send, key
<1>4. CASE HostSecretParks
  BY <1>4 DEF HostSecretParks, Exchange, Send, Goto, key, send
<1> QED
  BY <1>1, <1>2, <1>3, <1>4 DEF HostAnswers, Replies

\* The end of a send goes on with the key that is held.
LEMMA SendReturnsAreSafe ==
  ASSUME keys \in Nat, SecretInv, FlushHasKey, SendReturns PROVE SafeStep
<1> USE WhatIsSent DEF SafeStep, SendsSafely, KeysSafely, Asking, Sent, Goto
<1>1. CASE SentCapability
  BY <1>1 DEF SentCapability, Send, key
<1>2. CASE SentFlushed
  <2>1. Deliver /\ UNCHANGED key /\ session_key \in Exchanges
    BY <1>2, HeldIsNumbered DEF SentFlushed, FlushHasKey
  <2>2. CASE Tail(deferred) # <<>>
    <3>1. Send(Secret(Head(Tail(deferred)), session_key), "flush") /\ UNCHANGED keys
      BY <1>2, <2>2 DEF SentFlushed
    <3> QED
      BY <2>1, <3>1 DEF Send, key
  <2>3. CASE Tail(deferred) = <<>> /\ cur # Nothing
    <3>1. HandOn(cur, session_key) /\ UNCHANGED send
      BY <1>2, <2>3, Zenon DEF SentFlushed
    <3> QED
      BY <2>1, <3>1, HandOnReads DEF key, send
  <2>4. CASE Tail(deferred) = <<>> /\ cur = Nothing
    BY <1>2, <2>1, <2>4 DEF SentFlushed, key, send
  <2> QED
    BY <2>2, <2>3, <2>4
<1>3. CASE SentError
  BY <1>3 DEF SentError, FailNext, Send, Return, key
<1>4. CASE SentClose
  BY <1>4 DEF SentClose, key, send
<1>5. ASSUME NEW then \in {"init", "run", "answer"}, SentAndReadOn(then) PROVE SafeStep
  BY <1>5 DEF SentAndReadOn, key, send
<1>6. ASSUME NEW then \in Asking, SentPublicKey(then) PROVE SafeStep
  <2>1. Deliver /\ pending_client_key' = out.key /\ UNCHANGED <<session_key, send>>
    BY <1>6 DEF SentPublicKey
  <2>2. out.key \in Exchanges
    BY <1>6 DEF SentPublicKey, SecretInv, KeysAreNumbered
  <2>3. pc' # "send"
    <3>1. CASE then = "requested"
      <4>1. HandOn(cur, session_key)
        BY <1>6, <3>1 DEF SentPublicKey
      <4> QED
        BY <4>1, HandOnReads
    <3>2. CASE then # "requested"
      BY <1>6, <3>2 DEF SentPublicKey
    <3> QED
      BY <3>1, <3>2
  <2> QED
    BY <2>1, <2>2, <2>3 DEF send
<1>7. ASSUME NEW ok \in BOOLEAN, Closed(ok) PROVE SafeStep
  BY <1>7 DEF Closed, Return, key, send, outside, seen
<1> QED
  BY <1>1, <1>2, <1>3, <1>4, <1>5, <1>6, <1>7 DEF SendReturns

\* What a fault leaves half sent is no less encrypted.
LEMMA FaultsAreSafe ==
  ASSUME keys \in Nat, SecretInv, Faults PROVE SafeStep
<1> USE WhatIsSent DEF SafeStep, SendsSafely, KeysSafely, Asking, seen
<1>1. CASE SendFails
  BY <1>1 DEF SendFails, FailNext, Send, Return, Goto, key, send
<1>2. CASE ReceiveFails
  BY <1>2 DEF ReceiveFails, Return, key, send
<1>3. ASSUME NEW is_out \in BOOLEAN, Drop(is_out) PROVE SafeStep
  BY <1>3 DEF Drop, Interrupted, Return, key
<1>4. ASSUME NEW is_out \in BOOLEAN, Cancel(is_out) PROVE SafeStep
  BY <1>4 DEF Cancel, Interrupted, key
<1> QED
  BY <1>1, <1>2, <1>3, <1>4 DEF Faults

\* The server moves no key.
LEMMA ServerIsSafe ==
  ASSUME ServerSpeaks PROVE SafeStep
BY DEF ServerSpeaks, CallHost, AskForKey, ReplyKey, SayOther, SayOpened, SafeStep, SendsSafely,
       KeysSafely, key, call, send, seen

\* Every step is safe.
LEMMA StepIsSafe ==
  ASSUME keys \in Nat, FlushHasKey, SecretInv, [Next]_vars PROVE SafeStep
<1>1. CASE Next
  BY <1>1, OperationIsSafe, ReadLoopIsSafe, HostAnswersAreSafe, SendReturnsAreSafe, FaultsAreSafe,
     ServerIsSafe DEF Next
<1>2. CASE UNCHANGED vars
  BY <1>2 DEF vars, key, call, send, outside, seen, SafeStep, SendsSafely, KeysSafely
<1> QED
  BY <1>1, <1>2

\* SecretInv is an invariant of the pool.
THEOREM SecretInvariant == Spec => []SecretInv
<1>1. Init => SecretInv
  <2> SUFFICES ASSUME Init PROVE SecretInv
    OBVIOUS
  <2>1. KeysAreNumbered /\ OutIsEncrypted
    BY DEF Init, KeysAreNumbered, OutIsEncrypted, Plain
  <2>2. answers = [c \in Calls |-> <<>>]
    BY DEF Init
  <2>3. \A c \in Calls : answers[c] \in Seq({})
    BY <2>2
  <2> QED
    BY <2>1, <2>2, <2>3 DEF SecretInv, AnswersAreSeqs, SecretsEncrypted
<1>2. ParkedInv /\ SecretInv /\ [Next]_vars => SecretInv'
  BY StepIsSafe, SafeStepKeepsSecrets DEF ParkedInv
<1> QED
  BY <1>1, <1>2, ParkedInvariant, PTL DEF Spec

\* For any number of host calls, operations, messages and faults, no
\* SecureString reaches the server unencrypted (handle_host_call,
\* deferred_host_responses).
THEOREM SecretsStayEncrypted == Spec => []SecretsEncrypted
<1>1. SecretInv => SecretsEncrypted
  BY DEF SecretInv
<1> QED
  BY <1>1, SecretInvariant, PTL

-----------------------------------------------------------------------------
(* Types.  What makes the calls and the keys that are sent be calls and     *)
(* keys is what the message in hand is at each await.                       *)

\* The host is asked about a host call, and an answer that will be parked is one's.
CallIsAsked ==
  pc = "host" \/ (pc = "send" /\ after = "park") => cur.kind = "HostCall"

\* A public key is that of a pair.
PublicIsNumbered == out.kind = "PublicKey" => out.key \in Exchanges

\* A flush, and the errors of an unusable key, have an answer to send.
ListsAreTaken ==
  /\ (pc = "send" /\ after = "flush") => deferred # <<>>
  /\ (pc = "send" /\ after = "fail") => failing # <<>>

\* A pool that was not opened runs nothing and has a new machine.
NewIsIdle == conn = "none" => machine = "BeforeOpen" /\ pc = "idle"

TypeInv == TypeOK /\ CallIsAsked /\ PublicIsNumbered /\ ListsAreTaken /\ NewIsIdle

\* The sets of the messages grow with the exchanges.
LEMMA TypesGrow ==
  ASSUME keys \in Nat, keys' \in {keys, keys + 1}
  PROVE  /\ keys' \in Nat /\ Exchanges \subseteq Exchanges'
         /\ MsgSet \subseteq MsgSet' /\ SentSet \subseteq SentSet'
         /\ Seq(MsgSet) \subseteq Seq(MsgSet') /\ Seq(Exchanges) \subseteq Seq(Exchanges')
<1>1. Exchanges \subseteq Exchanges'
  BY ExchangesGrow
<1>2. MsgSet \subseteq MsgSet'
  BY <1>1 DEF MsgSet
<1>3. SentSet \subseteq SentSet'
  BY <1>1 DEF SentSet
<1>4. Seq(MsgSet) \subseteq Seq(MsgSet')
  BY <1>2
<1>5. Seq(Exchanges) \subseteq Seq(Exchanges')
  BY <1>1
<1> QED
  BY <1>1, <1>2, <1>3, <1>4, <1>5

\* What is sent is a message, given a call or a number.
LEMMA SentAreMessages ==
  /\ \A kind \in {"Nothing", "SessionCapability", "InitRunspacePool", "CreatePipeline", "CloseRunspacePool"} :
        Plain(kind) \in SentSet /\ Plain(kind).kind # "PublicKey"
  /\ \A c \in Calls : /\ Answer(c) \in SentSet /\ Answer(c).kind # "PublicKey"
                      /\ Error(c) \in SentSet /\ Error(c).kind # "PublicKey"
  /\ \A c \in Calls : \A k \in Exchanges : Secret(c, k) \in SentSet /\ Secret(c, k).kind # "PublicKey"
  /\ \A n \in Exchanges : Public(n) \in SentSet /\ Public(n).key = n
BY DEF Plain, Answer, Error, Secret, Public, SentSet

\* The new pair is numbered.
LEMMA NewPair ==
  ASSUME keys \in Nat, keys' = keys + 1
  PROVE  keys + 1 \in Exchanges' /\ Public(keys + 1) \in SentSet' /\ Public(keys + 1).key \in Exchanges'
<1>1. keys + 1 \in Exchanges'
  BY DEF Exchanges
<1> QED
  BY <1>1 DEF Public, Plain, SentSet

\* What the server says is a message, and tells what it is about.
LEMMA ReceivedAreMessages ==
  /\ Nothing \in MsgSet /\ Nothing.kind # "HostCall"
  /\ \A c \in Calls : Msg("HostCall", c) \in MsgSet
  /\ \A s \in ServerStates \cup {"Opened"} : Msg("State", s) \in MsgSet
  /\ \A n \in Exchanges \cup {None} : Msg("EncryptedSessionKey", n) \in MsgSet
  /\ \A kind \in {"PublicKeyRequest", "Done", "Bad"} : Msg(kind, None) \in MsgSet
  /\ \A m \in MsgSet : /\ m.kind = "HostCall" => m.arg \in Calls
                       /\ m.kind = "State" => m.arg \in States
<1>1. ServerStates \cup {"Opened"} \subseteq States
  BY ConstantsAssumption DEF States
<1> QED
  BY <1>1 DEF Nothing, Msg, MsgSet

\* The operators on lists keep their elements.
LEMMA TypedLists ==
  ASSUME NEW S, NEW s \in Seq(S)
  PROVE  /\ \A x \in S : Append(s, x) \in Seq(S)
         /\ s # <<>> => Head(s) \in S /\ Tail(s) \in Seq(S)
         /\ \A n \in 1..Len(s) : SubSeq(s, 1, n) \in Seq(S) /\ SubSeq(s, n + 1, Len(s)) \in Seq(S)
<1>1. \A n \in 1..Len(s) : SubSeq(s, 1, n) \in Seq(S) /\ SubSeq(s, n + 1, Len(s)) \in Seq(S)
  OBVIOUS
<1> QED
  BY <1>1

Afters == {"none", "capability", "init", "run", "answer", "ask", "park", "requested", "flush", "fail", "close"}
Callers == {"none", "open", "key", "run", "close"}
Conns == {"none", "live", "away", "gone"}
Awaits == {"idle", "top", "recv", "host", "send", "closing"}

\* TypeOK by what the variables are about.
ControlOK == /\ machine \in States /\ conn \in Conns /\ caller \in Callers /\ pc \in Awaits
             /\ cancelled \in BOOLEAN /\ NewIsIdle
CountsOK == /\ keys \in Nat /\ ops \in 0..MaxOps /\ noise \in 0..MaxNoise /\ faults \in 0..MaxFaults
            /\ lost \subseteq {"answer", "parked", "refused", "chunk", "disconnected"}
            /\ called \subseteq Calls /\ silent \subseteq Calls /\ unreadable \subseteq Calls
HeldOK == /\ session_key \in Exchanges \cup {None} /\ pending_client_key \in Exchanges \cup {None}
          /\ deferred \in Seq(Calls) /\ failing \in Seq(Calls)
          /\ ListsAreTaken
ReceivedOK == /\ pending_messages \in Seq(MsgSet) /\ s2c \in Seq(MsgSet) /\ cur \in MsgSet
              /\ CallIsAsked
SendOK == /\ out \in SentSet /\ after \in Afters /\ next_object_id \in Nat \ {0}
          /\ ids \in Seq(Nat) /\ to_reply \in Seq(Exchanges) /\ PublicIsNumbered

\* The parts are TypeOK, and what it needs to be inductive.
LEMMA TypeParts == TypeInv <=> ControlOK /\ CountsOK /\ HeldOK /\ ReceivedOK /\ SendOK
BY DEF TypeInv, TypeOK, ControlOK, CountsOK, HeldOK, ReceivedOK, SendOK, Afters, Callers, Conns, Awaits

\* What a step does to the counts; a pair is counted when it is generated.
Counted ==
  /\ keys' \in {keys, keys + 1}
  /\ ops' = ops \/ (ops < MaxOps /\ ops' = ops + 1)
  /\ noise' = noise \/ (noise < MaxNoise /\ noise' = noise + 1)
  /\ faults' = faults \/ (faults < MaxFaults /\ faults' = faults + 1)
  /\ lost' \subseteq lost \cup {"answer", "parked", "refused", "chunk", "disconnected"}
  /\ called' = called \/ \E c \in Calls : called' = called \cup {c}
  /\ silent' = silent \/ (pc = "host" /\ silent' = silent \cup {cur.arg})
  /\ \/ unreadable' = unreadable
     \/ /\ pending_messages # <<>> /\ Head(pending_messages).kind = "HostCall"
        /\ unreadable' = unreadable \cup {Head(pending_messages).arg}

\* Every step counts like this.
LEMMA StepIsCounted == ASSUME [Next]_vars PROVE Counted
<1> USE DEF Counted, Exchange, send, outside, server, history
<1>1. CASE Operation
  BY <1>1 DEF Operation, OpenWithOptions, OpenFromTransport, RequestSessionKey, RunPipeline, SetSessionKey, Close,
              Disconnect, Reconnect, Begin
<1>2. CASE ReadLoop \/ ReceiveEmpty
  BY <1>2 DEF ReadLoop, FlushFirst, PopHostCall, PopUnreadableCall, PopPublicKeyRequest, PopOther, PopUnexpectedKey,
              PopSessionKey, PopUnusableKey, WaitForChunk, ReceiveChunk, ReceiveEmpty, Popped
<1>3. CASE HostAnswers
  BY <1>3 DEF HostAnswers, HostVoid, HostPlain, HostSecret, HostSecretParks
<1>4. CASE SendReturns
  BY <1>4 DEF SendReturns, SentCapability, SentFlushed, SentError, FailNext, SentClose, SentAndReadOn, SentPublicKey,
              Closed, Sent, Deliver
<1>5. CASE Faults
  BY <1>5 DEF Faults, SendFails, FailNext, ReceiveFails, Drop, Cancel, Interrupted, Fault, Deliver, Loses
<1>6. CASE ServerSpeaks
  BY <1>6 DEF ServerSpeaks, CallHost, AskForKey, ReplyKey, SayOther, SayOpened
<1>7. CASE UNCHANGED vars
  BY <1>7 DEF vars
<1> QED
  BY <1>1, <1>2, <1>3, <1>4, <1>5, <1>6, <1>7 DEF Next

\* So the counts stay within their bounds.
LEMMA CountsStay ==
  ASSUME TypeInv, Counted PROVE CountsOK'
<1>0. pending_messages # <<>> => Head(pending_messages) \in MsgSet
  BY DEF TypeInv, TypeOK
<1>1. CountsOK /\ (pc = "host" => cur.arg \in Calls)
  BY TypeParts, ReceivedAreMessages DEF ReceivedOK, CallIsAsked
<1>2. keys' \in Nat /\ ops' \in 0..MaxOps /\ noise' \in 0..MaxNoise /\ faults' \in 0..MaxFaults
  BY <1>1, ConstantsAssumption DEF Counted, CountsOK
<1>3. pending_messages # <<>> /\ Head(pending_messages).kind = "HostCall" => Head(pending_messages).arg \in Calls
  BY <1>0 DEF MsgSet
<1> QED
  BY <1>1, <1>2, <1>3 DEF Counted, CountsOK

\* The keys and the lists of calls.
Held ==
  /\ session_key' \in {session_key, OutOfBandKey, pending_client_key}
  /\ \/ pending_client_key' \in {pending_client_key, None}
     \/ pc = "send" /\ after \in Asking /\ pending_client_key' = out.key
  /\ \/ deferred' \in {deferred, <<>>}
     \/ (pc = "host" \/ (pc = "send" /\ after = "park")) /\ deferred' = Append(deferred, cur.arg)
     \/ pc = "send" /\ after = "flush" /\ deferred' = Tail(deferred)
  /\ \/ failing' \in {failing, <<>>, deferred}
     \/ pc = "send" /\ after = "fail" /\ failing' = Tail(failing)
  /\ \/ pc' # "send" \/ after' \notin {"flush", "fail"} \/ UNCHANGED <<pc, after, deferred, failing>>
     \/ after' = "flush" /\ deferred' # <<>>
     \/ after' = "fail" /\ failing' # <<>>

\* Every step treats them like this.
LEMMA StepHolds == ASSUME [Next]_vars PROVE Held
<1> USE DEF Held, Exchange, Send, Goto, Return, key, store, send, call, outside, seen, history
<1>1. CASE Operation
  BY <1>1 DEF Operation, OpenWithOptions, OpenFromTransport, RequestSessionKey, RunPipeline, SetSessionKey, Close,
              Disconnect, Reconnect, Idle
\* What is only handed on is sent no further.
<1>0. ASSUME NEW m, NEW k, HandOn(m, k) PROVE pc' # "send"
  BY <1>0, HandOnReads
<1>2. CASE ReadLoop \/ ReceiveEmpty
  BY <1>2, <1>0 DEF ReadLoop, FlushFirst, PopHostCall, PopUnreadableCall, PopPublicKeyRequest, PopOther, PopUnexpectedKey,
              PopSessionKey, PopUnusableKey, WaitForChunk, ReceiveChunk, ReceiveEmpty, Popped
<1>3. CASE HostAnswers
  BY <1>3 DEF HostAnswers, HostVoid, HostPlain, HostSecret, HostSecretParks, Park
<1>4. CASE SendReturns
  <2>1. CASE SentFlushed
    <3>1. CASE Tail(deferred) = <<>> /\ cur # Nothing
      <4>1. HandOn(cur, session_key)
        BY <2>1, <3>1, Zenon DEF SentFlushed
      <4> QED
        BY <2>1, <4>1, <1>0 DEF SentFlushed, Sent
    <3>2. CASE Tail(deferred) # <<>> \/ cur = Nothing
      BY <2>1, <3>2 DEF SentFlushed, Sent
    <3> QED
      BY <3>1, <3>2
  <2>2. ASSUME NEW then \in Asking, SentPublicKey(then) PROVE Held
    BY <2>2, <1>0 DEF SentPublicKey, Sent, Park, Asking
  <2> QED
    BY <1>4, <2>1, <2>2
    DEF SendReturns, SentCapability, SentError, FailNext, SentClose, SentAndReadOn, Closed, Sent, Asking
<1>5. CASE Faults
  BY <1>5 DEF Faults, SendFails, FailNext, ReceiveFails, Drop, Cancel, Interrupted
<1>6. CASE ServerSpeaks
  BY <1>6 DEF ServerSpeaks, CallHost, AskForKey, ReplyKey, SayOther, SayOpened
<1>7. CASE UNCHANGED vars
  BY <1>7 DEF vars
<1> QED
  BY <1>1, <1>2, <1>3, <1>4, <1>5, <1>6, <1>7 DEF Next

\* So they stay what they are.
LEMMA HeldStays ==
  ASSUME TypeInv, Counted, Held PROVE HeldOK'
<1>1. HeldOK /\ keys \in Nat /\ Exchanges \subseteq Exchanges'
  BY TypeParts, TypesGrow DEF Counted, CountsOK
<1>2. (pc = "host" \/ (pc = "send" /\ after = "park")) => cur.arg \in Calls
  BY TypeParts, ReceivedAreMessages DEF ReceivedOK, CallIsAsked
<1>3. (pc = "send" /\ after \in Asking) => out.key \in Exchanges \cup {None}
  BY TypeParts DEF SendOK, SentSet
<1>4. OutOfBandKey \in Exchanges
  BY <1>1 DEF OutOfBandKey, Exchanges
<1>5. deferred' \in Seq(Calls) /\ failing' \in Seq(Calls)
  <2>1. deferred \in Seq(Calls) /\ failing \in Seq(Calls) /\ <<>> \in Seq(Calls)
    BY <1>1 DEF HeldOK
  <2>2. cur.arg \in Calls => Append(deferred, cur.arg) \in Seq(Calls)
    BY <2>1
  <2>3. /\ deferred # <<>> => Tail(deferred) \in Seq(Calls)
        /\ failing # <<>> => Tail(failing) \in Seq(Calls)
    BY <2>1
  <2> QED
    BY <1>1, <1>2, <2>1, <2>2, <2>3 DEF HeldOK, ListsAreTaken, Held
<1> QED
  BY <1>1, <1>3, <1>4, <1>5 DEF HeldOK, ListsAreTaken, Held

\* The messages received, and the one in hand.
Received ==
  /\ \/ UNCHANGED s2c
     \/ s2c' = Append(s2c, Msg("EncryptedSessionKey", None))
     \/ to_reply # <<>> /\ s2c' = Append(s2c, Msg("EncryptedSessionKey", Head(to_reply)))
     \/ \E c \in Calls : s2c' = Append(s2c, Msg("HostCall", c))
     \/ \E s \in ServerStates \cup {"Opened"} : s2c' = Append(s2c, Msg("State", s))
     \/ \E kind \in {"PublicKeyRequest", "Done", "Bad"} : s2c' = Append(s2c, Msg(kind, None))
     \/ \E n \in 1..Len(s2c) : s2c' = SubSeq(s2c, n + 1, Len(s2c))
  /\ \/ pending_messages' \in {pending_messages, <<>>}
     \/ pending_messages # <<>> /\ pending_messages' = Tail(pending_messages)
     \/ \E n \in 1..Len(s2c) : pending_messages' = SubSeq(s2c, 1, n)
  /\ cur' \in {cur, Nothing} \/ (pending_messages # <<>> /\ cur' = Head(pending_messages))
  /\ \/ UNCHANGED <<cur, pc, after>>
     \/ pc' # "host" /\ (pc' = "send" => after' # "park")
     \/ pc = "host" /\ cur' = cur
     \/ pending_messages # <<>> /\ Head(pending_messages).kind = "HostCall" /\ cur' = Head(pending_messages)

\* Every step receives like this.
LEMMA StepReceives == ASSUME [Next]_vars PROVE Received
<1> USE DEF Received, Exchange, Send, Goto, Return, store, send, call, outside, server
\* What is handed on is no longer in hand.
<1>0. ASSUME NEW m, NEW k, HandOn(m, k) PROVE pc' \in {"idle", "top"} /\ cur' = Nothing
  <2>1. \/ Return("err") \/ Return("ok") \/ (Goto("top") /\ cur' = Nothing)
    BY <1>0, Zenon DEF HandOn
  <2> QED
    BY <1>0, <2>1, HandOnReads
<1>1. CASE Operation
  BY <1>1 DEF Operation, OpenWithOptions, OpenFromTransport, RequestSessionKey, RunPipeline, SetSessionKey, Close,
              Disconnect, Reconnect, Idle
<1>2. CASE ReadLoop \/ ReceiveEmpty
  <2> USE DEF Popped
  <2>1. CASE FlushFirst \/ PopHostCall \/ PopUnreadableCall \/ WaitForChunk
    BY <2>1 DEF FlushFirst, PopHostCall, PopUnreadableCall, WaitForChunk
  <2>2. CASE PopPublicKeyRequest \/ PopUnexpectedKey \/ (\E kind \in {"State", "Done"} : PopOther(kind))
    BY <2>2, <1>0 DEF PopPublicKeyRequest, PopUnexpectedKey, PopOther
  <2>3. CASE PopSessionKey
    BY <2>3, <1>0 DEF PopSessionKey
  <2>4. CASE PopUnusableKey
    BY <2>4 DEF PopUnusableKey
  <2>5. ASSUME NEW n \in 1..Len(s2c), ReceiveChunk(n) PROVE Received
    BY <2>5 DEF ReceiveChunk
  <2>6. CASE ReceiveEmpty
    BY <2>6, <1>0 DEF ReceiveEmpty
  <2> QED
    BY <1>2, <2>1, <2>2, <2>3, <2>4, <2>5, <2>6 DEF ReadLoop
<1>3. CASE HostAnswers
  BY <1>3 DEF HostAnswers, HostVoid, HostPlain, HostSecret, HostSecretParks
<1>4. CASE SendReturns
  <2> USE DEF Sent, Deliver
  <2>1. CASE SentFlushed
    <3>1. CASE Tail(deferred) = <<>> /\ cur # Nothing
      <4>1. HandOn(cur, session_key)
        BY <2>1, <3>1, Zenon DEF SentFlushed
      <4> QED
        BY <2>1, <4>1, <1>0 DEF SentFlushed
    <3>2. CASE Tail(deferred) # <<>> \/ cur = Nothing
      BY <2>1, <3>2 DEF SentFlushed
    <3> QED
      BY <3>1, <3>2
  <2>2. ASSUME NEW then \in Asking, SentPublicKey(then) PROVE Received
    BY <2>2, <1>0 DEF SentPublicKey
  <2> QED
    BY <1>4, <2>1, <2>2
    DEF SendReturns, SentCapability, SentError, FailNext, SentClose, SentAndReadOn, Closed, Asking
<1>5. CASE Faults
  BY <1>5 DEF Faults, SendFails, FailNext, ReceiveFails, Drop, Cancel, Interrupted, Deliver
<1>6. CASE ServerSpeaks
  BY <1>6 DEF ServerSpeaks, CallHost, AskForKey, ReplyKey, SayOther, SayOpened, ServerSays
<1>7. CASE UNCHANGED vars
  BY <1>7 DEF vars
<1> QED
  BY <1>1, <1>2, <1>3, <1>4, <1>5, <1>6, <1>7 DEF Next

\* So what is received is a message.
LEMMA ReceivedStays ==
  ASSUME TypeInv, Counted, Received PROVE ReceivedOK'
<1>1. /\ ReceivedOK /\ to_reply \in Seq(Exchanges)
      /\ MsgSet \subseteq MsgSet' /\ Seq(MsgSet) \subseteq Seq(MsgSet)'
  BY TypeParts, TypesGrow DEF Counted, CountsOK, SendOK
<1>2. s2c \in Seq(MsgSet) /\ pending_messages \in Seq(MsgSet) /\ cur \in MsgSet
  BY <1>1 DEF ReceivedOK
<1>3. /\ pending_messages # <<>> => Head(pending_messages) \in MsgSet /\ Tail(pending_messages) \in Seq(MsgSet)
      /\ to_reply # <<>> => Head(to_reply) \in Exchanges
      /\ \A m \in MsgSet : Append(s2c, m) \in Seq(MsgSet)
      /\ \A n \in 1..Len(s2c) : SubSeq(s2c, 1, n) \in Seq(MsgSet) /\ SubSeq(s2c, n + 1, Len(s2c)) \in Seq(MsgSet)
  BY <1>1, <1>2, TypedLists
<1>4. s2c' \in Seq(MsgSet)
  BY <1>2, <1>3, ReceivedAreMessages DEF Received
<1>5. pending_messages' \in Seq(MsgSet) /\ cur' \in MsgSet
  <2>1. <<>> \in Seq(MsgSet) /\ Nothing \in MsgSet
    BY ReceivedAreMessages
  <2> QED
    BY <1>2, <1>3, <2>1 DEF Received
<1>6. CallIsAsked'
  BY <1>1 DEF ReceivedOK, CallIsAsked, Received
<1> QED
  BY <1>1, <1>4, <1>5, <1>6 DEF ReceivedOK

\* The message being sent, and what the server has received.
Sends ==
  /\ \/ UNCHANGED out
     \/ out' = Public(keys + 1) /\ keys' = keys + 1
     \/ \E kind \in {"SessionCapability", "InitRunspacePool", "CreatePipeline", "CloseRunspacePool"} : out' = Plain(kind)
     \/ pc = "host" /\ out' \in {Answer(cur.arg), Error(cur.arg)}
     \/ pc = "host" /\ session_key # None /\ out' = Secret(cur.arg, session_key)
     \/ deferred # <<>> /\ out' = Error(Head(deferred))
     \/ /\ deferred # <<>>
        /\ \/ session_key # None /\ out' = Secret(Head(deferred), session_key)
           \/ pending_client_key # None /\ out' = Secret(Head(deferred), pending_client_key)
     \/ pc = "send" /\ after = "flush" /\ Tail(deferred) # <<>> /\ out' = Secret(Head(Tail(deferred)), session_key)
     \/ pc = "send" /\ after = "fail" /\ Tail(failing) # <<>> /\ out' = Error(Head(Tail(failing)))
  /\ after' \in {after} \cup Afters
  /\ next_object_id' \in {next_object_id, next_object_id + 1, 1, 3}
  /\ ids' \in {ids, Append(ids, next_object_id - 1), <<1, 2>>}
  /\ \/ UNCHANGED to_reply
     \/ out.kind = "PublicKey" /\ to_reply' = Append(to_reply, out.key)
     \/ to_reply # <<>> /\ to_reply' = Tail(to_reply)

\* Every step sends like this.
LEMMA StepSends == ASSUME [Next]_vars PROVE Sends
<1> USE DEF Sends, Afters, Exchange, Send, send, outside, server, seen
<1>1. CASE Operation
  BY <1>1 DEF Operation, OpenWithOptions, OpenFromTransport, RequestSessionKey, RunPipeline, SetSessionKey, Close,
              Disconnect, Reconnect
<1>2. CASE ReadLoop \/ ReceiveEmpty
  BY <1>2 DEF ReadLoop, FlushFirst, PopHostCall, PopUnreadableCall, PopPublicKeyRequest, PopOther, PopUnexpectedKey,
              PopSessionKey, PopUnusableKey, WaitForChunk, ReceiveChunk, ReceiveEmpty, Popped
<1>3. CASE HostAnswers
  BY <1>3 DEF HostAnswers, HostVoid, HostPlain, HostSecret, HostSecretParks, Replies
<1>4. CASE SendReturns
  <2> USE DEF Sent, Deliver
  <2>1. CASE SentFlushed
    <3>1. CASE Tail(deferred) # <<>>
      BY <2>1, <3>1 DEF SentFlushed
    <3>2. CASE Tail(deferred) = <<>>
      <4>1. UNCHANGED send
        BY <2>1, <3>2 DEF SentFlushed
      <4> QED
        BY <2>1, <4>1 DEF SentFlushed
    <3> QED
      BY <3>1, <3>2
  <2> QED
    BY <1>4, <2>1
    DEF SendReturns, SentCapability, SentError, FailNext, SentClose, SentAndReadOn, SentPublicKey, Closed
<1>5. CASE Faults
  <2>1. CASE SendFails
    BY <2>1 DEF SendFails, FailNext
  <2> QED
    BY <1>5, <2>1 DEF Faults, ReceiveFails, Drop, Cancel, Interrupted, Deliver
<1>6. CASE ServerSpeaks
  BY <1>6 DEF ServerSpeaks, CallHost, AskForKey, ReplyKey, SayOther, SayOpened
<1>7. CASE UNCHANGED vars
  BY <1>7 DEF vars
<1> QED
  BY <1>1, <1>2, <1>3, <1>4, <1>5, <1>6, <1>7 DEF Next

\* So what is sent is a message.
LEMMA SendStays ==
  ASSUME TypeInv, FlushHasKey, Counted, Sends PROVE SendOK'
<1>1. /\ SendOK /\ HeldOK /\ keys \in Nat
      /\ Exchanges \subseteq Exchanges' /\ SentSet \subseteq SentSet' /\ Seq(Exchanges) \subseteq Seq(Exchanges)'
  BY TypeParts, TypesGrow DEF Counted, CountsOK
<1>2. (pc = "host" => cur.arg \in Calls)
  BY TypeParts, ReceivedAreMessages DEF ReceivedOK, CallIsAsked
<1>3. /\ deferred # <<>> => Head(deferred) \in Calls /\ Tail(deferred) \in Seq(Calls)
      /\ failing # <<>> => Head(failing) \in Calls /\ Tail(failing) \in Seq(Calls)
  BY <1>1 DEF HeldOK
<1>4. /\ deferred # <<>> /\ Tail(deferred) # <<>> => Head(Tail(deferred)) \in Calls
      /\ failing # <<>> /\ Tail(failing) # <<>> => Head(Tail(failing)) \in Calls
  BY <1>3
<1>5. /\ session_key # None => session_key \in Exchanges
      /\ pending_client_key # None => pending_client_key \in Exchanges
  BY <1>1 DEF HeldOK
\* What is begun is a message.
<1> DEFINE Typed == out' \in SentSet' /\ (out'.kind = "PublicKey" => out'.key \in Exchanges')
<1>6. Typed
  <2>1. CASE UNCHANGED out
    BY <1>1, <2>1 DEF SendOK, PublicIsNumbered
  <2>2. CASE out' = Public(keys + 1) /\ keys' = keys + 1
    BY <1>1, <2>2, NewPair
  <2>3. CASE \E kind \in {"SessionCapability", "InitRunspacePool", "CreatePipeline", "CloseRunspacePool"} :
               out' = Plain(kind)
    BY <1>1, <2>3, SentAreMessages
  <2>4. ASSUME NEW c \in Calls, out' \in {Answer(c), Error(c)} PROVE Typed
    BY <1>1, <2>4, SentAreMessages
  <2>5. ASSUME NEW c \in Calls, NEW k \in Exchanges, out' = Secret(c, k) PROVE Typed
    BY <1>1, <2>5, SentAreMessages
  <2> QED
    BY <1>1, <1>2, <1>3, <1>4, <1>5, <2>1, <2>2, <2>3, <2>4, <2>5
    DEF Sends, HeldOK, ListsAreTaken, FlushHasKey
<1>7. next_object_id' \in Nat \ {0} /\ after' \in Afters
  BY <1>1 DEF SendOK, Sends
<1>8. ids' \in Seq(Nat)
  <2>1. ids \in Seq(Nat) /\ next_object_id - 1 \in Nat /\ <<1, 2>> \in Seq(Nat)
    BY <1>1 DEF SendOK
  <2>2. Append(ids, next_object_id - 1) \in Seq(Nat)
    BY <2>1
  <2> QED
    BY <2>1, <2>2 DEF Sends
<1>9. to_reply' \in Seq(Exchanges)
  <2>1. to_reply \in Seq(Exchanges)
    BY <1>1 DEF SendOK
  <2>2. to_reply # <<>> => Tail(to_reply) \in Seq(Exchanges)
    BY <2>1
  <2>3. out.key \in Exchanges => Append(to_reply, out.key) \in Seq(Exchanges)
    BY <2>1
  <2> QED
    BY <1>1, <2>1, <2>2, <2>3 DEF Sends, SendOK, PublicIsNumbered
<1> QED
  BY <1>1, <1>6, <1>7, <1>8, <1>9 DEF SendOK, PublicIsNumbered

-----------------------------------------------------------------------------
(* The machine and the connection.                                         *)

\* What the server does to the machine, seen from outside: it moves it by a legal
\* transition.
MovedByServer ==
  \E to \in States : IsLegalServerTransition(machine, to) /\ machine' = to

\* Ways the machine and the connection may go.
Opens   == conn = "none" /\ conn' = "live" /\ machine' = "NegotiationSent"
Listens == /\ machine' = machine \/ MovedByServer
           /\ conn' \in {conn, "gone"}
           /\ conn = "none" => machine' = machine /\ (conn' = "none" => pc' = "idle")
Closes  == conn = "live" /\ UNCHANGED conn /\ MayClose(machine) /\ machine' = "Closing"
Ends    == conn # "none" /\ conn' \in {conn, "gone"} /\ machine' = "Closed"
Leaves  == OutOfBand /\ conn = "live" /\ conn' \in {"away", "gone"} /\ UNCHANGED machine
Returns == conn = "away" /\ conn' = "live" /\ machine' = "Opened"
LifecycleStep == Opens \/ Listens \/ Closes \/ Ends \/ Leaves \/ Returns

\* A step that leaves the machine alone.
LEMMA IdleStep ==
  ASSUME UNCHANGED machine, conn' \in {conn, "gone"}, conn = "none" /\ conn' = "none" => pc' = "idle"
  PROVE  LifecycleStep
BY DEF LifecycleStep, Listens

\* Handing on a message listens to it.
LEMMA HandOnListens ==
  ASSUME conn # "none", NEW m \in MsgSet, NEW k, HandOn(m, k) PROVE LifecycleStep
<1>1. machine' = IF Fed(m) THEN AfterServer(machine, m.arg) ELSE machine
  BY Zenon DEF HandOn
<1>2. \/ Return("err") \/ Return("ok") \/ (Goto("top") /\ cur' = Nothing)
  BY Zenon DEF HandOn
<1>3. Fed(m) => m.arg \in States
  BY ReceivedAreMessages DEF Fed
<1>4. machine' = machine \/ MovedByServer
  BY <1>1, <1>3 DEF AfterServer, MovedByServer
<1> QED
  BY <1>2, <1>4 DEF Return, Goto, LifecycleStep, Listens

\* Every step is one of these.
LEMMA StepOfDriver ==
  ASSUME TypeInv, [Next]_vars PROVE LifecycleStep
<1> USE DEF Send, key, store, call, send, outside, server, seen, history
<1>0. (pc # "idle" => conn # "none") /\ cur \in MsgSet /\ Nothing \in MsgSet
  BY ReceivedAreMessages DEF TypeInv, TypeOK, NewIsIdle
<1>1. CASE Operation
  <2>1. CASE OpenWithOptions \/ OpenFromTransport
    BY <2>1 DEF OpenWithOptions, OpenFromTransport, LifecycleStep, Opens
  <2>2. CASE RequestSessionKey \/ RunPipeline \/ SetSessionKey
    BY <2>2, IdleStep DEF RequestSessionKey, RunPipeline, SetSessionKey, Exchange, Idle
  <2>3. CASE Close
    <3>1. CASE MayClose(machine)
      BY <2>3, <3>1 DEF Close, Idle, LifecycleStep, Closes
    <3>2. CASE ~MayClose(machine)
      BY <2>3, <3>2, IdleStep DEF Close, Idle
    <3> QED
      BY <3>1, <3>2
  <2>4. ASSUME NEW ok \in BOOLEAN, Disconnect(ok) PROVE LifecycleStep
    BY <2>4 DEF Disconnect, Idle, LifecycleStep, Leaves
  <2>5. CASE Reconnect
    BY <2>5 DEF Reconnect, LifecycleStep, Returns
  <2> QED
    BY <1>1, <2>1, <2>2, <2>3, <2>4, <2>5 DEF Operation
\* What is popped is a message.
<1>2. ASSUME NEW kind, Popped(kind) PROVE Head(pending_messages) \in MsgSet /\ conn # "none"
  <2>1. pending_messages \in Seq(MsgSet) /\ pending_messages # <<>>
    BY <1>2 DEF Popped, TypeInv, TypeOK
  <2>2. Head(pending_messages) \in MsgSet
    BY <2>1
  <2> QED
    BY <1>0, <1>2, <2>2 DEF Popped
<1>3. ASSUME NEW kind, Popped(kind), NEW k, HandOn(Head(pending_messages), k) PROVE LifecycleStep
  BY <1>2, <1>3, HandOnListens
<1>4. CASE ReadLoop
  <2>1. CASE FlushFirst \/ WaitForChunk
    BY <1>0, <2>1, IdleStep DEF FlushFirst, WaitForChunk, Goto
  <2>2. CASE PopHostCall \/ PopUnreadableCall
    BY <1>2, <2>2, IdleStep DEF PopHostCall, PopUnreadableCall, Goto, Return
  <2>3. CASE PopPublicKeyRequest
    <3>1. CASE pending_client_key # None
      BY <2>3, <3>1, <1>3 DEF PopPublicKeyRequest
    <3>2. CASE pending_client_key = None
      BY <2>3, <3>2, <1>2, IdleStep DEF PopPublicKeyRequest
    <3> QED
      BY <3>1, <3>2
  <2>4. ASSUME NEW kind, PopOther(kind) PROVE LifecycleStep
    BY <2>4, <1>3 DEF PopOther
  <2>5. CASE PopUnexpectedKey
    BY <2>5, <1>3 DEF PopUnexpectedKey
  <2>6. CASE PopSessionKey
    <3>1. CASE deferred = <<>>
      BY <2>6, <3>1, <1>3 DEF PopSessionKey
    <3>2. CASE deferred # <<>>
      BY <2>6, <3>2, <1>2, IdleStep DEF PopSessionKey
    <3> QED
      BY <3>1, <3>2
  <2>7. CASE PopUnusableKey
    <3>1. CASE deferred = <<>>
      BY <2>7, <3>1, <1>2, IdleStep DEF PopUnusableKey, Return
    <3>2. CASE deferred # <<>>
      BY <2>7, <3>2, <1>2, IdleStep DEF PopUnusableKey
    <3> QED
      BY <3>1, <3>2
  <2>8. ASSUME NEW n \in 1..Len(s2c), ReceiveChunk(n) PROVE LifecycleStep
    BY <1>0, <2>8, IdleStep DEF ReceiveChunk, Return, Goto
  <2> QED
    BY <1>4, <2>1, <2>2, <2>3, <2>4, <2>5, <2>6, <2>7, <2>8 DEF ReadLoop
<1>5. CASE ReceiveEmpty
  BY <1>0, <1>5, HandOnListens DEF ReceiveEmpty
<1>6. CASE HostAnswers
  <2>1. CASE HostVoid
    BY <1>0, <2>1, IdleStep DEF HostVoid, Goto
  <2>2. ASSUME NEW m, HostPlain(m) PROVE LifecycleStep
    BY <1>0, <2>2, IdleStep DEF HostPlain
  <2>3. CASE HostSecret
    BY <1>0, <2>3, IdleStep DEF HostSecret
  <2>4. CASE HostSecretParks
    BY <1>0, <2>4, IdleStep DEF HostSecretParks, Goto
  <2> QED
    BY <1>6, <2>1, <2>2, <2>3, <2>4 DEF HostAnswers
<1>7. CASE SendReturns
  <2> USE DEF Sent, Deliver
  <2>1. CASE SentCapability
    BY <1>0, <2>1, IdleStep DEF SentCapability
  <2>2. CASE SentFlushed
    <3>1. CASE Tail(deferred) # <<>>
      BY <1>0, <2>2, <3>1, IdleStep DEF SentFlushed
    <3>2. CASE Tail(deferred) = <<>> /\ cur # Nothing
      <4>1. HandOn(cur, session_key)
        BY <2>2, <3>2, Zenon DEF SentFlushed
      <4>2. pc = "send"
        BY <2>2 DEF SentFlushed
      <4> QED
        BY <1>0, <4>1, <4>2, HandOnListens
    <3>3. CASE Tail(deferred) = <<>> /\ cur = Nothing
      BY <1>0, <2>2, <3>3, IdleStep DEF SentFlushed, Goto
    <3> QED
      BY <3>1, <3>2, <3>3
  <2>3. CASE SentError
    BY <1>0, <2>3, IdleStep DEF SentError, FailNext, Return
  <2>4. CASE SentClose
    BY <1>0, <2>4, IdleStep DEF SentClose, Goto
  <2>5. ASSUME NEW then, SentAndReadOn(then) PROVE LifecycleStep
    BY <1>0, <2>5, IdleStep DEF SentAndReadOn, Goto
  <2>6. ASSUME NEW then, SentPublicKey(then) PROVE LifecycleStep
    <3>1. pc = "send"
      BY <2>6 DEF SentPublicKey
    <3>2. CASE then = "requested"
      <4>1. HandOn(cur, session_key)
        BY <2>6, <3>2 DEF SentPublicKey
      <4> QED
        BY <1>0, <3>1, <4>1, HandOnListens
    <3>3. CASE then # "requested"
      BY <1>0, <2>6, <3>3, IdleStep DEF SentPublicKey, Goto
    <3> QED
      BY <3>2, <3>3
  <2>7. ASSUME NEW ok \in BOOLEAN, Closed(ok) PROVE LifecycleStep
    <3>1. CASE ok
      BY <1>0, <2>7, <3>1 DEF Closed, Return, LifecycleStep, Ends
    <3>2. CASE ~ok
      BY <1>0, <2>7, <3>2, IdleStep DEF Closed, Return
    <3> QED
      BY <3>1, <3>2
  <2> QED
    BY <1>7, <2>1, <2>2, <2>3, <2>4, <2>5, <2>6, <2>7 DEF SendReturns
<1>8. CASE Faults
  <2>1. CASE SendFails
    BY <1>0, <2>1, IdleStep DEF SendFails, FailNext, Return, Goto
  <2>2. CASE ReceiveFails
    BY <1>0, <2>2, IdleStep DEF ReceiveFails, Return
  <2>3. ASSUME NEW is_out, Drop(is_out) PROVE LifecycleStep
    BY <1>0, <2>3, IdleStep DEF Drop, Interrupted, Deliver, Return
  <2>4. ASSUME NEW is_out, Cancel(is_out) PROVE LifecycleStep
    BY <1>0, <2>4, IdleStep DEF Cancel, Interrupted, Deliver
  <2> QED
    BY <1>8, <2>1, <2>2, <2>3, <2>4 DEF Faults
<1>9. CASE ServerSpeaks \/ UNCHANGED vars
  <2>1. UNCHANGED <<machine, conn, pc>>
    BY <1>9 DEF vars, ServerSpeaks, CallHost, AskForKey, ReplyKey, SayOther, SayOpened
  <2> QED
    BY <1>0, <2>1, IdleStep
<1> QED
  BY <1>1, <1>4, <1>5, <1>6, <1>7, <1>8, <1>9 DEF Next

\* The call in progress and its await point.
Runs == caller' \in {caller} \cup Callers /\ pc' \in {pc} \cup Awaits /\ cancelled' \in {cancelled, TRUE, FALSE}

\* Every step leads to an await.
LEMMA StepRuns == ASSUME [Next]_vars PROVE Runs
<1> USE DEF Runs, Awaits, Callers, Exchange, Send, Goto, Return, call, send
<1>0. ASSUME NEW m, NEW k, HandOn(m, k) PROVE Runs
  <2>1. \/ Return("err") \/ Return("ok") \/ (Goto("top") /\ cur' = Nothing)
    BY <1>0, Zenon DEF HandOn
  <2> QED
    BY <2>1
<1>1. CASE Operation
  BY <1>1 DEF Operation, OpenWithOptions, OpenFromTransport, RequestSessionKey, RunPipeline, SetSessionKey, Close,
              Disconnect, Reconnect
<1>2. CASE ReadLoop \/ ReceiveEmpty
  <2>1. CASE FlushFirst \/ PopHostCall \/ PopUnreadableCall \/ WaitForChunk \/ PopUnusableKey
    BY <2>1 DEF FlushFirst, PopHostCall, PopUnreadableCall, WaitForChunk, PopUnusableKey
  <2>2. CASE PopPublicKeyRequest \/ PopUnexpectedKey \/ (\E kind \in {"State", "Done"} : PopOther(kind))
    BY <2>2, <1>0 DEF PopPublicKeyRequest, PopUnexpectedKey, PopOther
  <2>3. CASE PopSessionKey \/ ReceiveEmpty
    BY <2>3, <1>0 DEF PopSessionKey, ReceiveEmpty
  <2>4. ASSUME NEW n \in 1..Len(s2c), ReceiveChunk(n) PROVE Runs
    BY <2>4 DEF ReceiveChunk
  <2> QED
    BY <1>2, <2>1, <2>2, <2>3, <2>4 DEF ReadLoop
<1>3. CASE HostAnswers
  BY <1>3 DEF HostAnswers, HostVoid, HostPlain, HostSecret, HostSecretParks
<1>4. CASE SendReturns
  <2>1. CASE SentFlushed
    <3>1. CASE Tail(deferred) = <<>> /\ cur # Nothing
      BY <2>1, <3>1, <1>0, Zenon DEF SentFlushed
    <3>2. CASE Tail(deferred) # <<>> \/ cur = Nothing
      BY <2>1, <3>2 DEF SentFlushed
    <3> QED
      BY <3>1, <3>2
  <2>2. ASSUME NEW then, SentPublicKey(then) PROVE Runs
    BY <2>2, <1>0 DEF SentPublicKey
  <2> QED
    BY <1>4, <2>1, <2>2 DEF SendReturns, SentCapability, SentError, FailNext, SentClose, SentAndReadOn, Closed
<1>5. CASE Faults
  BY <1>5 DEF Faults, SendFails, FailNext, ReceiveFails, Drop, Cancel, Interrupted
<1>6. CASE ServerSpeaks
  BY <1>6 DEF ServerSpeaks, CallHost, AskForKey, ReplyKey, SayOther, SayOpened
<1>7. CASE UNCHANGED vars
  BY <1>7 DEF vars
<1> QED
  BY <1>1, <1>2, <1>3, <1>4, <1>5, <1>6, <1>7 DEF Next

\* So the machine, the connection and the call stay what they are.
LEMMA ControlStays ==
  ASSUME TypeInv, LifecycleStep, Runs PROVE ControlOK'
<1>1. ControlOK
  BY TypeParts
<1>2. machine' \in States /\ conn' \in Conns /\ NewIsIdle'
  BY <1>1
  DEF ControlOK, NewIsIdle, Conns, LifecycleStep, Opens, Listens, Closes, Ends, Leaves, Returns, MovedByServer, States
<1> QED
  BY <1>1, <1>2 DEF ControlOK, Runs

\* TypeInv is an invariant of the pool.
THEOREM TypeInvariant == Spec => []TypeInv
<1>1. Init => TypeInv
  <2> SUFFICES ASSUME Init PROVE TypeInv
    OBVIOUS
  <2>1. ControlOK
    BY DEF Init, ControlOK, NewIsIdle, States, Conns, Callers, Awaits
  <2>2. CountsOK
    BY ConstantsAssumption DEF Init, CountsOK
  <2>3. HeldOK
    BY DEF Init, HeldOK, ListsAreTaken
  <2>4. ReceivedOK
    BY ReceivedAreMessages DEF Init, ReceivedOK, CallIsAsked
  <2>5. SendOK
    BY SentAreMessages DEF Init, SendOK, PublicIsNumbered, Afters
  <2> QED
    BY <2>1, <2>2, <2>3, <2>4, <2>5, TypeParts
<1>2. FlushHasKey /\ TypeInv /\ [Next]_vars => TypeInv'
  <2> SUFFICES ASSUME FlushHasKey, TypeInv, [Next]_vars PROVE TypeInv'
    OBVIOUS
  <2>1. Counted /\ Held /\ Received /\ Sends /\ LifecycleStep /\ Runs
    BY StepIsCounted, StepHolds, StepReceives, StepSends, StepOfDriver, StepRuns
  <2>2. ControlOK' /\ CountsOK' /\ HeldOK' /\ ReceivedOK' /\ SendOK'
    BY <2>1, ControlStays, CountsStay, HeldStays, ReceivedStays, SendStays
  <2> QED
    BY <2>2
    DEF TypeInv, TypeOK, ControlOK, CountsOK, HeldOK, ReceivedOK, SendOK, Afters, Callers, Conns, Awaits
<1> QED
  BY <1>1, <1>2, ParkedInvariant, PTL DEF Spec, ParkedInv

\* Every variable has its type, whatever the server says and whatever is dropped
\* or fails.
THEOREM DriverTypes == Spec => []TypeOK
<1>1. TypeInv => TypeOK
  BY DEF TypeInv
<1> QED
  BY <1>1, TypeInvariant, PTL

\* A pool that is connected, or will not be any more.
NotAway == conn # "away"

\* Every step a server can force on the machine is a step of the lifecycle.
LEMMA ServerKeepsLifecycle ==
  ASSUME NEW from \in States, NEW to \in States,
         IsLegalServerTransition(from, to), Phase(from) # Phase(to)
  PROVE  \/ Phase(from) \in {"new", "away"} /\ Phase(to) = "negotiating"
         \/ Phase(from) \in {"new", "negotiating", "away"} /\ Phase(to) = "open"
         \/ Phase(from) \in {"negotiating", "open"} /\ Phase(to) = "away"
         \/ Phase(from) \notin {"closing", "over"} /\ Phase(to) = "closing"
         \/ Phase(from) # "over" /\ Phase(to) = "over"
  BY DEF IsLegalServerTransition, LegalPairs, Phase, Terminal, States

\* Without disconnection, each step is one of the lifecycle, or none.
LEMMA StepKeepsLifecycle ==
  ASSUME TypeInv, NotAway, ~OutOfBand, LifecycleStep
  PROVE  [Lifecycle!Next]_PoolPhase /\ NotAway'
<1> USE DEF Lifecycle!Next, Lifecycle!Negotiate, Lifecycle!Establish, Lifecycle!Leave,
            Lifecycle!BeginClose, Lifecycle!End
<1>0. conn \in {"none", "live", "gone"} /\ machine \in States /\ (conn = "none" => machine = "BeforeOpen")
  BY TypeParts DEF ControlOK, NewIsIdle, Conns, NotAway
<1>1. CASE Opens
  BY <1>0, <1>1 DEF NotAway, Opens, PoolPhase, Phase, Terminal
<1>2. CASE Listens /\ (conn' = "gone" \/ conn = "none")
  BY <1>0, <1>2 DEF NotAway, Listens, PoolPhase
<1>3. CASE Listens /\ conn' = conn /\ conn = "live"
  <2>1. PoolPhase = Phase(machine) /\ PoolPhase' = Phase(machine')
    BY <1>3 DEF PoolPhase
  <2>2. CASE machine' = machine
    BY <1>3, <2>1, <2>2 DEF NotAway
  <2>3. CASE MovedByServer
    <3>1. machine \in States /\ machine' \in States /\ IsLegalServerTransition(machine, machine')
      BY <1>0, <2>3 DEF MovedByServer
    <3> QED
      BY <1>3, <2>1, <3>1, ServerKeepsLifecycle DEF NotAway
  <2> QED
    BY <1>3, <2>2, <2>3 DEF Listens
<1>4. CASE Closes
  BY <1>0, <1>4 DEF NotAway, Closes, PoolPhase, Phase, Terminal, MayClose, States
<1>5. CASE Ends
  BY <1>0, <1>5 DEF NotAway, Ends, PoolPhase, Phase, Terminal, States
<1> QED
  BY <1>0, <1>1, <1>2, <1>3, <1>4, <1>5 DEF NotAway, LifecycleStep, Listens, Leaves, Returns

\* A pool that is not disconnected is used from one opening to one end, whatever its
\* server says and whatever is dropped or fails (open_with_options, next_message, close).
THEOREM DriverKeepsLifecycle == ASSUME ~OutOfBand PROVE Spec => KeepsLifecycle
<1>1. Init => NotAway /\ Lifecycle!Init
  BY DEF Init, Lifecycle!Init, PoolPhase, Phase, NotAway
<1>2. TypeInv /\ NotAway /\ [Next]_vars => NotAway' /\ [Lifecycle!Next]_PoolPhase
  BY StepOfDriver, StepKeepsLifecycle
<1> QED
  BY <1>1, <1>2, TypeInvariant, PTL DEF Spec, KeepsLifecycle, Lifecycle!Spec
===============================================================================
