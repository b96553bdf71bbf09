----------------------- MODULE RunspacePoolHistoryProofs -----------------------
(***************************************************************************)
(* What a run of RunspacePool keeps from its beginning to its end, for     *)
(* every number of host calls, operations, messages and faults: a key set  *)
(* out of band, the ids of the messages, and each host call.               *)
(***************************************************************************)
EXTENDS RunspacePoolProofs

(* A key set out of band.  Exchanges are numbered in the order they start,  *)
(* so one that is under way after the key was set has a higher number than  *)
(* the last before it.                                                      *)

\* Announces: the public key of a pair is being sent.
Announces == pc = "send" /\ after \in Asking

\* A pair has a positive number; one in use after a key was set has a number above
\* those the key was set after.
KeyOrder ==
  /\ pending_client_key # None => pending_client_key > 0
  /\ Announces => out.key > 0
  /\ HeldOutOfBand => /\ -1 - session_key <= keys
                      /\ pending_client_key # None => pending_client_key > -1 - session_key
                      /\ Announces => out.key > -1 - session_key

\* How the keys move: an exchange is abandoned, remembered once it was announced,
\* or gives its key; or a key is set, while no call is in progress.
KeyMoves ==
  \/ UNCHANGED session_key /\ pending_client_key' \in {pending_client_key, None}
  \/ UNCHANGED session_key /\ Announces /\ pending_client_key' = out.key
  \/ pending_client_key # None /\ session_key' = pending_client_key /\ pending_client_key' = None
  \/ UNCHANGED keys /\ session_key' = OutOfBandKey /\ pending_client_key' = None /\ pc' # "send"

KeyInv == keys \in Nat /\ SecretInv /\ KeyOrder

\* Such moves keep the order, and the key set out of band.
LEMMA MovesKeepOrder ==
  ASSUME KeyInv, SafeStep, KeyMoves
  PROVE  KeyOrder' /\ (HeldOutOfBand /\ session_key' > 0 => session_key' > -1 - session_key)
<1>1. None \notin Int
  BY ConstantsAssumption
<1>2. /\ session_key \in Int \cup {None} /\ pending_client_key \in Int \cup {None}
      /\ Announces => out.key \in Int
      /\ keys' \in {keys, keys + 1} /\ keys \in Nat
  BY DEF KeyInv, SecretInv, KeysAreNumbered, Exchanges, Announces, SafeStep, KeysSafely
<1>3. \/ Announces' => Announces /\ out' = out
      \/ keys' = keys + 1 /\ out'.key = keys + 1
  BY DEF SafeStep, SendsSafely, Announces, Public, Plain
<1> USE DEF KeyInv, KeyOrder, HeldOutOfBand
<1>4. CASE UNCHANGED session_key /\ pending_client_key' \in {pending_client_key, None}
  BY <1>1, <1>2, <1>3, <1>4
<1>5. CASE UNCHANGED session_key /\ Announces /\ pending_client_key' = out.key
  BY <1>1, <1>2, <1>3, <1>5
<1>6. CASE pending_client_key # None /\ session_key' = pending_client_key /\ pending_client_key' = None
  BY <1>1, <1>2, <1>3, <1>6
<1>7. CASE UNCHANGED keys /\ session_key' = OutOfBandKey /\ pending_client_key' = None /\ pc' # "send"
  BY <1>1, <1>2, <1>7 DEF OutOfBandKey, Announces
<1> QED
  BY <1>4, <1>5, <1>6, <1>7 DEF KeyMoves

\* Every step is one of these.
LEMMA StepMovesKeys ==
  ASSUME [Next]_vars PROVE KeyMoves
<1> USE DEF KeyMoves, key
<1>1. CASE Operation
  BY <1>1 DEF Operation, OpenWithOptions, OpenFromTransport, RequestSessionKey, RunPipeline, SetSessionKey,
              Close, Disconnect, Reconnect, Idle, call, send
<1>2. CASE ReadLoop \/ ReceiveEmpty
  BY <1>2 DEF ReadLoop, ReceiveEmpty, FlushFirst, PopHostCall, PopUnreadableCall, PopPublicKeyRequest, PopOther,
              PopUnexpectedKey, PopSessionKey, PopUnusableKey, WaitForChunk, ReceiveChunk
<1>3. CASE HostAnswers
  BY <1>3 DEF HostAnswers, HostVoid, HostPlain, HostSecret, HostSecretParks
<1>4. CASE SendReturns
  BY <1>4 DEF SendReturns, SentCapability, SentFlushed, SentError, FailNext, SentClose, SentAndReadOn,
              SentPublicKey, Closed, Sent, Announces, Asking
<1>5. CASE Faults
  BY <1>5 DEF Faults, SendFails, FailNext, ReceiveFails, Drop, Cancel, Interrupted
<1>6. CASE ServerSpeaks
  BY <1>6 DEF ServerSpeaks, CallHost, AskForKey, ReplyKey, SayOther, SayOpened
<1>7. CASE UNCHANGED vars
  BY <1>7 DEF vars
<1> QED
  BY <1>1, <1>2, <1>3, <1>4, <1>5, <1>6, <1>7 DEF Next

\* For any number of calls, exchanges and faults: a key set out of band is replaced
\* only by an exchange that started after it (set_session_key).
THEOREM KeySetStays == Spec => OutOfBandKeyStays
<1>1. Init => KeyOrder
  BY DEF Init, KeyOrder, Announces, HeldOutOfBand
<1>2. ParkedInv /\ SecretInv /\ KeyOrder /\ [Next]_vars
        => KeyOrder' /\ [HeldOutOfBand /\ session_key' > 0 => session_key' > -1 - session_key]_vars
  BY StepIsSafe, StepMovesKeys, MovesKeepOrder DEF ParkedInv, KeyInv
<1> QED
  BY <1>1, <1>2, ParkedInvariant, SecretInvariant, PTL DEF Spec, OutOfBandKeyStays

-----------------------------------------------------------------------------
(* The ids of the messages, without reconnection.                          *)

\* Ids that reached the server are below the next one, and while a message is on
\* its way below its own.
IdsInv ==
  /\ next_object_id \in Nat /\ ids \in Seq(Int)
  /\ \A i \in DOMAIN ids : ids[i] < next_object_id /\ (pc = "send" => ids[i] < next_object_id - 1)
  /\ ObjectIdsUnique
  /\ conn # "away"

\* A message that is begun takes an id.
TakesId == next_object_id' = next_object_id + 1 \/ (UNCHANGED next_object_id /\ pc' # "send")

\* What a step does to them: one more message reaches the server, or none; a
\* message may be begun.  The creation of the shell takes two.
IdsMove ==
  /\ \/ UNCHANGED <<pc, next_object_id, ids>>
     \/ ids' = ids /\ TakesId
     \/ pc = "send" /\ ids' = Append(ids, next_object_id - 1) /\ TakesId
     \/ next_object_id' = 3 /\ ids' = <<1, 2>> /\ pc' # "send"
  /\ conn' # "away"

\* Such a step repeats no id.
LEMMA MovesRepeatNoId ==
  ASSUME IdsInv, IdsMove PROVE IdsInv'
<1>1. CASE next_object_id' = 3 /\ ids' = <<1, 2>> /\ pc' # "send"
  BY <1>1 DEF IdsInv, ObjectIdsUnique, IdsMove
<1>2. CASE UNCHANGED <<pc, next_object_id, ids>> \/ (ids' = ids /\ TakesId)
  BY <1>2 DEF IdsInv, ObjectIdsUnique, TakesId, IdsMove
<1>3. CASE pc = "send" /\ ids' = Append(ids, next_object_id - 1) /\ TakesId
  <2>1. /\ ids' \in Seq(Int) /\ DOMAIN ids' = DOMAIN ids \cup {Len(ids) + 1} /\ DOMAIN ids = 1..Len(ids)
        /\ Len(ids) \in Nat
        /\ \A i \in DOMAIN ids : ids'[i] = ids[i]
        /\ ids'[Len(ids) + 1] = next_object_id - 1
    BY <1>3 DEF IdsInv
  <2>2. \A i \in DOMAIN ids' : ids'[i] < next_object_id
    BY <1>3, <2>1 DEF IdsInv
  <2>3. ObjectIdsUnique'
    BY <1>3, <2>1 DEF IdsInv, ObjectIdsUnique
  <2> QED
    <3>1. next_object_id' \in Nat /\ next_object_id <= next_object_id' /\ conn' # "away"
          /\ (pc' = "send" => next_object_id' = next_object_id + 1)
      BY <1>3 DEF IdsInv, TakesId, IdsMove
    <3>2. \A i \in DOMAIN ids' : ids'[i] < next_object_id' /\ (pc' = "send" => ids'[i] < next_object_id' - 1)
      <4> SUFFICES ASSUME NEW i \in DOMAIN ids'
                   PROVE  ids'[i] < next_object_id' /\ (pc' = "send" => ids'[i] < next_object_id' - 1)
        OBVIOUS
      <4>1. ids'[i] \in Int /\ ids'[i] < next_object_id /\ next_object_id \in Nat
        BY <2>1, <2>2 DEF IdsInv
      <4> QED
        BY <3>1, <4>1
    <3> QED
      BY <2>1, <2>3, <3>1, <3>2 DEF IdsInv
<1> QED
  BY <1>1, <1>2, <1>3 DEF IdsMove

\* Handing a message on disconnects no pool.
LEMMA HandOnStays ==
  ASSUME NEW m, NEW k, HandOn(m, k) PROVE conn' \in {conn, "gone"}
<1>1. \/ Return("err") \/ Return("ok") \/ (Goto("top") /\ cur' = Nothing)
  BY Zenon DEF HandOn
<1> QED
  BY <1>1 DEF Return, Goto

\* Every step is one of these, if the pool is not reconnected.
LEMMA StepMovesIds ==
  ASSUME ~OutOfBand, conn # "away", [Next]_vars PROVE IdsMove
<1> USE DEF IdsMove, TakesId, Send, Exchange, Goto, Return, Deliver, send, call, outside, seen
<1>1. CASE Operation
  BY <1>1 DEF Operation, OpenWithOptions, OpenFromTransport, RequestSessionKey, RunPipeline, SetSessionKey,
              Close, Disconnect, Reconnect
<1>0. ASSUME NEW m, NEW k, HandOn(m, k), UNCHANGED next_object_id PROVE TakesId /\ conn' # "away"
  BY <1>0, HandOnReads, HandOnStays
<1>2. CASE ReadLoop \/ ReceiveEmpty
  <2>1. CASE FlushFirst
    BY <2>1 DEF FlushFirst
  <2>2. CASE PopHostCall \/ PopUnreadableCall
    BY <2>2 DEF PopHostCall, PopUnreadableCall
  <2>3. CASE PopPublicKeyRequest
    BY <2>3, <1>0 DEF PopPublicKeyRequest
  <2>4. ASSUME NEW kind, PopOther(kind) PROVE IdsMove
    BY <2>4, <1>0 DEF PopOther
  <2>5. CASE PopUnexpectedKey
    BY <2>5, <1>0 DEF PopUnexpectedKey
  <2>6. CASE PopSessionKey
    BY <2>6, <1>0 DEF PopSessionKey
  <2>7. CASE PopUnusableKey
    BY <2>7 DEF PopUnusableKey
  <2>8. CASE WaitForChunk
    BY <2>8 DEF WaitForChunk
  <2>9. ASSUME NEW n \in 1..Len(s2c), ReceiveChunk(n) PROVE IdsMove
    BY <2>9 DEF ReceiveChunk
  <2>10. CASE ReceiveEmpty
    BY <2>10, <1>0 DEF ReceiveEmpty
  <2> QED
    BY <1>2, <2>1, <2>2, <2>3, <2>4, <2>5, <2>6, <2>7, <2>8, <2>9, <2>10 DEF ReadLoop
<1>3. CASE HostAnswers
  BY <1>3 DEF HostAnswers, HostVoid, HostPlain, HostSecret, HostSecretParks
<1>4. CASE SendReturns
  <2>1. CASE SentCapability
    BY <2>1 DEF SentCapability, Sent
  <2>2. CASE SentFlushed
    <3>1. CASE Tail(deferred) # <<>>
      BY <2>2, <3>1 DEF SentFlushed, Sent
    <3>2. CASE Tail(deferred) = <<>> /\ cur # Nothing
      <4>1. HandOn(cur, session_key) /\ UNCHANGED send
        BY <2>2, <3>2, Zenon DEF SentFlushed
      <4> QED
        BY <2>2, <4>1, <1>0 DEF SentFlushed, Sent
    <3>3. CASE Tail(deferred) = <<>> /\ cur = Nothing
      BY <2>2, <3>3 DEF SentFlushed, Sent
    <3> QED
      BY <3>1, <3>2, <3>3
  <2>3. CASE SentError
    BY <2>3 DEF SentError, FailNext, Sent
  <2>4. CASE SentClose
    BY <2>4 DEF SentClose, Sent
  <2>5. ASSUME NEW then, SentAndReadOn(then) PROVE IdsMove
    BY <2>5 DEF SentAndReadOn, Sent
  <2>6. ASSUME NEW then, SentPublicKey(then) PROVE IdsMove
    BY <2>6, <1>0 DEF SentPublicKey, Sent
  <2>7. ASSUME NEW ok, Closed(ok) PROVE IdsMove
    BY <2>7 DEF Closed
  <2> QED
    BY <1>4, <2>1, <2>2, <2>3, <2>4, <2>5, <2>6, <2>7 DEF SendReturns
<1>5. CASE Faults
  BY <1>5 DEF Faults, SendFails, FailNext, ReceiveFails, Drop, Cancel, Interrupted
<1>6. CASE ServerSpeaks
  BY <1>6 DEF ServerSpeaks, CallHost, AskForKey, ReplyKey, SayOther, SayOpened
<1>7. CASE UNCHANGED vars
  BY <1>7 DEF vars
<1> QED
  BY <1>1, <1>2, <1>3, <1>4, <1>5, <1>6, <1>7 DEF Next

\* A pool that is not reconnected never uses an id twice, whatever is dropped or
\* fails in between (take_object_id).
THEOREM IdsNeverRepeat == ASSUME ~OutOfBand PROVE Spec => []ObjectIdsUnique
<1>1. Init => IdsInv
  BY DEF Init, IdsInv, ObjectIdsUnique
<1>2. IdsInv /\ [Next]_vars => IdsInv'
  BY StepMovesIds, MovesRepeatNoId DEF IdsInv
<1>3. IdsInv => ObjectIdsUnique
  BY DEF IdsInv
<1> QED
  BY <1>1, <1>2, <1>3, PTL DEF Spec

-----------------------------------------------------------------------------
(* Where the host calls are.  HostCallsAccounted is not inductive: the call *)
(* in hand, and the answers that a flush or an error take from their list,  *)
(* are only safe together with what is being sent for them.                 *)

IsSeq(s) == \E S : s \in Seq(S)

ListsAreSeqs == IsSeq(s2c) /\ IsSeq(pending_messages) /\ IsSeq(deferred) /\ IsSeq(failing)

\* Sending: the message on its way is the one `then` says.
Sending(then) == pc = "send" /\ after = then

\* The call in hand is one the host is asked, or whose answer is on its way.
InHand == cur.kind = "HostCall" => pc = "host" \/ Sending("answer") \/ Sending("park")

\* What is on its way is the answer of the call in hand, of the first call parked,
\* or of the first one to fail.
AnswerIsNext ==
  /\ Sending("answer") => out.call = cur.arg
  /\ Sending("flush") => deferred # <<>> /\ out.call = Head(deferred)
  /\ Sending("fail") => failing # <<>> /\ out.call = Head(failing)
  /\ ~Sending("fail") => failing = <<>>

\* A chunk is read when no message is left, and a pool that is not connected has
\* no call to account for.
NothingElse ==
  /\ pc = "recv" => pending_messages = <<>>
  /\ conn = "none" => pc = "idle" /\ called = {}
  /\ conn = "away" => lost # {}
  /\ called \subseteq Calls

\* Accounted, list by list.
Place(c) ==
  \/ In(Msg("HostCall", c), s2c) \/ In(Msg("HostCall", c), pending_messages)
  \/ cur = Msg("HostCall", c)
  \/ In(c, deferred) \/ In(c, failing)
  \/ answers[c] # <<>> \/ c \in silent \cup unreadable
AllPlaced == (lost = {} /\ conn = "live") => \A c \in called : Place(c)

PlaceInv == ListsAreSeqs /\ InHand /\ AnswerIsNext /\ NothingElse /\ AllPlaced

\* Nothing is in an empty list.
LEMMA EmptyList == IsSeq(<<>>) /\ \A c : ~In(c, <<>>)
<1>1. <<>> \in Seq({})
  OBVIOUS
<1> QED
  BY <1>1 DEF IsSeq, In

\* What is appended to a list is in it, with what was in it before.
LEMMA AppendedList ==
  ASSUME NEW s, IsSeq(s), NEW x
  PROVE  /\ IsSeq(Append(s, x)) /\ Append(s, x) # <<>>
         /\ \A c : In(c, Append(s, x)) <=> In(c, s) \/ c = x
<1>1. PICK S : s \in Seq(S)
  BY DEF IsSeq
<1> DEFINE T == S \cup {x}
           t == Append(s, x)
<1>2. s \in Seq(T) /\ x \in T
  BY <1>1
<1>3. t \in Seq(T) /\ Len(t) = Len(s) + 1 /\ Len(s) \in Nat
  BY <1>2
<1>4. DOMAIN t = 1..(Len(s) + 1) /\ DOMAIN s = 1..Len(s)
  BY <1>2, <1>3
<1>5. \A i \in DOMAIN s : t[i] = s[i]
  BY <1>2, <1>4
<1>6. t[Len(s) + 1] = x
  BY <1>2
<1>7. \A i : i \in DOMAIN t <=> i \in DOMAIN s \/ i = Len(s) + 1
  BY <1>3, <1>4
<1>8. \A c : In(c, t) <=> In(c, s) \/ c = x
  BY <1>5, <1>6, <1>7 DEF In
<1> QED
  BY <1>3, <1>8 DEF IsSeq

\* A list holds its head and what is in its tail.
LEMMA TailOfList ==
  ASSUME NEW s, IsSeq(s), s # <<>>
  PROVE  /\ IsSeq(Tail(s))
         /\ \A c : In(c, s) <=> c = Head(s) \/ In(c, Tail(s))
<1>1. PICK S : s \in Seq(S)
  BY DEF IsSeq
<1>2. Tail(s) \in Seq(S) /\ Len(s) \in Nat /\ Len(s) >= 1
  BY <1>1
<1>3. DOMAIN s = 1..Len(s) /\ DOMAIN Tail(s) = 1..(Len(s) - 1) /\ Head(s) = s[1]
  BY <1>1, <1>2
<1>4. \A i \in 1..(Len(s) - 1) : Tail(s)[i] = s[i + 1]
  BY <1>1, <1>2
<1>5. \A i \in DOMAIN s : i = 1 \/ (i - 1 \in DOMAIN Tail(s) /\ Tail(s)[i - 1] = s[i])
  BY <1>2, <1>3, <1>4
<1>6. 1 \in DOMAIN s /\ \A i \in DOMAIN Tail(s) : i + 1 \in DOMAIN s /\ Tail(s)[i] = s[i + 1]
  BY <1>2, <1>3, <1>4
<1>7. \A c : In(c, s) <=> c = Head(s) \/ In(c, Tail(s))
  BY <1>3, <1>5, <1>6 DEF In
<1> QED
  BY <1>2, <1>7 DEF IsSeq

\* What is in a list is in one of its two parts.
LEMMA SplitList ==
  ASSUME NEW s, IsSeq(s), NEW n \in 1..Len(s)
  PROVE  /\ IsSeq(SubSeq(s, 1, n)) /\ IsSeq(SubSeq(s, n + 1, Len(s)))
         /\ \A c : In(c, s) => In(c, SubSeq(s, 1, n)) \/ In(c, SubSeq(s, n + 1, Len(s)))
<1>1. PICK S : s \in Seq(S)
  BY DEF IsSeq
<1>2. Len(s) \in Nat /\ n \in Nat /\ 1 <= n /\ n <= Len(s) /\ DOMAIN s = 1..Len(s)
  BY <1>1
<1> DEFINE a == SubSeq(s, 1, n)
           b == SubSeq(s, n + 1, Len(s))
<1>3. a \in Seq(S) /\ DOMAIN a = 1..n /\ \A i \in 1..n : a[i] = s[i]
  BY <1>1, <1>2
<1>4. b \in Seq(S) /\ DOMAIN b = 1..(Len(s) - n) /\ \A i \in 1..(Len(s) - n) : b[i] = s[n + i]
  BY <1>1, <1>2
<1>5. \A i \in DOMAIN s : (i \in DOMAIN a /\ a[i] = s[i]) \/ (i - n \in DOMAIN b /\ b[i - n] = s[i])
  BY <1>2, <1>3, <1>4
<1>6. \A c : In(c, s) => In(c, a) \/ In(c, b)
  BY <1>5 DEF In
<1> QED
  BY <1>3, <1>4, <1>6 DEF IsSeq

\* What is in one of two lists is in both joined.
LEMMA JoinedLists ==
  ASSUME NEW s, IsSeq(s), NEW t, IsSeq(t)
  PROVE  \A c : In(c, s) \/ In(c, t) => In(c, s \o t)
<1>1. PICK S : s \in Seq(S)
  BY DEF IsSeq
<1>2. PICK T : t \in Seq(T)
  BY DEF IsSeq
<1>3. s \in Seq(S \cup T) /\ t \in Seq(S \cup T)
  BY <1>1, <1>2
<1>4. /\ Len(s) \in Nat /\ DOMAIN s = 1..Len(s) /\ Len(t) \in Nat /\ DOMAIN t = 1..Len(t)
      /\ DOMAIN (s \o t) = 1..(Len(s) + Len(t))
      /\ \A i \in 1..(Len(s) + Len(t)) :
           (s \o t)[i] = IF i <= Len(s) THEN s[i] ELSE t[i - Len(s)]
  BY <1>3
<1>5. \A i \in DOMAIN s : i \in DOMAIN (s \o t) /\ (s \o t)[i] = s[i]
  BY <1>4
<1>6. \A i \in DOMAIN t : Len(s) + i \in DOMAIN (s \o t) /\ (s \o t)[Len(s) + i] = t[i]
  BY <1>4
<1> QED
  BY <1>5, <1>6 DEF In

\* PlaceInv is enough: a call that has its place in one of the lists is accounted for.
LEMMA PlacedIsAccounted == PlaceInv => HostCallsAccounted
<1> SUFFICES ASSUME PlaceInv, lost = {}, conn = "live", NEW c \in called PROVE Accounted(c)
  BY DEF HostCallsAccounted
<1>1. Place(c)
  BY DEF PlaceInv, AllPlaced
<1> QED
  BY <1>1, JoinedLists DEF Place, Accounted, PlaceInv, ListsAreSeqs

\* Handing a message on leaves none in hand.
LEMMA HandOnEnds ==
  ASSUME NEW m, NEW k, HandOn(m, k)
  PROVE  cur' = Nothing /\ pc' \in {"idle", "top"} /\ conn' \in {conn, "gone"}
<1>1. \/ Return("err") \/ Return("ok") \/ (Goto("top") /\ cur' = Nothing)
  BY Zenon DEF HandOn
<1> QED
  BY <1>1 DEF Return, Goto

\* An answer that reaches the server is that of its call, and undoes no other.
LEMMA DeliveredIsAnswered ==
  ASSUME AnswersAreSeqs, Deliver, NEW c \in Calls
  PROVE  /\ answers[c] # <<>> => answers'[c] # <<>>
         /\ out.call = c => answers'[c] # <<>>
<1> DEFINE new == [secret |-> out.secret, key |-> out.key]
<1>1. CASE out.call = None
  BY <1>1, ConstantsAssumption DEF Deliver
<1>2. CASE out.call # None
  <2>1. answers' = [d \in Calls |-> IF d = out.call THEN Append(answers[d], new) ELSE answers[d]]
    BY <1>2 DEF Deliver, AnswersAreSeqs
  <2>2. IsSeq(answers[c])
    BY DEF AnswersAreSeqs, IsSeq
  <2>3. Append(answers[c], new) # <<>>
    BY <2>2, AppendedList
  <2> QED
    BY <2>1, <2>3
<1> QED
  BY <1>1, <1>2

\* Kept: no call that had a place has lost it, unless that is remembered; a pool
\* is connected only at first, or after it was disconnected.
Kept ==
  /\ lost \subseteq lost' /\ called' = called
  /\ lost' = {} => \A c \in called : Place(c) => Place(c)'
  /\ conn' = "live" => conn \in {"none", "live", "away"}

\* A step that keeps the places keeps AllPlaced.
LEMMA KeptStaysPlaced ==
  ASSUME PlaceInv, Kept PROVE AllPlaced'
BY DEF PlaceInv, NothingElse, AllPlaced, Kept

\* What PlaceInv takes of a step besides Kept.
Shaped == ListsAreSeqs' /\ InHand' /\ AnswerIsNext' /\ NothingElse'

\* Both together keep PlaceInv.
LEMMA ShapedAndKept ==
  ASSUME PlaceInv, Shaped, Kept PROVE PlaceInv'
BY KeptStaysPlaced DEF Shaped, PlaceInv

\* The calls of the pool find no call in hand, and move none.
LEMMA OperationKeepsPlaces ==
  ASSUME PlaceInv, Operation PROVE PlaceInv'
<1> USE DEF PlaceInv, ListsAreSeqs, InHand, AnswerIsNext, NothingElse, Sending, Shaped, Kept, Send,
            key, store, server, seen, call, send, Place
<1>1. CASE OpenWithOptions
  BY <1>1, ShapedAndKept DEF OpenWithOptions
<1>2. CASE OpenFromTransport
  BY <1>2, ShapedAndKept DEF OpenFromTransport
<1>3. CASE RequestSessionKey
  BY <1>3, ShapedAndKept DEF RequestSessionKey, Exchange, Idle
<1>4. CASE RunPipeline
  BY <1>4, ShapedAndKept DEF RunPipeline, Idle
<1>5. CASE SetSessionKey
  BY <1>5, ShapedAndKept DEF SetSessionKey, Idle
<1>6. CASE Close
  BY <1>6, ShapedAndKept DEF Close, Idle
<1>7. ASSUME NEW ok \in BOOLEAN, Disconnect(ok) PROVE PlaceInv'
  BY <1>7, ShapedAndKept, EmptyList DEF Disconnect, Idle
<1>8. CASE Reconnect
  BY <1>8, ShapedAndKept DEF Reconnect
<1> QED
  BY <1>1, <1>2, <1>3, <1>4, <1>5, <1>6, <1>7, <1>8 DEF Operation

\* A message that is read leaves its list; a host call is in hand from then on.
LEMMA PoppedLeaves ==
  ASSUME PlaceInv, NEW kind, Popped(kind)
  PROVE  /\ IsSeq(pending_messages')
         /\ \A m : In(m, pending_messages) => m = Head(pending_messages) \/ In(m, pending_messages')
         /\ ~Sending("fail") /\ ~Sending("flush") /\ failing = <<>>
         /\ cur.kind # "HostCall" /\ conn # "none" /\ called \subseteq Calls
         /\ Head(pending_messages).kind = kind
BY TailOfList DEF Popped, PlaceInv, ListsAreSeqs, AnswerIsNext, Sending, InHand, NothingElse

\* What is read and is no host call moves none.
LEMMA ReadKeepsPlaces ==
  ASSUME PlaceInv, NEW kind, Popped(kind), kind # "HostCall", UNCHANGED outside, IsSeq(deferred'), IsSeq(failing'),
         \A c : In(c, deferred) => In(c, deferred') \/ In(c, failing'),
         cur'.kind # "HostCall", pc' \in {"idle", "top", "send"},
         conn' \in {conn, "gone"}, AnswerIsNext'
  PROVE  PlaceInv'
<1>1. \A c : Msg("HostCall", c).kind = "HostCall"
  BY DEF Msg
<1>2. Shaped
  BY PoppedLeaves DEF Shaped, PlaceInv, ListsAreSeqs, InHand, NothingElse, outside, server, history
<1>3. Kept
  BY <1>1, PoppedLeaves, EmptyList DEF Kept, Place, outside, server, seen, history
<1> QED
  BY <1>2, <1>3, ShapedAndKept

\* next_message keeps them: a host call goes from the chunk to the buffer, from there
\* to the host, and a list that is to fail is taken whole.
LEMMA ReadLoopKeepsPlaces ==
  ASSUME PlaceInv, ReadLoop \/ ReceiveEmpty PROVE PlaceInv'
<1>0. Nothing.kind # "HostCall" /\ \A c : Msg("HostCall", c).kind = "HostCall"
  BY DEF Nothing, Msg
<1> USE DEF PlaceInv, ListsAreSeqs, InHand, AnswerIsNext, NothingElse, Sending, Goto
<1>1. CASE FlushFirst
  <2>1. out'.call = Head(deferred)
    BY <1>1 DEF FlushFirst, Send, Secret, Answer, Plain
  <2> QED
    BY <1>1, <2>1, ShapedAndKept
    DEF FlushFirst, Send, key, store, outside, server, seen, history, Shaped, Kept, Place
<1>2. CASE PopHostCall
  <2>1. /\ Popped("HostCall") /\ cur' = Head(pending_messages) /\ pc' = "host"
        /\ UNCHANGED <<deferred, failing, conn, s2c, called, answers, silent, unreadable, lost>>
    BY <1>2 DEF PopHostCall, send, outside, server, seen, history
  <2>2. Shaped
    BY <2>1, PoppedLeaves DEF Shaped
  <2>3. Kept
    BY <2>1, PoppedLeaves, <1>0 DEF Kept, Place
  <2> QED
    BY <2>2, <2>3, ShapedAndKept
<1>11. CASE PopUnreadableCall
  <2>1. /\ Popped("HostCall") /\ unreadable' = unreadable \cup {Head(pending_messages).arg}
        /\ pc' = "idle" /\ cur' = Nothing /\ conn' \in {conn, "gone"}
        /\ UNCHANGED <<deferred, failing, s2c, called, answers, silent, lost>>
    BY <1>11 DEF PopUnreadableCall, Return, send, server, seen
  <2>2. Shaped
    BY <1>0, <2>1, PoppedLeaves DEF Shaped
  <2>3. \A c : Msg("HostCall", c).arg = c
    BY DEF Msg
  <2>4. Kept
    BY <2>1, <2>3, PoppedLeaves, <1>0 DEF Kept, Place
  <2> QED
    BY <2>2, <2>4, ShapedAndKept
<1>3. CASE PopPublicKeyRequest
  <2>1. Popped("PublicKeyRequest") /\ UNCHANGED <<deferred, outside>>
    BY <1>3 DEF PopPublicKeyRequest
  <2>2. CASE pending_client_key # None
    <3>1. HandOn(Head(pending_messages), session_key) /\ UNCHANGED send
      BY <1>3, <2>2 DEF PopPublicKeyRequest
    <3>2. AnswerIsNext' /\ UNCHANGED failing
      BY <2>1, <3>1, HandOnEnds, PoppedLeaves DEF send
    <3> QED
      BY <1>0, <2>1, <3>1, <3>2, HandOnEnds, ReadKeepsPlaces
  <2>3. CASE pending_client_key = None
    <3>1. /\ pc' = "send" /\ after' = "requested" /\ cur' = Head(pending_messages)
          /\ UNCHANGED <<conn, failing>>
      BY <1>3, <2>3 DEF PopPublicKeyRequest, Exchange, Send
    <3>2. AnswerIsNext' /\ cur'.kind # "HostCall"
      BY <2>1, <3>1, PoppedLeaves
    <3> QED
      BY <2>1, <3>1, <3>2, ReadKeepsPlaces
  <2> QED
    BY <2>2, <2>3
<1>4. ASSUME NEW kind \in {"State", "Done"}, PopOther(kind) PROVE PlaceInv'
  <2>1. /\ Popped(kind) /\ HandOn(Head(pending_messages), session_key)
        /\ UNCHANGED <<deferred, send, outside>>
    BY <1>4 DEF PopOther
  <2>2. AnswerIsNext' /\ UNCHANGED failing
    BY <2>1, HandOnEnds, PoppedLeaves DEF send
  <2> QED
    BY <1>0, <2>1, <2>2, HandOnEnds, ReadKeepsPlaces
<1>5. CASE PopUnexpectedKey
  <2>1. /\ Popped("EncryptedSessionKey") /\ HandOn(Head(pending_messages), session_key)
        /\ UNCHANGED <<deferred, send, outside>>
    BY <1>5 DEF PopUnexpectedKey
  <2>2. AnswerIsNext' /\ UNCHANGED failing
    BY <2>1, HandOnEnds, PoppedLeaves DEF send
  <2> QED
    BY <1>0, <2>1, <2>2, HandOnEnds, ReadKeepsPlaces
<1>6. CASE PopSessionKey
  <2>1. Popped("EncryptedSessionKey") /\ UNCHANGED <<deferred, outside>>
    BY <1>6 DEF PopSessionKey
  <2>2. CASE deferred = <<>>
    <3>1. HandOn(Head(pending_messages), pending_client_key) /\ UNCHANGED send
      BY <1>6, <2>2 DEF PopSessionKey
    <3>2. AnswerIsNext' /\ UNCHANGED failing
      BY <2>1, <3>1, HandOnEnds, PoppedLeaves DEF send
    <3> QED
      BY <1>0, <2>1, <3>1, <3>2, HandOnEnds, ReadKeepsPlaces
  <2>3. CASE deferred # <<>>
    <3>1. /\ pc' = "send" /\ after' = "flush" /\ out' = Secret(Head(deferred), pending_client_key)
          /\ cur' = Head(pending_messages) /\ UNCHANGED <<conn, failing>>
      BY <1>6, <2>3 DEF PopSessionKey, Send
    <3>2. out'.call = Head(deferred)
      BY <3>1 DEF Secret, Answer, Plain
    <3>3. AnswerIsNext' /\ cur'.kind # "HostCall"
      BY <2>1, <2>3, <3>1, <3>2, PoppedLeaves
    <3> QED
      BY <2>1, <3>1, <3>3, ReadKeepsPlaces
  <2> QED
    BY <2>2, <2>3
<1>7. CASE PopUnusableKey
  <2>1. Popped("EncryptedSessionKey") /\ deferred' = <<>> /\ UNCHANGED outside
    BY <1>7 DEF PopUnusableKey
  <2>2. CASE deferred = <<>>
    <3>1. /\ pc' = "idle" /\ cur' = Nothing /\ conn' \in {conn, "gone"} /\ UNCHANGED failing
      BY <1>7, <2>2 DEF PopUnusableKey, Return, send
    <3>2. AnswerIsNext'
      BY <3>1, <2>1, PoppedLeaves
    <3> QED
      BY <1>0, <2>1, <2>2, <3>1, <3>2, EmptyList, ReadKeepsPlaces
  <2>3. CASE deferred # <<>>
    <3>1. /\ pc' = "send" /\ after' = "fail" /\ out' = Error(Head(deferred)) /\ failing' = deferred
          /\ UNCHANGED <<conn, cur>>
      BY <1>7, <2>3 DEF PopUnusableKey, Send
    <3>2. out'.call = Head(deferred)
      BY <3>1 DEF Error, Answer, Plain
    <3>3. AnswerIsNext' /\ cur'.kind # "HostCall"
      BY <2>1, <2>3, <3>1, <3>2, PoppedLeaves
    <3> QED
      BY <2>1, <3>1, <3>3, EmptyList, ReadKeepsPlaces
  <2> QED
    BY <2>2, <2>3
<1>8. CASE WaitForChunk
  BY <1>8, ShapedAndKept
  DEF WaitForChunk, key, store, send, outside, server, seen, history, Shaped, Kept, Place
<1>9. ASSUME NEW n \in 1..Len(s2c), ReceiveChunk(n) PROVE PlaceInv'
  <2>1. /\ pending_messages = <<>> /\ s2c' = SubSeq(s2c, n + 1, Len(s2c))
        /\ UNCHANGED <<deferred, failing, called, answers, silent, unreadable>> /\ conn # "none"
        /\ ~Sending("fail") /\ ~Sending("flush") /\ cur.kind # "HostCall"
    BY <1>9 DEF ReceiveChunk, send, seen
  <2>2. \/ /\ pending_messages' = SubSeq(s2c, 1, n) /\ pc' = "top"
           /\ UNCHANGED <<conn, cur, lost>>
        \/ /\ UNCHANGED pending_messages /\ lost' = lost \cup {"chunk"}
           /\ pc' = "idle" /\ cur' = Nothing /\ conn' \in {conn, "gone"}
    BY <1>9 DEF ReceiveChunk, Return
  <2>3. Shaped
    BY <1>0, <2>1, <2>2, SplitList DEF Shaped
  <2>4. Kept
    BY <2>1, <2>2, SplitList, EmptyList DEF Kept, Place
  <2> QED
    BY <2>3, <2>4, ShapedAndKept
<1>10. CASE ReceiveEmpty
  <2>1. HandOn(Nothing, session_key) /\ UNCHANGED <<store, send, s2c, called, seen, history>>
    BY <1>10 DEF ReceiveEmpty
  <2>2. pc = "recv" /\ cur' = Nothing /\ pc' \in {"idle", "top"} /\ conn' \in {conn, "gone"}
    BY <1>10, <2>1, HandOnEnds DEF ReceiveEmpty
  <2> QED
    BY <1>0, <2>1, <2>2, ShapedAndKept DEF store, send, seen, history, Shaped, Kept, Place
<1> QED
  BY <1>1, <1>2, <1>3, <1>4, <1>5, <1>6, <1>7, <1>8, <1>9, <1>10, <1>11 DEF ReadLoop

\* handle_host_call keeps them: the call in hand is answered, parked or needs no answer.
LEMMA HostAnswersKeepPlaces ==
  ASSUME PlaceInv, HostAnswers PROVE PlaceInv'
<1>0. /\ Nothing.kind # "HostCall"
      /\ \A c : Msg("HostCall", c).kind = "HostCall" /\ Msg("HostCall", c).arg = c
      /\ \A c, k : Answer(c).call = c /\ Error(c).call = c /\ Secret(c, k).call = c
  BY DEF Nothing, Msg, Answer, Error, Secret, Plain
<1> USE DEF PlaceInv, ListsAreSeqs, InHand, AnswerIsNext, NothingElse, Sending, Goto, Shaped, Kept, Place,
            key, store, send, outside, server, seen, history
<1>1. CASE HostVoid
  BY <1>1, <1>0, ShapedAndKept DEF HostVoid
<1>2. ASSUME NEW m \in Replies(cur.arg), HostPlain(m) PROVE PlaceInv'
  BY <1>2, <1>0, ShapedAndKept DEF HostPlain, Replies, Send
<1>3. CASE HostSecret
  BY <1>3, <1>0, ShapedAndKept DEF HostSecret, Send
<1>4. CASE HostSecretParks
  <2>1. CASE pending_client_key # None
    <3>1. /\ pc = "host" /\ pc' = "top" /\ cur' = Nothing
          /\ deferred' = Append(deferred, cur.arg)
          /\ UNCHANGED <<pending_messages, failing, conn, s2c, called, answers, silent, unreadable, lost>>
      BY <1>4, <2>1 DEF HostSecretParks, Park
    <3>2. Shaped
      BY <1>0, <3>1, AppendedList
    <3>3. Kept
      BY <1>0, <3>1, AppendedList
    <3> QED
      BY <3>2, <3>3, ShapedAndKept
  <2>2. CASE pending_client_key = None
    BY <1>4, <2>2, ShapedAndKept DEF HostSecretParks, Exchange, Send
  <2> QED
    BY <2>1, <2>2
<1> QED
  BY <1>1, <1>2, <1>3, <1>4 DEF HostAnswers, Replies

\* WasOut: the message that `then` says was on its way reached the server, and no
\* answer that was there before is lost.
WasOut(then) ==
  /\ pc = "send" /\ after = then /\ conn # "none" /\ called \subseteq Calls
  /\ UNCHANGED <<s2c, called>>
  /\ \A c \in called : answers[c] # <<>> \/ out.call = c => answers'[c] # <<>>

\* This is so when a send returns.
LEMMA SentIsOut ==
  ASSUME PlaceInv, AnswersAreSeqs, NEW then, Sent(then) PROVE WasOut(then)
BY DeliveredIsAnswered DEF Sent, Deliver, PlaceInv, NothingElse, WasOut

\* The end of a send keeps them: what is taken from a list, or from the hand, is
\* what was sent.
LEMMA SendReturnsKeepPlaces ==
  ASSUME PlaceInv, AnswersAreSeqs, SendReturns PROVE PlaceInv'
<1>0. /\ Nothing.kind # "HostCall"
      /\ \A c : Msg("HostCall", c).kind = "HostCall" /\ Msg("HostCall", c).arg = c
      /\ \A c, k : Answer(c).call = c /\ Error(c).call = c /\ Secret(c, k).call = c
  BY DEF Nothing, Msg, Answer, Error, Secret, Plain
<1> USE DEF PlaceInv, ListsAreSeqs, InHand, AnswerIsNext, NothingElse, Sending, Goto, Shaped, Kept, Place
<1>1. CASE SentCapability
  <2>1. UNCHANGED <<store, conn, cur, failing, history>> /\ pc' = "send" /\ after' = "init"
    BY <1>1 DEF SentCapability, Send
  <2>2. WasOut("capability")
    BY <1>1, SentIsOut DEF SentCapability
  <2>3. Shaped
    BY <2>1, <2>2 DEF store, history, WasOut
  <2>4. Kept
    BY <2>1, <2>2 DEF store, history, WasOut
  <2> QED
    BY <2>3, <2>4, ShapedAndKept
<1>2. CASE SentFlushed
  <2>1. deferred' = Tail(deferred) /\ UNCHANGED <<pending_messages, lost, silent, unreadable>>
    BY <1>2 DEF SentFlushed, history
  <2>2. WasOut("flush")
    BY <1>2, SentIsOut DEF SentFlushed
  <2>3. /\ deferred # <<>> /\ out.call = Head(deferred) /\ failing = <<>> /\ cur.kind # "HostCall"
        /\ IsSeq(deferred') /\ \A c : In(c, deferred) => c = Head(deferred) \/ In(c, deferred')
    BY <2>1, <2>2, TailOfList DEF WasOut
  <2>4. /\ conn' \in {conn, "gone"} /\ cur'.kind # "HostCall" /\ failing' = failing
        /\ \/ pc' \in {"idle", "top"}
           \/ pc' = "send" /\ after' = "flush" /\ deferred' # <<>> /\ out'.call = Head(deferred')
    <3>1. CASE Tail(deferred) # <<>>
      <4>1. Send(Secret(Head(Tail(deferred)), session_key), "flush") /\ UNCHANGED <<conn, cur, failing>>
        BY <1>2, <3>1 DEF SentFlushed
      <4> QED
        BY <1>0, <2>1, <2>3, <3>1, <4>1 DEF Send
    <3>2. CASE Tail(deferred) = <<>> /\ cur # Nothing
      <4>1. HandOn(cur, session_key) /\ UNCHANGED send
        BY <1>2, <3>2, Zenon DEF SentFlushed
      <4> QED
        BY <1>0, <4>1, HandOnEnds DEF send
    <3>3. CASE Tail(deferred) = <<>> /\ cur = Nothing
      BY <1>2, <2>3, <3>3 DEF SentFlushed, send
    <3> QED
      BY <3>1, <3>2, <3>3
  <2>5. Shaped
    BY <2>1, <2>2, <2>3, <2>4 DEF WasOut
  <2>6. Kept
    BY <1>0, <2>1, <2>2, <2>3, <2>4 DEF WasOut
  <2> QED
    BY <2>5, <2>6, ShapedAndKept
<1>3. CASE SentError
  <2>1. failing' = Tail(failing) /\ UNCHANGED <<deferred, pending_messages, lost, silent, unreadable>>
    BY <1>3 DEF SentError, FailNext, store, history
  <2>2. WasOut("fail")
    BY <1>3, SentIsOut DEF SentError
  <2>3. /\ failing # <<>> /\ out.call = Head(failing) /\ cur.kind # "HostCall"
        /\ IsSeq(failing') /\ \A c : In(c, failing) => c = Head(failing) \/ In(c, failing')
    BY <2>1, <2>2, TailOfList DEF WasOut
  <2>4. /\ conn' \in {conn, "gone"} /\ cur'.kind # "HostCall"
        /\ \/ pc' = "idle" /\ failing' = <<>>
           \/ pc' = "send" /\ after' = "fail" /\ failing' # <<>> /\ out'.call = Head(failing')
    BY <1>3, <1>0, <2>3 DEF SentError, FailNext, Return, Send
  <2>5. Shaped
    BY <2>1, <2>2, <2>3, <2>4 DEF WasOut
  <2>6. Kept
    BY <1>0, <2>1, <2>2, <2>3, <2>4 DEF WasOut
  <2> QED
    BY <2>5, <2>6, ShapedAndKept
<1>4. CASE SentClose
  <2>1. UNCHANGED <<store, conn, cur, send, history>> /\ pc' = "closing"
    BY <1>4 DEF SentClose
  <2>2. WasOut("close")
    BY <1>4, SentIsOut DEF SentClose
  <2>3. Shaped
    BY <2>1, <2>2 DEF store, send, history, WasOut
  <2>4. Kept
    BY <2>1, <2>2 DEF store, send, history, WasOut
  <2> QED
    BY <2>3, <2>4, ShapedAndKept
\* The answer of the call in hand is out.
<1>5. ASSUME NEW then \in {"init", "run", "answer"}, SentAndReadOn(then) PROVE PlaceInv'
  <2>1. UNCHANGED <<store, conn, send, history>> /\ pc' = "top" /\ cur' = Nothing
    BY <1>5 DEF SentAndReadOn
  <2>2. WasOut(then)
    BY <1>5, SentIsOut DEF SentAndReadOn
  <2>3. Shaped
    BY <1>0, <1>5, <2>1, <2>2 DEF store, send, history, WasOut
  <2>4. Kept
    BY <1>0, <1>5, <2>1, <2>2 DEF store, send, history, WasOut
  <2> QED
    BY <2>3, <2>4, ShapedAndKept
\* The public key is out: the call in hand is parked.
<1>6. ASSUME NEW then \in Asking, SentPublicKey(then) PROVE PlaceInv'
  <2>1. UNCHANGED <<pending_messages, out, after, failing, lost, silent, unreadable>>
    BY <1>6 DEF SentPublicKey, send, history
  <2>2. WasOut(then)
    BY <1>6, SentIsOut DEF SentPublicKey
  <2>3. cur' = Nothing /\ pc' \in {"idle", "top"} /\ conn' \in {conn, "gone"}
    <3>1. CASE then = "requested"
      <4>1. HandOn(cur, session_key)
        BY <1>6, <3>1 DEF SentPublicKey
      <4> QED
        BY <4>1, HandOnEnds
    <3>2. CASE then # "requested"
      BY <1>6, <3>2 DEF SentPublicKey
    <3> QED
      BY <3>1, <3>2
  <2>4. CASE then = "park"
    <3>1. deferred' = Append(deferred, cur.arg)
      BY <1>6, <2>4 DEF SentPublicKey, Park
    <3>2. IsSeq(deferred') /\ In(cur.arg, deferred') /\ \A c : In(c, deferred) => In(c, deferred')
      BY <3>1, AppendedList
    <3>3. Shaped
      BY <1>0, <2>1, <2>2, <2>3, <2>4, <3>2 DEF WasOut
    <3>4. Kept
      BY <1>0, <2>1, <2>2, <2>3, <3>2 DEF WasOut
    <3> QED
      BY <3>3, <3>4, ShapedAndKept
  <2>5. CASE then # "park"
    <3>1. deferred' = deferred /\ cur.kind # "HostCall"
      BY <1>6, <2>2, <2>5 DEF SentPublicKey, WasOut, Asking
    <3>2. Shaped
      BY <1>0, <1>6, <2>1, <2>2, <2>3, <3>1 DEF WasOut, Asking
    <3>3. Kept
      BY <1>0, <2>1, <2>2, <2>3, <3>1 DEF WasOut
    <3> QED
      BY <3>2, <3>3, ShapedAndKept
  <2> QED
    BY <2>4, <2>5
<1>7. ASSUME NEW ok \in BOOLEAN, Closed(ok) PROVE PlaceInv'
  BY <1>7, <1>0, ShapedAndKept
  DEF Closed, Return, key, store, send, outside, server, seen, history
<1> QED
  BY <1>1, <1>2, <1>3, <1>4, <1>5, <1>6, <1>7 DEF SendReturns, Asking

\* A fault takes the call in hand, or the answers that were to fail, with it: it is
\* remembered.
LEMMA FaultsKeepPlaces ==
  ASSUME PlaceInv, AnswersAreSeqs, Faults PROVE PlaceInv'
<1>0. Nothing.kind # "HostCall" /\ \A c : Msg("HostCall", c).kind = "HostCall" /\ Error(c).call = c
  BY DEF Nothing, Msg, Answer, Error, Plain
<1> USE DEF PlaceInv, ListsAreSeqs, InHand, AnswerIsNext, NothingElse, Sending, Shaped, Kept, Place
<1>1. CASE SendFails
  <2>1. /\ pc = "send" /\ lost' = (IF Loses = {} THEN lost ELSE lost \cup {"refused"})
        /\ UNCHANGED <<store, s2c, called, answers, silent, unreadable>>
    BY <1>1 DEF SendFails, FailNext, server, seen
  <2>2. Sending("answer") \/ Sending("park") \/ Sending("fail") => lost' # {}
    BY <2>1 DEF Loses
  <2>3. CASE after = "close"
    BY <1>1, <2>1, <2>3, ShapedAndKept, <1>0 DEF SendFails, Goto, store, send, Loses
  <2>4. CASE after = "fail"
    <3>1. FailNext
      BY <1>1, <2>4 DEF SendFails
    <3>2. failing' = Tail(failing) /\ IsSeq(failing') /\ cur.kind # "HostCall"
      BY <2>1, <2>4, <3>1, TailOfList DEF FailNext
    <3>3. /\ conn' \in {conn, "gone"} /\ cur'.kind # "HostCall"
          /\ \/ pc' = "idle" /\ failing' = <<>>
             \/ pc' = "send" /\ after' = "fail" /\ failing' # <<>> /\ out'.call = Head(failing')
      BY <1>0, <3>1, <3>2 DEF FailNext, Return, Send
    <3> QED
      BY <2>1, <2>2, <2>4, <3>2, <3>3, ShapedAndKept DEF store
  <2>5. CASE after \notin {"close", "fail"}
    <3>1. Return("err") /\ UNCHANGED send
      BY <1>1, <2>5 DEF SendFails
    <3> QED
      BY <1>0, <2>1, <2>2, <2>5, <3>1, ShapedAndKept DEF Return, store, send
  <2> QED
    BY <2>3, <2>4, <2>5
<1>2. CASE ReceiveFails
  BY <1>0, <1>2, ShapedAndKept DEF ReceiveFails, Return, store, send, server, seen
<1>3. ASSUME NEW is_out \in BOOLEAN, Interrupted(is_out), pc' \in {"idle", "top"}, cur' = Nothing,
             conn' \in {conn, "gone"}, pc # "idle"
      PROVE  PlaceInv'
  <2>1. /\ failing' = <<>> /\ lost' = lost \cup Loses
        /\ UNCHANGED <<deferred, pending_messages, out, after, s2c, called, silent, unreadable>>
        /\ \A c \in called : answers[c] # <<>> => answers'[c] # <<>>
    BY <1>3, DeliveredIsAnswered DEF Interrupted, Deliver, store, server, seen
  <2>2. pc = "host" \/ Sending("answer") \/ Sending("park") \/ Sending("fail") => Loses # {}
    BY DEF Loses
  <2>3. Shaped
    BY <1>0, <1>3, <2>1, EmptyList
  <2>4. Kept
    BY <1>0, <1>3, <2>1, <2>2
  <2> QED
    BY <2>3, <2>4, ShapedAndKept
<1>4. ASSUME NEW is_out \in BOOLEAN, Drop(is_out) PROVE PlaceInv'
  BY <1>3, <1>4 DEF Drop, Return
<1>5. ASSUME NEW is_out \in BOOLEAN, Cancel(is_out) PROVE PlaceInv'
  BY <1>3, <1>5 DEF Cancel
<1> QED
  BY <1>1, <1>2, <1>4, <1>5 DEF Faults

\* What the server says is added to what it said; a host call is on its way first.
LEMMA ServerKeepsPlaces ==
  ASSUME PlaceInv, ServerSpeaks PROVE PlaceInv'
<1> USE DEF PlaceInv, ListsAreSeqs, InHand, AnswerIsNext, NothingElse, Sending
<1>1. UNCHANGED <<store, call, send, seen, history>>
  BY DEF ServerSpeaks, CallHost, AskForKey, ReplyKey, SayOther, SayOpened
<1>2. PICK m : s2c' = Append(s2c, m)
  BY DEF ServerSpeaks, CallHost, AskForKey, ReplyKey, SayOther, SayOpened, ServerSays
<1>3. IsSeq(s2c') /\ In(m, s2c') /\ \A c : In(c, s2c) => In(c, s2c')
  BY <1>2, AppendedList
<1>4. \A c \in Calls : Place(c) => Place(c)'
  BY <1>1, <1>3 DEF Place, store, call, send, seen, history
<1>5. CASE called' = called
  <2>1. Shaped /\ Kept
    BY <1>1, <1>3, <1>4, <1>5 DEF Shaped, Kept, store, call, send, history
  <2> QED
    BY <2>1, ShapedAndKept
<1>6. ASSUME NEW c \in Calls, CallHost(c) PROVE PlaceInv'
  <2>1. s2c' = Append(s2c, Msg("HostCall", c)) /\ called' = called \cup {c} /\ conn = "live"
    BY <1>6 DEF CallHost, ServerSays
  <2>2. In(Msg("HostCall", c), s2c')
    BY <2>1, AppendedList
  <2>3. AllPlaced'
    BY <1>1, <1>4, <2>1, <2>2 DEF AllPlaced, Place, call, history
  <2>4. Shaped
    BY <1>1, <1>3, <2>1 DEF Shaped, store, call, send, history
  <2> QED
    BY <2>3, <2>4 DEF Shaped
<1> QED
  BY <1>5, <1>6 DEF ServerSpeaks, AskForKey, ReplyKey, SayOther, SayOpened

\* Every step keeps the places.
LEMMA PlacesKept == Spec => []PlaceInv
<1>1. Init => PlaceInv
  <2> SUFFICES ASSUME Init PROVE PlaceInv
    OBVIOUS
  <2>1. Nothing.kind # "HostCall"
    BY DEF Nothing, Msg
  <2> QED
    BY <2>1, EmptyList
    DEF Init, PlaceInv, ListsAreSeqs, InHand, AnswerIsNext, NothingElse, AllPlaced, Sending
<1>2. SecretInv /\ PlaceInv /\ [Next]_vars => PlaceInv'
  <2> SUFFICES ASSUME SecretInv, PlaceInv, [Next]_vars PROVE PlaceInv'
    OBVIOUS
  <2>1. CASE Next
    BY <2>1, OperationKeepsPlaces, ReadLoopKeepsPlaces, HostAnswersKeepPlaces, SendReturnsKeepPlaces,
       FaultsKeepPlaces, ServerKeepsPlaces DEF Next, SecretInv
  <2>2. CASE UNCHANGED vars
    BY <2>2, ShapedAndKept
    DEF vars, store, call, send, outside, server, seen, history, Shaped, Kept, Place, PlaceInv, ListsAreSeqs,
        InHand, AnswerIsNext, NothingElse, Sending
  <2> QED
    BY <2>1, <2>2
<1> QED
  BY <1>1, <1>2, SecretInvariant, PTL DEF Spec

\* For any number of host calls, operations, messages and faults: no host call that
\* can be read is lost, unless its own answer was being made or sent, or it came in
\* a chunk that could not be decoded (next_message, handle_host_call,
\* deferred_host_responses).  One that cannot be read is answered by nobody.
THEOREM NoHostCallLost == Spec => []HostCallsAccounted
  BY PlacesKept, PlacedIsAccounted, PTL

-------------------------------------------------------------------------------

(* Each host call once.  A call the server made is in one place at a time,  *)
(* on its way from the wire to its answer; a fault may write its answer and *)
(* leave it where it is, so that it is answered again.                      *)

\* What the server sends for the calls.
CallMsgs == {Msg("HostCall", c) : c \in Calls}

\* A list has each of T once.
Once(s, T) == \A i, j \in DOMAIN s : s[i] = s[j] /\ s[i] \in T => i = j

\* The places of a call: on the wire, in pending_messages, in the hands of
\* handle_host_call, in deferred_host_responses, among those that fail.
Places == {"sent", "read", "asked", "parked", "failing"}
At(p, c) ==
  \/ p = "sent" /\ In(Msg("HostCall", c), s2c)
  \/ p = "read" /\ In(Msg("HostCall", c), pending_messages)
  \/ p = "asked" /\ cur = Msg("HostCall", c)
  \/ p = "parked" /\ In(c, deferred)
  \/ p = "failing" /\ In(c, failing)

\* A call is in one place at most, once it was made.  As long as it is, its answers
\* were all repeated by a fault; once it is not, one of them was not.
CallOnce(c) ==
  /\ \A p, q \in Places : At(p, c) /\ At(q, c) => p = q
  /\ \A p \in Places : At(p, c) => c \in called /\ Len(answers[c]) \in 0..faults
  /\ c \notin called => answers[c] = <<>>
  /\ Len(answers[c]) \in 0..(1 + faults)

\* No list has a call twice.
ListsOnce == /\ Once(s2c, CallMsgs) /\ Once(pending_messages, CallMsgs)
             /\ Once(deferred, Calls) /\ Once(failing, Calls)

\* A call is in hand while it is answered or parked; what is sent for no call answers
\* none.
OutIsOwn ==
  /\ pc = "host" \/ Sending("answer") \/ Sending("park") => cur \in CallMsgs
  /\ pc = "send" /\ after \notin {"answer", "flush", "fail"} => out.call = None

OnceInv == ListsOnce /\ OutIsOwn /\ \A c \in Calls : CallOnce(c)

\* A step is one fault at most.
OneFault == faults \in Nat /\ faults' \in {faults, faults + 1}

\* What the messages of the pool are about.
LEMMA CallMessage ==
  /\ Nothing.kind # "HostCall"
  /\ \A c : Msg("HostCall", c).kind = "HostCall" /\ Msg("HostCall", c).arg = c
  /\ \A m \in CallMsgs : m.kind = "HostCall" /\ m.arg \in Calls /\ m = Msg("HostCall", m.arg)
  /\ \A c \in Calls : Msg("HostCall", c) \in CallMsgs
  /\ \A c, k : Answer(c).call = c /\ Error(c).call = c /\ Secret(c, k).call = c
  /\ \A kind : Plain(kind).call = None /\ Public(kind).call = None
  BY DEF Nothing, Msg, CallMsgs, Answer, Error, Secret, Plain, Public

\* Lists that have each once: the empty one, a longer one, the rest of one, its parts.
LEMMA EmptyOnce == \A T : Once(<<>>, T)
  BY DEF Once

LEMMA AppendedOnce ==
  ASSUME NEW s, IsSeq(s), NEW x, NEW T, Once(s, T), x \in T => ~In(x, s)
  PROVE  Once(Append(s, x), T)
<1>1. PICK S : s \in Seq(S)
  BY DEF IsSeq
<1> DEFINE t == Append(s, x)
<1>2. s \in Seq(S \cup {x}) /\ x \in S \cup {x}
  BY <1>1
<1>3. /\ DOMAIN t = 1..(Len(s) + 1) /\ DOMAIN s = 1..Len(s) /\ Len(s) \in Nat
      /\ (\A i \in DOMAIN s : t[i] = s[i]) /\ t[Len(s) + 1] = x
  BY <1>2
<1>4. \A i \in DOMAIN t : i \in DOMAIN s \/ i = Len(s) + 1
  BY <1>3
<1> QED
  BY <1>3, <1>4 DEF Once, In

LEMMA TailOnce ==
  ASSUME NEW s, IsSeq(s), s # <<>>, NEW T, Once(s, T)
  PROVE  Once(Tail(s), T) /\ (Head(s) \in T => ~In(Head(s), Tail(s)))
<1>1. PICK S : s \in Seq(S)
  BY DEF IsSeq
<1>2. Len(s) \in Nat /\ Len(s) >= 1
  BY <1>1
<1>3. DOMAIN s = 1..Len(s) /\ DOMAIN Tail(s) = 1..(Len(s) - 1) /\ Head(s) = s[1]
  BY <1>1, <1>2
<1>4. \A i \in 1..(Len(s) - 1) : Tail(s)[i] = s[i + 1]
  BY <1>1, <1>2
<1>5. /\ 1 \in DOMAIN s
      /\ \A i \in DOMAIN Tail(s) : i + 1 \in DOMAIN s /\ i + 1 # 1 /\ Tail(s)[i] = s[i + 1]
      /\ \A i, j \in DOMAIN Tail(s) : i + 1 = j + 1 => i = j
  BY <1>2, <1>3, <1>4
<1> QED
  BY <1>3, <1>5 DEF Once, In

LEMMA SplitOnce ==
  ASSUME NEW s, IsSeq(s), NEW n \in 1..Len(s), NEW T, Once(s, T)
  PROVE  LET a == SubSeq(s, 1, n)
             b == SubSeq(s, n + 1, Len(s))
         IN  /\ Once(a, T) /\ Once(b, T)
             /\ \A c : In(c, a) \/ In(c, b) => In(c, s)
             /\ \A c \in T : ~(In(c, a) /\ In(c, b))
<1>1. PICK S : s \in Seq(S)
  BY DEF IsSeq
<1>2. Len(s) \in Nat /\ n \in Nat /\ 1 <= n /\ n <= Len(s) /\ DOMAIN s = 1..Len(s)
  BY <1>1
<1> DEFINE a == SubSeq(s, 1, n)
           b == SubSeq(s, n + 1, Len(s))
<1>3. DOMAIN a = 1..n /\ \A i \in 1..n : a[i] = s[i]
  BY <1>1, <1>2
<1>4. DOMAIN b = 1..(Len(s) - n) /\ \A i \in 1..(Len(s) - n) : b[i] = s[n + i]
  BY <1>1, <1>2
<1>5. /\ \A i \in DOMAIN a : i \in DOMAIN s /\ a[i] = s[i]
      /\ \A i \in DOMAIN b : n + i \in DOMAIN s /\ b[i] = s[n + i]
      /\ \A i \in DOMAIN a, j \in DOMAIN b : i # n + j
      /\ \A i, j \in DOMAIN b : n + i = n + j => i = j
  BY <1>2, <1>3, <1>4
<1> HIDE DEF a, b
<1>6. Once(a, T) /\ Once(b, T)
  BY <1>5 DEF Once
<1>7. \A c : In(c, a) \/ In(c, b) => In(c, s)
  BY <1>5 DEF In
<1>8. \A c \in T : ~(In(c, a) /\ In(c, b))
  BY <1>5 DEF Once, In
<1> QED
  BY <1>6, <1>7, <1>8 DEF a, b

\* A call that goes from one place to another stays in one.
LEMMA CallMoves ==
  ASSUME NEW c, CallOnce(c), OneFault, called \subseteq called', answers'[c] = answers[c],
         NEW p \in Places, NEW q \in Places,
         \A r \in Places \ {q} : At(r, c)' => At(r, c),
         At(q, c)' => At(q, c) \/ (At(p, c) /\ (p # q => ~At(p, c)'))
  PROVE  CallOnce(c)'
<1>1. \A r \in Places : At(r, c)' => At(r, c) \/ (r = q /\ At(p, c))
  OBVIOUS
<1>2. /\ \A r \in Places : At(r, c)' => c \in called' /\ Len(answers'[c]) \in 0..faults'
      /\ Len(answers'[c]) \in 0..(1 + faults')
      /\ c \notin called' => answers'[c] = <<>>
  BY <1>1 DEF CallOnce, OneFault
<1>3. ASSUME NEW r \in Places, NEW t \in Places, At(r, c)', At(t, c)' PROVE r = t
  BY <1>1, <1>3 DEF CallOnce
<1> QED
  BY <1>2, <1>3 DEF CallOnce

\* A step that puts no call anywhere new.
LEMMA Remain ==
  ASSUME OnceInv, OneFault, ListsOnce', OutIsOwn', UNCHANGED answers, called \subseteq called',
         \A m \in CallMsgs : /\ In(m, s2c') => In(m, s2c)
                             /\ In(m, pending_messages') => In(m, pending_messages)
                             /\ m = cur' => m = cur,
         \A c \in Calls : /\ In(c, deferred') => In(c, deferred)
                          /\ In(c, failing') => In(c, failing)
  PROVE  OnceInv'
<1> SUFFICES ASSUME NEW c \in Calls PROVE CallOnce(c)'
  BY DEF OnceInv
<1>1. \A r \in Places : At(r, c)' => At(r, c)
  BY CallMessage DEF At
<1>2. CallOnce(c)
  BY DEF OnceInv
<1> QED
  BY <1>1, <1>2, CallMoves DEF Places

\* A step of the caller or of the server: lists as they are.
LEMMA RemainThere ==
  ASSUME OnceInv, OneFault, UNCHANGED <<s2c, pending_messages, answers, called>>, OutIsOwn',
         deferred' \in {deferred, <<>>}, failing' \in {failing, <<>>},
         cur' = cur \/ cur'.kind # "HostCall"
  PROVE  OnceInv'
<1>1. ListsOnce'
  BY EmptyOnce DEF OnceInv, ListsOnce
<1> QED
  BY <1>1, EmptyList, CallMessage, Remain

\* An answer that reaches the server is one more for its call.
LEMMA DeliveredOnce ==
  ASSUME AnswersAreSeqs, Deliver, NEW c \in Calls
  PROVE  /\ out.call # c => answers'[c] = answers[c]
         /\ out.call = c => Len(answers'[c]) = Len(answers[c]) + 1 /\ Len(answers[c]) \in Nat
<1> DEFINE new == [secret |-> out.secret, key |-> out.key]
<1>1. CASE out.call # c
  BY <1>1 DEF Deliver, AnswersAreSeqs
<1>2. CASE out.call = c
  <2>1. answers'[c] = Append(answers[c], new)
    BY <1>2, ConstantsAssumption DEF Deliver, AnswersAreSeqs
  <2>2. PICK S : answers[c] \in Seq(S)
    BY DEF AnswersAreSeqs
  <2>3. answers[c] \in Seq(S \cup {new}) /\ new \in S \cup {new}
    BY <2>2
  <2>4. Len(Append(answers[c], new)) = Len(answers[c]) + 1 /\ Len(answers[c]) \in Nat
    BY <2>3
  <2> QED
    BY <1>2, <2>1, <2>4
<1> QED
  BY <1>1, <1>2

\* What is sent and is no answer answers nobody.
LEMMA NoneDelivered ==
  ASSUME Deliver, out.call = None
  PROVE  UNCHANGED <<answers, s2c, called>>
  BY DEF Deliver

\* The calls of the pool put none anywhere.
LEMMA OperationKeepsOnce ==
  ASSUME OnceInv, PlaceInv, OneFault, Operation PROVE OnceInv'
<1>1. UNCHANGED <<s2c, pending_messages, answers, called>> \/ \E ok \in BOOLEAN : Disconnect(ok)
  BY DEF Operation, OpenWithOptions, OpenFromTransport, RequestSessionKey, RunPipeline, SetSessionKey, Close,
         Reconnect, store, server, seen
<1> USE DEF OutIsOwn, Sending, Send, key, store, server, seen, call, send
<1>2. CASE OpenWithOptions
  BY <1>2, CallMessage, RemainThere DEF OpenWithOptions
<1>3. CASE OpenFromTransport
  BY <1>3, RemainThere DEF OpenFromTransport
<1>4. CASE RequestSessionKey
  BY <1>4, CallMessage, RemainThere DEF RequestSessionKey, Exchange, Idle
<1>5. CASE RunPipeline
  BY <1>5, CallMessage, RemainThere DEF RunPipeline
<1>6. CASE SetSessionKey
  BY <1>6, RemainThere DEF SetSessionKey, Idle
<1>7. CASE Close
  BY <1>7, CallMessage, RemainThere DEF Close
<1>8. ASSUME NEW ok \in BOOLEAN, Disconnect(ok) PROVE OnceInv'
  <2>1. /\ UNCHANGED <<s2c, answers, called, failing, cur, pc>> /\ pc = "idle"
        /\ deferred' = <<>> /\ pending_messages' = <<>>
    BY <1>8 DEF Disconnect, Idle
  <2>2. ListsOnce' /\ OutIsOwn'
    BY <2>1, EmptyOnce DEF OnceInv, ListsOnce
  <2> QED
    BY <2>1, <2>2, EmptyList, Remain
<1>9. CASE Reconnect
  BY <1>9, RemainThere DEF Reconnect, PlaceInv, NothingElse, OnceInv
<1> QED
  BY <1>2, <1>3, <1>4, <1>5, <1>6, <1>7, <1>8, <1>9 DEF Operation

\* A message that is read, and is no host call, moves none.
LEMMA ReadKeepsOnce ==
  ASSUME OnceInv, PlaceInv, OneFault, NEW kind, Popped(kind), UNCHANGED <<s2c, called, answers, deferred, failing>>,
         cur'.kind # "HostCall", OutIsOwn'
  PROVE  OnceInv'
<1>1. /\ Once(pending_messages', CallMsgs)
      /\ \A m : In(m, pending_messages') => In(m, pending_messages)
  BY TailOnce, TailOfList DEF Popped, PlaceInv, ListsAreSeqs, OnceInv, ListsOnce
<1>2. ListsOnce'
  BY <1>1 DEF OnceInv, ListsOnce
<1> QED
  BY <1>1, <1>2, CallMessage, Remain

\* next_message: a host call goes from the chunk to the buffer, from there into the
\* hand, and a list of parked ones becomes the one to fail.
LEMMA ReadLoopKeepsOnce ==
  ASSUME OnceInv, PlaceInv, OneFault, TypeOK, ReadLoop \/ ReceiveEmpty PROVE OnceInv'
<1> USE DEF OutIsOwn, Sending, Goto
<1>0. IsSeq(s2c) /\ IsSeq(pending_messages) /\ IsSeq(deferred) /\ ListsOnce
  BY DEF PlaceInv, ListsAreSeqs, OnceInv
<1>1. CASE FlushFirst
  BY <1>1, RemainThere DEF FlushFirst, Send, key, store, outside, server, seen
<1>2. CASE PopHostCall
  <2>1. /\ Popped("HostCall") /\ cur' = Head(pending_messages) /\ pc' = "host"
        /\ pending_messages # <<>> /\ pending_messages' = Tail(pending_messages)
        /\ UNCHANGED <<deferred, failing, s2c, called, answers>>
    BY <1>2 DEF PopHostCall, Popped, send, outside, server, seen, history
  <2>2. /\ Once(pending_messages', CallMsgs) /\ In(cur', pending_messages)
        /\ cur' \in CallMsgs => ~In(cur', pending_messages')
        /\ \A m : In(m, pending_messages') => In(m, pending_messages)
    BY <1>0, <2>1, TailOnce, TailOfList DEF ListsOnce
  <2>3. ListsOnce'
    BY <1>0, <2>1, <2>2 DEF ListsOnce
  <2>4. ASSUME NEW c \in Calls PROVE CallOnce(c)'
    <3>1. \A r \in Places \ {"asked"} : At(r, c)' => At(r, c)
      BY <2>1, <2>2 DEF At
    <3>2. At("asked", c)' => At("read", c) /\ ~At("read", c)'
      BY <2>2, CallMessage DEF At
    <3>3. CallOnce(c) /\ UNCHANGED answers
      BY <2>1 DEF OnceInv
    <3> QED
      BY <2>1, <3>1, <3>2, <3>3, CallMoves DEF Places
  <2>5. cur' \in CallMsgs
    <3>1. pending_messages \in Seq(MsgSet) /\ cur'.kind = "HostCall"
      BY <2>1 DEF Popped, TypeOK
    <3>2. cur' \in MsgSet
      BY <2>1, <3>1
    <3>3. cur' \in [kind : {"HostCall"}, arg : Calls]
      BY <3>1, <3>2 DEF MsgSet
    <3> QED
      BY <3>3 DEF CallMsgs, Msg
  <2> QED
    BY <2>1, <2>3, <2>4, <2>5 DEF OnceInv
<1>11. CASE PopUnreadableCall
  <2>1. /\ pc' = "idle" /\ cur' = Nothing /\ UNCHANGED <<deferred, failing, s2c, called, answers>>
    BY <1>11 DEF PopUnreadableCall, Return, send, server, seen
  <2> QED
    BY <1>11, <2>1, CallMessage, ReadKeepsOnce DEF PopUnreadableCall
<1>3. CASE PopPublicKeyRequest
  <2>1. /\ Popped("PublicKeyRequest") /\ UNCHANGED <<deferred, failing, s2c, called, answers>>
    BY <1>3 DEF PopPublicKeyRequest, outside, server, seen, send
  <2>2. CASE pending_client_key # None
    BY <1>3, <2>1, <2>2, HandOnEnds, CallMessage, ReadKeepsOnce DEF PopPublicKeyRequest
  <2>3. CASE pending_client_key = None
    <3>1. /\ pc' = "send" /\ after' = "requested" /\ cur' = Head(pending_messages)
          /\ out' = Public(keys + 1)
      BY <1>3, <2>3 DEF PopPublicKeyRequest, Exchange, Send
    <3>2. OutIsOwn' /\ cur'.kind # "HostCall"
      BY <2>1, <3>1, CallMessage DEF Popped
    <3> QED
      BY <2>1, <3>1, <3>2, ReadKeepsOnce
  <2> QED
    BY <2>2, <2>3
<1>4. ASSUME NEW kind \in {"State", "Done"}, PopOther(kind) PROVE OnceInv'
  BY <1>4, HandOnEnds, CallMessage, ReadKeepsOnce DEF PopOther, send, outside, server, seen
<1>5. CASE PopUnexpectedKey
  BY <1>5, HandOnEnds, CallMessage, ReadKeepsOnce DEF PopUnexpectedKey, send, outside, server, seen
<1>6. CASE PopSessionKey
  <2>1. /\ Popped("EncryptedSessionKey") /\ UNCHANGED <<deferred, failing, s2c, called, answers>>
    BY <1>6 DEF PopSessionKey, outside, server, seen, send
  <2>2. CASE deferred = <<>>
    BY <1>6, <2>1, <2>2, HandOnEnds, CallMessage, ReadKeepsOnce DEF PopSessionKey
  <2>3. CASE deferred # <<>>
    <3>1. pc' = "send" /\ after' = "flush" /\ cur' = Head(pending_messages)
      BY <1>6, <2>3 DEF PopSessionKey, Send
    <3>2. OutIsOwn' /\ cur'.kind # "HostCall"
      BY <2>1, <3>1 DEF Popped
    <3> QED
      BY <2>1, <3>1, <3>2, ReadKeepsOnce
  <2> QED
    BY <2>2, <2>3
<1>7. CASE PopUnusableKey
  <2>1. /\ Popped("EncryptedSessionKey") /\ deferred' = <<>> /\ UNCHANGED <<s2c, called, answers>>
        /\ failing = <<>> /\ cur.kind # "HostCall"
    BY <1>7, PoppedLeaves DEF PopUnusableKey, outside, server, seen
  <2>2. CASE deferred = <<>>
    <3>1. pc' = "idle" /\ cur' = Nothing /\ UNCHANGED <<failing, deferred>>
      BY <1>7, <2>1, <2>2 DEF PopUnusableKey, Return, send
    <3> QED
      BY <2>1, <3>1, CallMessage, ReadKeepsOnce
  <2>3. CASE deferred # <<>>
    <3>1. pc' = "send" /\ after' = "fail" /\ failing' = deferred /\ UNCHANGED cur
      BY <1>7, <2>3 DEF PopUnusableKey, Send
    <3>2. /\ Once(pending_messages', CallMsgs)
          /\ \A m : In(m, pending_messages') => In(m, pending_messages)
      BY <1>0, <2>1, TailOnce, TailOfList DEF Popped, ListsOnce
    <3>3. ListsOnce' /\ OutIsOwn'
      BY <1>0, <2>1, <3>1, <3>2, EmptyOnce DEF ListsOnce
    <3>4. ASSUME NEW c \in Calls PROVE CallOnce(c)'
      <4>1. \A r \in Places \ {"failing"} : At(r, c)' => At(r, c)
        BY <2>1, <3>1, <3>2, EmptyList DEF At
      <4>2. At("failing", c)' => At("parked", c) /\ ~At("parked", c)'
        BY <2>1, <3>1, EmptyList DEF At
      <4>3. CallOnce(c) /\ UNCHANGED answers
        BY <2>1 DEF OnceInv, CallOnce
      <4> QED
        BY <2>1, <4>1, <4>2, <4>3, CallMoves DEF Places
    <3> QED
      BY <3>3, <3>4 DEF OnceInv
  <2> QED
    BY <2>2, <2>3
<1>8. CASE WaitForChunk
  BY <1>8, RemainThere DEF WaitForChunk, store, send, outside, server, seen
<1>9. ASSUME NEW n \in 1..Len(s2c), ReceiveChunk(n) PROVE OnceInv'
  <2>1. /\ pending_messages = <<>> /\ s2c' = SubSeq(s2c, n + 1, Len(s2c))
        /\ UNCHANGED <<deferred, failing, called, answers>>
    BY <1>9 DEF ReceiveChunk, send, seen, PlaceInv, NothingElse
  <2>2. \/ pending_messages' = SubSeq(s2c, 1, n) /\ pc' = "top" /\ UNCHANGED cur
        \/ UNCHANGED pending_messages /\ pc' = "idle" /\ cur' = Nothing
    BY <1>9 DEF ReceiveChunk, Return
  <2>3. /\ Once(SubSeq(s2c, 1, n), CallMsgs) /\ Once(s2c', CallMsgs)
        /\ \A m : In(m, SubSeq(s2c, 1, n)) \/ In(m, s2c') => In(m, s2c)
        /\ \A m \in CallMsgs : ~(In(m, SubSeq(s2c, 1, n)) /\ In(m, s2c'))
    BY <1>0, <2>1, SplitOnce DEF ListsOnce
  <2>4. ListsOnce' /\ OutIsOwn'
    BY <1>0, <2>1, <2>2, <2>3 DEF ListsOnce
  <2>5. ASSUME NEW c \in Calls PROVE CallOnce(c)'
    <3>1. \A r \in Places \ {"read"} : At(r, c)' => At(r, c)
      BY <2>1, <2>2, <2>3, CallMessage DEF At
    <3>2. At("read", c)' => At("sent", c) /\ ~At("sent", c)'
      BY <2>1, <2>2, <2>3, CallMessage, EmptyList DEF At
    <3>3. CallOnce(c) /\ UNCHANGED answers
      BY <2>1 DEF OnceInv
    <3> QED
      BY <2>1, <3>1, <3>2, <3>3, CallMoves DEF Places
  <2> QED
    BY <2>4, <2>5 DEF OnceInv
<1>10. CASE ReceiveEmpty
  BY <1>10, HandOnEnds, CallMessage, RemainThere DEF ReceiveEmpty, store, send, seen
<1> QED
  BY <1>1, <1>2, <1>3, <1>4, <1>5, <1>6, <1>7, <1>8, <1>9, <1>10, <1>11 DEF ReadLoop

\* The call in hand is parked behind the others.
LEMMA ParkedOnce ==
  ASSUME OnceInv, PlaceInv, OneFault, cur \in CallMsgs, deferred' = Append(deferred, cur.arg), cur' = Nothing,
         UNCHANGED <<s2c, pending_messages, failing, called, answers>>, OutIsOwn'
  PROVE  OnceInv'
<1> DEFINE d == cur.arg
<1>1. d \in Calls /\ cur = Msg("HostCall", d)
  BY CallMessage
<1>2. At("asked", d) /\ ~In(d, deferred)
  BY <1>1 DEF At, OnceInv, CallOnce, Places
<1>3. /\ Once(deferred', Calls) /\ \A c : In(c, deferred') <=> In(c, deferred) \/ c = d
  BY <1>2, AppendedOnce, AppendedList DEF OnceInv, ListsOnce, PlaceInv, ListsAreSeqs
<1>4. ListsOnce'
  BY <1>3 DEF OnceInv, ListsOnce
<1>5. ASSUME NEW c \in Calls PROVE CallOnce(c)'
  <2>1. \A r \in Places \ {"parked"} : At(r, c)' => At(r, c)
    BY CallMessage DEF At
  <2>2. At("parked", c)' => At("parked", c) \/ (At("asked", c) /\ ~At("asked", c)')
    BY <1>1, <1>3, CallMessage DEF At
  <2>3. CallOnce(c) /\ UNCHANGED answers
    BY DEF OnceInv, CallOnce
  <2> QED
    BY <2>1, <2>2, <2>3, CallMoves DEF Places
<1> QED
  BY <1>4, <1>5 DEF OnceInv

\* handle_host_call: the call in hand is answered, or parked until there is a key.
LEMMA HostAnswersKeepOnce ==
  ASSUME OnceInv, PlaceInv, OneFault, HostAnswers PROVE OnceInv'
<1> USE DEF Sending, Goto, Send, key, store, send, outside, server, seen
<1>1. CASE HostVoid
  BY <1>1, CallMessage, RemainThere DEF HostVoid, OutIsOwn
<1>2. ASSUME NEW m, HostPlain(m) PROVE OnceInv'
  BY <1>2, RemainThere DEF HostPlain, OnceInv, OutIsOwn
<1>3. CASE HostSecret
  BY <1>3, RemainThere DEF HostSecret, OnceInv, OutIsOwn
<1>4. CASE HostSecretParks
  <2>1. CASE pending_client_key # None
    <3>1. /\ deferred' = Append(deferred, cur.arg) /\ cur' = Nothing /\ pc = "host" /\ pc' = "top"
          /\ UNCHANGED <<s2c, pending_messages, failing, called, answers>>
      BY <1>4, <2>1 DEF HostSecretParks, Park
    <3>2. cur \in CallMsgs /\ OutIsOwn'
      BY <3>1 DEF OnceInv, OutIsOwn
    <3> QED
      BY <3>1, <3>2, ParkedOnce
  <2>2. CASE pending_client_key = None
    BY <1>4, <2>2, CallMessage, RemainThere DEF HostSecretParks, Exchange, OnceInv, OutIsOwn
  <2> QED
    BY <2>1, <2>2
<1> QED
  BY <1>1, <1>2, <1>3, <1>4 DEF HostAnswers

\* What reaches the server is an answer, and its call leaves the place it was at,
\* unless a fault leaves it there.
LEMMA AnsweredIsOnce ==
  ASSUME OnceInv, OneFault, AnswersAreSeqs, Deliver,
         \A c \in Calls : out.call = c =>
           \E p \in Places : At(p, c) /\ (At(p, c)' => faults' = faults + 1),
         \A c \in Calls : \A r \in Places : At(r, c)' => At(r, c),
         ListsOnce', OutIsOwn'
  PROVE  OnceInv'
<1> SUFFICES ASSUME NEW c \in Calls PROVE CallOnce(c)'
  BY DEF OnceInv
<1>1. CallOnce(c) /\ UNCHANGED called
  BY DEF OnceInv, Deliver
<1>2. CASE out.call # c
  <2>1. answers'[c] = answers[c]
    BY <1>2, DeliveredOnce
  <2>2. "sent" \in Places
    BY DEF Places
  <2> QED
    BY <1>1, <2>1, <2>2, CallMoves
<1>3. CASE out.call = c
  <2>1. PICK p \in Places : At(p, c) /\ (At(p, c)' => faults' = faults + 1)
    BY <1>3
  <2>2. c \in called /\ Len(answers[c]) \in 0..faults
    BY <1>1, <2>1 DEF CallOnce
  <2>3. Len(answers'[c]) = Len(answers[c]) + 1
    BY <1>3, DeliveredOnce
  <2>4. Len(answers'[c]) \in 0..(1 + faults') /\ (faults' = faults + 1 => Len(answers'[c]) \in 0..faults')
    BY <2>2, <2>3 DEF OneFault
  <2>5. ASSUME NEW r \in Places, At(r, c)' PROVE r = p /\ faults' = faults + 1
    BY <1>1, <2>1, <2>5 DEF CallOnce
  <2> QED
    BY <1>1, <2>2, <2>4, <2>5 DEF CallOnce
<1> QED
  BY <1>2, <1>3

\* The end of a send: an answer that is out has left the hand or its list.
LEMMA SendReturnsKeepOnce ==
  ASSUME OnceInv, PlaceInv, OneFault, AnswersAreSeqs, SendReturns PROVE OnceInv'
<1> USE DEF Sending, Goto, Sent
<1>0. IsSeq(deferred) /\ IsSeq(failing) /\ ListsOnce /\ OutIsOwn /\ AnswerIsNext /\ InHand
  BY DEF PlaceInv, ListsAreSeqs, OnceInv
<1>1. CASE SentCapability
  BY <1>0, <1>1, NoneDelivered, CallMessage, RemainThere DEF SentCapability, Send, store, OutIsOwn
<1>2. CASE SentFlushed
  <2>1. /\ deferred' = Tail(deferred) /\ UNCHANGED pending_messages
        /\ pc = "send" /\ after = "flush" /\ Deliver /\ UNCHANGED <<s2c, called>>
    BY <1>2 DEF SentFlushed, Deliver
  <2>2. deferred # <<>> /\ out.call = Head(deferred) /\ failing = <<>> /\ cur.kind # "HostCall"
    BY <1>0, <2>1 DEF AnswerIsNext, InHand
  <2>3. /\ Once(deferred', Calls) /\ \A c : In(c, deferred') => In(c, deferred)
        /\ In(out.call, deferred) /\ (out.call \in Calls => ~In(out.call, deferred'))
    BY <1>0, <2>1, <2>2, TailOnce, TailOfList DEF ListsOnce
  <2>4. /\ cur'.kind # "HostCall" /\ failing' = failing
        /\ pc' \in {"idle", "top"} \/ (pc' = "send" /\ after' = "flush")
    <3>1. CASE Tail(deferred) # <<>>
      <4>1. Send(Secret(Head(Tail(deferred)), session_key), "flush") /\ UNCHANGED <<cur, failing>>
        BY <1>2, <3>1 DEF SentFlushed
      <4> QED
        BY <2>2, <4>1 DEF Send
    <3>2. CASE Tail(deferred) = <<>> /\ cur # Nothing
      <4>1. HandOn(cur, session_key) /\ UNCHANGED send
        BY <1>2, <3>2, Zenon DEF SentFlushed
      <4> QED
        BY <4>1, HandOnEnds, CallMessage DEF send
    <3>3. CASE Tail(deferred) = <<>> /\ cur = Nothing
      BY <1>2, <2>2, <3>3 DEF SentFlushed, send
    <3> QED
      BY <3>1, <3>2, <3>3
  <2>5. ListsOnce' /\ OutIsOwn'
    BY <1>0, <2>1, <2>3, <2>4 DEF ListsOnce, OutIsOwn
  <2>6. ASSUME NEW c \in Calls PROVE \A r \in Places : At(r, c)' => At(r, c)
    BY <2>1, <2>3, <2>4, CallMessage DEF At
  <2>7. ASSUME NEW c \in Calls, out.call = c PROVE At("parked", c) /\ ~At("parked", c)'
    BY <2>3, <2>7 DEF At
  <2> QED
    BY <2>1, <2>5, <2>6, <2>7, AnsweredIsOnce DEF Places
<1>3. CASE SentError
  <2>1. /\ failing' = Tail(failing) /\ UNCHANGED <<deferred, pending_messages>>
        /\ pc = "send" /\ after = "fail" /\ Deliver /\ UNCHANGED <<s2c, called>>
    BY <1>3 DEF SentError, FailNext, store, Deliver
  <2>2. failing # <<>> /\ out.call = Head(failing) /\ cur.kind # "HostCall"
    BY <1>0, <2>1 DEF AnswerIsNext, InHand
  <2>3. /\ Once(failing', Calls) /\ \A c : In(c, failing') => In(c, failing)
        /\ In(out.call, failing) /\ (out.call \in Calls => ~In(out.call, failing'))
    BY <1>0, <2>1, <2>2, TailOnce, TailOfList DEF ListsOnce
  <2>4. /\ cur'.kind # "HostCall"
        /\ pc' = "idle" \/ (pc' = "send" /\ after' = "fail")
    BY <1>3, <2>2, CallMessage DEF SentError, FailNext, Return, Send
  <2>5. ListsOnce' /\ OutIsOwn'
    BY <1>0, <2>1, <2>3, <2>4 DEF ListsOnce, OutIsOwn
  <2>6. ASSUME NEW c \in Calls PROVE \A r \in Places : At(r, c)' => At(r, c)
    BY <2>1, <2>3, <2>4, CallMessage DEF At
  <2>7. ASSUME NEW c \in Calls, out.call = c PROVE At("failing", c) /\ ~At("failing", c)'
    BY <2>3, <2>7 DEF At
  <2> QED
    BY <2>1, <2>5, <2>6, <2>7, AnsweredIsOnce DEF Places
<1>4. CASE SentClose
  BY <1>0, <1>4, NoneDelivered, RemainThere DEF SentClose, store, send, OutIsOwn
<1>5. ASSUME NEW then \in {"init", "run"}, SentAndReadOn(then) PROVE OnceInv'
  BY <1>0, <1>5, NoneDelivered, CallMessage, RemainThere DEF SentAndReadOn, store, send, OutIsOwn
<1>6. CASE SentAndReadOn("answer")
  <2>1. /\ UNCHANGED <<deferred, pending_messages, failing, s2c, called>> /\ cur' = Nothing /\ pc' = "top"
        /\ pc = "send" /\ after = "answer" /\ Deliver
    BY <1>6 DEF SentAndReadOn, store, send, Deliver
  <2>2. cur \in CallMsgs /\ out.call = cur.arg
    BY <1>0, <2>1 DEF OutIsOwn, AnswerIsNext
  <2>3. ListsOnce' /\ OutIsOwn'
    BY <1>0, <2>1 DEF ListsOnce, OutIsOwn
  <2>4. ASSUME NEW c \in Calls PROVE \A r \in Places : At(r, c)' => At(r, c)
    BY <2>1, CallMessage DEF At
  <2>5. ASSUME NEW c \in Calls, out.call = c PROVE At("asked", c) /\ ~At("asked", c)'
    BY <2>1, <2>2, <2>5, CallMessage DEF At
  <2> QED
    BY <2>1, <2>3, <2>4, <2>5, AnsweredIsOnce DEF Places
<1>7. ASSUME NEW then \in Asking, SentPublicKey(then) PROVE OnceInv'
  <2>1. /\ UNCHANGED <<pending_messages, failing>> /\ pc = "send" /\ after = then /\ Deliver
    BY <1>7 DEF SentPublicKey, send
  <2>2. UNCHANGED <<answers, s2c, called>>
    BY <1>0, <2>1, NoneDelivered DEF OutIsOwn, Asking
  <2>3. cur' = Nothing /\ pc' \in {"idle", "top"}
    <3>1. CASE then = "requested"
      <4>1. HandOn(cur, session_key)
        BY <1>7, <3>1 DEF SentPublicKey
      <4> QED
        BY <4>1, HandOnEnds
    <3>2. CASE then # "requested"
      BY <1>7, <3>2 DEF SentPublicKey
    <3> QED
      BY <3>1, <3>2
  <2>4. OutIsOwn'
    BY <2>3 DEF OutIsOwn
  <2>5. CASE then = "park"
    <3>1. deferred' = Append(deferred, cur.arg) /\ cur \in CallMsgs
      BY <1>0, <1>7, <2>1, <2>5 DEF SentPublicKey, Park, OutIsOwn
    <3> QED
      BY <2>1, <2>2, <2>3, <2>4, <3>1, ParkedOnce
  <2>6. CASE then # "park"
    <3>1. deferred' = deferred
      BY <1>7, <2>6 DEF SentPublicKey
    <3> QED
      BY <2>1, <2>2, <2>3, <2>4, <3>1, CallMessage, RemainThere
  <2> QED
    BY <2>5, <2>6
<1>8. ASSUME NEW ok \in BOOLEAN, Closed(ok) PROVE OnceInv'
  BY <1>8, CallMessage, RemainThere DEF Closed, Return, store, send, outside, server, seen, OutIsOwn
<1> QED
  BY <1>1, <1>2, <1>3, <1>4, <1>5, <1>6, <1>7, <1>8 DEF SendReturns, Asking

\* The server calls the host about each call once.
LEMMA ServerKeepsOnce ==
  ASSUME OnceInv, PlaceInv, OneFault, ServerSpeaks PROVE OnceInv'
<1>0. UNCHANGED <<store, call, send, seen>> /\ IsSeq(s2c)
  BY DEF ServerSpeaks, CallHost, AskForKey, ReplyKey, SayOther, SayOpened, PlaceInv, ListsAreSeqs
<1>1. UNCHANGED <<deferred, pending_messages, failing, cur, pc, after, out, answers>>
  BY <1>0 DEF store, call, send, seen
<1>2. OutIsOwn'
  BY <1>1 DEF OnceInv, OutIsOwn, Sending
<1>3. ASSUME NEW m, s2c' = Append(s2c, m), m.kind # "HostCall", UNCHANGED called PROVE OnceInv'
  <2>1. m \notin CallMsgs /\ (\A c : In(c, s2c') <=> In(c, s2c) \/ c = m) /\ Once(s2c', CallMsgs)
    BY <1>0, <1>3, CallMessage, AppendedOnce, AppendedList DEF OnceInv, ListsOnce
  <2>2. ListsOnce'
    BY <1>1, <2>1 DEF OnceInv, ListsOnce
  <2> QED
    BY <1>1, <1>2, <1>3, <2>1, <2>2, Remain
<1>4. ASSUME NEW c \in Calls, CallHost(c) PROVE OnceInv'
  <2> DEFINE m == Msg("HostCall", c)
  <2>1. s2c' = Append(s2c, m) /\ called' = called \cup {c} /\ c \notin called
    BY <1>4 DEF CallHost, ServerSays
  <2>2. \A p \in Places : ~At(p, c)
    BY <2>1 DEF OnceInv, CallOnce
  <2>3. ~In(m, s2c)
    BY <2>2 DEF At, Places
  <2>4. (\A d : In(d, s2c') <=> In(d, s2c) \/ d = m) /\ Once(s2c', CallMsgs)
    BY <1>0, <2>1, <2>3, AppendedOnce, AppendedList DEF OnceInv, ListsOnce
  <2>5. ListsOnce'
    BY <1>1, <2>4 DEF OnceInv, ListsOnce
  <2>6. ASSUME NEW d \in Calls PROVE CallOnce(d)'
    <3>1. \A r \in Places : At(r, d)' => At(r, d) \/ (r = "sent" /\ d = c)
      BY <1>1, <2>4, CallMessage DEF At
    <3>2. CallOnce(d)
      BY DEF OnceInv
    <3>3. CASE d = c
      <4>1. Len(answers'[d]) = 0
        BY <1>1, <2>1, <3>2, <3>3 DEF CallOnce
      <4> QED
        BY <2>1, <2>2, <3>1, <3>3, <4>1 DEF CallOnce, OneFault
    <3>4. CASE d # c
      BY <1>1, <2>1, <3>1, <3>2, <3>4 DEF CallOnce, OneFault
    <3> QED
      BY <3>3, <3>4
  <2> QED
    BY <1>2, <2>5, <2>6 DEF OnceInv
<1>5. \A what, arg : Msg(what, arg).kind = what
  BY DEF Msg
<1> QED
  BY <1>3, <1>4, <1>5 DEF ServerSpeaks, AskForKey, ReplyKey, SayOther, SayOpened, ServerSays

\* A fault drops the call in hand and those that were to fail; the answer on its way
\* may be out.
LEMMA FaultsKeepOnce ==
  ASSUME OnceInv, PlaceInv, OneFault, AnswersAreSeqs, Faults PROVE OnceInv'
<1> USE DEF Sending
<1>0. IsSeq(deferred) /\ IsSeq(failing) /\ ListsOnce /\ OutIsOwn /\ AnswerIsNext
  BY DEF PlaceInv, ListsAreSeqs, OnceInv
<1>1. CASE SendFails
  <2>1. pc = "send" /\ UNCHANGED <<deferred, pending_messages, s2c, called, answers>>
    BY <1>1 DEF SendFails, FailNext, store, server, seen
  <2>2. CASE after = "close"
    BY <1>1, <2>1, <2>2, RemainThere DEF SendFails, Goto, store, send, OutIsOwn
  <2>3. CASE after = "fail"
    <3>1. FailNext
      BY <1>1, <2>3 DEF SendFails
    <3>2. failing # <<>> /\ failing' = Tail(failing)
      BY <1>0, <2>1, <2>3, <3>1 DEF AnswerIsNext, FailNext
    <3>3. /\ cur' = cur \/ cur' = Nothing
          /\ pc' = "idle" \/ (pc' = "send" /\ after' = "fail")
      BY <3>1 DEF FailNext, Return, Send
    <3>4. Once(failing', Calls) /\ \A c : In(c, failing') => In(c, failing)
      BY <1>0, <3>2, TailOnce, TailOfList DEF ListsOnce
    <3>5. ListsOnce' /\ OutIsOwn'
      BY <1>0, <2>1, <3>3, <3>4 DEF ListsOnce, OutIsOwn
    <3> QED
      BY <2>1, <3>3, <3>4, <3>5, CallMessage, Remain
  <2>4. CASE after \notin {"close", "fail"}
    <3>1. Return("err") /\ UNCHANGED send
      BY <1>1, <2>4 DEF SendFails
    <3> QED
      BY <2>1, <3>1, CallMessage, RemainThere DEF Return, send, OutIsOwn
  <2> QED
    BY <2>2, <2>3, <2>4
<1>2. CASE ReceiveFails
  BY <1>2, CallMessage, RemainThere DEF ReceiveFails, Return, store, send, server, seen, OutIsOwn
<1>3. ASSUME NEW is_out \in BOOLEAN, Interrupted(is_out), pc' \in {"idle", "top"}, cur' = Nothing
      PROVE  OnceInv'
  <2>1. /\ failing' = <<>> /\ faults' = faults + 1
        /\ UNCHANGED <<deferred, pending_messages, s2c, called>>
    BY <1>3 DEF Interrupted, Fault, Deliver, store, server
  <2>2. OutIsOwn'
    BY <1>3 DEF OutIsOwn
  <2>3. CASE pc = "send" /\ is_out
    <3>1. Deliver
      BY <1>3, <2>3 DEF Interrupted
    <3>2. ListsOnce'
      BY <1>0, <2>1, EmptyOnce DEF ListsOnce
    <3>3. ASSUME NEW c \in Calls PROVE \A r \in Places : At(r, c)' => At(r, c)
      BY <1>3, <2>1, EmptyList, CallMessage DEF At
    <3>4. ASSUME NEW c \in Calls, out.call = c PROVE \E p \in Places : At(p, c)
      <4>1. after \in {"answer", "flush", "fail"}
        BY <1>0, <2>3, <3>4, ConstantsAssumption DEF OutIsOwn
      <4>2. CASE after = "answer"
        BY <1>0, <2>3, <3>4, <4>2, CallMessage DEF OutIsOwn, AnswerIsNext, At, Places
      <4>3. CASE after = "flush"
        BY <1>0, <2>3, <3>4, <4>3, TailOfList DEF AnswerIsNext, At, Places
      <4>4. CASE after = "fail"
        BY <1>0, <2>3, <3>4, <4>4, TailOfList DEF AnswerIsNext, At, Places
      <4> QED
        BY <4>1, <4>2, <4>3, <4>4
    <3> QED
      BY <2>1, <2>2, <3>1, <3>2, <3>3, <3>4, AnsweredIsOnce
  <2>4. CASE ~(pc = "send" /\ is_out)
    <3>1. UNCHANGED answers
      BY <1>3, <2>4 DEF Interrupted, seen
    <3> QED
      BY <1>3, <2>1, <2>2, <3>1, CallMessage, RemainThere
  <2> QED
    BY <2>3, <2>4
<1>4. ASSUME NEW is_out \in BOOLEAN, Drop(is_out) PROVE OnceInv'
  BY <1>3, <1>4 DEF Drop, Return
<1>5. ASSUME NEW is_out \in BOOLEAN, Cancel(is_out) PROVE OnceInv'
  BY <1>3, <1>5 DEF Cancel
<1> QED
  BY <1>1, <1>2, <1>4, <1>5 DEF Faults

\* For any number of host calls, operations, messages and faults: a host call is
\* answered once, whether handle_host_call answers it, it waits in
\* deferred_host_responses for a key, or it fails with the exchange, and once more at
\* most for each fault (next_message, flush_deferred_host_responses).
THEOREM AnswersAreOnce == Spec => []AnsweredOnce
<1>1. Init => OnceInv
  <2> SUFFICES ASSUME Init PROVE OnceInv
    OBVIOUS
  <2>1. ListsOnce /\ OutIsOwn
    BY EmptyOnce DEF Init, ListsOnce, OutIsOwn, Sending
  <2>2. ASSUME NEW c \in Calls PROVE CallOnce(c)
    <3>1. \A p \in Places : ~At(p, c)
      BY EmptyList, CallMessage DEF Init, At
    <3>2. answers[c] = <<>> /\ Len(answers[c]) = 0 /\ faults = 0
      BY DEF Init
    <3> QED
      BY <3>1, <3>2 DEF CallOnce
  <2> QED
    BY <2>1, <2>2 DEF OnceInv
<1>2. OnceInv /\ PlaceInv /\ SecretInv /\ TypeOK /\ [Next]_vars => OnceInv'
  <2> SUFFICES ASSUME OnceInv, PlaceInv, SecretInv, TypeOK, [Next]_vars PROVE OnceInv'
    OBVIOUS
  <2>1. OneFault /\ AnswersAreSeqs
    BY StepIsCounted, ConstantsAssumption DEF Counted, SecretInv, TypeOK, OneFault
  <2>2. CASE UNCHANGED vars
    BY <2>1, <2>2, RemainThere DEF vars, store, call, send, outside, server, seen, OnceInv, OutIsOwn, Sending
  <2> QED
    BY <2>1, <2>2, OperationKeepsOnce, ReadLoopKeepsOnce, HostAnswersKeepOnce, SendReturnsKeepOnce,
       FaultsKeepOnce, ServerKeepsOnce DEF Next
<1>3. OnceInv /\ TypeOK => AnsweredOnce
  BY ConstantsAssumption DEF OnceInv, CallOnce, AnsweredOnce, TypeOK
<1> QED
  BY <1>1, <1>2, <1>3, PlacesKept, SecretInvariant, DriverTypes, PTL DEF Spec
===============================================================================
