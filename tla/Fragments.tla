------------------------------ MODULE Fragments ------------------------------
(***************************************************************************)
(* The fragment layer (src/fragment.rs): a message is cut into fragments,  *)
(* the fragments of several messages are interleaved on a byte stream that *)
(* arrives in pieces of any size, and the Reassembler puts the messages    *)
(* together again.                                                         *)
(*                                                                         *)
(* A byte is a cell: its fragment, and its place in it.  A fragment is     *)
(* whole in the buffer when its last cell is.  The peer may lose, repeat   *)
(* or swap fragments of a message, which the ids are there to detect.      *)
(***************************************************************************)
EXTENDS Integers, Sequences

CONSTANTS
  Objects,    \* object ids
  MaxLen,     \* longest message, in bytes
  MaxPayload, \* MAX_FRAGMENT_PAYLOAD
  HeaderLen,  \* FRAGMENT_HEADER_LEN
  MaxFaults   \* bound on fragments lost, repeated or swapped

ASSUME ConstantsAssumption ==
  /\ {MaxLen, MaxFaults} \subseteq Nat
  /\ {MaxPayload, HeaderLen} \subseteq Nat \ {0}

VARIABLES
  length,    \* of each message sent, -1 before
  outbox,    \* fragments of it that the peer has yet to write
  wire,      \* cells on their way
  buffer, in_flight, \* the Reassembler
  returned,  \* messages that feed returned, with their object
  failed,    \* whether a feed failed
  finished,  \* objects in the order of their last fragment
  faults, hurt \* faults, and the messages they touched

peer        == <<length, outbox, finished, faults, hurt>>
reassembler == <<buffer, in_flight, returned, failed>>
vars        == <<peer, wire, reassembler>>

-----------------------------------------------------------------------------
(* split_message, encode_message.                                          *)

\* The bytes of a message.
Message(o, n) == [i \in 1..n |-> <<o, i>>]

\* An empty message has one fragment.
Count(n) == IF n = 0 THEN 1 ELSE (n + MaxPayload - 1) \div MaxPayload

Split(o, n) ==
  [i \in 1..Count(n) |->
     [object |-> o, id |-> i - 1, start |-> i = 1, end |-> i = Count(n),
      blob |-> SubSeq(Message(o, n), (i - 1) * MaxPayload + 1,
                      IF i * MaxPayload < n THEN i * MaxPayload ELSE n)]]

Size(f)   == HeaderLen + Len(f.blob)
Encode(f) == [k \in 1..Size(f) |-> [fragment |-> f, at |-> k]]

-----------------------------------------------------------------------------
(* Reassembler.                                                            *)

Started(flight, f) == f.object \in DOMAIN flight /\ flight[f.object].started
Entry(flight, f) ==
  IF f.object \in DOMAIN flight THEN flight[f.object]
  ELSE [buf |-> <<>>, next |-> 0, started |-> FALSE]

\* Variant: only the start is checked.
RefusesStartOnly(flight, f) == f.start = Started(flight, f)

\* A second start, a start that is not number 0, no start, or out of order.
Refuses(flight, f) ==
  \/ f.start = Started(flight, f)
  \/ f.id # Entry(flight, f).next

Put(flight, o, e) == [x \in DOMAIN flight \cup {o} |-> IF x = o THEN e ELSE flight[x]]

\* decode_one: the fragment at the head of the buffer, once all of it is there.
Whole(cells) ==
  cells # <<>> /\ Head(cells).at = 1 /\ Len(cells) >= Size(Head(cells).fragment)

\* Variant: what follows a fragment is lost.
RestForgotten(cells, f) == <<>>

\* The buffer once a fragment was drained from it.
Rest(cells, f) == SubSeq(cells, Size(f) + 1, Len(cells))

\* The two ends of a turn: an error, with a new entry left behind, or the blob in its
\* message, which is complete with the last.
Refuse(loop, f) ==
  [buffer    |-> Rest(loop.buffer, f),
   flight    |-> Put(loop.flight, f.object, Entry(loop.flight, f)),
   completed |-> loop.completed,
   failed    |-> TRUE]

Accept(loop, f) ==
  LET buf == Entry(loop.flight, f).buf \o f.blob
  IN  [buffer    |-> Rest(loop.buffer, f),
       flight    |-> IF f.end THEN [x \in DOMAIN loop.flight \ {f.object} |-> loop.flight[x]]
                     ELSE Put(loop.flight, f.object,
                              [buf |-> buf, next |-> f.id + 1, started |-> TRUE]),
       completed |-> IF f.end THEN Append(loop.completed, <<f.object, buf>>) ELSE loop.completed,
       failed    |-> FALSE]

\* One turn of feed's loop, if it goes on.
Turn(loop) ==
  LET f == Head(loop.buffer).fragment
  IN CASE loop.failed \/ ~Whole(loop.buffer) -> loop
       [] OTHER -> IF Refuses(loop.flight, f) THEN Refuse(loop, f) ELSE Accept(loop, f)

Turns(start) == LET run[k \in Nat] == IF k = 0 THEN start ELSE Turn(run[k - 1]) IN run

\* feed, with the first n cells of the wire: a turn drains one at least, and a
\* failure returns none of the messages that were completed.
Feed(n) ==
  LET cells == buffer \o SubSeq(wire, 1, n)
      done  == Turns([buffer |-> cells, flight |-> in_flight,
                      completed |-> <<>>, failed |-> FALSE])[Len(cells)]
  IN  /\ n \in 1..Len(wire)
      /\ wire' = SubSeq(wire, n + 1, Len(wire))
      /\ buffer' = done.buffer
      /\ in_flight' = done.flight
      /\ returned' = IF done.failed THEN returned ELSE returned \o done.completed
      /\ failed' = (failed \/ done.failed)
      /\ UNCHANGED peer

-----------------------------------------------------------------------------
(* The peer.                                                               *)

SendMessage(o, n) ==
  /\ length[o] = -1
  /\ length' = [length EXCEPT ![o] = n]
  /\ outbox' = [outbox EXCEPT ![o] = Split(o, n)]
  /\ UNCHANGED <<finished, faults, hurt, wire, reassembler>>

Write(f) ==
  /\ wire' = wire \o Encode(f)
  /\ finished' = IF f.end THEN Append(finished, f.object) ELSE finished

\* The next fragment of one of the messages.
Transmit(o) ==
  /\ outbox[o] # <<>>
  /\ Write(Head(outbox[o]))
  /\ outbox' = [outbox EXCEPT ![o] = Tail(@)]
  /\ UNCHANGED <<length, faults, hurt, reassembler>>

Fault(o) ==
  /\ faults < MaxFaults /\ outbox[o] # <<>>
  /\ faults' = faults + 1 /\ hurt' = hurt \cup {o}
  /\ UNCHANGED <<length, reassembler>>

Lose(o) ==
  /\ Fault(o)
  /\ outbox' = [outbox EXCEPT ![o] = Tail(@)]
  /\ UNCHANGED <<wire, finished>>

Repeat(o) == Fault(o) /\ Write(Head(outbox[o])) /\ UNCHANGED outbox

Swap(o) ==
  /\ Fault(o) /\ Len(outbox[o]) >= 2
  /\ outbox' = [outbox EXCEPT ![o] = <<@[2], @[1]>> \o SubSeq(@, 3, Len(@))]
  /\ UNCHANGED <<wire, finished>>

-----------------------------------------------------------------------------
Init ==
  /\ length = [o \in Objects |-> -1] /\ outbox = [o \in Objects |-> <<>>]
  /\ wire = <<>> /\ buffer = <<>> /\ in_flight = [o \in {} |-> <<>>]
  /\ returned = <<>> /\ failed = FALSE /\ finished = <<>> /\ faults = 0 /\ hurt = {}

Next ==
  \/ \E o \in Objects :
       (\E n \in 0..MaxLen : SendMessage(o, n)) \/ Transmit(o) \/ Lose(o) \/ Repeat(o) \/ Swap(o)
  \/ \E n \in 1..Len(wire) : Feed(n)

Spec == Init /\ [][Next]_vars

-----------------------------------------------------------------------------
(* Properties.                                                             *)

\* A message is returned as it was sent, whole, whatever fragments were lost,
\* repeated or swapped: never a mixture, never a part (the fragment ids).
ReturnedWhole ==
  \A i \in DOMAIN returned :
    LET o == returned[i][1] IN returned[i][2] = Message(o, length[o])

\* However their bytes were cut and whatever became of the others: until a fragment
\* is refused, what is returned is what was completed, each message in its turn, and
\* between two reads no fragment that is whole waits in the buffer; only a fault makes
\* feed refuse one; and no message that no fault touched is returned twice.
Object(i) == returned[i][1]
ReturnedInOrder ==
  /\ failed => hurt # {}
  /\ ~failed => /\ ~Whole(buffer) /\ Len(returned) <= Len(finished)
                /\ \A i \in DOMAIN returned : Object(i) = finished[i]
                /\ wire = <<>> => Len(returned) = Len(finished)
  /\ \A i, j \in DOMAIN returned : Object(i) = Object(j) /\ Object(i) \notin hurt => i = j
=============================================================================
