------------------------ MODULE OutOfProcSessionProofs ------------------------
(***************************************************************************)
(* The safety properties of OutOfProcSession, for every number of          *)
(* pipelines, operations, lines and payloads.                              *)
(*                                                                         *)
(* The argument: of all the requests ever made at most one is unanswered,  *)
(* and `awaiting` names it, even after the operation that made it was      *)
(* dropped.  So what the client believes of the server (SentInv) is wrong  *)
(* only while a request or its acknowledgement is on its way, and then the *)
(* acknowledgement says what to correct (AckInv).  An operation asks for   *)
(* nothing before nothing is awaited, hence every request fits what the    *)
(* server has (PlanInv, AwaitInv).                                         *)
(***************************************************************************)
EXTENDS OutOfProcSession, SequenceTheorems, TLAPS

-----------------------------------------------------------------------------
(* Plans: the requests an operation makes, one after the other.            *)

\* The operation has requests to make.
Asking == pc \in {"settle", "write", "ack"}

\* A request the session makes: never garbled, its command one of the pool.
ReqOK(r) ==
  /\ r \in RequestSet /\ r.el # "Garbled"
  /\ r.el \in {"Command", "Signal"} => r.guid \in Pids

\* The request s follows r in a plan: a command is closed before another one or
\* the session, opened before its payload, and a payload goes on until its end.
Leads(r, s) ==
  \/ r.el = "Close" /\ r.guid # Nil /\ (s.el = "Command" \/ s = Request("Close", Nil))
  \/ r.el = "Command" /\ s.el = "Data" /\ s.guid = r.guid /\ s.first
  \/ r.el = "Data" /\ ~r.last /\ s.el = "Data" /\ s.guid = r.guid /\ ~s.first

\* The last request of an operation of kind k.
Concludes(k, r) ==
  \/ k = "send" /\ r.el = "Data" /\ r.last
  \/ k = "signal" /\ r.el = "Signal"
  \/ k = "close" /\ r = Request("Close", Nil)

\* A plan: each request leads to the next, and the last one concludes.
WellFormed(k, p) ==
  /\ p \in Seq(RequestSet) /\ p # <<>>
  /\ \A i \in 1..Len(p) :
       ReqOK(p[i]) /\ (IF i = Len(p) THEN Concludes(k, p[i]) ELSE Leads(p[i], p[i + 1]))

\* The request is a part of a payload of several lines.
InOne(r) == r.el = "Data" /\ ~(r.first /\ r.last)

\* The payloads the server has half of before the request, and after it.
Before(r) == IF r.el = "Data" /\ ~r.first THEN {r.guid} ELSE {}
After(r)  == IF r.el = "Data" /\ ~r.last THEN {r.guid} ELSE {}

\* The request is the first line of a payload for g.
StartsPayload(r, g) == r.el = "Data" /\ r.first /\ r.guid = g

\* What is left of a plan once its first request is done is a plan.
LEMMA ResumesWhere ==
  ASSUME NEW k, NEW p, WellFormed(k, p)
  PROVE  /\ ReqOK(Head(p)) /\ Head(p) = p[1]
         /\ Tail(p) \in Seq(RequestSet)
         /\ Tail(p) = <<>> => Concludes(k, p[1])
         /\ Tail(p) # <<>> => WellFormed(k, Tail(p)) /\ Leads(p[1], Tail(p)[1])
<1>1. p \in Seq(RequestSet) /\ Len(p) \in Nat \ {0} /\ 1 \in 1..Len(p)
  BY DEF WellFormed
<1>2. ReqOK(Head(p)) /\ Head(p) = p[1]
  BY <1>1 DEF WellFormed
<1>3. /\ Tail(p) \in Seq(RequestSet) /\ Len(Tail(p)) = Len(p) - 1
      /\ \A i \in 1..Len(Tail(p)) : Tail(p)[i] = p[i + 1]
  BY <1>1
<1>4. Tail(p) = <<>> => Concludes(k, p[1])
  <2>1. Tail(p) = <<>> => Len(Tail(p)) = 0
    BY EmptySeq
  <2>2. Tail(p) = <<>> => 1 = Len(p)
    BY <1>1, <1>3, <2>1
  <2> QED
    BY <1>1, <2>2 DEF WellFormed
<1>5. ASSUME Tail(p) # <<>> PROVE WellFormed(k, Tail(p)) /\ Leads(p[1], Tail(p)[1])
  <2>1. Len(p) > 1 /\ 1 \in 1..Len(Tail(p))
    BY <1>1, <1>3, <1>5
  <2>2. Leads(p[1], Tail(p)[1])
    <3>1. 1 # Len(p) /\ Tail(p)[1] = p[1 + 1]
      BY <1>1, <1>3, <2>1
    <3> QED
      BY <1>1, <3>1 DEF WellFormed
  <2>3. ASSUME NEW i \in 1..Len(Tail(p))
        PROVE  /\ ReqOK(Tail(p)[i])
               /\ IF i = Len(Tail(p)) THEN Concludes(k, Tail(p)[i])
                  ELSE Leads(Tail(p)[i], Tail(p)[i + 1])
    <3>1. i + 1 \in 1..Len(p) /\ (i = Len(Tail(p)) <=> i + 1 = Len(p)) /\ Tail(p)[i] = p[i + 1]
      BY <1>1, <1>3
    <3>2. i # Len(Tail(p)) => Tail(p)[i + 1] = p[(i + 1) + 1]
      BY <1>1, <1>3
    <3> QED
      BY <3>1, <3>2 DEF WellFormed
  <2> QED
    BY <1>3, <1>5, <2>2, <2>3 DEF WellFormed
<1> QED
  BY <1>2, <1>3, <1>4, <1>5

\* The lines of a payload are a plan of a send.
LEMMA PayloadWellFormed ==
  ASSUME NEW g \in Guids, NEW n \in 1..MaxChunks
  PROVE  WellFormed("send", Payload(g, n)) /\ StartsPayload(Payload(g, n)[1], g)
<1>1. n \in Nat \ {0} /\ 1 \in 1..n
  BY ConstantsAssumption
<1>2. \A i \in 1..n : DataChunk(g, i, n) \in RequestSet
  BY DEF DataChunk, RequestSet, Elements
<1>3. Payload(g, n) \in Seq(RequestSet) /\ Len(Payload(g, n)) = n
        /\ \A i \in 1..n : Payload(g, n)[i] = DataChunk(g, i, n)
  BY <1>1, <1>2 DEF Payload
<1>4. ASSUME NEW i \in 1..n
      PROVE  /\ ReqOK(DataChunk(g, i, n))
             /\ IF i = n THEN Concludes("send", DataChunk(g, i, n))
                ELSE Leads(DataChunk(g, i, n), DataChunk(g, i + 1, n))
  <2>1. ReqOK(DataChunk(g, i, n))
    BY <1>2 DEF ReqOK, DataChunk
  <2>2. DataChunk(g, i, n).last <=> i = n
    BY DEF DataChunk
  <2>3. ~DataChunk(g, i + 1, n).first
    <3>1. i + 1 # 1
      BY <1>1
    <3> QED
      BY <3>1, Zenon DEF DataChunk
  <2> QED
    BY <2>1, <2>2, <2>3 DEF Concludes, Leads, DataChunk
<1>5. \A i \in 1..n : i # n => i + 1 \in 1..n
  BY <1>1
<1>6. WellFormed("send", Payload(g, n))
  <2>1. Payload(g, n) # <<>>
    BY <1>1, <1>3
  <2> QED
    BY <1>3, <1>4, <1>5, <2>1 DEF WellFormed
<1>7. StartsPayload(Payload(g, n)[1], g)
  <2>1. Payload(g, n)[1] = DataChunk(g, 1, n)
    BY <1>1, <1>3
  <2>2. DataChunk(g, 1, n).first = (1 = 1)
    BY Zenon DEF DataChunk
  <2>3. DataChunk(g, 1, n).el = "Data" /\ DataChunk(g, 1, n).guid = g
    BY DEF DataChunk
  <2> QED
    BY <2>1, <2>2, <2>3 DEF StartsPayload
<1> QED
  BY <1>6, <1>7

\* A plan after a request that leads to it is a plan.
LEMMA PrefixWellFormed ==
  ASSUME NEW k, NEW r, NEW p, ReqOK(r), WellFormed(k, p), Leads(r, p[1])
  PROVE  WellFormed(k, <<r>> \o p) /\ (<<r>> \o p)[1] = r
<1> DEFINE q == <<r>> \o p
<1>1. /\ p \in Seq(RequestSet) /\ Len(p) \in Nat \ {0} /\ r \in RequestSet
  BY DEF WellFormed, ReqOK
<1>2. q \in Seq(RequestSet) /\ Len(q) = Len(p) + 1 /\ q[1] = r /\ q # <<>>
        /\ \A i \in 1..Len(p) : q[i + 1] = p[i]
  BY <1>1
<1> HIDE DEF q
<1>3. ASSUME NEW i \in 1..Len(q)
      PROVE  ReqOK(q[i]) /\ (IF i = Len(q) THEN Concludes(k, q[i]) ELSE Leads(q[i], q[i + 1]))
  <2>1. CASE i = 1
    BY <1>1, <1>2, <2>1
  <2>2. CASE i # 1
    <3>1. i - 1 \in 1..Len(p) /\ (i - 1 = Len(p) <=> i = Len(q)) /\ q[i] = p[i - 1]
      BY <1>1, <1>2, <2>2
    <3>2. i # Len(q) => q[i + 1] = p[(i - 1) + 1]
      BY <1>1, <1>2, <2>2
    <3> QED
      BY <3>1, <3>2 DEF WellFormed
  <2> QED
    BY <2>1, <2>2
<1>4. WellFormed(k, q)
  BY <1>2, <1>3 DEF WellFormed
<1> QED
  BY <1>2, <1>4 DEF q

\* A request that concludes is a plan.
LEMMA SingleWellFormed ==
  ASSUME NEW k, NEW r, ReqOK(r), Concludes(k, r)
  PROVE  WellFormed(k, <<r>>) /\ <<r>>[1] = r
  BY DEF WellFormed, ReqOK

-----------------------------------------------------------------------------
(* The invariant.                                                          *)

\* With the command o open, the request is one the server accepts, and, once
\* it was acknowledged, what is open after it.
Fits(o, r) ==
  CASE r.el = "Command" -> o = None
    [] r.el = "Data"    -> r.guid = Nil \/ o = r.guid
    [] r.el = "Close"   -> IF r.guid = Nil THEN o = None ELSE o = r.guid
    [] OTHER -> TRUE

Confirmed(o, r) ==
  CASE r.el = "Command" -> o = r.guid
    [] r.el = "Data"    -> r.guid = Nil \/ o = r.guid
    [] r.el = "Close"   -> o = None
    [] OTHER -> TRUE

\* The commands open on a server that confirmed o.
OpenWith(o) == IF o = None THEN {} ELSE {o}

\* An operation asks for requests in an order the server accepts, and a payload
\* is in progress exactly while one of its lines is the next or the one in flight.
PlanInv ==
  /\ Asking => WellFormed(kind, plan) /\ partial = InOne(plan[1])
  /\ pc = "look" =>
       /\ ~partial
       /\ \/ /\ kind = "send" /\ WellFormed(kind, plan)
             /\ \E g \in Pids : StartsPayload(plan[1], g)
          \/ kind \in {"signal", "close"}

\* The acknowledgement awaited is the one of the request in flight, or of one
\* an earlier operation was dropped after: then only a payload for the pool, which
\* settles before it writes, goes on without looking at the command state.
AwaitInv ==
  /\ awaiting # None /\ awaiting.el = "Command" => awaiting.guid \in Pids
  /\ pc = "write" => awaiting # None
  /\ pc \in {"write", "ack"} /\ awaiting # None => awaiting = AckOf(plan[1])
  /\ pc = "settle" /\ awaiting # None => StartsPayload(plan[1], Nil)
  /\ Asking => IF pc = "ack" /\ awaiting = None
               THEN Confirmed(open_command, plan[1]) ELSE Fits(open_command, plan[1])

\* Half a line is on the wire only while it is written, or in a session that
\* will write no more; a chunk is processed only by an operation that reads.
WireInv ==
  /\ pc \in {"look", "settle", "write", "ack"} => broken = None
  /\ pc = "write" => writing /\ lines = <<>> /\ wire # "torn"
  /\ wire \in {"part", "whole"} => pc = "write"
  /\ wire = "torn" => writing \/ broken # None
  /\ lines # <<>> => broken = None /\ pc \in {"look", "settle", "ack", "recv"}

\* What the client has still to process, in order; no acknowledgement in it; the
\* server carried out the request of this operation.
Stream == lines \o s2c
NoAck  == \A i \in 1..Len(Stream) : Stream[i].tag # "ack"
Done(r) == srv_partial = After(r) /\ (r.el = "Data" /\ r.last => ops \in got)

\* The line of the request in flight is not yet on its way.
Unwritten == pc = "write" /\ wire # "whole"

\* One request at a time: with nothing awaited, or with a line not yet written,
\* the server is where the client believes it is; a request on its way is the
\* awaited one, and fits what the server has.
SentInv ==
  /\ Len(c2s) <= 1
  /\ awaiting = None \/ Unwritten => c2s = <<>> /\ NoAck /\ srv_open = OpenWith(open_command)
  /\ pc = "settle" \/ Unwritten => srv_partial = Before(plan[1])
  /\ ~partial => srv_partial = {}
  /\ c2s # <<>> =>
       /\ awaiting = AckOf(c2s[1].req) /\ NoAck
       /\ ReqOK(c2s[1].req) /\ Fits(open_command, c2s[1].req)
       /\ srv_open = OpenWith(open_command) /\ srv_partial = Before(c2s[1].req)
       /\ InOne(c2s[1].req) => partial /\ pc \notin {"settle", "look"}
       /\ pc \in {"write", "ack"} => c2s[1].req = plan[1] /\ c2s[1].id = ops

\* One acknowledgement at most is on its way.
AckAlone ==
  \A i, j \in 1..Len(Stream) : Stream[i].tag = "ack" /\ Stream[j].tag = "ack" => i = j

\* An acknowledgement on its way is the awaited one, and the server has carried
\* out what it acknowledges.
AckInv ==
  /\ AckAlone
  /\ \A i \in 1..Len(Stream) : Stream[i].tag = "ack" => Stream[i] = awaiting
  /\ ~NoAck => /\ c2s = <<>> /\ srv_open = OpenWith(CommandAfter(awaiting))
               /\ pc \in {"write", "ack"} => Done(plan[1])
  /\ pc = "ack" /\ awaiting = None => Done(plan[1])
  /\ acked \subseteq got /\ ~srv_fault

\* The inductive invariant.
CoreInv == PlanInv /\ AwaitInv /\ SentInv /\ AckInv
SessionInv == TypeOK /\ WireInv /\ CoreInv

-----------------------------------------------------------------------------
(* A request and the server.                                               *)

\* A request that fits what the server has breaks none of its rules.
LEMMA FitIsLegal ==
  ASSUME NEW r, ReqOK(r), Fits(open_command, r), srv_open = OpenWith(open_command),
         srv_partial = Before(r)
  PROVE  Legal(r)
<1>0. r.el \in Elements /\ r.guid \in Guids /\ r.first \in BOOLEAN
  BY DEF ReqOK, RequestSet, Elements
<1> USE ConstantsAssumption DEF Fits, Elements, Guids
<1>1. CASE r.el = "Command"
  BY <1>1 DEF Legal, OpenWith
<1>2. CASE r.el = "Data"
  <2>1. r.guid = Nil \/ r.guid \in srv_open
    BY <1>2, <1>0 DEF OpenWith
  <2>2. r.first <=> r.guid \notin srv_partial
    BY <1>0, <1>2 DEF Before
  <2> QED
    BY <1>2, <2>1, <2>2, Zenon DEF Legal
<1>3. CASE r.el = "Signal"
  BY <1>3 DEF Legal, ReqOK
<1>4. CASE r.el = "Close"
  BY <1>4 DEF Legal, OpenWith
<1> QED
  BY <1>0, <1>1, <1>2, <1>3, <1>4 DEF ReqOK

\* What the server does with it.
LEMMA ObeyDoes ==
  ASSUME NEW r, NEW id, ReqOK(r), Fits(open_command, r), srv_open = OpenWith(open_command),
         srv_partial = Before(r), open_command \in Pids \cup {None}, Obey(r, id)
  PROVE  /\ srv_open' = OpenWith(CommandAfter(AckOf(r))) /\ srv_partial' = After(r)
         /\ got \subseteq got' /\ (r.el = "Data" /\ r.last => id \in got')
         /\ s2c' = Append(s2c, AckOf(r)) /\ srv_fault' = srv_fault
<1> USE DEF ReqOK, RequestSet, Elements, Guids
<1>1. got \subseteq got' /\ (r.el = "Data" /\ r.last => id \in got')
         /\ s2c' = Append(s2c, AckOf(r)) /\ srv_fault' = srv_fault
  BY DEF Obey
<1>2. srv_partial' = After(r)
  BY DEF Obey, Before, After
<1>3. srv_open' = OpenWith(CommandAfter(AckOf(r)))
  <2> USE ConstantsAssumption DEF Obey, OpenWith, CommandAfter, AckOf, Ack, Fits
  <2>1. CASE r.el = "Command"
    BY <2>1
  <2>2. CASE r.el = "Close"
    BY <2>2
  <2>3. CASE r.el \in {"Data", "Signal"}
    BY <2>3
  <2> QED
    BY <2>1, <2>2, <2>3
<1> QED
  BY <1>1, <1>2, <1>3

\* Its acknowledgement confirms it to the client.
LEMMA AckConfirms ==
  ASSUME NEW r, ReqOK(r), Fits(open_command, r), open_command \in Pids \cup {None}
  PROVE  Confirmed(CommandAfter(AckOf(r)), r)
  BY ConstantsAssumption
     DEF ReqOK, RequestSet, Elements, Guids, Fits, Confirmed, CommandAfter, AckOf, Ack

\* A confirmed request leaves the server ready for the one it leads to.
LEMMA NextFits ==
  ASSUME NEW o, NEW r, NEW s, ReqOK(r), ReqOK(s), Confirmed(o, r), Leads(r, s)
  PROVE  Fits(o, s) /\ After(r) = Before(s)
  BY DEF ReqOK, RequestSet, Elements, Guids, Fits, Confirmed, Leads, After, Before, Request

\* No operation concludes in the middle of a payload.
LEMMA NothingLeft ==
  ASSUME NEW k, NEW r, Concludes(k, r)
  PROVE  After(r) = {}
  BY DEF Concludes, After, Request

\* What an operation asks for from the command state fits that state.
LEMMA RequestsFit ==
  ASSUME PlanInv, pc = "look", open_command \in Pids \cup {None},
         kind \in {"send", "signal", "close"}
  PROVE  \/ Requests = <<>>
         \/ /\ WellFormed(kind, Requests) /\ Fits(open_command, Requests[1])
            /\ Before(Requests[1]) = {}
<1>0. \A el, g : /\ Request(el, g).el = el /\ Request(el, g).guid = g
                 /\ g \in Pids /\ el \in {"Command", "Signal", "Close"} => ReqOK(Request(el, g))
  BY DEF ReqOK, RequestSet, Elements, Request, Guids
<1>1. CASE kind = "send"
  <2>1. PICK g \in Pids : StartsPayload(plan[1], g)
    BY <1>1 DEF PlanInv
  <2>2. WellFormed(kind, plan) /\ Head(plan) = plan[1] /\ plan[1].guid = g /\ plan[1].el = "Data"
    BY <1>1, <2>1, ResumesWhere DEF PlanInv, StartsPayload
  <2>3. CASE open_command = g
    <3>1. Requests = plan
      BY <1>1, <2>2, <2>3 DEF Requests
    <3> QED
      BY <2>1, <2>2, <2>3, <3>1 DEF Fits, Before, StartsPayload
  <2>4. CASE open_command # g
    <3> DEFINE c == <<Request("Command", g)>> \o plan
    <3>1. WellFormed(kind, c) /\ c[1] = Request("Command", g)
      <4>1. ReqOK(Request("Command", g)) /\ Leads(Request("Command", g), plan[1])
        BY <1>0, <2>1 DEF Leads, StartsPayload
      <4> QED
        BY <2>2, <4>1, PrefixWellFormed
    <3>2. CASE open_command = None
      <4>1. Requests = <<>> \o <<Request("Command", g)>> \o plan
        BY <1>1, <2>2, <2>4, <3>2 DEF Requests, OnOpenCommand
      <4>2. Requests = c
        BY <2>2, <4>1 DEF WellFormed
      <4> QED
        BY <1>0, <3>1, <3>2, <4>2 DEF Fits, Before
    <3>3. CASE open_command # None
      <4> DEFINE q == Request("Close", open_command)
      <4>1. Requests = <<q>> \o <<Request("Command", g)>> \o plan
        BY <1>1, <2>2, <2>4, <3>3 DEF Requests, OnOpenCommand
      <4>2. Requests = <<q>> \o c
        BY <2>2, <4>1 DEF WellFormed
      <4>3. ReqOK(q) /\ Leads(q, c[1])
        <5>1. open_command \in Pids /\ open_command # Nil
          BY <3>3, ConstantsAssumption
        <5> QED
          BY <1>0, <3>1, <5>1 DEF Leads
      <4> HIDE DEF c, q
      <4>4. WellFormed(kind, Requests) /\ Requests[1] = q
        BY <3>1, <4>2, <4>3, PrefixWellFormed
      <4> QED
        BY <1>0, <3>3, <4>4, ConstantsAssumption DEF Fits, Before, q
    <3> QED
      BY <3>2, <3>3
  <2> QED
    BY <2>3, <2>4
<1>2. CASE kind = "signal"
  <2>1. CASE open_command = None
    BY <1>2, <2>1 DEF Requests, OnOpenCommand
  <2>2. CASE open_command # None
    <3>1. Requests = <<Request("Signal", open_command)>>
      BY <1>2, <2>2 DEF Requests, OnOpenCommand
    <3>2. ReqOK(Request("Signal", open_command)) /\ Concludes(kind, Request("Signal", open_command))
      BY <1>0, <1>2, <2>2, ConstantsAssumption DEF Concludes
    <3> QED
      BY <1>0, <3>1, <3>2, SingleWellFormed DEF Fits, Before
  <2> QED
    BY <2>1, <2>2
<1>3. CASE kind = "close"
  <2> DEFINE c == <<Request("Close", Nil)>>
  <2>1. WellFormed(kind, c) /\ c[1] = Request("Close", Nil)
    <3>1. ReqOK(Request("Close", Nil)) /\ Concludes(kind, Request("Close", Nil))
      BY <1>3 DEF ReqOK, RequestSet, Elements, Concludes, Request, Guids
    <3> QED
      BY <3>1, SingleWellFormed
  <2>2. CASE open_command = None
    <3>1. Requests = <<>> \o c
      BY <1>3, <2>2 DEF Requests, OnOpenCommand
    <3>2. Requests = c
      BY <3>1
    <3> QED
      BY <1>0, <2>1, <2>2, <3>2 DEF Fits, Before
  <2>3. CASE open_command # None
    <3> DEFINE q == Request("Close", open_command)
    <3>1. Requests = <<q>> \o c
      BY <1>3, <2>3 DEF Requests, OnOpenCommand
    <3>2. ReqOK(q) /\ Leads(q, c[1])
      <4>1. open_command \in Pids /\ open_command # Nil
        BY <2>3, ConstantsAssumption
      <4> QED
        BY <1>0, <2>1, <4>1 DEF Leads
    <3> HIDE DEF c, q
    <3>3. WellFormed(kind, Requests) /\ Requests[1] = q
      BY <2>1, <3>1, <3>2, PrefixWellFormed
    <3> QED
      BY <1>0, <2>3, <3>3, ConstantsAssumption DEF Fits, Before, q
  <2> QED
    BY <2>2, <2>3
<1> QED
  BY <1>1, <1>2, <1>3

-----------------------------------------------------------------------------
(* What is still to be processed.                                          *)

\* A step that brings no acknowledgement: those still to be processed were there,
\* in the same order.
Quiet ==
  \E k \in Nat : \A i \in 1..Len(Stream') :
    Stream'[i].tag = "ack" => i + k \in 1..Len(Stream) /\ Stream'[i] = Stream[i + k]

\* The type of what is still to be processed.
LineTypes == lines \in Seq(LineSet) /\ s2c \in Seq(LineSet)

\* The lines of the chunk, then those still to be read.
LEMMA StreamIs ==
  ASSUME LineTypes
  PROVE  /\ Stream \in Seq(LineSet) /\ Len(Stream) = Len(lines) + Len(s2c)
         /\ Len(lines) \in Nat /\ Len(s2c) \in Nat
         /\ \A i \in 1..Len(lines) : i \in 1..Len(Stream) /\ Stream[i] = lines[i]
         /\ \A i \in 1..Len(s2c) :
              i + Len(lines) \in 1..Len(Stream) /\ Stream[i + Len(lines)] = s2c[i]
  BY DEF LineTypes, Stream

\* What does not change is quiet.
LEMMA SameIsQuiet ==
  ASSUME LineTypes, Stream' = Stream
  PROVE  Quiet
<1>1. \A i \in 1..Len(Stream') : i + 0 \in 1..Len(Stream) /\ Stream'[i] = Stream[i + 0]
  BY StreamIs
<1> QED
  BY <1>1 DEF Quiet

\* A read moves lines, it adds none.
LEMMA ReadKeepsStream ==
  ASSUME LineTypes, lines = <<>>, NEW n \in 1..Len(s2c),
         lines' = SubSeq(s2c, 1, n), s2c' = SubSeq(s2c, n + 1, Len(s2c))
  PROVE  LineTypes' /\ Stream' = Stream
<1>1. Stream = s2c
  BY DEF LineTypes, Stream
<1>2. lines' \o s2c' = SubSeq(s2c, 1, Len(s2c))
  BY ConcatAdjacentSubSeq DEF LineTypes
<1>3. SubSeq(s2c, 1, Len(s2c)) = s2c
  BY SubSeqFull DEF LineTypes
<1>4. LineTypes'
  BY DEF LineTypes
<1> QED
  BY <1>1, <1>2, <1>3, <1>4 DEF Stream

\* Processing the first line of the chunk leaves the others, in order.
LEMMA ProcessedStream ==
  ASSUME LineTypes, lines # <<>>, lines' = Tail(lines), s2c' = s2c
  PROVE  /\ LineTypes' /\ Len(Stream') = Len(Stream) - 1 /\ 1 \in 1..Len(Stream)
         /\ Stream[1] = Head(lines)
         /\ \A i \in 1..Len(Stream') : i + 1 \in 1..Len(Stream) /\ Stream'[i] = Stream[i + 1]
<1>1. LineTypes' /\ Len(lines') = Len(lines) - 1 /\ Len(lines) > 0
      /\ Head(lines) = lines[1] /\ \A i \in 1..Len(lines') : lines'[i] = lines[i + 1]
  BY DEF LineTypes
<1>2. Len(Stream') = Len(Stream) - 1 /\ 1 \in 1..Len(Stream) /\ Stream[1] = Head(lines)
  BY <1>1 DEF Stream, LineTypes
<1>3. ASSUME NEW i \in 1..Len(Stream')
      PROVE  i + 1 \in 1..Len(Stream) /\ Stream'[i] = Stream[i + 1]
  <2>1. i + 1 \in 1..Len(Stream)
    BY <1>2, <1>3, StreamIs
  <2>2. CASE i <= Len(lines')
    BY <1>1, <1>3, <2>1, <2>2 DEF Stream, LineTypes
  <2>3. CASE i > Len(lines')
    <3>1. Stream'[i] = s2c[i - Len(lines')] /\ Stream[i + 1] = s2c[(i + 1) - Len(lines)]
      BY <1>1, <1>3, <2>1, <2>3 DEF Stream, LineTypes
    <3>2. i - Len(lines') = (i + 1) - Len(lines)
      BY <1>1 DEF LineTypes
    <3> QED
      BY <2>1, <3>1, <3>2
  <2> QED
    BY <1>1, <2>2, <2>3 DEF LineTypes
<1> QED
  BY <1>1, <1>2, <1>3

\* Losing the chunk leaves what was not read.
LEMMA ForgottenStream ==
  ASSUME LineTypes, lines' = <<>>, s2c' = s2c
  PROVE  /\ LineTypes' /\ Len(Stream') = Len(s2c)
         /\ \A i \in 1..Len(Stream') :
              i + Len(lines) \in 1..Len(Stream) /\ Stream'[i] = Stream[i + Len(lines)]
<1>1. Stream' = s2c /\ LineTypes'
  BY DEF Stream, LineTypes
<1> QED
  BY <1>1, StreamIs

\* A line the server sends comes last.
LEMMA AppendedStream ==
  ASSUME LineTypes, NEW l \in LineSet, lines' = lines, s2c' = Append(s2c, l)
  PROVE  /\ LineTypes' /\ Len(Stream') = Len(Stream) + 1
         /\ Stream'[Len(Stream) + 1] = l /\ Len(Stream) + 1 \in 1..Len(Stream')
         /\ \A i \in 1..Len(Stream) : i \in 1..Len(Stream') /\ Stream'[i] = Stream[i]
  BY DEF Stream, LineTypes

\* Processing a line brings no acknowledgement.
LEMMA ProcessedIsQuiet ==
  ASSUME LineTypes, lines # <<>>, lines' = Tail(lines), s2c' = s2c
  PROVE  LineTypes' /\ Quiet
  BY ProcessedStream DEF Quiet

\* Nor does losing the chunk.
LEMMA ForgottenIsQuiet ==
  ASSUME LineTypes, lines' = <<>>, s2c' = s2c
  PROVE  LineTypes' /\ Quiet
  BY ForgottenStream, StreamIs DEF Quiet

\* Nor does a line that is not one.
LEMMA AppendedIsQuiet ==
  ASSUME LineTypes, NEW l \in LineSet, l.tag # "ack", lines' = lines, s2c' = Append(s2c, l)
  PROVE  LineTypes' /\ Quiet
<1>1. Len(Stream) \in Nat
  BY StreamIs
<1>2. \A i \in 1..Len(Stream') : i = Len(Stream) + 1 \/ i \in 1..Len(Stream)
  BY <1>1, AppendedStream
<1>3. ASSUME NEW i \in 1..Len(Stream'), Stream'[i].tag = "ack"
      PROVE  i + 0 \in 1..Len(Stream) /\ Stream'[i] = Stream[i + 0]
  BY <1>1, <1>2, <1>3, AppendedStream
<1> QED
  BY <1>3, AppendedStream DEF Quiet

\* A quiet step brings no first acknowledgement.
LEMMA QuietKeepsNoAck == Quiet /\ NoAck => NoAck'
  BY DEF Quiet, NoAck

\* Nor does a quiet step bring a second one.
LEMMA QuietKeepsAlone ==
  ASSUME LineTypes, LineTypes', Quiet, AckAlone
  PROVE  AckAlone'
<1>1. PICK k \in Nat : \A i \in 1..Len(Stream') :
        Stream'[i].tag = "ack" => i + k \in 1..Len(Stream) /\ Stream'[i] = Stream[i + k]
  BY DEF Quiet
<1>2. \A i, j \in 1..Len(Stream') : i + k = j + k => i = j
  OBVIOUS
<1> QED
  BY <1>1, <1>2 DEF AckAlone

-----------------------------------------------------------------------------
(* Each step keeps the client and the server in agreement.                 *)

\* The operation ended, or is a recv, and only the stream changed with it.
Pauses ==
  /\ pc' \in {"idle", "recv"} /\ Quiet
  /\ UNCHANGED <<awaiting, partial, open_command, c2s, srv_open, srv_partial, srv_fault, acked,
                 got>>

\* Ending an operation at any await keeps the invariant: this is what makes it
\* safe to drop one.
LEMMA PauseKeepsCore ==
  ASSUME CoreInv, LineTypes, LineTypes', Pauses
  PROVE  CoreInv'
<1>1. AckAlone' /\ (NoAck => NoAck')
  BY QuietKeepsAlone, QuietKeepsNoAck DEF Pauses, CoreInv, AckInv
<1>2. PlanInv' /\ AwaitInv'
  BY DEF Pauses, CoreInv, PlanInv, AwaitInv, Asking
<1>3. SentInv'
  BY <1>1 DEF Pauses, CoreInv, SentInv, Unwritten
<1>4. \A i \in 1..Len(Stream') : Stream'[i].tag = "ack" => Stream'[i] = awaiting'
  BY DEF Pauses, Quiet, CoreInv, AckInv
<1>5. AckInv'
  BY <1>1, <1>4 DEF Pauses, CoreInv, AckInv, CommandAfter
<1> QED
  BY <1>2, <1>3, <1>5 DEF CoreInv

\* Only the stream changed, quietly.
Steadies ==
  /\ Quiet /\ (Unwritten' => Unwritten)
  /\ UNCHANGED <<pc, plan, kind, ops, awaiting, partial, open_command, c2s, srv_open, srv_partial,
                 srv_fault, acked, got>>

\* Such a step keeps the invariant.
LEMMA SteadyKeepsCore ==
  ASSUME CoreInv, LineTypes, LineTypes', Steadies
  PROVE  CoreInv'
<1>1. AckAlone' /\ (NoAck => NoAck')
  BY QuietKeepsAlone, QuietKeepsNoAck DEF Steadies, CoreInv, AckInv
<1>2. PlanInv' /\ AwaitInv'
  BY DEF Steadies, CoreInv, PlanInv, AwaitInv, Asking
<1>3. SentInv'
  <2> USE <1>1 DEF Steadies, CoreInv, SentInv
  <2>1. awaiting' = None \/ Unwritten' =>
          c2s' = <<>> /\ NoAck' /\ srv_open' = OpenWith(open_command')
    OBVIOUS
  <2>2. pc' = "settle" \/ Unwritten' => srv_partial' = Before(plan'[1])
    OBVIOUS
  <2> QED
    BY <2>1, <2>2
<1>4. \A i \in 1..Len(Stream') : Stream'[i].tag = "ack" => Stream'[i] = awaiting'
  BY DEF Steadies, Quiet, CoreInv, AckInv
<1>5. AckInv'
  BY <1>1, <1>4 DEF Steadies, CoreInv, AckInv, CommandAfter, Done
<1> QED
  BY <1>2, <1>3, <1>5 DEF CoreInv

\* So does an operation that starts by looking at the command state,
LEMMA BeginKeepsCore ==
  ASSUME TypeOK, CoreInv, NEW k \in {"send", "signal", "close"}, NEW p,
         Begin(k, "look", p, "none"), Ready,
         k = "send" => WellFormed(k, p) /\ \E g \in Pids : StartsPayload(p[1], g),
         UNCHANGED <<session, received, pipe, server, history>>
  PROVE  CoreInv'
<1> USE DEF session, received, pipe, server, history, Begin, Ready, Usable
<1>1. Stream' = Stream /\ pc' = "look" /\ plan' = p /\ kind' = k /\ pc = "idle"
  BY DEF Stream
<1>2. NoAck' = NoAck /\ AckAlone' = AckAlone
  BY <1>1 DEF NoAck, AckAlone
<1>3. PlanInv' /\ AwaitInv'
  BY <1>1 DEF CoreInv, PlanInv, AwaitInv, Asking
<1>4. SentInv'
  BY <1>1, <1>2 DEF CoreInv, SentInv, Unwritten
<1>5. AckInv'
  BY <1>1, <1>2 DEF CoreInv, AckInv, CommandAfter
<1> QED
  BY <1>3, <1>4, <1>5 DEF CoreInv

\* a send to the pool, which does not look at it,
LEMMA SendToPoolKeepsCore ==
  ASSUME TypeOK, CoreInv, NEW n \in 1..MaxChunks, SendToPool(n)
  PROVE  CoreInv'
<1> DEFINE p == Payload(Nil, n)
<1>1. WellFormed("send", p) /\ StartsPayload(p[1], Nil) /\ Head(p) = p[1] /\ p # <<>>
  <2>1. WellFormed("send", p) /\ StartsPayload(p[1], Nil)
    BY PayloadWellFormed DEF Guids
  <2> QED
    BY <2>1, ResumesWhere DEF WellFormed
<1> HIDE DEF p
<1>2. /\ Stream' = Stream /\ pc' = "settle" /\ plan' = p /\ kind' = "send" /\ pc = "idle"
      /\ partial' = InOne(p[1]) /\ ~partial
      /\ UNCHANGED <<awaiting, open_command, c2s, srv_open, srv_partial, srv_fault, acked, got>>
  BY <1>1 DEF SendToPool, Begin, Ready, Usable, InPayload, InOne, Stream, received, pipe, server,
              history, p
<1>3. NoAck' = NoAck /\ AckAlone' = AckAlone
  BY <1>2 DEF NoAck, AckAlone
<1>4. PlanInv'
  BY <1>1, <1>2 DEF PlanInv, Asking
<1>5. AwaitInv'
  BY <1>1, <1>2 DEF CoreInv, AwaitInv, Fits, StartsPayload
<1>6. SentInv'
  BY <1>1, <1>2, <1>3 DEF CoreInv, SentInv, Unwritten, Before, StartsPayload
<1>7. AckInv'
  BY <1>2, <1>3 DEF CoreInv, AckInv, CommandAfter
<1> QED
  BY <1>4, <1>5, <1>6, <1>7 DEF CoreInv

\* reading the command state,
LEMMA LookKeepsCore ==
  ASSUME TypeOK, CoreInv, Look
  PROVE  CoreInv'
<1>1. /\ pc = "look" /\ lines = <<>> /\ awaiting = None /\ kind \in {"send", "signal", "close"}
      /\ partial' = InPayload(Requests) /\ ~partial /\ Stream' = Stream
      /\ UNCHANGED <<kind, ops, awaiting, open_command, c2s, srv_open, srv_partial, srv_fault,
                     acked, got>>
  BY DEF Look, Settled, Return, Continue, Stream, received, pipe, server, history, CoreInv, PlanInv
<1>2. open_command \in Pids \cup {None}
  BY DEF TypeOK
<1>3. NoAck' = NoAck /\ AckAlone' = AckAlone
  BY <1>1 DEF NoAck, AckAlone
<1>4. CASE Requests = <<>>
  <2>1. pc' = "idle" /\ ~partial'
    BY <1>1, <1>4 DEF Look, Return, InPayload
  <2>2. PlanInv' /\ AwaitInv'
    BY <1>1, <2>1 DEF CoreInv, PlanInv, AwaitInv, Asking
  <2>3. SentInv'
    BY <1>1, <1>3, <2>1 DEF CoreInv, SentInv, Unwritten
  <2>4. AckInv'
    BY <1>1, <1>3, <2>1 DEF CoreInv, AckInv, CommandAfter
  <2> QED
    BY <2>2, <2>3, <2>4 DEF CoreInv
<1>5. CASE Requests # <<>>
  <2>1. /\ WellFormed(kind, Requests) /\ Fits(open_command, Requests[1])
        /\ Before(Requests[1]) = {} /\ Head(Requests) = Requests[1]
    <3>1. WellFormed(kind, Requests) /\ Fits(open_command, Requests[1]) /\ Before(Requests[1]) = {}
      BY <1>1, <1>2, <1>5, RequestsFit DEF CoreInv
    <3> QED
      BY <3>1, ResumesWhere
  <2>2. pc' = "settle" /\ plan' = Requests /\ partial' = InOne(Requests[1])
    BY <1>1, <1>5, <2>1 DEF Look, Continue, InPayload, InOne
  <2> HIDE DEF Requests
  <2>3. PlanInv'
    BY <1>1, <2>1, <2>2 DEF PlanInv, Asking
  <2>4. AwaitInv'
    BY <1>1, <2>1, <2>2 DEF CoreInv, AwaitInv
  <2>5. SentInv'
    BY <1>1, <1>3, <2>1, <2>2 DEF CoreInv, SentInv, Unwritten
  <2>6. AckInv'
    BY <1>1, <1>3, <2>2 DEF CoreInv, AckInv, CommandAfter
  <2> QED
    BY <2>3, <2>4, <2>5, <2>6 DEF CoreInv
<1> QED
  BY <1>4, <1>5

\* beginning a line,
LEMMA StartKeepsCore ==
  ASSUME TypeOK, WireInv, CoreInv, StartWrite
  PROVE  CoreInv'
<1>1. /\ pc = "settle" /\ pc' = "write" /\ awaiting = None /\ awaiting' = AckOf(plan[1])
      /\ WellFormed(kind, plan) /\ ReqOK(plan[1]) /\ Stream' = Stream /\ wire' # "whole"
      /\ UNCHANGED <<plan, kind, ops, partial, open_command, c2s, srv_open, srv_partial, srv_fault,
                     acked, got>>
  BY ResumesWhere DEF StartWrite, Settled, Continue, Stream, received, pipe, server, history,
                      CoreInv, PlanInv, Asking, WireInv, TypeOK
<1>2. NoAck /\ NoAck' /\ AckAlone' = AckAlone
  BY <1>1 DEF NoAck, AckAlone, CoreInv, SentInv
<1>3. PlanInv'
  BY <1>1 DEF CoreInv, PlanInv, Asking
<1>4. AwaitInv'
  <2>1. awaiting' # None /\ (awaiting'.el = "Command" => awaiting'.guid \in Pids)
    <3>1. AckOf(plan[1]) \in AckSet
      BY <1>1 DEF AckOf, Ack, ReqOK, RequestSet, AckSet
    <3>2. awaiting' # None
      BY <1>1, <3>1, NoneAssumption
    <3> QED
      BY <1>1, <3>2 DEF AckOf, Ack, ReqOK
  <2> QED
    BY <1>1, <2>1 DEF CoreInv, AwaitInv, Asking
<1>5. SentInv'
  BY <1>1, <1>2 DEF CoreInv, SentInv, Unwritten
<1>6. AckInv'
  BY <1>1, <1>2 DEF CoreInv, AckInv, NoAck
<1> QED
  BY <1>3, <1>4, <1>5, <1>6 DEF CoreInv

\* its last byte,
LEMMA WireWholeKeepsCore ==
  ASSUME TypeOK, WireInv, CoreInv, WireWhole
  PROVE  CoreInv'
<1>1. /\ Unwritten /\ pc = "write" /\ wire # "torn" /\ wire' = "whole" /\ Stream' = Stream
      /\ awaiting = AckOf(plan[1]) /\ Head(plan) = plan[1] /\ ReqOK(plan[1])
      /\ partial = InOne(plan[1]) /\ Fits(open_command, plan[1])
      /\ UNCHANGED <<pc, plan, kind, ops, awaiting, partial, open_command, srv_open, srv_partial,
                     srv_fault, acked, got>>
  BY ResumesWhere DEF WireWhole, Unwritten, session, received, call, server, history, Stream,
                      WireInv, CoreInv, AwaitInv, PlanInv, Asking
<1>2. NoAck /\ NoAck' /\ AckAlone' = AckAlone
  BY <1>1 DEF NoAck, AckAlone, CoreInv, SentInv
<1>3. PlanInv' /\ AwaitInv'
  BY <1>1 DEF CoreInv, PlanInv, AwaitInv, Asking
<1>4. c2s' = c2s \/ (Len(c2s') = 1 /\ c2s'[1].req = plan[1] /\ c2s'[1].id = ops)
  BY <1>1 DEF WireWhole, Line, CoreInv, SentInv
<1>5. SentInv'
  <2>1. c2s = <<>> /\ srv_open = OpenWith(open_command) /\ srv_partial = Before(plan[1])
        /\ (~partial => srv_partial = {}) /\ awaiting # None /\ ~Unwritten'
    BY <1>1 DEF CoreInv, SentInv, AwaitInv, Unwritten
  <2>2. CASE c2s' = c2s
    BY <1>1, <1>2, <2>1, <2>2 DEF SentInv
  <2>3. CASE Len(c2s') = 1 /\ c2s'[1].req = plan[1] /\ c2s'[1].id = ops
    BY <1>1, <1>2, <2>1, <2>3 DEF SentInv
  <2> QED
    BY <1>4, <2>2, <2>3
<1>6. AckInv'
  BY <1>1, <1>2 DEF CoreInv, AckInv, NoAck
<1> QED
  BY <1>3, <1>5, <1>6 DEF CoreInv

\* the return of the write,
LEMMA WrittenKeepsCore ==
  ASSUME TypeOK, CoreInv, Written
  PROVE  CoreInv'
<1>1. /\ pc = "write" /\ pc' = "ack" /\ Stream' = Stream
      /\ UNCHANGED <<plan, kind, ops, awaiting, partial, open_command, c2s, srv_open, srv_partial,
                     srv_fault, acked, got>>
  BY DEF Written, Continue, received, server, history, Stream
<1>2. NoAck' = NoAck /\ AckAlone' = AckAlone
  BY <1>1 DEF NoAck, AckAlone
<1>3. PlanInv' /\ AwaitInv'
  BY <1>1 DEF CoreInv, PlanInv, AwaitInv, Asking
<1>4. SentInv'
  BY <1>1, <1>2 DEF CoreInv, SentInv, Unwritten
<1>5. AckInv'
  BY <1>1, <1>2 DEF CoreInv, AckInv, AwaitInv, CommandAfter, Done
<1> QED
  BY <1>3, <1>4, <1>5 DEF CoreInv

\* the end of a request,
LEMMA DoneKeepsCore ==
  ASSUME TypeOK, CoreInv, RequestDone
  PROVE  CoreInv'
<1>1. /\ pc = "ack" /\ awaiting = None /\ Stream' = Stream /\ partial' = InPayload(Tail(plan))
      /\ WellFormed(kind, plan) /\ Confirmed(open_command, plan[1]) /\ Done(plan[1])
      /\ UNCHANGED <<kind, ops, awaiting, open_command, c2s, srv_open, srv_partial, srv_fault, got>>
  BY DEF RequestDone, Settled, Return, Continue, received, pipe, server, Stream, CoreInv, PlanInv,
         AwaitInv, AckInv, Asking
<1>2. NoAck /\ NoAck' /\ AckAlone' = AckAlone /\ c2s = <<>> /\ srv_open = OpenWith(open_command)
  BY <1>1 DEF NoAck, AckAlone, CoreInv, SentInv
<1>3. CASE Tail(plan) = <<>>
  <2>1. pc' = "idle" /\ ~partial' /\ srv_partial = {} /\ Concludes(kind, plan[1])
    BY <1>1, <1>3, ResumesWhere, NothingLeft DEF RequestDone, Return, InPayload, Done
  <2>2. acked' \subseteq got
    BY <1>1, <1>3, <2>1 DEF RequestDone, Concludes, Done, CoreInv, AckInv
  <2>3. PlanInv' /\ AwaitInv'
    BY <1>1, <2>1 DEF PlanInv, AwaitInv, Asking
  <2>4. SentInv'
    BY <1>1, <1>2, <2>1 DEF SentInv, Unwritten
  <2>5. AckInv'
    BY <1>1, <1>2, <2>1, <2>2 DEF CoreInv, AckInv
  <2> QED
    BY <2>3, <2>4, <2>5 DEF CoreInv
<1>4. CASE Tail(plan) # <<>>
  <2> DEFINE p == Tail(plan)
  <2>1. /\ WellFormed(kind, p) /\ Leads(plan[1], p[1]) /\ Head(p) = p[1]
        /\ ReqOK(p[1]) /\ ReqOK(plan[1])
    <3>1. WellFormed(kind, p) /\ Leads(plan[1], p[1]) /\ ReqOK(plan[1])
      BY <1>1, <1>4, ResumesWhere
    <3> HIDE DEF p
    <3> QED
      BY <3>1, ResumesWhere
  <2>2. /\ pc' = "settle" /\ plan' = p /\ partial' = InOne(p[1])
        /\ acked' = acked
    BY <1>1, <1>4, <2>1 DEF RequestDone, Continue, InPayload, InOne
  <2> HIDE DEF p
  <2>3. Fits(open_command, p[1]) /\ srv_partial = Before(p[1])
    BY <1>1, <2>1, NextFits DEF Done
  <2>4. PlanInv'
    BY <1>1, <2>1, <2>2 DEF PlanInv, Asking
  <2>5. AwaitInv'
    BY <1>1, <2>1, <2>2, <2>3 DEF AwaitInv
  <2>6. ~partial' => srv_partial' = {}
    BY <1>1, <2>2, <2>3 DEF InOne, Before
  <2>7. SentInv'
    BY <1>1, <1>2, <2>2, <2>3, <2>6 DEF SentInv, Unwritten
  <2>8. AckInv'
    BY <1>1, <1>2, <2>2 DEF CoreInv, AckInv
  <2> QED
    BY <2>4, <2>5, <2>7, <2>8 DEF CoreInv
<1> QED
  BY <1>3, <1>4

\* An acknowledgement the client reads is the awaited one.
LEMMA AckIsAwaited ==
  ASSUME TypeOK, CoreInv, OnAck
  PROVE  awaiting = Head(lines) /\ awaiting # None /\ ~NoAck
<1>1. LineTypes /\ lines # <<>> /\ Head(lines).tag = "ack"
  BY DEF OnAck, NextLine, TypeOK, LineTypes
<1>2. Stream[1] = Head(lines) /\ 1 \in 1..Len(Stream)
  <2>1. lines[1] = Head(lines) /\ 1 \in 1..Len(lines)
    BY <1>1 DEF LineTypes
  <2> QED
    BY <1>1, <2>1, StreamIs
<1>3. awaiting = Head(lines) /\ ~NoAck
  BY <1>1, <1>2 DEF CoreInv, AckInv, NoAck
<1> QED
  BY <1>3 DEF CoreInv, SentInv

\* Reading it keeps the invariant.
LEMMA AckKeepsCore ==
  ASSUME TypeOK, WireInv, CoreInv, OnAck
  PROVE  CoreInv'
<1>1. /\ lines # <<>> /\ pc # "write" /\ pc # "idle" /\ LineTypes
      /\ lines' = Tail(lines) /\ Head(lines).tag = "ack"
      /\ UNCHANGED <<s2c, pc, plan, kind, ops, partial, c2s, srv_open, srv_partial, srv_fault,
                     acked, got>>
  BY DEF OnAck, NextLine, call, pipe, server, history, TypeOK, LineTypes, WireInv
<1>2. Stream[1] = Head(lines) /\ 1 \in 1..Len(Stream) /\ LineTypes' /\ Quiet
  BY <1>1, ProcessedStream, ProcessedIsQuiet
<1>3. AckAlone'
  BY <1>1, <1>2, QuietKeepsAlone DEF CoreInv, AckInv
<1>4. NoAck'
  <2>1. \A i \in 1..Len(Stream') :
          i + 1 \in 1..Len(Stream) /\ i + 1 # 1 /\ Stream'[i] = Stream[i + 1]
    BY <1>1, ProcessedStream
  <2> QED
    BY <1>1, <1>2, <2>1 DEF NoAck, CoreInv, AckInv, AckAlone
<1>5. /\ awaiting = Head(lines) /\ awaiting' = None /\ open_command' = CommandAfter(awaiting)
      /\ c2s = <<>> /\ srv_open = OpenWith(open_command')
      /\ pc = "ack" => Done(plan[1]) /\ awaiting = AckOf(plan[1]) /\ Fits(open_command, plan[1])
      /\ awaiting # None
  BY AckIsAwaited DEF OnAck, CoreInv, AckInv, AwaitInv, Asking
<1>6. PlanInv'
  BY <1>1 DEF CoreInv, PlanInv, Asking
<1>7. AwaitInv'
  <2>1. CASE pc = "ack"
    <3>1. ReqOK(plan[1]) /\ open_command \in Pids \cup {None}
      BY <2>1, ResumesWhere DEF CoreInv, PlanInv, Asking, TypeOK
    <3>2. Confirmed(open_command', plan[1])
      BY <1>5, <2>1, <3>1, AckConfirms
    <3> QED
      BY <1>1, <1>5, <2>1, <3>2 DEF AwaitInv
  <2>2. CASE pc = "settle"
    <3>1. StartsPayload(plan[1], Nil)
      BY <1>5, <2>2 DEF CoreInv, AwaitInv
    <3> QED
      BY <1>1, <1>5, <2>2, <3>1 DEF AwaitInv, StartsPayload, Fits
  <2>3. CASE pc \notin {"settle", "ack"}
    BY <1>1, <1>5, <2>3 DEF AwaitInv, Asking
  <2> QED
    BY <2>1, <2>2, <2>3
<1>8. SentInv'
  BY <1>1, <1>4, <1>5 DEF CoreInv, SentInv, Unwritten
<1>9. AckInv'
  BY <1>1, <1>3, <1>4, <1>5 DEF CoreInv, AckInv, Done, NoAck
<1> QED
  BY <1>6, <1>7, <1>8, <1>9 DEF CoreInv

\* The server never has a rule to enforce: it obeys.
LEMMA ServeObeys ==
  ASSUME TypeOK, CoreInv, Serve
  PROVE  /\ c2s # <<>> /\ Tail(c2s) = <<>> /\ ReqOK(c2s[1].req)
         /\ Obey(c2s[1].req, c2s[1].id)
<1>1. /\ LineTypes /\ c2s # <<>> /\ Head(c2s) = c2s[1] /\ Tail(c2s) = <<>>
  BY DEF Serve, TypeOK, LineTypes, CoreInv, SentInv
<1>2. /\ NoAck /\ ReqOK(c2s[1].req) /\ Fits(open_command, c2s[1].req)
      /\ srv_open = OpenWith(open_command) /\ srv_partial = Before(c2s[1].req)
  BY <1>1 DEF CoreInv, SentInv
<1>3. Legal(c2s[1].req)
  BY <1>2, FitIsLegal
<1>4. NoUnreadAck
  BY <1>1, <1>2, StreamIs DEF NoUnreadAck, NoAck
<1> QED
  BY <1>1, <1>2, <1>3, <1>4 DEF Serve

\* Its obeying keeps the invariant.
LEMMA ServeKeepsCore ==
  ASSUME TypeOK, CoreInv, Serve
  PROVE  CoreInv'
<1> DEFINE l == c2s[1]
<1>1. /\ LineTypes /\ c2s # <<>> /\ Tail(c2s) = <<>>
      /\ lines' = lines /\ c2s' = <<>>
      /\ UNCHANGED <<pc, plan, kind, ops, awaiting, partial, open_command, acked, wire>>
  BY ServeObeys DEF Serve, session, received, call, history, TypeOK, LineTypes
<1>2. /\ awaiting = AckOf(l.req) /\ NoAck /\ ReqOK(l.req) /\ Fits(open_command, l.req)
      /\ srv_open = OpenWith(open_command) /\ srv_partial = Before(l.req)
      /\ InOne(l.req) => partial /\ pc \notin {"settle", "look"}
      /\ pc \in {"write", "ack"} => l.req = plan[1] /\ l.id = ops
      /\ awaiting # None /\ ~Unwritten
  BY <1>1 DEF CoreInv, SentInv
<1>3. Obey(l.req, l.id)
  BY ServeObeys
<1>4. /\ srv_open' = OpenWith(CommandAfter(AckOf(l.req))) /\ srv_partial' = After(l.req)
      /\ got \subseteq got' /\ (l.req.el = "Data" /\ l.req.last => l.id \in got')
      /\ s2c' = Append(s2c, AckOf(l.req)) /\ srv_fault' = srv_fault
  BY <1>2, <1>3, ObeyDoes DEF TypeOK
<1>5. AckOf(l.req) \in LineSet /\ AckOf(l.req).tag = "ack"
  BY <1>2 DEF ReqOK, RequestSet, AckOf, Ack, LineSet, Elements
<1> HIDE DEF l
<1>6. /\ LineTypes' /\ Len(Stream') = Len(Stream) + 1 /\ Len(Stream) \in Nat
      /\ Stream'[Len(Stream) + 1] = awaiting /\ Len(Stream) + 1 \in 1..Len(Stream')
      /\ \A i \in 1..Len(Stream) : Stream'[i] = Stream[i]
  BY <1>1, <1>2, <1>4, <1>5, AppendedStream, StreamIs
<1>7. \A i \in 1..Len(Stream') : Stream'[i].tag = "ack" <=> i = Len(Stream) + 1
  BY <1>2, <1>5, <1>6 DEF NoAck
<1>8. ~NoAck' /\ AckAlone'
  BY <1>6, <1>7 DEF NoAck, AckAlone
<1>9. PlanInv' /\ AwaitInv'
  BY <1>1 DEF CoreInv, PlanInv, AwaitInv, Asking
<1>10. SentInv'
  <2>1. pc' = "settle" \/ Unwritten' => srv_partial' = Before(plan'[1])
    <3>1. CASE pc = "settle"
      <4>1. StartsPayload(plan[1], Nil) /\ ~InOne(l.req)
        BY <1>2, <3>1 DEF CoreInv, AwaitInv
      <4>2. After(l.req) = {} /\ Before(plan[1]) = {}
        BY <4>1 DEF StartsPayload, InOne, After, Before
      <4> QED
        BY <1>1, <1>4, <3>1, <4>2 DEF Unwritten
    <3>2. CASE pc # "settle"
      BY <1>1, <1>2, <3>2 DEF Unwritten
    <3> QED
      BY <3>1, <3>2
  <2>2. ~partial' => srv_partial' = {}
    BY <1>1, <1>2, <1>4 DEF InOne, After
  <2>3. awaiting' # None /\ ~Unwritten'
    BY <1>1, <1>2 DEF Unwritten
  <2> QED
    BY <1>1, <2>1, <2>2, <2>3 DEF SentInv
<1>11. AckInv'
  <2>1. srv_open' = OpenWith(CommandAfter(awaiting))
    BY <1>2, <1>4
  <2>2. pc \in {"write", "ack"} => Done(plan[1])'
    BY <1>1, <1>2, <1>4 DEF Done
  <2>3. acked' \subseteq got' /\ ~srv_fault'
    BY <1>1, <1>4 DEF CoreInv, AckInv
  <2>4. \A i \in 1..Len(Stream') : Stream'[i].tag = "ack" => Stream'[i] = awaiting'
    BY <1>1, <1>6, <1>7
  <2> QED
    BY <1>1, <1>2, <1>8, <2>1, <2>2, <2>3, <2>4 DEF AckInv, CommandAfter, Done
<1> QED
  BY <1>9, <1>10, <1>11 DEF CoreInv

\* The steps that end an operation, or start a recv.
LEMMA PausingSteps ==
  ASSUME TypeOK, CoreInv,
         \/ \E k \in {"send", "signal", "close"} : Refused(k)
         \/ Recv \/ WriteFails \/ Drop \/ Timeout \/ RecvTakes \/ RecvFails
         \/ Eof \/ OnBadLine
         \/ OnData /\ ~(Len(inbound) < QueueLimit)
  PROVE  LineTypes' /\ Pauses
<1>0. LineTypes
  BY DEF TypeOK, LineTypes
<1> USE DEF Pauses, session, received, pipe, server, history, call, Begin, Return
<1>1. CASE (\E k \in {"send", "signal", "close"} : Refused(k)) \/ Recv \/ WriteFails \/ Drop
           \/ Timeout \/ RecvTakes \/ RecvFails
  <2>1. UNCHANGED <<lines, s2c>>
    BY <1>1 DEF Refused, Recv, WriteFails, Drop, Timeout, RecvTakes, RecvFails
  <2>2. LineTypes' /\ Quiet
    BY <1>0, <2>1, SameIsQuiet DEF Stream, LineTypes
  <2> QED
    BY <1>1, <2>2 DEF Refused, Recv, WriteFails, Drop, Timeout, RecvTakes, RecvFails
<1>2. CASE Eof \/ OnBadLine \/ (OnData /\ ~(Len(inbound) < QueueLimit))
  <2>1. lines' = <<>> /\ s2c' = s2c
    BY <1>2 DEF Eof, OnBadLine, OnData, ReadFails
  <2>2. LineTypes' /\ Quiet
    BY <1>0, <2>1, ForgottenIsQuiet
  <2>3. pc' \in {"idle", "recv"}
    BY <1>2 DEF Eof, OnBadLine, OnData, ReadFails
  <2> QED
    BY <1>2, <2>2, <2>3 DEF Eof, OnBadLine, OnData, ReadFails
<1> QED
  BY <1>1, <1>2

\* The steps that change nothing but the stream.
LEMMA SteadySteps ==
  ASSUME TypeOK, CoreInv,
         \/ WirePart \/ (\E n \in 1..Len(s2c) : Read(n))
         \/ OnData /\ Len(inbound) < QueueLimit
         \/ Emit \/ Die(<<>>) \/ Die(<<BadLine>>) \/ UNCHANGED vars
  PROVE  LineTypes' /\ Steadies
<1>0. LineTypes
  BY DEF TypeOK, LineTypes
<1> USE DEF Steadies, session, received, pipe, server, history, call, Unwritten
<1>1. CASE WirePart \/ UNCHANGED vars
  <2>1. UNCHANGED <<lines, s2c>>
    BY <1>1 DEF WirePart, vars
  <2>2. LineTypes' /\ Quiet
    BY <1>0, <2>1, SameIsQuiet DEF Stream, LineTypes
  <2> QED
    BY <1>1, <2>2 DEF WirePart, vars
<1>2. CASE \E n \in 1..Len(s2c) : Read(n)
  <2>1. PICK n \in 1..Len(s2c) : Read(n)
    BY <1>2
  <2>2. lines = <<>>
    BY <2>1 DEF Read, Reading, Settling
  <2>3. LineTypes' /\ Stream' = Stream
    BY <1>0, <2>1, <2>2, ReadKeepsStream DEF Read
  <2> QED
    BY <1>0, <2>1, <2>3, SameIsQuiet DEF Read
<1>3. CASE OnData /\ Len(inbound) < QueueLimit
  <2>1. LineTypes' /\ Quiet
    BY <1>0, <1>3, ProcessedIsQuiet DEF OnData, NextLine
  <2> QED
    BY <1>3, <2>1 DEF OnData
<1>4. CASE Emit
  <2>1. DataLine(emitted + 1) \in LineSet /\ DataLine(emitted + 1).tag # "ack"
    BY DEF DataLine, LineSet, Elements, Guids, TypeOK
  <2>2. LineTypes' /\ Quiet
    BY <1>0, <1>4, <2>1, AppendedIsQuiet DEF Emit
  <2> QED
    BY <1>4, <2>2 DEF Emit
<1>5. CASE Die(<<>>)
  <2>1. UNCHANGED <<lines, s2c>>
    BY <1>0, <1>5 DEF Die, LineTypes
  <2>2. LineTypes' /\ Quiet
    BY <1>0, <2>1, SameIsQuiet DEF Stream, LineTypes
  <2> QED
    BY <1>5, <2>2 DEF Die
<1>6. CASE Die(<<BadLine>>)
  <2>1. BadLine \in LineSet /\ BadLine.tag # "ack"
    BY DEF BadLine, LineSet, Elements, Guids
  <2>2. lines' = lines /\ s2c' = Append(s2c, BadLine)
    <3>1. s2c' = s2c \o <<BadLine>> /\ lines' = lines
      BY <1>6 DEF Die
    <3> QED
      BY <1>0, <2>1, <3>1, AppendIsConcat DEF LineTypes
  <2>3. LineTypes' /\ Quiet
    BY <1>0, <2>1, <2>2, AppendedIsQuiet
  <2> QED
    BY <1>6, <2>3 DEF Die
<1> QED
  BY <1>1, <1>2, <1>3, <1>4, <1>5, <1>6

\* Every step keeps the three parts of the invariant.
LEMMA CoreKept ==
  ASSUME SessionInv, [Next]_vars
  PROVE  CoreInv'
<1>0. LineTypes /\ TypeOK /\ WireInv /\ CoreInv
  BY DEF SessionInv, TypeOK, LineTypes
<1>1. CASE \/ \E k \in {"send", "signal", "close"} : Refused(k)
           \/ Recv \/ WriteFails \/ Drop \/ Timeout \/ RecvTakes \/ RecvFails
           \/ Eof \/ OnBadLine
           \/ OnData /\ ~(Len(inbound) < QueueLimit)
  BY <1>0, <1>1, PausingSteps, PauseKeepsCore
<1>2. CASE \/ WirePart \/ (\E n \in 1..Len(s2c) : Read(n))
           \/ OnData /\ Len(inbound) < QueueLimit
           \/ Emit \/ Die(<<>>) \/ Die(<<BadLine>>) \/ UNCHANGED vars
  BY <1>0, <1>2, SteadySteps, SteadyKeepsCore
<1>3. CASE \E n \in 1..MaxChunks : SendToPool(n)
  BY <1>0, <1>3, SendToPoolKeepsCore
<1>4. CASE \E g \in Pids, n \in 1..MaxChunks : SendToPipeline(g, n)
  <2>1. PICK g \in Pids, n \in 1..MaxChunks : SendToPipeline(g, n)
    BY <1>4
  <2>2. WellFormed("send", Payload(g, n)) /\ StartsPayload(Payload(g, n)[1], g)
    BY PayloadWellFormed DEF Guids
  <2> HIDE DEF Payload
  <2> QED
    BY <1>0, <2>1, <2>2, BeginKeepsCore DEF SendToPipeline, BeginSettling
<1>5. CASE Signal \/ Close
  BY <1>0, <1>5, BeginKeepsCore DEF Signal, Close, BeginSettling
<1>6. CASE Look \/ StartWrite \/ WireWhole \/ Written \/ RequestDone \/ OnAck \/ Serve
  BY <1>0, <1>6, LookKeepsCore, StartKeepsCore, WireWholeKeepsCore, WrittenKeepsCore,
     DoneKeepsCore, AckKeepsCore, ServeKeepsCore
<1> QED
  BY <1>1, <1>2, <1>3, <1>4, <1>5, <1>6 DEF Next, Operation, Progress, Server, Rest

\* A line is written only by a session that is whole.
LEMMA WireKept ==
  ASSUME SessionInv, [Next]_vars
  PROVE  WireInv'
<1> USE DEF WireInv, session, received, pipe, call, Return, Continue, Begin, Fail
<1>0. TypeOK /\ WireInv
  BY DEF SessionInv
<1>1. CASE Operation
  <2>1. pc = "idle" /\ pc' # "write" /\ UNCHANGED <<lines, wire, writing>>
        /\ (broken # None => broken' # None)
    BY <1>1 DEF Operation, Refused, SendToPool, SendToPipeline, BeginSettling, Signal, Close, Recv
  <2>2. pc' \in {"look", "settle"} => broken' = None
    BY <1>1 DEF Operation, Refused, SendToPool, SendToPipeline, BeginSettling, Signal, Close, Recv,
                Ready, Usable
  <2>3. pc' \in {"idle", "look", "settle", "recv"}
    BY <1>1 DEF Operation, Refused, SendToPool, SendToPipeline, BeginSettling, Signal, Close, Recv
  <2> QED
    BY <1>0, <2>1, <2>2, <2>3
<1>2. CASE Look \/ StartWrite \/ Written \/ RequestDone
  <2>1. CASE Look
    BY <1>0, <2>1 DEF Look, Settled
  <2>2. CASE StartWrite
    BY <1>0, <2>2 DEF StartWrite, Settled, Usable
  <2>3. CASE Written
    BY <1>0, <2>3 DEF Written
  <2>4. CASE RequestDone
    BY <1>0, <2>4 DEF RequestDone, Settled
  <2> QED
    BY <1>2, <2>1, <2>2, <2>3, <2>4
<1>3. CASE WriteFails \/ Drop \/ Timeout
  <2>1. wire' # "part" /\ wire' # "whole" /\ pc' = "idle" /\ UNCHANGED lines
        /\ (wire' = "torn" => wire = "torn" \/ pc = "write")
    BY <1>0, <1>3 DEF WriteFails, Drop, Timeout, GiveUpWrite, TypeOK
  <2>2. lines = <<>>
    BY <1>0, <1>3 DEF WriteFails, Drop, Timeout, Reading, Settling
  <2>3. wire' = "torn" => writing' \/ broken' # None
    BY <1>0, <1>3, <2>1, NoneAssumption DEF WriteFails, Drop, Timeout, Reasons
  <2> QED
    BY <2>1, <2>2, <2>3
<1>4. CASE (\E n \in 1..Len(s2c) : Read(n)) \/ Eof
  <2>1. lines = <<>> /\ broken = None /\ pc \in {"look", "settle", "ack", "recv"}
    BY <1>0, <1>4 DEF Read, Eof, Reading, Settling, Ready, Usable
  <2>2. CASE \E n \in 1..Len(s2c) : Read(n)
    BY <1>0, <2>1, <2>2 DEF Read
  <2>3. CASE Eof
    BY <1>0, <2>1, <2>3 DEF Eof, ReadFails
  <2> QED
    BY <1>4, <2>2, <2>3
<1>5. CASE OnData \/ OnAck \/ OnBadLine
  <2>1. lines # <<>>
    BY <1>5 DEF OnData, OnAck, OnBadLine, NextLine
  <2> QED
    BY <1>0, <1>5, <2>1 DEF OnData, OnAck, OnBadLine, ReadFails, TypeOK
<1>6. CASE RecvTakes \/ RecvFails
  BY <1>0, <1>6 DEF RecvTakes, RecvFails, TypeOK
<1>7. CASE WirePart \/ WireWhole
  BY <1>0, <1>7 DEF WirePart, WireWhole, TypeOK
<1>8. CASE Server \/ Rest \/ UNCHANGED vars
  BY <1>0, <1>8 DEF Server, Serve, Emit, Die, Rest, vars
<1> QED
  BY <1>1, <1>2, <1>3, <1>4, <1>5, <1>6, <1>7, <1>8 DEF Next, Progress

-----------------------------------------------------------------------------
(* The types.                                                              *)

\* The type invariant, by the groups of variables the actions leave unchanged.
ClientTyped ==
  /\ awaiting \in AckSet \cup {None} /\ writing \in BOOLEAN /\ partial \in BOOLEAN
  /\ open_command \in Pids \cup {None} /\ broken \in Reasons \cup {None}
QueueTyped == inbound \in Seq(Nat) /\ Len(inbound) <= QueueLimit
CallTyped ==
  /\ pc \in {"idle", "look", "settle", "write", "ack", "recv"} /\ plan \in Seq(RequestSet)
  /\ kind \in {"none", "send", "recv", "signal", "close"} /\ ops \in 0..MaxOps
  /\ result \in {"none", "ok", "err", "dropped"}
WireTyped ==
  c2s \in Seq([req : RequestSet, id : 0..MaxOps]) /\ wire \in {"clean", "part", "whole", "torn"}
ServerTyped ==
  /\ srv_up \in BOOLEAN /\ srv_open \subseteq Pids /\ srv_partial \subseteq Guids
  /\ srv_fault \in BOOLEAN /\ got \subseteq 0..MaxOps
HistoryTyped == emitted \in 0..MaxEmitted /\ taken \in Seq(Nat) /\ acked \subseteq 0..MaxOps

AllTyped ==
  /\ ClientTyped /\ QueueTyped /\ LineTypes /\ CallTyped /\ WireTyped
  /\ ServerTyped /\ HistoryTyped

\* The groups are the type invariant.
LEMMA TypesAre == (TypeOK <=> AllTyped) /\ (TypeOK' <=> AllTyped')
  BY DEF TypeOK, AllTyped, ClientTyped, QueueTyped, LineTypes, CallTyped, WireTyped, ServerTyped,
         HistoryTyped

\* A group left unchanged keeps its type.
LEMMA TypesStay ==
  ASSUME AllTyped
  PROVE  /\ UNCHANGED session => ClientTyped'
         /\ UNCHANGED inbound => QueueTyped'
         /\ UNCHANGED <<lines, s2c>> => LineTypes'
         /\ UNCHANGED call => CallTyped'
         /\ UNCHANGED <<c2s, wire>> => WireTyped'
         /\ UNCHANGED server => ServerTyped'
         /\ UNCHANGED history => HistoryTyped'
<1>1. /\ UNCHANGED session => ClientTyped'
      /\ UNCHANGED inbound => QueueTyped'
  BY DEF AllTyped, ClientTyped, QueueTyped, session
<1>2. /\ UNCHANGED <<lines, s2c>> => LineTypes'
      /\ UNCHANGED <<c2s, wire>> => WireTyped'
  BY DEF AllTyped, LineTypes, WireTyped
<1>3. /\ UNCHANGED call => CallTyped'
      /\ UNCHANGED server => ServerTyped'
  BY DEF AllTyped, CallTyped, ServerTyped, call, server
<1>4. UNCHANGED history => HistoryTyped'
  BY DEF AllTyped, HistoryTyped, history
<1> QED
  BY <1>1, <1>2, <1>3, <1>4

\* The plans are sequences of requests.
LEMMA PlansTyped ==
  ASSUME SessionInv
  PROVE  /\ <<>> \in Seq(RequestSet)
         /\ \A g \in Guids, n \in 1..MaxChunks : Payload(g, n) \in Seq(RequestSet)
         /\ pc = "look" => Requests \in Seq(RequestSet)
         /\ Asking => /\ Tail(plan) \in Seq(RequestSet) /\ ReqOK(Head(plan))
                       /\ AckOf(Head(plan)) \in AckSet
         /\ Garbled \in RequestSet
<1>0. TypeOK /\ CoreInv
  BY DEF SessionInv
<1>1. <<>> \in Seq(RequestSet) /\ Garbled \in RequestSet
  BY DEF Garbled, Request, RequestSet, Guids
<1>2. \A g \in Guids, n \in 1..MaxChunks : Payload(g, n) \in Seq(RequestSet)
  BY PayloadWellFormed DEF WellFormed
<1>3. pc = "look" => Requests \in Seq(RequestSet)
  <2>1. pc = "look" => kind \in {"send", "signal", "close"}
    BY <1>0 DEF CoreInv, PlanInv
  <2> QED
    BY <1>0, <1>1, <2>1, RequestsFit DEF CoreInv, TypeOK, WellFormed
<1>4. Asking => Tail(plan) \in Seq(RequestSet) /\ ReqOK(Head(plan))
  BY <1>0, ResumesWhere DEF CoreInv, PlanInv
<1>5. Asking => AckOf(Head(plan)) \in AckSet
  BY <1>4 DEF AckOf, Ack, ReqOK, RequestSet, AckSet
<1> QED
  BY <1>1, <1>2, <1>3, <1>4, <1>5

\* A failure has one of the reasons.
LEMMA FailureTyped ==
  ASSUME AllTyped, NEW reason \in Reasons, Fail(reason)
  PROVE  broken' \in Reasons \cup {None}
  BY DEF AllTyped, ClientTyped, Fail

\* So does an error while reading, whatever it interrupts.
LEMMA ReadFailureTyped ==
  ASSUME SessionInv, AllTyped, NEW reason \in Reasons, ReadFails(reason),
         UNCHANGED <<awaiting, writing, partial, open_command, s2c>>
  PROVE  ClientTyped' /\ LineTypes' /\ CallTyped'
<1>1. ClientTyped'
  BY FailureTyped DEF ReadFails, AllTyped, ClientTyped
<1>2. LineTypes'
  BY DEF ReadFails, AllTyped, LineTypes
<1>3. CallTyped'
  BY PlansTyped DEF ReadFails, Return, call, AllTyped, CallTyped
<1> QED
  BY <1>1, <1>2, <1>3

\* Starting an operation keeps the types.
LEMMA OperationTyped ==
  ASSUME SessionInv, AllTyped, Operation
  PROVE  AllTyped'
<1>0. Nil \in Guids /\ Pids \subseteq Guids
  BY DEF Guids
<1>1. plan' \in Seq(RequestSet)
  BY <1>0, PlansTyped DEF Operation, Refused, SendToPool, SendToPipeline, BeginSettling, Signal,
                          Close, Recv, Begin
<1>2. CallTyped'
  BY <1>1, ConstantsAssumption
     DEF Operation, Refused, SendToPool, SendToPipeline, BeginSettling, Signal, Close, Recv, Begin,
         AllTyped, CallTyped
<1>3. ClientTyped'
  <2>1. \A k \in {"send", "signal", "close"} : Refused(k) => broken' \in Reasons \cup {None}
    BY FailureTyped DEF Refused, Refusal, Reasons
  <2>2. \A n \in 1..MaxChunks : SendToPool(n) => partial' \in BOOLEAN
    BY DEF SendToPool, InPayload
  <2>3. (\E k \in {"send", "signal", "close"} : Refused(k)) => ClientTyped'
    BY <2>1 DEF Refused, AllTyped, ClientTyped
  <2>4. (\E n \in 1..MaxChunks : SendToPool(n)) => ClientTyped'
    BY <2>2 DEF SendToPool, AllTyped, ClientTyped
  <2>5. UNCHANGED session => ClientTyped'
    BY TypesStay
  <2> QED
    BY <2>3, <2>4, <2>5 DEF Operation, SendToPipeline, BeginSettling, Signal, Close, Recv
<1>4. UNCHANGED <<received, pipe, server, history>>
  BY DEF Operation, Refused, SendToPool, SendToPipeline, BeginSettling, Signal, Close, Recv
<1> QED
  BY <1>2, <1>3, <1>4, TypesStay DEF AllTyped, received, pipe

\* So does going through its requests,
LEMMA RequestTyped ==
  ASSUME SessionInv, AllTyped, Look \/ StartWrite \/ Written \/ RequestDone
  PROVE  AllTyped'
<1> USE PlansTyped DEF Asking
<1>1. CallTyped'
  BY DEF Look, StartWrite, Written, RequestDone, Return, Continue, AllTyped, CallTyped
<1>2. ClientTyped'
  <2>1. CASE Look \/ RequestDone
    <3>1. partial' \in BOOLEAN
      BY <2>1 DEF Look, RequestDone, InPayload
    <3> QED
      BY <2>1, <3>1 DEF Look, RequestDone, AllTyped, ClientTyped
  <2>2. CASE StartWrite \/ Written
    BY <2>2 DEF StartWrite, Written, AllTyped, ClientTyped
  <2> QED
    BY <2>1, <2>2
<1>3. UNCHANGED <<inbound, lines, s2c, c2s, server>>
  BY DEF Look, StartWrite, Written, RequestDone, received, pipe
<1>4. WireTyped'
  BY DEF Look, StartWrite, Written, RequestDone, pipe, AllTyped, WireTyped
<1>5. HistoryTyped'
  BY DEF Look, StartWrite, Written, RequestDone, history, AllTyped, HistoryTyped, CallTyped
<1> QED
  BY <1>1, <1>2, <1>3, <1>4, <1>5, TypesStay DEF AllTyped

\* the pipe taking its bytes,
LEMMA WriteTyped ==
  ASSUME SessionInv, AllTyped, WirePart \/ WireWhole
  PROVE  AllTyped'
<1>1. WireTyped'
  <2>1. WireWhole => Asking
    BY DEF WireWhole, Asking
  <2>2. c2s' \in Seq([req : RequestSet, id : 0..MaxOps])
    <3>1. WireWhole => Line(Head(plan)) \in [req : RequestSet, id : 0..MaxOps]
      BY <2>1, PlansTyped DEF Line, ReqOK, AllTyped, CallTyped
    <3>2. Line(Garbled) \in [req : RequestSet, id : 0..MaxOps]
      BY PlansTyped DEF Line, AllTyped, CallTyped
    <3>3. \A l \in [req : RequestSet, id : 0..MaxOps] :
            Append(c2s, l) \in Seq([req : RequestSet, id : 0..MaxOps])
      BY DEF AllTyped, WireTyped
    <3>4. CASE WireWhole
      <4>1. c2s' \in {c2s, Append(c2s, Line(Head(plan))), Append(c2s, Line(Garbled))}
        BY <3>4 DEF WireWhole
      <4> QED
        BY <3>1, <3>2, <3>3, <3>4, <4>1 DEF AllTyped, WireTyped
    <3>5. CASE WirePart
      BY <3>5 DEF WirePart, AllTyped, WireTyped
    <3> QED
      BY <3>4, <3>5
  <2> QED
    BY <2>2 DEF WirePart, WireWhole, WireTyped
<1>2. UNCHANGED <<session, received, call, s2c, server, history>>
  BY DEF WirePart, WireWhole
<1> QED
  BY <1>1, <1>2, TypesStay DEF AllTyped, received

\* giving up, or a recv that ends,
LEMMA GivingUpTyped ==
  ASSUME SessionInv, AllTyped, WriteFails \/ Drop \/ Timeout \/ RecvTakes \/ RecvFails
  PROVE  AllTyped'
<1>1. CallTyped'
  BY PlansTyped DEF WriteFails, Drop, Timeout, RecvTakes, RecvFails, Return, AllTyped, CallTyped
<1>2. ClientTyped'
  <2>1. CASE WriteFails \/ Timeout \/ RecvFails
    <3>1. PICK reason \in Reasons : Fail(reason)
      BY <2>1 DEF WriteFails, Timeout, RecvFails, Refusal, Reasons
    <3>2. broken' \in Reasons \cup {None}
      BY <3>1, FailureTyped
    <3> QED
      BY <2>1, <3>2 DEF WriteFails, Timeout, RecvFails, AllTyped, ClientTyped
  <2>2. CASE Drop \/ RecvTakes
    BY <2>2, TypesStay DEF Drop, RecvTakes
  <2> QED
    BY <2>1, <2>2
<1>3. WireTyped'
  BY DEF WriteFails, Drop, Timeout, RecvTakes, RecvFails, GiveUpWrite, pipe, AllTyped, WireTyped
<1>4. QueueTyped' /\ HistoryTyped'
  <2>1. CASE RecvTakes
    <3>1. Tail(inbound) \in Seq(Nat) /\ Len(Tail(inbound)) <= QueueLimit /\ Head(inbound) \in Nat
      BY <2>1, ConstantsAssumption DEF RecvTakes, AllTyped, QueueTyped
    <3> QED
      BY <2>1, <3>1 DEF RecvTakes, AllTyped, QueueTyped, HistoryTyped
  <2>2. CASE WriteFails \/ Drop \/ Timeout \/ RecvFails
    BY <2>2, TypesStay DEF WriteFails, Drop, Timeout, RecvFails, received
  <2> QED
    BY <2>1, <2>2
<1>5. UNCHANGED <<lines, s2c, server>>
  BY DEF WriteFails, Drop, Timeout, RecvTakes, RecvFails, received, pipe
<1> QED
  BY <1>1, <1>2, <1>3, <1>4, <1>5, TypesStay DEF AllTyped

\* reading and processing lines,
LEMMA ReadingTyped ==
  ASSUME SessionInv, AllTyped,
         (\E n \in 1..Len(s2c) : Read(n)) \/ Eof \/ OnData \/ OnAck \/ OnBadLine
  PROVE  AllTyped'
<1>1. UNCHANGED <<c2s, wire, server, history>>
  BY DEF Read, Eof, OnData, OnAck, OnBadLine, pipe
<1>2. CASE \E n \in 1..Len(s2c) : Read(n)
  <2>1. PICK n \in 1..Len(s2c) : Read(n)
    BY <1>2
  <2>2. LineTypes'
    BY <2>1 DEF Read, AllTyped, LineTypes
  <2> QED
    BY <1>1, <2>1, <2>2, TypesStay DEF Read, AllTyped
<1>3. CASE Eof \/ OnBadLine \/ (OnData /\ ~(Len(inbound) < QueueLimit))
  <2>1. PICK reason \in Reasons : ReadFails(reason)
    BY <1>3 DEF Eof, OnBadLine, OnData, Reasons
  <2>2. UNCHANGED <<awaiting, writing, partial, open_command, inbound, s2c>>
    BY <1>3 DEF Eof, OnBadLine, OnData, pipe
  <2> QED
    BY <1>1, <2>1, <2>2, ReadFailureTyped, TypesStay DEF AllTyped
<1>4. OnData \/ OnAck => /\ lines # <<>> /\ Head(lines) \in LineSet /\ Tail(lines) \in Seq(LineSet)
  <2>1. lines # <<>> /\ lines \in Seq(LineSet)
          => Head(lines) \in LineSet /\ Tail(lines) \in Seq(LineSet)
    OBVIOUS
  <2> QED
    BY <2>1 DEF OnData, OnAck, NextLine, AllTyped, LineTypes
<1>5. CASE OnData /\ Len(inbound) < QueueLimit
  <2>1. Head(lines).n \in Nat
    BY <1>4, <1>5 DEF LineSet
  <2>2. QueueTyped'
    <3>1. inbound \in Seq(Nat) /\ Len(inbound) \in Nat /\ Len(inbound) + 1 <= QueueLimit
      BY <1>5, ConstantsAssumption DEF AllTyped, QueueTyped
    <3>2. inbound' = Append(inbound, Head(lines).n)
      BY <1>5 DEF OnData
    <3> QED
      BY <2>1, <3>1, <3>2 DEF QueueTyped
  <2>3. LineTypes' /\ UNCHANGED session /\ UNCHANGED call
    BY <1>4, <1>5 DEF OnData, AllTyped, LineTypes, session, pipe
  <2> QED
    BY <1>1, <2>2, <2>3, TypesStay DEF AllTyped
<1>6. CASE OnAck
  <2>1. ClientTyped'
    <3>1. CASE awaiting = Head(lines)
      <4>1. awaiting # None
        BY <1>6, AckIsAwaited DEF SessionInv
      <4>2. open_command' \in Pids \cup {None}
        BY <1>6, <3>1, <4>1 DEF OnAck, CommandAfter, SessionInv, CoreInv, AwaitInv, AllTyped,
                                ClientTyped
      <4> QED
        BY <1>6, <3>1, <4>2 DEF OnAck, AllTyped, ClientTyped
    <3>2. CASE awaiting # Head(lines)
      BY <1>6, <3>2 DEF OnAck, AllTyped, ClientTyped
    <3> QED
      BY <3>1, <3>2
  <2>2. LineTypes' /\ UNCHANGED inbound /\ UNCHANGED call
    BY <1>4, <1>6 DEF OnAck, AllTyped, LineTypes, pipe
  <2> QED
    BY <1>1, <2>1, <2>2, TypesStay DEF AllTyped
<1> QED
  BY <1>2, <1>3, <1>5, <1>6

\* and what the server does.
LEMMA ServerKeepsTypes ==
  ASSUME SessionInv, AllTyped, Server
  PROVE  AllTyped'
<1>1. UNCHANGED <<session, received, call, wire>>
  BY DEF Server, Serve, Emit, Die
<1>2. CASE Serve
  <2> DEFINE l == c2s[1]
  <2>1. c2s # <<>> /\ Tail(c2s) = <<>> /\ ReqOK(l.req) /\ Obey(l.req, l.id)
    BY <1>2, ServeObeys DEF SessionInv
  <2>2. l.id \in 0..MaxOps
    <3>1. l \in [req : RequestSet, id : 0..MaxOps]
      <4>1. c2s \in Seq([req : RequestSet, id : 0..MaxOps]) /\ Len(c2s) \in Nat \ {0}
        BY <2>1 DEF AllTyped, WireTyped
      <4>2. \A S, q : q \in Seq(S) /\ Len(q) \in Nat \ {0} => q[1] \in S
        OBVIOUS
      <4> QED
        BY <4>1, <4>2
    <3> QED
      BY <3>1
  <2>3. AckOf(l.req) \in LineSet
    BY <2>1 DEF ReqOK, RequestSet, AckOf, Ack, LineSet, Elements
  <2> HIDE DEF l
  <2>4. ServerTyped'
    BY <2>1, <2>2 DEF Obey, ReqOK, RequestSet, AllTyped, ServerTyped
  <2>5. LineTypes'
    BY <1>1, <2>1, <2>3 DEF Obey, AllTyped, LineTypes, received
  <2>6. WireTyped'
    BY <1>1, <1>2, <2>1 DEF Serve, AllTyped, WireTyped
  <2> QED
    BY <1>1, <1>2, <2>4, <2>5, <2>6, TypesStay DEF Serve, AllTyped, received
<1>3. CASE Emit
  <2>1. DataLine(emitted + 1) \in LineSet
    BY DEF DataLine, LineSet, Elements, Guids, AllTyped, HistoryTyped
  <2>2. LineTypes'
    BY <1>1, <1>3, <2>1 DEF Emit, AllTyped, LineTypes, received
  <2>3. HistoryTyped'
    BY <1>3, ConstantsAssumption DEF Emit, AllTyped, HistoryTyped
  <2> QED
    BY <1>1, <1>3, <2>2, <2>3, TypesStay DEF Emit, AllTyped, received
<1>4. CASE Die(<<>>) \/ Die(<<BadLine>>)
  <2>1. BadLine \in LineSet
    BY DEF BadLine, LineSet, Elements, Guids
  <2>2. PICK l \in {<<>>, <<BadLine>>} : Die(l)
    BY <1>4
  <2>3. l \in Seq(LineSet)
    <3>1. <<>> \in Seq(LineSet) /\ <<BadLine>> \in Seq(LineSet)
      BY <2>1
    <3> QED
      BY <3>1
  <2>4. LineTypes'
    BY <1>1, <2>2, <2>3 DEF Die, AllTyped, LineTypes, received
  <2>5. ServerTyped'
    BY <2>2 DEF Die, AllTyped, ServerTyped
  <2> QED
    BY <1>1, <2>2, <2>4, <2>5, TypesStay DEF Die, AllTyped, received
<1> QED
  BY <1>2, <1>3, <1>4 DEF Server

\* Every step keeps the types.
LEMMA TypesKept ==
  ASSUME SessionInv, [Next]_vars
  PROVE  TypeOK'
<1>0. AllTyped
  BY TypesAre DEF SessionInv
<1>1. CASE Operation
  BY <1>0, <1>1, OperationTyped, TypesAre
<1>2. CASE Look \/ StartWrite \/ Written \/ RequestDone
  BY <1>0, <1>2, RequestTyped, TypesAre
<1>3. CASE WirePart \/ WireWhole
  BY <1>0, <1>3, WriteTyped, TypesAre
<1>4. CASE WriteFails \/ Drop \/ Timeout \/ RecvTakes \/ RecvFails
  BY <1>0, <1>4, GivingUpTyped, TypesAre
<1>5. CASE (\E n \in 1..Len(s2c) : Read(n)) \/ Eof \/ OnData \/ OnAck \/ OnBadLine
  BY <1>0, <1>5, ReadingTyped, TypesAre
<1>6. CASE Server
  BY <1>0, <1>6, ServerKeepsTypes, TypesAre
<1>7. CASE Rest \/ UNCHANGED vars
  <2>1. UNCHANGED vars
    BY <1>7 DEF Rest
  <2>2. AllTyped'
    BY <1>0, <2>1, TypesStay DEF vars, received, pipe, AllTyped
  <2> QED
    BY <2>2, TypesAre
<1> QED
  BY <1>1, <1>2, <1>3, <1>4, <1>5, <1>6, <1>7 DEF Next, Progress

-----------------------------------------------------------------------------
(* The theorems.                                                           *)

\* The session and its server always agree on where they are.
THEOREM SessionIsSound == Spec => []SessionInv
<1>1. Init => SessionInv
  <2> SUFFICES ASSUME Init PROVE SessionInv
    OBVIOUS
  <2> USE ConstantsAssumption DEF Init
  <2>1. TypeOK
    <3>1. <<>> \in Seq(Nat) /\ Len(<<>>) = 0 /\ \A S : <<>> \in Seq(S)
      OBVIOUS
    <3>2. AllTyped
      <4>1. ClientTyped
        BY DEF ClientTyped
      <4>2. CallTyped
        BY <3>1 DEF CallTyped
      <4>3. QueueTyped
        BY <3>1 DEF QueueTyped
      <4>4. LineTypes /\ WireTyped
        BY <3>1 DEF LineTypes, WireTyped
      <4>5. ServerTyped
        BY DEF ServerTyped
      <4>6. HistoryTyped
        BY <3>1 DEF HistoryTyped
      <4> QED
        BY <4>1, <4>2, <4>3, <4>4, <4>5, <4>6 DEF AllTyped
    <3> QED
      BY <3>2, TypesAre
  <2>2. WireInv
    BY DEF WireInv
  <2>3. Stream = <<>> /\ Len(Stream) = 0
    BY DEF Stream
  <2>4. CoreInv
    BY <2>3 DEF CoreInv, PlanInv, AwaitInv, SentInv, AckInv, AckAlone, NoAck, Asking, Unwritten,
                OpenWith
  <2> QED
    BY <2>1, <2>2, <2>4 DEF SessionInv
<1>2. SessionInv /\ [Next]_vars => SessionInv'
  BY CoreKept, WireKept, TypesKept DEF SessionInv
<1> QED
  BY <1>1, <1>2, PTL DEF Spec

\* Every variable has its type.
THEOREM SessionTypes == Spec => []TypeOK
<1>1. SessionInv => TypeOK
  BY DEF SessionInv
<1> QED
  BY <1>1, SessionIsSound, PTL

\* Whatever is dropped or times out, the client never breaks a rule of the server
\* (session.rs, module comment): no request before the previous acknowledgement was
\* read, no second Command, no Data without one, no Close over an open command,
\* nothing after half a line or half a payload.
THEOREM ClientKeepsTheRules == Spec => []ServerNeverMisled
<1>1. SessionInv => ServerNeverMisled
  BY DEF SessionInv, CoreInv, AckInv, ServerNeverMisled
<1> QED
  BY <1>1, SessionIsSound, PTL

\* With nothing awaited, the command the session takes for open is the one the
\* server has open (session.rs, acknowledged).
THEOREM CommandStateIsConfirmed == Spec => []CommandStateMatches
<1>1. SessionInv => CommandStateMatches
  BY DEF SessionInv, CoreInv, SentInv, CommandStateMatches, OpenSet, OpenWith
<1> QED
  BY <1>1, SessionIsSound, PTL

\* A send that reports success was received whole: no acknowledgement of an
\* abandoned request is credited to it (session.rs, exchange).
THEOREM SuccessIsReceipt == Spec => []SentIsReceived
<1>1. SessionInv => SentIsReceived
  BY DEF SessionInv, CoreInv, AckInv, SentIsReceived
<1> QED
  BY <1>1, SessionIsSound, PTL

-----------------------------------------------------------------------------
(* No byte is lost.                                                        *)

\* What was handed out or is queued, and the payloads among what is still to be
\* processed.
Kept   == taken \o inbound
DataAt == {i \in 1..Len(Stream) : Stream[i].tag = "data"}

\* The payloads are numbered in the order they were sent: the kept ones are the
\* first, in order, and what is left is the rest of them, in order.
KeptInOrder == Len(Kept) <= emitted /\ \A i \in 1..Len(Kept) : Kept[i] = i
LeftInOrder ==
  /\ \A i \in DataAt : Stream[i].n \in (Len(Kept) + 1)..emitted
  /\ \A m \in (Len(Kept) + 1)..emitted : \E i \in DataAt : Stream[i].n = m
  /\ \A i, j \in DataAt : i < j => Stream[i].n < Stream[j].n

OrderInv == KeptInOrder /\ (broken = None => LeftInOrder)

\* This is what the property says.
LEMMA OrderIsNoLoss == OrderInv => NoByteLost
<1> SUFFICES ASSUME OrderInv PROVE NoByteLost
  OBVIOUS
<1>1. Len(Kept) <= emitted /\ \A i \in 1..Len(Kept) : Kept[i] = i
  BY DEF OrderInv, KeptInOrder
<1>2. ASSUME broken = None
      PROVE  /\ {Stream[i].n : i \in DataAt} = (Len(Kept) + 1)..emitted
             /\ \A i, j \in DataAt : i < j => Stream[i].n < Stream[j].n
  BY <1>2, Zenon DEF OrderInv, LeftInOrder
<1> QED
  BY <1>1, <1>2, Zenon DEF NoByteLost, Kept, Stream, DataAt

\* The types of what it speaks of.
LEMMA KeptIs ==
  ASSUME TypeOK
  PROVE  /\ Kept \in Seq(Nat) /\ Len(Kept) = Len(taken) + Len(inbound)
         /\ Len(Kept) \in Nat /\ emitted \in Nat /\ LineTypes
  BY ConstantsAssumption DEF TypeOK, Kept, LineTypes

\* The order is kept by a step that moves no payload,
LEMMA SameOrder ==
  ASSUME OrderInv, Kept' = Kept, Stream' = Stream, emitted' = emitted,
         broken' = None => broken = None
  PROVE  OrderInv'
<1>1. KeptInOrder' /\ DataAt' = DataAt
  BY DEF OrderInv, KeptInOrder, DataAt
<1>2. LeftInOrder => LeftInOrder'
  BY <1>1 DEF LeftInOrder
<1> QED
  BY <1>1, <1>2 DEF OrderInv

\* by one that breaks the session,
LEMMA BrokenOrder ==
  ASSUME OrderInv, Kept' = Kept, emitted' = emitted, broken' # None
  PROVE  OrderInv'
  BY DEF OrderInv, KeptInOrder

\* by processing a line that carries none,
LEMMA SkippedOrder ==
  ASSUME TypeOK, OrderInv, lines # <<>>, Head(lines).tag # "data", lines' = Tail(lines),
         UNCHANGED <<s2c, emitted, broken>>, Kept' = Kept
  PROVE  OrderInv'
<1>1. /\ Len(Stream') = Len(Stream) - 1 /\ Len(Stream) \in Nat /\ Stream[1].tag # "data"
      /\ \A i \in 1..Len(Stream') : i + 1 \in 1..Len(Stream) /\ Stream'[i] = Stream[i + 1]
  <2>1. LineTypes /\ Len(Stream) \in Nat
    BY KeptIs, StreamIs
  <2> QED
    BY <2>1, ProcessedStream
<1>2. /\ \A i \in DataAt' : i + 1 \in DataAt /\ Stream'[i] = Stream[i + 1]
      /\ \A i \in DataAt : i - 1 \in DataAt' /\ Stream'[i - 1] = Stream[i]
  <2>1. \A i \in DataAt : i - 1 \in 1..Len(Stream') /\ (i - 1) + 1 = i
    BY <1>1 DEF DataAt
  <2> QED
    BY <1>1, <2>1 DEF DataAt
<1>3. LeftInOrder => LeftInOrder'
  <2> SUFFICES ASSUME LeftInOrder PROVE LeftInOrder'
    OBVIOUS
  <2>1. \A i \in DataAt' : Stream'[i].n \in (Len(Kept) + 1)..emitted
    BY <1>2 DEF LeftInOrder
  <2>2. \A m \in (Len(Kept) + 1)..emitted : \E i \in DataAt' : Stream'[i].n = m
    BY <1>2 DEF LeftInOrder
  <2>3. \A i, j \in DataAt' : i < j => i + 1 < j + 1
    BY DEF DataAt
  <2>4. \A i, j \in DataAt' : i < j => Stream'[i].n < Stream'[j].n
    BY <1>2, <2>3 DEF LeftInOrder
  <2> QED
    BY <2>1, <2>2, <2>4 DEF LeftInOrder
<1> QED
  BY <1>3 DEF OrderInv, KeptInOrder

\* by queueing the one of the next line,
LEMMA QueuedOrder ==
  ASSUME TypeOK, OrderInv, broken = None, lines # <<>>, Head(lines).tag = "data",
         lines' = Tail(lines), inbound' = Append(inbound, Head(lines).n),
         UNCHANGED <<s2c, emitted, taken>>
  PROVE  OrderInv'
<1>1. /\ Len(Stream') = Len(Stream) - 1 /\ Len(Stream) \in Nat /\ Stream[1] = Head(lines)
      /\ 1 \in DataAt
      /\ \A i \in 1..Len(Stream') : i + 1 \in 1..Len(Stream) /\ Stream'[i] = Stream[i + 1]
  BY KeptIs, StreamIs, ProcessedStream DEF DataAt
<1>2. Len(Kept) \in Nat /\ emitted \in Nat /\ LeftInOrder
  BY KeptIs DEF OrderInv
<1>3. \A i \in DataAt : Stream[i].n \in Nat
  BY <1>2 DEF LeftInOrder
<1>4. Stream[1].n = Len(Kept) + 1
  <2>1. Stream[1].n \in (Len(Kept) + 1)..emitted
    BY <1>1, <1>2 DEF LeftInOrder
  <2>2. PICK i \in DataAt : Stream[i].n = Len(Kept) + 1
    BY <1>2, <2>1 DEF LeftInOrder
  <2>3. i # 1 => Stream[1].n < Stream[i].n
    <3>1. i # 1 => 1 < i
      BY <1>1 DEF DataAt
    <3> QED
      BY <1>1, <1>2, <3>1 DEF LeftInOrder
  <2> QED
    BY <1>2, <2>1, <2>2, <2>3
<1>5. Kept' = Append(Kept, Len(Kept) + 1) /\ Len(Kept') = Len(Kept) + 1
  <2>1. Kept' = taken \o Append(inbound, Len(Kept) + 1)
    BY <1>1, <1>4 DEF Kept
  <2>2. taken \o Append(inbound, Len(Kept) + 1) = Append(taken \o inbound, Len(Kept) + 1)
    <3>1. taken \in Seq(Nat) /\ inbound \in Seq(Nat) /\ Len(Kept) + 1 \in Nat
      BY <1>2 DEF TypeOK
    <3> HIDE DEF Kept
    <3> QED
      BY <3>1
  <2>3. Kept' = Append(Kept, Len(Kept) + 1)
    BY <2>1, <2>2 DEF Kept
  <2>4. Kept \in Seq(Nat) /\ Len(Kept) + 1 \in Nat
    BY <1>2, KeptIs
  <2> HIDE DEF Kept
  <2> QED
    BY <2>3, <2>4
<1>6. KeptInOrder'
  <2>1. Len(Kept') <= emitted'
    <3>1. Stream[1].n \in (Len(Kept) + 1)..emitted
      BY <1>1, <1>2 DEF LeftInOrder
    <3> QED
      BY <1>2, <1>4, <1>5, <3>1
  <2>2. \A i \in 1..Len(Kept) + 1 : i \in 1..Len(Kept) \/ i = Len(Kept) + 1
    BY <1>2
  <2>3. Kept'[Len(Kept) + 1] = Len(Kept) + 1 /\ \A i \in 1..Len(Kept) : Kept'[i] = Kept[i]
    BY <1>2, <1>5, KeptIs
  <2> QED
    BY <1>5, <2>1, <2>2, <2>3 DEF OrderInv, KeptInOrder
<1>7. /\ \A i \in DataAt' : i + 1 \in DataAt /\ Stream'[i] = Stream[i + 1] /\ 1 < i + 1
      /\ \A i \in DataAt : i # 1 => i - 1 \in DataAt' /\ Stream'[i - 1] = Stream[i]
  <2>1. \A i \in DataAt : i # 1 => i - 1 \in 1..Len(Stream') /\ (i - 1) + 1 = i
    BY <1>1 DEF DataAt
  <2> QED
    BY <1>1, <2>1 DEF DataAt
<1>8. LeftInOrder'
  <2>1. \A i \in DataAt' : Stream'[i].n \in (Len(Kept) + 1 + 1)..emitted
    <3> SUFFICES ASSUME NEW i \in DataAt' PROVE Stream'[i].n \in (Len(Kept) + 1 + 1)..emitted
      OBVIOUS
    <3>1. Stream[i + 1].n \in (Len(Kept) + 1)..emitted /\ Stream[1].n < Stream[i + 1].n
      BY <1>1, <1>2, <1>7 DEF LeftInOrder
    <3> QED
      BY <1>2, <1>4, <1>7, <3>1
  <2>2. \A m \in (Len(Kept) + 1 + 1)..emitted : \E i \in DataAt' : Stream'[i].n = m
    <3> SUFFICES ASSUME NEW m \in (Len(Kept) + 1 + 1)..emitted
                 PROVE  \E i \in DataAt' : Stream'[i].n = m
      OBVIOUS
    <3>1. m \in (Len(Kept) + 1)..emitted /\ m # Len(Kept) + 1
      BY <1>2
    <3>2. PICK i \in DataAt : Stream[i].n = m
      BY <1>2, <3>1 DEF LeftInOrder
    <3> QED
      BY <1>4, <1>7, <3>1, <3>2
  <2>3. \A i, j \in DataAt' : i < j => i + 1 < j + 1
    BY DEF DataAt
  <2>4. \A i, j \in DataAt' : i < j => Stream'[i].n < Stream'[j].n
    BY <1>2, <1>7, <2>3 DEF LeftInOrder
  <2> QED
    BY <1>5, <2>1, <2>2, <2>4 DEF LeftInOrder
<1> QED
  BY <1>6, <1>8 DEF OrderInv

\* and by one more line of the server.
LEMMA ArrivedOrder ==
  ASSUME TypeOK, OrderInv, NEW l \in LineSet, lines' = lines, s2c' = Append(s2c, l), Kept' = Kept,
         broken' = broken,
         \/ l.tag # "data" /\ emitted' = emitted
         \/ l.tag = "data" /\ l.n = emitted + 1 /\ emitted' = emitted + 1
  PROVE  OrderInv'
<1>1. /\ Len(Stream') = Len(Stream) + 1 /\ Len(Stream) \in Nat
      /\ Stream'[Len(Stream) + 1] = l
      /\ \A i \in 1..Len(Stream) : i \in 1..Len(Stream') /\ Stream'[i] = Stream[i]
  BY KeptIs, StreamIs, AppendedStream
<1>2. Len(Kept) \in Nat /\ emitted \in Nat /\ Len(Kept) <= emitted
  BY KeptIs DEF OrderInv, KeptInOrder
<1>3. /\ DataAt \subseteq DataAt'
      /\ \A i \in DataAt : Stream'[i] = Stream[i] /\ i < Len(Stream) + 1
      /\ \A i \in DataAt' : i \in DataAt \/ (i = Len(Stream) + 1 /\ l.tag = "data")
      /\ l.tag = "data" => Len(Stream) + 1 \in DataAt'
  BY <1>1 DEF DataAt
<1>4. LeftInOrder => LeftInOrder'
  <2> SUFFICES ASSUME LeftInOrder PROVE LeftInOrder'
    OBVIOUS
  <2>1. CASE l.tag # "data" /\ emitted' = emitted
    <3>1. DataAt' = DataAt
      BY <1>3, <2>1
    <3> QED
      BY <1>3, <2>1, <3>1 DEF LeftInOrder
  <2>2. CASE l.tag = "data" /\ l.n = emitted + 1 /\ emitted' = emitted + 1
    <3> DEFINE e == Len(Stream) + 1
    <3>1. e \in DataAt' /\ Stream'[e].n = emitted + 1 /\ \A i \in DataAt' : i \in DataAt \/ i = e
      BY <1>1, <1>3, <2>2
    <3>2. \A i \in DataAt : Stream'[i].n \in (Len(Kept) + 1)..emitted /\ i < e
      BY <1>3 DEF LeftInOrder
    <3> HIDE DEF e
    <3>3. \A i \in DataAt' : Stream'[i].n \in (Len(Kept) + 1)..(emitted + 1)
      BY <1>2, <2>2, <3>1, <3>2
    <3>4. \A m \in (Len(Kept) + 1)..(emitted + 1) : \E i \in DataAt' : Stream'[i].n = m
      <4> SUFFICES ASSUME NEW m \in (Len(Kept) + 1)..(emitted + 1)
                   PROVE  \E i \in DataAt' : Stream'[i].n = m
        OBVIOUS
      <4>1. CASE m = emitted + 1
        BY <3>1, <4>1
      <4>2. CASE m # emitted + 1
        <5>1. m \in (Len(Kept) + 1)..emitted
          BY <1>2, <4>2
        <5> QED
          BY <1>3, <5>1 DEF LeftInOrder
      <4> QED
        BY <4>1, <4>2
    <3>5. \A i, j \in DataAt' : i < j => Stream'[i].n < Stream'[j].n
      <4> SUFFICES ASSUME NEW i \in DataAt', NEW j \in DataAt', i < j
                   PROVE  Stream'[i].n < Stream'[j].n
        OBVIOUS
      <4>1. i \in DataAt
        <5>1. i # e
          <6>1. i \in Int /\ j \in Int /\ e \in Int /\ j <= e
            BY <1>1 DEF DataAt, e
          <6> QED
            BY <6>1
        <5> QED
          BY <3>1, <5>1
      <4>2. CASE j \in DataAt
        BY <1>3, <4>1, <4>2 DEF LeftInOrder
      <4>3. CASE j = e
        BY <1>2, <3>1, <3>2, <4>1, <4>3
      <4> QED
        BY <3>1, <4>2, <4>3
    <3> QED
      BY <2>2, <3>3, <3>4, <3>5 DEF LeftInOrder
  <2> QED
    BY <2>1, <2>2
<1> QED
  BY <1>2, <1>4 DEF OrderInv, KeptInOrder

\* Every step keeps it.
LEMMA OrderKept ==
  ASSUME SessionInv, OrderInv, [Next]_vars
  PROVE  OrderInv'
<1>0. TypeOK /\ WireInv /\ CoreInv /\ LineTypes
  BY KeptIs DEF SessionInv
<1> USE DEF session, received, pipe, server, history, call
<1>1. CASE \/ Operation \/ Look \/ StartWrite \/ Written \/ WriteFails \/ RequestDone
           \/ WirePart \/ WireWhole \/ Drop \/ Timeout \/ RecvFails \/ Rest \/ UNCHANGED vars
  <2>1. UNCHANGED <<taken, inbound, lines, s2c, emitted>>
    BY <1>1 DEF Operation, Refused, SendToPool, SendToPipeline, BeginSettling, Signal, Close, Recv,
                Look, StartWrite, Written, WriteFails, RequestDone, WirePart, WireWhole, Drop,
                Timeout, RecvFails, Rest, vars
  <2>2. broken' = None => broken = None
    BY <1>1 DEF Operation, Refused, SendToPool, SendToPipeline, BeginSettling, Signal, Close, Recv,
                Look, StartWrite, Written, WriteFails, RequestDone, WirePart, WireWhole, Drop,
                Timeout, RecvFails, Rest, vars, Fail
  <2> QED
    BY <2>1, <2>2, SameOrder DEF Kept, Stream
<1>2. CASE \E n \in 1..Len(s2c) : Read(n)
  <2>1. PICK n \in 1..Len(s2c) : Read(n)
    BY <1>2
  <2>2. Stream' = Stream
    BY <1>0, <2>1, ReadKeepsStream DEF Read, Reading, Settling
  <2> QED
    BY <2>1, <2>2, SameOrder DEF Read, Kept
<1>3. CASE Eof \/ OnBadLine \/ (OnData /\ ~(Len(inbound) < QueueLimit))
  <2>1. PICK reason \in Reasons : ReadFails(reason)
    BY <1>3 DEF Eof, OnBadLine, OnData, Reasons
  <2>2. broken' # None
    BY <2>1, NoneAssumption DEF ReadFails, Fail
  <2>3. UNCHANGED <<taken, inbound, emitted>>
    BY <1>3 DEF Eof, OnBadLine, OnData
  <2> QED
    BY <2>2, <2>3, BrokenOrder DEF Kept
<1>4. CASE OnData /\ Len(inbound) < QueueLimit
  <2>1. broken = None /\ lines # <<>>
    BY <1>0, <1>4 DEF OnData, NextLine, WireInv
  <2> QED
    BY <1>0, <1>4, <2>1, QueuedOrder DEF OnData, NextLine
<1>5. CASE OnAck
  BY <1>0, <1>5, SkippedOrder DEF OnAck, NextLine, Kept
<1>6. CASE RecvTakes
  <2>1. inbound \in Seq(Nat) /\ inbound # <<>> /\ taken \in Seq(Nat)
        /\ taken' = Append(taken, Head(inbound)) /\ inbound' = Tail(inbound)
    BY <1>0, <1>6 DEF RecvTakes, TypeOK
  <2>2. Append(taken, Head(inbound)) \o Tail(inbound) = taken \o inbound
    BY <2>1
  <2> QED
    BY <1>6, <2>1, <2>2, SameOrder DEF RecvTakes, Kept, Stream
<1>7. CASE Serve
  <2>1. ReqOK(c2s[1].req) /\ s2c' = Append(s2c, AckOf(c2s[1].req))
    BY <1>0, <1>7, ServeObeys DEF Obey
  <2>2. AckOf(c2s[1].req) \in LineSet /\ AckOf(c2s[1].req).tag # "data"
    BY <2>1 DEF ReqOK, RequestSet, AckOf, Ack, LineSet, Elements
  <2> QED
    BY <1>0, <1>7, <2>1, <2>2, ArrivedOrder DEF Serve, Kept
<1>8. CASE Emit
  <2>1. DataLine(emitted + 1) \in LineSet /\ DataLine(emitted + 1).tag = "data"
        /\ DataLine(emitted + 1).n = emitted + 1
    BY <1>0, KeptIs DEF DataLine, LineSet, Elements, Guids
  <2> QED
    BY <1>0, <1>8, <2>1, ArrivedOrder DEF Emit, Kept
<1>9. CASE Die(<<>>)
  <2>1. UNCHANGED <<lines, s2c, taken, inbound, emitted, broken>>
    BY <1>0, <1>9 DEF Die, LineTypes
  <2> QED
    BY <2>1, SameOrder DEF Kept, Stream
<1>10. CASE Die(<<BadLine>>)
  <2>1. BadLine \in LineSet /\ BadLine.tag # "data"
    BY DEF BadLine, LineSet, Elements, Guids
  <2>2. s2c' = Append(s2c, BadLine)
    <3>1. s2c' = s2c \o <<BadLine>>
      BY <1>10 DEF Die
    <3> QED
      BY <1>0, <2>1, <3>1, AppendIsConcat DEF LineTypes
  <2> QED
    BY <1>0, <1>10, <2>1, <2>2, ArrivedOrder DEF Die, Kept
<1> QED
  BY <1>1, <1>2, <1>3, <1>4, <1>5, <1>6, <1>7, <1>8, <1>9, <1>10 DEF Next, Progress, Server

\* No received byte is lost, duplicated or reordered across drops, timeouts and a
\* session that broke (session.rs, pump and recv).
THEOREM NothingIsLost == Spec => []NoByteLost
<1>1. Init => OrderInv
  <2> SUFFICES ASSUME Init PROVE OrderInv
    OBVIOUS
  <2>1. Kept = <<>> /\ Len(Kept) = 0 /\ Stream = <<>> /\ Len(Stream) = 0 /\ emitted = 0
    BY DEF Init, Kept, Stream
  <2> QED
    BY <2>1 DEF OrderInv, KeptInOrder, LeftInOrder, DataAt
<1>2. SessionInv /\ OrderInv /\ [Next]_vars => OrderInv'
  BY OrderKept
<1>3. OrderInv => NoByteLost
  BY OrderIsNoLoss
<1> QED
  BY <1>1, <1>2, <1>3, SessionIsSound, PTL DEF Spec

-----------------------------------------------------------------------------
(* The error of a broken session, and its silence.                         *)

\* recv reports the error of a broken session only once the queue is empty
\* (session.rs, recv).
THEOREM QueueIsDrained == Spec => []QueueDrainsFirst
<1>1. Init => QueueDrainsFirst
  BY DEF Init, QueueDrainsFirst
<1>2. SessionInv /\ QueueDrainsFirst /\ [Next]_vars => QueueDrainsFirst'
  <2> SUFFICES ASSUME SessionInv, QueueDrainsFirst, [Next]_vars PROVE QueueDrainsFirst'
    OBVIOUS
  <2> USE DEF session, received, pipe, server, history, call, Return, Continue
  <2>1. pc \in {"look", "settle", "write", "ack"} => kind # "recv"
    <3>1. \A k, p : WellFormed(k, p) => k \in {"send", "signal", "close"}
      <4> SUFFICES ASSUME NEW k, NEW p, WellFormed(k, p) PROVE k \in {"send", "signal", "close"}
        OBVIOUS
      <4>1. Len(p) \in 1..Len(p)
        BY DEF WellFormed
      <4> QED
        BY <4>1 DEF WellFormed, Concludes
    <3> QED
      BY <3>1 DEF SessionInv, CoreInv, PlanInv, Asking
  <2>2. lines # <<>> => pc # "idle"
    BY DEF SessionInv, WireInv
  <2>3. CASE Operation
    BY <2>3 DEF QueueDrainsFirst, Operation, Refused, SendToPool, SendToPipeline, BeginSettling,
                Signal, Close, Recv, Begin
  <2>4. CASE Look \/ StartWrite \/ Written \/ WriteFails \/ RequestDone
    BY <2>1, <2>4 DEF QueueDrainsFirst, Look, StartWrite, Written, WriteFails, RequestDone
  <2>5. CASE (\E n \in 1..Len(s2c) : Read(n)) \/ Eof \/ OnData \/ OnAck \/ OnBadLine
    <3>1. pc # "idle"
      BY <2>2, <2>5 DEF Read, Eof, OnData, OnAck, OnBadLine, NextLine, Reading, Settling
    <3>2. pc' = pc \/ (pc # "recv" /\ kind' = kind)
      BY <2>5 DEF Read, Eof, OnData, OnAck, OnBadLine, ReadFails
    <3>3. pc \in {"look", "settle", "write", "ack", "recv"}
      BY <3>1 DEF SessionInv, TypeOK
    <3> QED
      BY <2>1, <3>1, <3>2, <3>3 DEF QueueDrainsFirst
  <2>6. CASE RecvTakes \/ RecvFails
    BY <2>6 DEF QueueDrainsFirst, RecvTakes, RecvFails
  <2>7. CASE WirePart \/ WireWhole \/ Server \/ Rest \/ UNCHANGED vars
    BY <2>7 DEF QueueDrainsFirst, WirePart, WireWhole, Server, Serve, Emit, Die, Rest, vars
  <2>8. CASE Drop
    BY <2>8 DEF QueueDrainsFirst, Drop
  <2>9. CASE Timeout
    BY <2>1, <2>9 DEF QueueDrainsFirst, Timeout, Settling
  <2> QED
    BY <2>3, <2>4, <2>5, <2>6, <2>7, <2>8, <2>9 DEF Next, Progress
<1> QED
  BY <1>1, <1>2, SessionIsSound, PTL DEF Spec

\* The session fails closed: once it is broken, or once a write or a payload
\* was abandoned, no line is begun and no byte of one goes out (session.rs,
\* usable and ready).
THEOREM SessionFailsClosed == Spec => FailsClosed
<1>1. SessionInv /\ [Next]_vars => [Silenced => pc' # "write" /\ Len(c2s') <= Len(c2s)]_vars
  <2> SUFFICES ASSUME SessionInv, Next, Silenced PROVE pc' # "write" /\ Len(c2s') <= Len(c2s)
    OBVIOUS
  <2> USE DEF session, received, pipe, server, history, call, Return, Continue
  <2>1. pc # "write"
    BY DEF Silenced, SessionInv, WireInv
  <2>2. c2s \in Seq([req : RequestSet, id : 0..MaxOps]) /\ Len(c2s) <= Len(c2s)
    BY DEF SessionInv, TypeOK
  <2>3. CASE Operation
    BY <2>2, <2>3 DEF Operation, Refused, SendToPool, SendToPipeline, BeginSettling, Signal, Close,
                      Recv, Begin
  <2>4. ~StartWrite
    BY DEF StartWrite, Silenced, Usable
  <2>5. CASE Look \/ Written \/ WriteFails \/ RequestDone
    BY <2>2, <2>5 DEF Look, Written, WriteFails, RequestDone
  <2>6. CASE (\E n \in 1..Len(s2c) : Read(n)) \/ Eof \/ OnData \/ OnAck \/ OnBadLine
    BY <2>1, <2>2, <2>6 DEF Read, Eof, OnData, OnAck, OnBadLine, ReadFails
  <2>7. CASE RecvTakes \/ RecvFails \/ Drop \/ Timeout
    BY <2>2, <2>7 DEF RecvTakes, RecvFails, Drop, Timeout
  <2>8. ~(WirePart \/ WireWhole)
    BY <2>1 DEF WirePart, WireWhole
  <2>9. CASE Serve
    <3>1. c2s # <<>> /\ c2s' = Tail(c2s) /\ pc' = pc
      BY <2>9 DEF Serve
    <3>2. Len(Tail(c2s)) <= Len(c2s)
      BY <2>2, <3>1
    <3> QED
      BY <2>1, <3>1, <3>2
  <2>10. CASE Emit \/ Die(<<>>) \/ Die(<<BadLine>>) \/ Rest
    BY <2>1, <2>2, <2>10 DEF Emit, Die, Rest, vars
  <2> QED
    BY <2>3, <2>4, <2>5, <2>6, <2>7, <2>8, <2>9, <2>10 DEF Next, Progress, Server
<1> QED
  BY <1>1, SessionIsSound, PTL DEF Spec, FailsClosed
=============================================================================
