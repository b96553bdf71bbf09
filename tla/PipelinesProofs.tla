---------------------------- MODULE PipelinesProofs ----------------------------
(***************************************************************************)
(* The mutex, the results and the handles of Pipelines, for every number   *)
(* of tasks, pipelines, values and faults: a stop is about the caller's    *)
(* own pipeline, a result is that pipeline's whole output, it ended if the *)
(* run says so, and the pool is not closed under anybody.                  *)
(***************************************************************************)
EXTENDS Pipelines, TLAPS

Points == Awaiting \cup {"idle", "locking", "refused", "gone"}

\* The points a task waits at are among these.
TypeInv ==
  /\ pc \in [Tasks -> Points] /\ pid \in [Tasks -> Int] /\ current \in Int
  /\ lock \in Seq(Tasks)

\* A task past the mutex is the first of the queue, and its pipeline the one that
\* was started last; one that waits is in the queue.
Holds(t)  == lock # <<>> /\ lock[1] = t /\ pid[t] = current
Queues(t) == \E i \in 1..Len(lock) : lock[i] = t
LockInv ==
  \A t \in Tasks : /\ pc[t] \in Awaiting => Holds(t)
                   /\ pc[t] = "locking" => Queues(t)

StopInv == TypeInv /\ LockInv /\ ~misdirected

\* A task that uses the pool, or waits for it, has a handle.
HandleInv ==
  /\ DOMAIN pc = Tasks
  /\ \A t \in Tasks : pc[t] \in Awaiting \cup {"locking"} => t \in handles
  /\ pool = "closed" => handles = {}

-----------------------------------------------------------------------------
(* The queue.                                                              *)

\* One that waits at the end of the queue does not change who holds it.
LEMMA QueueLonger ==
  ASSUME lock \in Seq(Tasks), NEW t \in Tasks, lock' = Append(lock, t)
  PROVE  /\ lock' \in Seq(Tasks)
         /\ lock'[Len(lock')] = t /\ Len(lock') \in 1..Len(lock')
         /\ lock # <<>> => lock' # <<>> /\ lock'[1] = lock[1]
         /\ \A i \in 1..Len(lock) : i \in 1..Len(lock') /\ lock'[i] = lock[i]
  OBVIOUS

\* One that leaves takes away nobody else, and makes another first only if it was.
LEMMA QueueShorter ==
  ASSUME lock \in Seq(Tasks), NEW t \in Tasks, Queues(t), lock' = Others(t)
  PROVE  /\ lock' \in Seq(Tasks)
         /\ lock[1] # t => lock' # <<>> /\ lock'[1] = lock[1]
         /\ \A u \in Tasks \ {t} : Queues(u) => Queues(u)'
<1> DEFINE i == CHOOSE j \in DOMAIN lock : lock[j] = t
<1>1. i \in 1..Len(lock) /\ lock[i] = t
  BY DEF Queues
<1>2. lock' = [j \in 1..(Len(lock) - 1) |-> IF j < i THEN lock[j] ELSE lock[j + 1]]
  BY DEF Others
<1> HIDE DEF i
<1>3. Len(lock) \in Nat \ {0} /\ \A j \in 1..Len(lock) : lock[j] \in Tasks
  BY <1>1
<1>4. lock' \in Seq(Tasks) /\ Len(lock') = Len(lock) - 1
  BY <1>1, <1>2, <1>3
<1>5. lock[1] # t => lock' # <<>> /\ lock'[1] = lock[1]
  <2> SUFFICES ASSUME lock[1] # t PROVE lock' # <<>> /\ lock'[1] = lock[1]
    OBVIOUS
  <2>1. 1 < i /\ 1 \in 1..(Len(lock) - 1)
    BY <1>1, <1>3
  <2>2. lock'[1] = lock[1]
    BY <1>2, <2>1
  <2>3. Len(lock') > 0
    BY <1>3, <1>4, <2>1
  <2> QED
    BY <1>4, <2>2, <2>3
<1>6. ASSUME NEW u \in Tasks \ {t}, Queues(u) PROVE Queues(u)'
  <2>1. PICK k \in 1..Len(lock) : lock[k] = u
    BY <1>6 DEF Queues
  <2>2. k # i
    BY <1>1, <1>6, <2>1
  <2>3. CASE k < i
    <3>1. k \in 1..(Len(lock) - 1)
      BY <1>1, <1>3, <2>3
    <3>2. lock'[k] = u
      BY <1>2, <2>1, <2>3, <3>1
    <3> QED
      BY <1>4, <3>1, <3>2 DEF Queues
  <2>4. CASE k > i
    <3>1. k - 1 \in 1..(Len(lock) - 1) /\ ~(k - 1 < i) /\ (k - 1) + 1 = k
      BY <1>1, <1>3, <2>1, <2>4
    <3>2. lock'[k - 1] = u
      BY <1>2, <2>1, <3>1
    <3> QED
      BY <1>4, <3>1, <3>2 DEF Queues
  <2> QED
    BY <1>1, <1>3, <2>1, <2>2, <2>3, <2>4
<1> QED
  BY <1>4, <1>5, <1>6

-----------------------------------------------------------------------------
(* The stop signal.                                                        *)

\* One that holds the queue is in it.
LEMMA HolderQueues ==
  ASSUME StopInv, NEW t \in Tasks, pc[t] \in Awaiting \cup {"locking"}
  PROVE  Queues(t)
  BY DEF StopInv, TypeInv, LockInv, Holds, Queues

\* When a run ends nobody else is past the mutex, unless it only waited there.
LEMMA EndKeepsLock ==
  ASSUME StopInv, NEW t \in Tasks, NEW how, pc[t] \in Awaiting \cup {"locking"}, Ends(t, how),
         UNCHANGED <<pid, current, misdirected>>
  PROVE  StopInv'
<1>1. lock' \in Seq(Tasks) /\ (lock[1] # t => lock' # <<>> /\ lock'[1] = lock[1])
        /\ \A u \in Tasks \ {t} : Queues(u) => Queues(u)'
  BY HolderQueues, QueueShorter DEF StopInv, TypeInv, Ends
<1>2. pc' \in [Tasks -> Points] /\ pc'[t] = "idle" /\ \A u \in Tasks \ {t} : pc'[u] = pc[u]
  BY DEF StopInv, TypeInv, Ends, Points
<1>3. TypeInv'
  BY <1>1, <1>2 DEF StopInv, TypeInv
<1>4. ASSUME NEW u \in Tasks
      PROVE  (pc'[u] \in Awaiting => Holds(u)') /\ (pc'[u] = "locking" => Queues(u)')
  BY <1>1, <1>2 DEF StopInv, LockInv, Holds, Awaiting
<1> QED
  BY <1>3, <1>4 DEF StopInv, LockInv

\* A step of a run that goes on past the mutex.
LEMMA StepKeepsLock ==
  ASSUME StopInv, NEW t \in Tasks, NEW at \in Awaiting, pc[t] \in Awaiting, Step(t, at),
         UNCHANGED <<pid, current>>, ~misdirected'
  PROVE  StopInv'
  BY DEF StopInv, TypeInv, LockInv, Holds, Queues, Step, Points, Awaiting

\* A step that leaves the queue and the tasks where they are.
LEMMA StutterKeepsLock ==
  StopInv /\ UNCHANGED <<pc, lock, pid, current>> /\ ~misdirected' => StopInv'
  BY DEF StopInv, TypeInv, LockInv, Holds, Queues

\* A stop signal is about the pipeline of the run that sends it.
LEMMA OwnStops ==
  ASSUME StopInv, NEW t \in Tasks, pc[t] \in Awaiting, Stops(t)
  PROVE  ~misdirected'
  BY DEF StopInv, LockInv, Holds, Stops

\* Every step keeps the queue: a run is at its head from its start to its end.
LEMMA MutexHeld == Spec => []StopInv
<1>1. Init => StopInv
  BY DEF Init, StopInv, TypeInv, LockInv, Points, Awaiting
<1>2. StopInv /\ [Next]_vars => StopInv'
  <2> SUFFICES ASSUME StopInv, [Next]_vars PROVE StopInv'
    OBVIOUS
  <2>1. ASSUME NEW t \in Tasks, NEW what \in Kinds, Lock(t, what) PROVE StopInv'
    <3>1. /\ lock' \in Seq(Tasks) /\ Queues(t)'
          /\ lock # <<>> => lock' # <<>> /\ lock'[1] = lock[1]
          /\ \A u \in Tasks : Queues(u) => Queues(u)'
      BY <2>1, QueueLonger DEF Lock, StopInv, TypeInv, Queues
    <3>2. pc' \in [Tasks -> Points] /\ pc'[t] = "locking" /\ \A u \in Tasks \ {t} : pc'[u] = pc[u]
      BY <2>1 DEF Lock, StopInv, TypeInv, Points
    <3> QED
      BY <2>1, <3>1, <3>2 DEF Lock, StopInv, TypeInv, LockInv, Holds, Awaiting, remote
  <2>2. ASSUME NEW t \in Tasks, Start(t) PROVE StopInv'
    <3>1. \A u \in Tasks \ {t} : pc[u] \notin Awaiting
      BY <2>2 DEF Start, Acquires, StopInv, LockInv, Holds
    <3>2. lock # <<>> /\ lock[1] = t
      <4>1. Queues(t)
        BY <2>2, HolderQueues DEF Start, Acquires
      <4> QED
        BY <2>2, <4>1 DEF Start, Acquires, Queues, StopInv, TypeInv
    <3> QED
      BY <2>2, <3>1, <3>2 DEF Start, Step, StopInv, TypeInv, LockInv, Holds, Queues, Points, Awaiting
  <2>3. ASSUME NEW t \in Tasks, Started(t) \/ EndedInput(t) \/ Cancel(t) \/ Collect(t) PROVE StopInv'
    <3>1. PICK at \in Awaiting : pc[t] \in Awaiting /\ Step(t, at)
      BY <2>3 DEF Started, EndedInput, Cancel, Collect, Awaiting
    <3> QED
      BY <2>3, <3>1, StepKeepsLock DEF Started, EndedInput, Cancel, Collect, run, remote, StopInv
  <2>4. ASSUME NEW t \in Tasks, CancelSignalled(t) \/ Stop(t) PROVE StopInv'
    <3>1. pc[t] \in Awaiting /\ Stops(t) /\ UNCHANGED <<pid, current>>
      BY <2>4 DEF CancelSignalled, Stop, Awaiting, run
    <3>2. ~misdirected'
      BY <3>1, OwnStops
    <3>3. CASE CancelSignalled(t)
      BY <3>1, <3>2, <3>3, StepKeepsLock DEF CancelSignalled, Awaiting
    <3>4. CASE Stop(t)
      BY <3>1, <3>2, <3>4, StutterKeepsLock DEF Stop, shared
    <3> QED
      BY <2>4, <3>3, <3>4
  <2>5. ASSUME NEW t \in Tasks, ReadMessage(t) \/ ReadForQuery(t) PROVE StopInv'
    <3>1. (\E how : Ends(t, how)) \/ UNCHANGED <<pc, lock>>
      BY <2>5 DEF ReadMessage, ReadForQuery, ReadsOn
    <3>2. pc[t] \in Awaiting /\ UNCHANGED <<pid, current, misdirected>>
      BY <2>5 DEF ReadMessage, ReadForQuery, Awaiting
    <3> QED
      BY <3>1, <3>2, EndKeepsLock, StutterKeepsLock DEF StopInv
  <2>6. ASSUME NEW t \in Tasks, CommandGone(t) \/ Fails(t) PROVE StopInv'
    <3>1. (\E how : Ends(t, how)) /\ pc[t] \in Awaiting /\ UNCHANGED <<pid, current, misdirected>>
      BY <2>6 DEF CommandGone, Fails, Awaiting, remote
    <3> QED
      BY <3>1, EndKeepsLock
  <2>7. ASSUME NEW t \in Tasks, NEW is_out \in BOOLEAN, Dropped(t, is_out) PROVE StopInv'
    BY <2>7, EndKeepsLock DEF Dropped
  <2>8. ASSUME NEW t \in Tasks, CloseLast(t) \/ CloseRefused(t) \/ RefusedHandleDrops(t) PROVE StopInv'
    <3>1. /\ \E at \in {"gone", "refused"} : pc' = [pc EXCEPT ![t] = at]
          /\ UNCHANGED <<lock, pid, current, misdirected>>
      BY <2>8 DEF CloseLast, CloseRefused, RefusedHandleDrops, run, remote, shared
    <3> QED
      BY <3>1 DEF StopInv, TypeInv, LockInv, Holds, Queues, Points, Awaiting
  <2>9. ASSUME NEW t \in Tasks, Token(t) PROVE StopInv'
    BY <2>9, StutterKeepsLock DEF Token, shared, remote, StopInv
  <2>10. CASE ServerSpeaks \/ \E p \in Pids : ServerStops(p)
    <3>1. UNCHANGED <<pc, lock, pid, current, misdirected>>
      BY <2>10 DEF ServerSpeaks, ServerStops, Outputs, Finishes, SaysOther, shared, run
    <3> QED
      BY <3>1, StutterKeepsLock DEF StopInv
  <2>11. CASE UNCHANGED vars
    BY <2>11, StutterKeepsLock DEF vars, shared, run, remote, StopInv
  <2> QED
    BY <2>1, <2>2, <2>3, <2>4, <2>5, <2>6, <2>7, <2>8, <2>9, <2>10, <2>11 DEF Next, Polled
<1> QED
  BY <1>1, <1>2, PTL DEF Spec

\* A stop signal, which names no pipeline, stops the caller's own: runs hold the
\* mutex to their end (SharedRunspacePool).
THEOREM StopsAreOwn == Spec => []StopIsOwn
<1>1. StopInv => StopIsOwn
  BY DEF StopInv, StopIsOwn
<1> QED
  BY <1>1, MutexHeld, PTL

-----------------------------------------------------------------------------
(* What a run, the messages and the server agree on.                       *)

\* What a message says: a value, or the end of its pipeline.
IsOutput(m) == m.kind = "Output"
IsEnd(m)    == m.kind = "State" /\ m.arg \in Terminal

\* All the server says.
Said ==
  {Msg(p, "Output", <<p, n>>) : p \in Pids, n \in Nat}
    \cup {Msg(p, "State", s) : p \in Pids \cup {0}, s \in Terminal \cup {"Stopping", "Broken"}}
    \cup {Msg(p, "Bad", None) : p \in Pids}

\* A pipeline that was not started is not on the server, and output nothing.
ServerInv ==
  /\ current \in 0..MaxRuns /\ DOMAIN server = Pids /\ made \in [Pids -> Nat]
  /\ \A p \in Pids : /\ p > current => server[p] = "NotStarted"
                     /\ server[p] = "NotStarted" => made[p] = 0

\* What waits to be read: each pipeline's values are numbered as they were output, none
\* comes after its end, and an end is only said of a pipeline that ended.
QueueInv ==
  /\ messages \in Seq(Said)
  /\ \A i \in 1..Len(messages) :
       LET m == messages[i]
       IN  /\ IsEnd(m) => m.pid \in Pids /\ server[m.pid] \in Terminal
           /\ IsOutput(m) => /\ m.pid \in Pids /\ m.arg = <<m.pid, m.arg[2]>>
                             /\ m.arg[2] \in 1..made[m.pid]
  /\ \A i, j \in 1..Len(messages) :
       i < j /\ messages[i].pid = messages[j].pid /\ IsOutput(messages[j]) =>
         /\ ~IsEnd(messages[i])
         /\ IsOutput(messages[i]) => messages[i].arg[2] < messages[j].arg[2]

\* A run that said how its pipeline ended.
EndsWell(t) == kind[t] # "query" /\ outcome[t] \notin {"none", "error", "dropped"}

\* A run past the mutex has a pipeline, and none of an earlier run's outcome or output
\* is left; one that said its pipeline ended has one that did.
TaskInv ==
  /\ DOMAIN kind = Tasks /\ DOMAIN outcome = Tasks /\ DOMAIN output = Tasks /\ DOMAIN pid = Tasks
  /\ \A t \in Tasks :
       /\ pc[t] \in Awaiting => pid[t] \in Pids
       /\ pc[t] = "starting" => server[pid[t]] = "NotStarted"
       /\ pc[t] \in Awaiting \cup {"locking"} => outcome[t] = "none"
       /\ pc[t] = "locking" => output[t] = <<>>
       /\ EndsWell(t) => pid[t] \in Pids /\ server[pid[t]] \in Terminal
  /\ ResultIsOwn

\* The result so far is the pipeline's first values, and every later one waits to be read.
Reads(t) ==
  /\ output[t] = [i \in 1..Len(output[t]) |-> <<pid[t], i>>] /\ Len(output[t]) \in Nat
  /\ Len(output[t]) <= made[pid[t]]
  /\ \A i \in 1..Len(messages) :
       IsOutput(messages[i]) /\ messages[i].pid = pid[t] => messages[i].arg[2] > Len(output[t])
  /\ \A n \in (Len(output[t]) + 1)..made[pid[t]] : \E i \in 1..Len(messages) :
       IsOutput(messages[i]) /\ messages[i].pid = pid[t] /\ messages[i].arg[2] = n

\* ... which every run that is not a query keeps true while it holds the mutex.
ReadInv == \A t \in Tasks : (pc[t] \in Awaiting /\ kind[t] # "query") => Reads(t)

RunInv == ServerInv /\ QueueInv /\ TaskInv /\ ReadInv

\* What a step may do to the states of the pipelines: an ended one stays ended, and only
\* CreatePipeline starts one.
EndsStay == \A p \in Pids : server[p] \in Terminal => server'[p] = server[p]
ServerMoves ==
  /\ DOMAIN server' = Pids /\ EndsStay
  /\ \A p \in Pids : (server'[p] = "NotStarted") <=> (server[p] = "NotStarted")

-----------------------------------------------------------------------------
(* The messages.                                                           *)

\* What is left when the first message is taken.
LEMMA Taken ==
  ASSUME messages \in Seq(Said), messages # <<>>, messages' = Tail(messages)
  PROVE  /\ messages' \in Seq(Said) /\ Len(messages) \in Nat \ {0}
         /\ Len(messages') = Len(messages) - 1
         /\ \A i \in 1..Len(messages') : i + 1 \in 1..Len(messages) /\ messages'[i] = messages[i + 1]
  OBVIOUS

\* What is there when one more is said.
LEMMA Added ==
  ASSUME messages \in Seq(Said), NEW m \in Said, messages' = Append(messages, m)
  PROVE  /\ messages' \in Seq(Said) /\ Len(messages') = Len(messages) + 1 /\ Len(messages) \in Nat
         /\ \A i \in 1..Len(messages) : i \in 1..Len(messages') /\ messages'[i] = messages[i]
         /\ messages'[Len(messages) + 1] = m
  OBVIOUS

\* Taking a message keeps the order of the others.
LEMMA QueueTaken ==
  ASSUME QueueInv, messages # <<>>, messages' = Tail(messages), UNCHANGED <<server, made>>
  PROVE  QueueInv'
<1>1. /\ messages' \in Seq(Said) /\ Len(messages) \in Nat \ {0}
      /\ Len(messages') = Len(messages) - 1
      /\ \A i \in 1..Len(messages') : i + 1 \in 1..Len(messages) /\ messages'[i] = messages[i + 1]
  BY Taken DEF QueueInv
<1>2. \A i, j \in 1..Len(messages') : i < j => i + 1 < j + 1
  BY <1>1
<1> QED
  BY <1>1, <1>2 DEF QueueInv

\* So does a step that leaves the messages.
LEMMA QueueStays ==
  ASSUME QueueInv, EndsStay, UNCHANGED <<messages, made>>
  PROVE  QueueInv'
  BY DEF QueueInv, EndsStay

\* And one more message: a value is numbered after all the others of its pipeline.
LEMMA QueueAdded ==
  ASSUME QueueInv, ServerInv, ServerMoves, NEW m \in Said, messages' = Append(messages, m),
         made' \in [Pids -> Nat], \A p \in Pids : made'[p] >= made[p],
         IsEnd(m) => m.pid \in Pids /\ server'[m.pid] \in Terminal,
         IsOutput(m) => /\ m.pid \in Pids /\ m.arg = <<m.pid, m.arg[2]>>
                        /\ m.arg[2] = made[m.pid] + 1 /\ made'[m.pid] = m.arg[2]
                        /\ server[m.pid] \notin Terminal
  PROVE  QueueInv'
<1>1. /\ messages' \in Seq(Said) /\ Len(messages') = Len(messages) + 1 /\ Len(messages) \in Nat
      /\ \A i \in 1..Len(messages) : i \in 1..Len(messages') /\ messages'[i] = messages[i]
      /\ messages'[Len(messages) + 1] = m
  BY Added DEF QueueInv
<1>2. \A i \in 1..Len(messages') : i \in 1..Len(messages) \/ i = Len(messages) + 1
  BY <1>1
<1>3. \A p \in Pids : made[p] \in Nat /\ made'[p] \in Nat /\ made'[p] >= made[p]
  BY DEF ServerInv
<1>4. ASSUME NEW i \in 1..Len(messages')
      PROVE  LET n == messages'[i]
             IN  /\ IsEnd(n) => n.pid \in Pids /\ server'[n.pid] \in Terminal
                 /\ IsOutput(n) => /\ n.pid \in Pids /\ n.arg = <<n.pid, n.arg[2]>>
                                   /\ n.arg[2] \in 1..made'[n.pid]
  <2>1. CASE i \in 1..Len(messages)
    BY <1>1, <1>3, <2>1 DEF QueueInv, ServerMoves, EndsStay
  <2>2. CASE i = Len(messages) + 1
    BY <1>1, <1>3, <2>2
  <2> QED
    BY <1>2, <2>1, <2>2
<1>5. ASSUME NEW i \in 1..Len(messages'), NEW j \in 1..Len(messages'), i < j,
             messages'[i].pid = messages'[j].pid, IsOutput(messages'[j])
      PROVE  /\ ~IsEnd(messages'[i])
             /\ IsOutput(messages'[i]) => messages'[i].arg[2] < messages'[j].arg[2]
  <2>1. i \in 1..Len(messages) /\ messages'[i] = messages[i]
    BY <1>1, <1>5
  <2>2. CASE j \in 1..Len(messages)
    BY <1>1, <1>5, <2>1, <2>2 DEF QueueInv
  <2>3. CASE j = Len(messages) + 1
    BY <1>1, <1>3, <1>5, <2>1, <2>3 DEF QueueInv
  <2> QED
    BY <1>2, <2>2, <2>3
<1> QED
  BY <1>1, <1>4, <1>5 DEF QueueInv, IsOutput, IsEnd, Terminal

-----------------------------------------------------------------------------
(* The results.                                                            *)

\* Who is past the mutex is alone there.
LEMMA Alone ==
  ASSUME StopInv, NEW t \in Tasks, NEW u \in Tasks, pc[t] \in Awaiting, pc[u] \in Awaiting
  PROVE  t = u /\ pid[t] = current
  BY DEF StopInv, LockInv, Holds

\* Who takes the mutex finds nobody past it.
LEMMA FirstStarts ==
  ASSUME StopInv, NEW t \in Tasks, Acquires(t), NEW u \in Tasks
  PROVE  pc[u] \notin Awaiting
  BY HolderQueues DEF Acquires, StopInv, LockInv, TypeInv, Holds, Awaiting, Queues

\* A step of the tasks and the server that moves no output.
\* A result stays right where its pipeline's messages and values do.
LEMMA ReadsStill ==
  ASSUME UNCHANGED <<messages, pid, output, made>>, NEW t \in Tasks
  PROVE  Reads(t)' <=> Reads(t)
  BY DEF Reads

\* A run whose pipeline ended stays as it is.
LEMMA EndsStill ==
  ASSUME TaskInv, ServerMoves, UNCHANGED <<pid, kind, output, outcome, made>>
  PROVE  /\ DOMAIN kind' = Tasks /\ DOMAIN outcome' = Tasks /\ DOMAIN output' = Tasks
         /\ DOMAIN pid' = Tasks /\ ResultIsOwn'
         /\ \A t \in Tasks :
              /\ pid'[t] = pid[t] /\ outcome'[t] = outcome[t] /\ output'[t] = output[t]
              /\ pid[t] \in Pids => (server'[pid[t]] = "NotStarted") <=> (server[pid[t]] = "NotStarted")
              /\ EndsWell(t)' => pid[t] \in Pids /\ server'[pid[t]] \in Terminal
<1>1. ResultIsOwn'
  BY DEF TaskInv, ResultIsOwn
<1>2. \A t \in Tasks : EndsWell(t)' => pid[t] \in Pids /\ server'[pid[t]] \in Terminal
  BY DEF TaskInv, EndsWell, ServerMoves, EndsStay
<1> QED
  BY <1>1, <1>2 DEF TaskInv, ServerMoves

LEMMA Onward ==
  ASSUME RunInv, ServerMoves, UNCHANGED <<messages, pid, kind, output, outcome, current, made>>,
         NEW t \in Tasks, NEW at, pc' = [pc EXCEPT ![t] = at], DOMAIN pc = Tasks,
         at # "locking", at = "starting" => pc[t] = "starting", at \in Awaiting => pc[t] \in Awaiting
  PROVE  RunInv'
<1>1. \A u \in Tasks : /\ pc'[u] \in Awaiting => pc[u] \in Awaiting
                       /\ pc'[u] = "starting" => pc[u] = "starting"
                       /\ pc'[u] = "locking" => pc[u] = "locking"
  BY DEF Awaiting
<1>2. ServerInv'
  BY DEF RunInv, ServerInv, ServerMoves
<1>3. QueueInv'
  BY QueueStays DEF RunInv, ServerMoves
<1>4. TaskInv'
  BY <1>1, EndsStill DEF RunInv, TaskInv, Awaiting
<1>5. ReadInv'
  BY <1>1, ReadsStill DEF RunInv, ReadInv
<1> QED
  BY <1>2, <1>3, <1>4, <1>5 DEF RunInv

\* A step of neither a task nor a message.
LEMMA Quiet ==
  ASSUME RunInv, ServerMoves, UNCHANGED <<messages, pc, pid, kind, output, outcome, current, made>>
  PROVE  RunInv'
<1>2. ServerInv'
  BY DEF RunInv, ServerInv, ServerMoves
<1>3. QueueInv'
  BY QueueStays DEF RunInv, ServerMoves
<1>4. TaskInv'
  BY EndsStill DEF RunInv, TaskInv, Awaiting
<1>5. ReadInv'
  BY ReadsStill DEF RunInv, ReadInv
<1> QED
  BY <1>2, <1>3, <1>4, <1>5 DEF RunInv

\* A run that ends, with its pipeline ended or not well.
LEMMA Ended ==
  ASSUME RunInv, StopInv, UNCHANGED <<pid, kind, output, current, made>>, NEW t \in Tasks, NEW how,
         Ends(t, how),
         \/ ServerMoves \/ UNCHANGED server
         \/ pc[t] = "starting" /\ server' = [server EXCEPT ![pid[t]] = "Running"],
         UNCHANGED messages \/ (messages # <<>> /\ messages' = Tail(messages) /\ UNCHANGED server),
         pc[t] \in Awaiting \cup {"locking"}, pc[t] = "locking" => UNCHANGED messages,
         (kind[t] # "query" /\ how \notin {"none", "error", "dropped"}) =>
            /\ pid[t] \in Pids /\ server'[pid[t]] \in Terminal
            /\ how = "Completed" => output[t] = [i \in 1..made[pid[t]] |-> <<pid[t], i>>]
  PROVE  RunInv'
<1>0. /\ DOMAIN server' = Pids /\ EndsStay
      /\ \A p \in Pids : /\ p > current => server'[p] = "NotStarted"
                         /\ server'[p] = "NotStarted" => server[p] = "NotStarted"
      /\ \A u \in Tasks \ {t} : pc[u] = "starting" => server'[pid[u]] = "NotStarted"
  <2>1. CASE ServerMoves \/ UNCHANGED server
    <3>1. ServerMoves
      BY <2>1 DEF ServerMoves, EndsStay, RunInv, ServerInv
    <3> QED
      BY <3>1 DEF ServerMoves, RunInv, ServerInv, TaskInv, Awaiting
  <2>2. CASE pc[t] = "starting" /\ server' = [server EXCEPT ![pid[t]] = "Running"]
    <3>1. pid[t] \in Pids /\ pid[t] = current /\ server[pid[t]] = "NotStarted" /\ DOMAIN server = Pids
      BY <2>2, Alone DEF RunInv, TaskInv, ServerInv, Awaiting
    <3>2. \A u \in Tasks \ {t} : pc[u] # "starting"
      BY <2>2, Alone DEF Awaiting
    <3>3. DOMAIN server' = Pids /\ server'[pid[t]] = "Running" /\ \A p \in Pids \ {pid[t]} : server'[p] = server[p]
      BY <2>2, <3>1
    <3>4. EndsStay
      BY <3>1, <3>3 DEF EndsStay, Terminal
    <3> QED
      BY <3>1, <3>2, <3>3, <3>4 DEF RunInv, ServerInv
  <2> QED
    BY <2>1, <2>2
<1>1. \A u \in Tasks : pc'[u] = IF u = t THEN "idle" ELSE pc[u]
  BY DEF Ends, StopInv, TypeInv
<1>2. \A u \in Tasks : outcome'[u] = IF u = t THEN how ELSE outcome[u]
  BY DEF Ends, RunInv, TaskInv
<1>3. ServerInv'
  BY <1>0 DEF RunInv, ServerInv
<1>4. QueueInv'
  BY <1>0, QueueStays, QueueTaken DEF RunInv
<1>5. TaskInv'
  <2>1. DOMAIN kind' = Tasks /\ DOMAIN outcome' = Tasks /\ DOMAIN output' = Tasks /\ DOMAIN pid' = Tasks
    BY DEF RunInv, TaskInv, Ends
  <2>2. ASSUME NEW u \in Tasks, u # t
        PROVE  /\ pc'[u] = pc[u] /\ outcome'[u] = outcome[u] /\ EndsWell(u)' = EndsWell(u)
    BY <1>1, <1>2, <2>2 DEF EndsWell
  <2>3. ASSUME NEW u \in Tasks
        PROVE  /\ pc'[u] \in Awaiting => pid'[u] \in Pids
               /\ pc'[u] = "starting" => server'[pid'[u]] = "NotStarted"
               /\ pc'[u] \in Awaiting \cup {"locking"} => outcome'[u] = "none"
               /\ pc'[u] = "locking" => output'[u] = <<>>
               /\ EndsWell(u)' => pid'[u] \in Pids /\ server'[pid'[u]] \in Terminal
    <3>1. CASE u = t
      BY <1>1, <1>2, <3>1 DEF EndsWell, Awaiting
    <3>2. CASE u # t
      BY <1>0, <2>2, <3>2 DEF RunInv, TaskInv, EndsStay, Awaiting
    <3> QED
      BY <3>1, <3>2
  <2>4. ResultIsOwn'
    BY <1>1, <1>2 DEF RunInv, TaskInv, ResultIsOwn
  <2> QED
    BY <2>1, <2>3, <2>4 DEF TaskInv
<1>6. ReadInv'
  <2> SUFFICES ASSUME NEW u \in Tasks, pc'[u] \in Awaiting, kind[u] # "query" PROVE Reads(u)'
    BY DEF ReadInv
  <2>1. u # t /\ pc[u] \in Awaiting
    BY <1>1 DEF Awaiting
  <2>2. pc[t] \notin Awaiting
    BY <2>1, Alone
  <2>3. UNCHANGED messages
    BY <2>2
  <2> QED
    BY <2>1, <2>3, ReadsStill DEF RunInv, ReadInv
<1> QED
  BY <1>3, <1>4, <1>5, <1>6 DEF RunInv

\* The server lets a pipeline that is being sent run.
LEMMA Runs ==
  ASSUME RunInv, StopInv, UNCHANGED <<messages, pid, kind, output, outcome, current, made>>,
         NEW t \in Tasks, pc[t] = "starting", NEW at \in Awaiting \ {"starting"}, pc' = [pc EXCEPT ![t] = at],
         server' = [server EXCEPT ![pid[t]] = "Running"]
  PROVE  RunInv'
<1>1. pid[t] \in Pids /\ pid[t] = current /\ server[pid[t]] = "NotStarted" /\ DOMAIN server = Pids
  BY Alone DEF RunInv, TaskInv, ServerInv, Awaiting
<1>2. /\ DOMAIN server' = Pids /\ server'[pid[t]] = "Running"
      /\ \A p \in Pids \ {pid[t]} : server'[p] = server[p]
  BY <1>1
<1>3. \A u \in Tasks : pc'[u] = IF u = t THEN at ELSE pc[u]
  BY DEF StopInv, TypeInv
<1>4. \A u \in Tasks \ {t} : pc[u] \notin Awaiting
  BY Alone DEF Awaiting
<1>5. \A p \in Pids : server[p] \in Terminal => server'[p] = server[p]
  BY <1>1, <1>2 DEF Terminal
<1>6. ServerInv'
  BY <1>1, <1>2 DEF RunInv, ServerInv
<1>7. QueueInv'
  BY <1>5 DEF RunInv, QueueInv
<1>8. TaskInv'
  <2>1. ResultIsOwn'
    BY DEF RunInv, TaskInv, ResultIsOwn
  <2>2. \A u \in Tasks : EndsWell(u)' => pid[u] \in Pids /\ server'[pid[u]] \in Terminal
    BY <1>5 DEF RunInv, TaskInv, EndsWell
  <2> QED
    BY <1>3, <1>4, <2>1, <2>2 DEF RunInv, TaskInv, Awaiting
<1>9. ReadInv'
  BY <1>3, <1>4, ReadsStill DEF RunInv, ReadInv, Awaiting
<1> QED
  BY <1>6, <1>7, <1>8, <1>9 DEF RunInv

\* A stop signal leaves an ended pipeline ended.
LEMMA StopMoves ==
  ASSUME ServerInv, NEW t \in Tasks, Stops(t)
  PROVE  ServerMoves
  BY DEF ServerInv, Stops, ServerMoves, EndsStay, Terminal

\* The server ends a pipeline of its own accord, or stops it.
LEMMA EndMoves ==
  ASSUME ServerInv, NEW p \in Pids, NEW s \in Terminal, server[p] \in {"Running", "Stopping"},
         server' = [server EXCEPT ![p] = s]
  PROVE  ServerMoves /\ server'[p] = s
  BY DEF ServerInv, ServerMoves, EndsStay, Terminal

\* The fields of a message.
LEMMA MessageIs ==
  ASSUME NEW p, NEW what, NEW arg
  PROVE  LET m == Msg(p, what, arg) IN m.pid = p /\ m.kind = what /\ m.arg = arg
  BY DEF Msg

\* The server says something that is not output.
LEMMA Speaks ==
  ASSUME RunInv, ServerMoves, NEW m \in Said, Says(m), ~IsOutput(m),
         IsEnd(m) => m.pid \in Pids /\ server'[m.pid] \in Terminal,
         UNCHANGED <<pc, pid, kind, output, outcome, current, made>>
  PROVE  RunInv'
<1>1. ServerInv'
  BY DEF RunInv, ServerInv, ServerMoves
<1>2. QueueInv'
  <2>1. made' \in [Pids -> Nat] /\ \A p \in Pids : made'[p] >= made[p]
    BY DEF RunInv, ServerInv
  <2> QED
    BY <2>1, QueueAdded DEF RunInv, Says
<1>3. TaskInv'
  BY EndsStill DEF RunInv, TaskInv, Awaiting
<1>4. ReadInv'
  <2> SUFFICES ASSUME NEW u \in Tasks, pc[u] \in Awaiting, kind[u] # "query" PROVE Reads(u)'
    BY DEF ReadInv
  <2>1. Reads(u)
    BY DEF RunInv, ReadInv
  <2>2. /\ Len(messages') = Len(messages) + 1 /\ Len(messages) \in Nat
        /\ \A i \in 1..Len(messages) : i \in 1..Len(messages') /\ messages'[i] = messages[i]
        /\ messages'[Len(messages) + 1] = m
    BY Added DEF Says, RunInv, QueueInv
  <2>3. \A i \in 1..Len(messages') : i \in 1..Len(messages) \/ i = Len(messages) + 1
    BY <2>2
  <2>4. ASSUME NEW i \in 1..Len(messages'), IsOutput(messages'[i]), messages'[i].pid = pid[u]
        PROVE  messages'[i].arg[2] > Len(output[u])
    BY <2>1, <2>2, <2>3, <2>4 DEF Reads
  <2>5. ASSUME NEW k \in (Len(output[u]) + 1)..made[pid[u]]
        PROVE  \E i \in 1..Len(messages') :
                 IsOutput(messages'[i]) /\ messages'[i].pid = pid[u] /\ messages'[i].arg[2] = k
    <3>1. PICK i \in 1..Len(messages) :
            IsOutput(messages[i]) /\ messages[i].pid = pid[u] /\ messages[i].arg[2] = k
      BY <2>1 DEF Reads
    <3> QED
      BY <2>2, <3>1
  <2>6. output' = output /\ pid' = pid /\ made' = made
    OBVIOUS
  <2> QED
    BY <2>1, <2>4, <2>5, <2>6 DEF Reads
<1> QED
  BY <1>1, <1>2, <1>3, <1>4 DEF RunInv

\* A pipeline outputs its next value.
LEMMA OutputComes ==
  ASSUME RunInv, NEW p \in Pids, Outputs(p)
  PROVE  RunInv'
<1> DEFINE n == made[p] + 1
           m == Msg(p, "Output", <<p, n>>)
<1>1. /\ UNCHANGED <<pc, pid, kind, output, outcome, current, server>> /\ messages' = Append(messages, m)
      /\ made' = [made EXCEPT ![p] = n] /\ server[p] \in {"Running", "Stopping"}
  BY DEF Outputs, Says, run
<1>2. n \in Nat \ {0} /\ made[p] \in Nat /\ m \in Said
  BY DEF RunInv, ServerInv, Said
<1>3. /\ made' \in [Pids -> Nat] /\ made'[p] = n /\ (\A q \in Pids \ {p} : made'[q] = made[q])
      /\ \A q \in Pids : made'[q] >= made[q]
  BY <1>1, <1>2 DEF RunInv, ServerInv
<1>4. m.pid = p /\ m.arg = <<p, n>> /\ m.arg[2] = n /\ IsOutput(m) /\ ~IsEnd(m)
  BY MessageIs DEF IsOutput, IsEnd
<1> HIDE DEF m
<1>5. server[p] \notin Terminal /\ server[p] # "NotStarted"
  BY <1>1 DEF Terminal
<1>6. ServerMoves
  BY <1>1 DEF ServerMoves, EndsStay, RunInv, ServerInv
<1>7. ServerInv'
  BY <1>1, <1>3, <1>5 DEF RunInv, ServerInv
<1>8. QueueInv'
  BY <1>1, <1>2, <1>3, <1>4, <1>5, <1>6, QueueAdded DEF RunInv
<1>9. TaskInv'
  <2>1. ASSUME NEW u \in Tasks, kind[u] # "query", outcome[u] = "Completed"
        PROVE  output[u] = [i \in 1..made'[pid[u]] |-> <<pid[u], i>>]
    <3>1. pid[u] \in Pids \ {p}
      BY <1>5, <2>1 DEF RunInv, TaskInv, EndsWell
    <3>2. ResultIsOwn
      BY DEF RunInv, TaskInv
    <3>3. output[u] = [i \in 1..made[pid[u]] |-> <<pid[u], i>>]
      BY <2>1, <3>2, Zenon DEF ResultIsOwn
    <3>4. made'[pid[u]] = made[pid[u]]
      BY <1>3, <3>1
    <3> QED
      BY <3>3, <3>4
  <2>2. ResultIsOwn'
    BY <1>1, <2>1 DEF ResultIsOwn
  <2>3. \A u \in Tasks : EndsWell(u)' <=> EndsWell(u)
    BY <1>1 DEF EndsWell
  <2> QED
    BY <1>1, <2>2, <2>3 DEF RunInv, TaskInv
<1>10. ReadInv'
  <2> SUFFICES ASSUME NEW u \in Tasks, pc[u] \in Awaiting, kind[u] # "query" PROVE Reads(u)'
    BY <1>1 DEF ReadInv
  <2>1. Reads(u) /\ pid[u] \in Pids
    BY DEF RunInv, ReadInv, TaskInv
  <2>2. /\ Len(messages') = Len(messages) + 1 /\ Len(messages) \in Nat
        /\ \A i \in 1..Len(messages) : i \in 1..Len(messages') /\ messages'[i] = messages[i]
        /\ messages'[Len(messages) + 1] = m
    BY <1>1, <1>2, Added DEF RunInv, QueueInv
  <2>3. \A i \in 1..Len(messages') : i \in 1..Len(messages) \/ i = Len(messages) + 1
    BY <2>2
  <2>4. made'[pid[u]] >= made[pid[u]] /\ made'[pid[u]] \in Nat /\ made[pid[u]] \in Nat
    BY <1>3, <2>1 DEF RunInv, ServerInv
  <2>5. ASSUME NEW i \in 1..Len(messages'), IsOutput(messages'[i]), messages'[i].pid = pid[u]
        PROVE  messages'[i].arg[2] > Len(output[u])
    BY <1>2, <1>4, <2>1, <2>2, <2>3, <2>5 DEF Reads
  <2>6. ASSUME NEW k \in (Len(output[u]) + 1)..made'[pid[u]]
        PROVE  \E i \in 1..Len(messages') :
                 IsOutput(messages'[i]) /\ messages'[i].pid = pid[u] /\ messages'[i].arg[2] = k
    <3>1. CASE k \in (Len(output[u]) + 1)..made[pid[u]]
      <4>1. PICK i \in 1..Len(messages) :
              IsOutput(messages[i]) /\ messages[i].pid = pid[u] /\ messages[i].arg[2] = k
        BY <2>1, <3>1 DEF Reads
      <4> QED
        BY <2>2, <4>1
    <3>2. CASE k \notin (Len(output[u]) + 1)..made[pid[u]]
      <4>1. pid[u] = p /\ k = n
        BY <1>2, <1>3, <2>1, <2>4, <2>6, <3>2 DEF Reads
      <4>2. Len(messages) + 1 \in 1..Len(messages')
        BY <2>2
      <4> QED
        BY <1>4, <2>2, <4>1, <4>2
    <3> QED
      BY <3>1, <3>2
  <2>7. /\ output[u] = [i \in 1..Len(output[u]) |-> <<pid[u], i>>] /\ Len(output[u]) \in Nat
        /\ Len(output[u]) <= made'[pid[u]]
    BY <2>1, <2>4 DEF Reads
  <2>8. output'[u] = output[u] /\ pid'[u] = pid[u]
    BY <1>1
  <2> QED
    BY <2>5, <2>6, <2>7, <2>8 DEF Reads
<1> QED
  BY <1>7, <1>8, <1>9, <1>10 DEF RunInv

\* The values of a pipeline, and one more.
LEMMA OneMore ==
  ASSUME NEW p, NEW n \in Nat, NEW s, s = [i \in 1..n |-> <<p, i>>]
  PROVE  /\ Append(s, <<p, n + 1>>) = [i \in 1..(n + 1) |-> <<p, i>>]
         /\ Len([i \in 1..(n + 1) |-> <<p, i>>]) = n + 1
<1> DEFINE V == {<<p, i>> : i \in Nat}
<1>1. s \in Seq(V) /\ Len(s) = n /\ <<p, n + 1>> \in V
  OBVIOUS
<1> HIDE DEF V
<1>2. Append(s, <<p, n + 1>>) \in Seq(V) /\ Len(Append(s, <<p, n + 1>>)) = n + 1
  BY <1>1
<1>3. \A i \in 1..(n + 1) : Append(s, <<p, n + 1>>)[i] = <<p, i>>
  BY <1>1
<1>4. DOMAIN Append(s, <<p, n + 1>>) = 1..(n + 1)
  BY <1>2
<1>5. Append(s, <<p, n + 1>>) = [i \in 1..(n + 1) |-> <<p, i>>]
  BY <1>2, <1>3, <1>4
<1> QED
  BY <1>2, <1>5

\* The next message of the run's own pipeline is the next value it output.
LEMMA NextOutput ==
  ASSUME RunInv, StopInv, NEW t \in Tasks, pc[t] \in Awaiting, kind[t] # "query", messages # <<>>,
         Own(t, Head(messages)), IsOutput(Head(messages))
  PROVE  Head(messages).arg = <<pid[t], Len(output[t]) + 1>> /\ Len(output[t]) + 1 <= made[pid[t]]
<1> DEFINE m == messages[1]
           n == Len(output[t])
           p == pid[t]
<1>1. Head(messages) = m /\ 1 \in 1..Len(messages) /\ Len(messages) \in Nat
  BY DEF RunInv, QueueInv
<1>2. Reads(t) /\ p \in Pids /\ made[p] \in Nat
  BY DEF RunInv, ReadInv, TaskInv, ServerInv
<1>3. m.arg = <<p, m.arg[2]>> /\ m.arg[2] \in 1..made[p] /\ m.pid = p /\ IsOutput(m)
  BY <1>1 DEF RunInv, QueueInv, Own
<1>4. m.arg[2] > n /\ n \in Nat
  BY <1>1, <1>2, <1>3 DEF Reads
<1>5. n + 1 \in (n + 1)..made[p]
  BY <1>2, <1>3, <1>4
<1>6. PICK i \in 1..Len(messages) :
        IsOutput(messages[i]) /\ messages[i].pid = p /\ messages[i].arg[2] = n + 1
  BY <1>2, <1>5 DEF Reads
<1>7. i # 1 => m.arg[2] < n + 1
  BY <1>1, <1>3, <1>6 DEF RunInv, QueueInv
<1>8. m.arg[2] = n + 1
  BY <1>1, <1>3, <1>4, <1>6, <1>7
<1> QED
  BY <1>1, <1>3, <1>5, <1>8, <1>2, <1>4

\* Its end comes after all of them.
LEMMA EndIsLast ==
  ASSUME RunInv, StopInv, NEW t \in Tasks, pc[t] \in Awaiting, kind[t] # "query", messages # <<>>,
         Own(t, Head(messages)), IsEnd(Head(messages))
  PROVE  /\ pid[t] \in Pids /\ server[pid[t]] \in Terminal
         /\ output[t] = [i \in 1..made[pid[t]] |-> <<pid[t], i>>]
<1> DEFINE m == messages[1]
           n == Len(output[t])
           p == pid[t]
<1>1. Head(messages) = m /\ 1 \in 1..Len(messages) /\ Len(messages) \in Nat
  BY DEF RunInv, QueueInv
<1>2. Reads(t) /\ p \in Pids /\ made[p] \in Nat
  BY DEF RunInv, ReadInv, TaskInv, ServerInv
<1>3. m.pid = p /\ IsEnd(m) /\ ~IsOutput(m) /\ server[p] \in Terminal
  BY <1>1 DEF RunInv, QueueInv, Own, IsEnd, IsOutput
<1>4. n \in Nat /\ n <= made[p]
  BY <1>2 DEF Reads
<1>5. ~ n < made[p]
  <2> SUFFICES ASSUME n < made[p] PROVE FALSE
    OBVIOUS
  <2>1. n + 1 \in (n + 1)..made[p]
    BY <1>2, <1>4
  <2>2. PICK i \in 1..Len(messages) : IsOutput(messages[i]) /\ messages[i].pid = p
    BY <1>2, <2>1 DEF Reads
  <2>3. 1 < i
    BY <1>3, <2>2
  <2> QED
    BY <1>1, <1>3, <2>2, <2>3 DEF RunInv, QueueInv
<1>6. n = made[p]
  BY <1>2, <1>4, <1>5
<1> QED
  BY <1>2, <1>3, <1>6 DEF Reads

\* The read loop reads on: the value is added to the result, or the message was of
\* no output of this pipeline.
LEMMA ReadOn ==
  ASSUME RunInv, StopInv, NEW t \in Tasks, pc[t] \in Awaiting \ {"starting"}, messages # <<>>,
         messages' = Tail(messages),
         UNCHANGED <<pc, pid, kind, outcome, current, server, made>>, DOMAIN output' = Tasks,
         \A u \in Tasks \ {t} : output'[u] = output[u],
         kind[t] # "query" =>
           IF Own(t, Head(messages)) /\ IsOutput(Head(messages))
           THEN output'[t] = Append(output[t], Head(messages).arg) ELSE output'[t] = output[t]
  PROVE  RunInv'
<1>1. ServerInv' /\ QueueInv'
  BY QueueTaken DEF RunInv, ServerInv
<1>2. outcome[t] = "none" /\ pc[t] # "locking"
  BY DEF RunInv, TaskInv, Awaiting
<1>3. TaskInv'
  <2>1. ResultIsOwn'
    BY <1>2 DEF RunInv, TaskInv, ResultIsOwn
  <2>2. \A u \in Tasks : EndsWell(u)' <=> EndsWell(u)
    BY DEF EndsWell
  <2> QED
    BY <1>2, <2>1, <2>2 DEF RunInv, TaskInv
<1>4. ReadInv'
  <2> SUFFICES ASSUME NEW u \in Tasks, pc[u] \in Awaiting, kind[u] # "query" PROVE Reads(u)'
    BY DEF ReadInv
  <2>1. u = t
    BY Alone
  <2> DEFINE n == Len(output[t])
             p == pid[t]
             h == Head(messages)
  <2>2. Reads(t) /\ p \in Pids /\ made[p] \in Nat
    BY <2>1 DEF RunInv, ReadInv, TaskInv, ServerInv
  <2>3. /\ Len(messages) \in Nat \ {0} /\ Len(messages') = Len(messages) - 1 /\ h = messages[1]
        /\ \A i \in 1..Len(messages') : i + 1 \in 1..Len(messages) /\ messages'[i] = messages[i + 1]
    BY Taken DEF RunInv, QueueInv
  <2>4. n \in Nat /\ n <= made[p] /\ output[t] = [i \in 1..n |-> <<p, i>>]
    BY <2>2 DEF Reads
  <2>5. \A i \in 1..Len(messages) : i = 1 \/ (i - 1 \in 1..Len(messages') /\ messages'[i - 1] = messages[i])
    BY <2>3
  <2>6. CASE Own(t, h) /\ IsOutput(h)
    <3>1. h.arg = <<p, n + 1>> /\ n + 1 <= made[p] /\ h.arg[2] = n + 1
      BY <2>1, <2>6, NextOutput
    <3>2. output'[t] = Append(output[t], <<p, n + 1>>)
      BY <2>1, <2>6, <3>1
    <3>3. output'[t] = [i \in 1..(n + 1) |-> <<p, i>>] /\ Len(output'[t]) = n + 1
      <4>1. \A q, k, s : k \in Nat /\ s = [i \in 1..k |-> <<q, i>>] =>
              /\ Append(s, <<q, k + 1>>) = [i \in 1..(k + 1) |-> <<q, i>>]
              /\ Len([i \in 1..(k + 1) |-> <<q, i>>]) = k + 1
        BY OneMore
      <4>2. n \in Nat /\ output[t] = [i \in 1..n |-> <<p, i>>]
        BY <2>4
      <4> HIDE DEF n, p
      <4>3. /\ Append(output[t], <<p, n + 1>>) = [i \in 1..(n + 1) |-> <<p, i>>]
            /\ Len([i \in 1..(n + 1) |-> <<p, i>>]) = n + 1
        BY <4>1, <4>2
      <4> QED
        BY <3>2, <4>3
    <3>4. ASSUME NEW i \in 1..Len(messages'), IsOutput(messages'[i]), messages'[i].pid = p
          PROVE  messages'[i].arg[2] > n + 1
      <4>1. i + 1 \in 1..Len(messages) /\ messages'[i] = messages[i + 1] /\ 1 < i + 1 /\ 1 \in 1..Len(messages)
        BY <2>3
      <4>2. h.arg[2] < messages[i + 1].arg[2]
        BY <2>3, <2>6, <3>4, <4>1 DEF RunInv, QueueInv, Own
      <4>3. messages[i + 1].arg[2] \in 1..made[p]
        BY <3>4, <4>1 DEF RunInv, QueueInv
      <4> QED
        BY <2>2, <2>4, <3>1, <4>1, <4>2, <4>3
    <3>5. ASSUME NEW k \in (n + 2)..made[p]
          PROVE  \E i \in 1..Len(messages') :
                   IsOutput(messages'[i]) /\ messages'[i].pid = p /\ messages'[i].arg[2] = k
      <4>1. k \in (n + 1)..made[p] /\ k # n + 1
        BY <2>2, <2>4
      <4>2. PICK i \in 1..Len(messages) :
              IsOutput(messages[i]) /\ messages[i].pid = p /\ messages[i].arg[2] = k
        BY <2>2, <4>1 DEF Reads
      <4>3. i # 1
        BY <2>3, <3>1, <4>1, <4>2
      <4> QED
        BY <2>5, <4>2, <4>3
    <3>6. n + 1 \in Nat /\ (n + 1) + 1 = n + 2
      BY <2>4
    <3> HIDE DEF n
    <3> QED
      BY <2>1, <3>1, <3>3, <3>4, <3>5, <3>6 DEF Reads
  <2>7. CASE ~(Own(t, h) /\ IsOutput(h))
    <3>1. output'[t] = output[t]
      BY <2>1, <2>7
    <3>2. ASSUME NEW i \in 1..Len(messages'), IsOutput(messages'[i]), messages'[i].pid = p
          PROVE  messages'[i].arg[2] > n
      BY <2>2, <2>3, <3>2 DEF Reads
    <3>3. ASSUME NEW k \in (n + 1)..made[p]
          PROVE  \E i \in 1..Len(messages') :
                   IsOutput(messages'[i]) /\ messages'[i].pid = p /\ messages'[i].arg[2] = k
      <4>1. PICK i \in 1..Len(messages) :
              IsOutput(messages[i]) /\ messages[i].pid = p /\ messages[i].arg[2] = k
        BY <2>2, <3>3 DEF Reads
      <4>2. i # 1
        BY <2>3, <2>7, <4>1 DEF Own
      <4> QED
        BY <2>5, <4>1, <4>2
    <3> QED
      BY <2>1, <2>4, <3>1, <3>2, <3>3, Zenon DEF Reads
  <2> QED
    BY <2>6, <2>7
<1> QED
  BY <1>1, <1>3, <1>4 DEF RunInv

\* A task takes its place in the queue.
LEMMA Waits ==
  ASSUME RunInv, StopInv, NEW t \in Tasks, NEW what \in Kinds, Lock(t, what)
  PROVE  RunInv'
<1>1. /\ UNCHANGED <<messages, pid, current, server, made>> /\ pc[t] = "idle"
      /\ pc' = [pc EXCEPT ![t] = "locking"] /\ kind' = [kind EXCEPT ![t] = what]
      /\ outcome' = [outcome EXCEPT ![t] = "none"] /\ output' = [output EXCEPT ![t] = <<>>]
  BY DEF Lock, remote
<1>2. /\ pc'[t] = "locking" /\ outcome'[t] = "none" /\ output'[t] = <<>>
      /\ \A u \in Tasks \ {t} : pc'[u] = pc[u] /\ kind'[u] = kind[u] /\ outcome'[u] = outcome[u]
                                /\ output'[u] = output[u]
  BY <1>1 DEF RunInv, TaskInv, StopInv, TypeInv
<1>3. ServerInv' /\ QueueInv'
  BY <1>1 DEF RunInv, ServerInv, QueueInv
<1>4. TaskInv'
  <2>1. ResultIsOwn'
    <3> SUFFICES ASSUME NEW u \in Tasks, kind'[u] # "query", outcome'[u] = "Completed"
                 PROVE  output'[u] = [i \in 1..made[pid[u]] |-> <<pid[u], i>>]
      BY <1>1 DEF ResultIsOwn
    <3>1. u # t
      BY <1>2
    <3>2. ResultIsOwn
      BY DEF RunInv, TaskInv
    <3>3. kind[u] # "query" /\ outcome[u] = "Completed" /\ output'[u] = output[u]
      BY <1>2, <3>1
    <3> QED
      BY <3>2, <3>3, Zenon DEF ResultIsOwn
  <2>2. \A u \in Tasks : EndsWell(u)' => u # t /\ EndsWell(u)
    BY <1>1, <1>2 DEF EndsWell
  <2>3. DOMAIN kind' = Tasks /\ DOMAIN outcome' = Tasks /\ DOMAIN output' = Tasks /\ DOMAIN pid' = Tasks
    BY <1>1 DEF RunInv, TaskInv
  <2> QED
    BY <1>1, <1>2, <2>1, <2>2, <2>3 DEF RunInv, TaskInv, Awaiting
<1>5. ReadInv'
  <2> SUFFICES ASSUME NEW u \in Tasks, pc'[u] \in Awaiting, kind'[u] # "query" PROVE Reads(u)'
    BY DEF ReadInv
  <2>1. u # t
    BY <1>2 DEF Awaiting
  <2>2. Reads(u)
    BY <1>2, <2>1 DEF RunInv, ReadInv
  <2>3. output'[u] = output[u] /\ messages' = messages /\ pid' = pid /\ made' = made
    BY <1>1, <1>2, <2>1
  <2> QED
    BY <2>2, <2>3 DEF Reads
<1> QED
  BY <1>3, <1>4, <1>5 DEF RunInv

\* A pipeline is made, of which nothing was said before.
LEMMA Made ==
  ASSUME RunInv, StopInv, NEW t \in Tasks, Start(t)
  PROVE  RunInv'
<1> DEFINE p == current + 1
<1>1. /\ UNCHANGED <<messages, kind, output, outcome, server, made>> /\ pc[t] = "locking" /\ Acquires(t)
      /\ pc' = [pc EXCEPT ![t] = "starting"] /\ pid' = [pid EXCEPT ![t] = p] /\ current' = p
      /\ current < MaxRuns
  BY DEF Start, Step, Acquires
<1>2. p \in Pids /\ p > current /\ server[p] = "NotStarted" /\ made[p] = 0 /\ current \in Nat
  BY <1>1, ConstantsAssumption DEF RunInv, ServerInv, Pids
<1>3. /\ pc'[t] = "starting" /\ pid'[t] = p
      /\ \A u \in Tasks \ {t} : pc'[u] = pc[u] /\ pid'[u] = pid[u]
  BY <1>1 DEF RunInv, TaskInv, StopInv, TypeInv
<1>4. outcome[t] = "none" /\ output[t] = <<>>
  BY <1>1 DEF RunInv, TaskInv
<1>5. \A u \in Tasks : pc[u] \notin Awaiting
  BY <1>1, FirstStarts
<1>6. ServerInv' /\ QueueInv'
  <2>1. p \in 0..MaxRuns
    BY <1>1, <1>2, ConstantsAssumption
  <2>2. \A q \in Pids : q > p => q > current
    BY <1>2 DEF Pids
  <2> QED
    BY <1>1, <2>1, <2>2 DEF RunInv, ServerInv, QueueInv
<1>7. TaskInv'
  <2>1. ResultIsOwn'
    <3> SUFFICES ASSUME NEW u \in Tasks, kind[u] # "query", outcome[u] = "Completed"
                 PROVE  output[u] = [i \in 1..made[pid'[u]] |-> <<pid'[u], i>>]
      BY <1>1 DEF ResultIsOwn
    <3>1. u # t
      BY <1>4
    <3>2. ResultIsOwn
      BY DEF RunInv, TaskInv
    <3>3. output[u] = [i \in 1..made[pid[u]] |-> <<pid[u], i>>]
      BY <3>2, Zenon DEF ResultIsOwn
    <3>4. pid'[u] = pid[u]
      BY <1>3, <3>1
    <3> QED
      BY <3>3, <3>4
  <2>2. \A u \in Tasks : EndsWell(u)' => u # t /\ EndsWell(u)
    BY <1>1, <1>4 DEF EndsWell
  <2>3. DOMAIN kind' = Tasks /\ DOMAIN outcome' = Tasks /\ DOMAIN output' = Tasks /\ DOMAIN pid' = Tasks
    BY <1>1 DEF RunInv, TaskInv
  <2> HIDE DEF p
  <2> QED
    BY <1>1, <1>2, <1>3, <1>4, <1>5, <2>1, <2>2, <2>3 DEF RunInv, TaskInv, Awaiting
<1>8. ReadInv'
  <2> SUFFICES ASSUME NEW u \in Tasks, pc'[u] \in Awaiting PROVE Reads(u)'
    BY DEF ReadInv
  <2>1. u = t
    BY <1>3, <1>5
  <2>2. output'[t] = <<>> /\ Len(output'[t]) = 0 /\ pid'[t] = p /\ made'[p] = 0 /\ messages' = messages
    BY <1>1, <1>2, <1>3, <1>4
  <2>3. \A i \in 1..Len(messages) : IsOutput(messages[i]) => messages[i].pid # p
    BY <1>2 DEF RunInv, QueueInv
  <2> HIDE DEF p
  <2>4. output'[t] = [i \in 1..0 |-> <<p, i>>]
    BY <2>2
  <2> QED
    BY <2>1, <2>2, <2>3, <2>4 DEF Reads
<1> QED
  BY <1>6, <1>7, <1>8 DEF RunInv

\* Every step keeps the results, the messages and the server's pipelines in agreement.
LEMMA RunsAreSound == Spec => []RunInv
<1>1. Init => RunInv
  <2> SUFFICES ASSUME Init PROVE RunInv
    OBVIOUS
  <2>1. ServerInv
    BY ConstantsAssumption DEF Init, ServerInv
  <2>2. QueueInv
    BY DEF Init, QueueInv
  <2>3. TaskInv /\ ReadInv
    BY DEF Init, TaskInv, ReadInv, EndsWell, ResultIsOwn, Awaiting
  <2> QED
    BY <2>1, <2>2, <2>3 DEF RunInv
<1>2. RunInv /\ StopInv /\ [Next]_vars => RunInv'
  <2> SUFFICES ASSUME RunInv, StopInv, [Next]_vars PROVE RunInv'
    OBVIOUS
  <2>0. DOMAIN pc = Tasks /\ ServerInv /\ DOMAIN output = Tasks /\ messages \in Seq(Said)
    BY DEF StopInv, TypeInv, RunInv, TaskInv, QueueInv
  <2>a. UNCHANGED server => ServerMoves
    BY <2>0 DEF ServerMoves, EndsStay, ServerInv
  <2>1. ASSUME NEW t \in Tasks, NEW what \in Kinds, Lock(t, what) PROVE RunInv'
    BY <2>1, Waits
  <2>2. ASSUME NEW t \in Tasks, Start(t) PROVE RunInv'
    BY <2>2, Made
  <2>3. ASSUME NEW t \in Tasks, Started(t) PROVE RunInv'
    <3>1. \E at \in {"reading", "held"} : pc' = [pc EXCEPT ![t] = at]
      BY <2>3 DEF Started, Step
    <3>2. {"reading", "held"} \subseteq Awaiting \ {"starting"}
      BY DEF Awaiting
    <3> QED
      BY <2>3, <3>1, <3>2, Runs DEF Started, Step, run
  <2>4. ASSUME NEW t \in Tasks, Collect(t) \/ EndedInput(t) \/ Cancel(t) PROVE RunInv'
    <3>1. /\ pc[t] \in Awaiting
          /\ \E at \in {"reading", "ending", "signalling"} : pc' = [pc EXCEPT ![t] = at]
          /\ UNCHANGED <<messages, pid, kind, output, outcome, current, made, server>>
      BY <2>4 DEF Collect, EndedInput, Cancel, Step, Awaiting, run, remote
    <3>2. {"reading", "ending", "signalling"} \subseteq Awaiting \ {"starting", "locking"}
      BY DEF Awaiting
    <3> QED
      BY <2>0, <2>a, <3>1, <3>2, Onward
  <2>5. ASSUME NEW t \in Tasks, CancelSignalled(t) PROVE RunInv'
    <3>1. /\ pc[t] \in Awaiting /\ pc' = [pc EXCEPT ![t] = "reading"] /\ Stops(t)
          /\ UNCHANGED <<messages, pid, kind, output, outcome, current, made>>
      BY <2>5 DEF CancelSignalled, Step, Awaiting
    <3> QED
      BY <2>0, <3>1, StopMoves, Onward
  <2>6. ASSUME NEW t \in Tasks, Stop(t) PROVE RunInv'
    BY <2>0, <2>6, StopMoves, Quiet DEF Stop, run
  <2>7. ASSUME NEW t \in Tasks, ReadMessage(t) \/ ReadForQuery(t) PROVE RunInv'
    <3> DEFINE m == Head(messages)
    <3>1. /\ pc[t] = "reading" /\ pc[t] \in Awaiting \ {"starting"} /\ messages # <<>>
          /\ messages' = Tail(messages) /\ UNCHANGED <<pid, kind, current, server, made>>
      BY <2>7 DEF ReadMessage, ReadForQuery, Awaiting
    <3>2. CASE ReadMessage(t)
      <4>1. kind[t] # "query"
        BY <3>2 DEF ReadMessage
      <4>2. CASE Own(t, m) /\ m.kind = "Bad"
        <5>1. Ends(t, "error") /\ UNCHANGED output
          BY <3>2, <4>2 DEF ReadMessage
        <5> QED
          BY <3>1, <5>1, Ended
      <4>3. CASE Own(t, m) /\ IsOutput(m)
        <5>1. output' = [output EXCEPT ![t] = Append(@, m.arg)] /\ ReadsOn
          BY <3>2, <4>3 DEF ReadMessage, IsOutput
        <5>2. UNCHANGED <<pc, outcome>> /\ DOMAIN output' = Tasks /\ output'[t] = Append(output[t], m.arg)
              /\ \A u \in Tasks \ {t} : output'[u] = output[u]
          BY <2>0, <5>1 DEF ReadsOn
        <5> QED
          BY <3>1, <4>3, <5>2, ReadOn
      <4>4. CASE Own(t, m) /\ IsEnd(m)
        <5>1. (\E how : Ends(t, how)) /\ UNCHANGED output
          BY <3>2, <4>4 DEF ReadMessage, IsEnd
        <5>2. /\ pid[t] \in Pids /\ server[pid[t]] \in Terminal
              /\ output[t] = [i \in 1..made[pid[t]] |-> <<pid[t], i>>]
          BY <3>1, <4>1, <4>4, EndIsLast
        <5> QED
          BY <3>1, <5>1, <5>2, Ended
      <4>5. CASE ~Own(t, m) \/ ~(m.kind = "Bad" \/ IsOutput(m) \/ IsEnd(m))
        <5>1. ReadsOn /\ UNCHANGED output
          BY <3>2, <4>5 DEF ReadMessage, IsEnd, IsOutput
        <5>2. UNCHANGED <<pc, outcome, output>> /\ DOMAIN output' = Tasks
              /\ ~(Own(t, m) /\ IsOutput(m))
          BY <2>0, <4>5, <5>1 DEF ReadsOn
        <5> QED
          BY <3>1, <5>2, ReadOn
      <4> QED
        BY <4>2, <4>3, <4>4, <4>5
    <3>3. CASE ReadForQuery(t)
      <4>1. kind[t] = "query"
        BY <3>3 DEF ReadForQuery
      <4>2. CASE (\E how : Ends(t, how)) /\ UNCHANGED output
        BY <3>1, <4>1, <4>2, Ended
      <4>3. CASE ReadsOn /\ (\E v : output' = [output EXCEPT ![t] = v] \/ UNCHANGED output)
        <5>1. UNCHANGED <<pc, outcome>> /\ DOMAIN output' = Tasks
              /\ \A u \in Tasks \ {t} : output'[u] = output[u]
          BY <2>0, <4>3 DEF ReadsOn
        <5> QED
          BY <3>1, <4>1, <5>1, ReadOn
      <4> QED
        BY <3>3, <4>2, <4>3 DEF ReadForQuery
    <3> QED
      BY <2>7, <3>2, <3>3
  <2>8. ASSUME NEW t \in Tasks, CommandGone(t) PROVE RunInv'
    <3>1. /\ pc[t] \in Awaiting /\ server[pid[t]] = "Stopping" /\ Ends(t, WhoStopped(t))
          /\ server' = [server EXCEPT ![pid[t]] = "Stopped"]
          /\ UNCHANGED <<messages, pid, kind, output, current, made>>
      BY <2>8 DEF CommandGone, Awaiting
    <3>2. pid[t] \in Pids
      BY <3>1 DEF RunInv, TaskInv
    <3>3. ServerMoves /\ server'[pid[t]] = "Stopped" /\ "Stopped" \in Terminal
      BY <2>0, <3>1, <3>2, EndMoves DEF Terminal
    <3>4. WhoStopped(t) # "Completed"
      BY DEF WhoStopped
    <3>5. pc[t] = "locking" => UNCHANGED messages
      BY <3>1
    <3> QED
      BY <3>1, <3>2, <3>3, <3>4, <3>5, Ended
  <2>9. ASSUME NEW t \in Tasks, Fails(t) PROVE RunInv'
    BY <2>9, Ended DEF Fails, Awaiting, remote
  <2>10. ASSUME NEW t \in Tasks, NEW is_out \in BOOLEAN, Dropped(t, is_out) PROVE RunInv'
    BY <2>10, Ended DEF Dropped
  <2>11. ASSUME NEW t \in Tasks, CloseLast(t) \/ CloseRefused(t) \/ RefusedHandleDrops(t) PROVE RunInv'
    <3>1. /\ \E at \in {"gone", "refused"} : pc' = [pc EXCEPT ![t] = at]
          /\ UNCHANGED <<messages, pid, kind, output, outcome, current, made, server>>
      BY <2>11 DEF CloseLast, CloseRefused, RefusedHandleDrops, run, remote, shared
    <3>2. {"gone", "refused"} \cap (Awaiting \cup {"locking"}) = {} /\ "starting" \in Awaiting
      BY DEF Awaiting
    <3> QED
      BY <2>0, <2>a, <3>1, <3>2, Onward
  <2>12. ASSUME NEW t \in Tasks, Token(t) PROVE RunInv'
    BY <2>12, <2>a, Quiet DEF Token, shared, remote
  <2>13. ASSUME NEW p \in Pids, Outputs(p) PROVE RunInv'
    BY <2>13, OutputComes
  <2>14. ASSUME NEW p \in Pids, NEW s \in Terminal, server[p] \in {"Running", "Stopping"},
               server' = [server EXCEPT ![p] = s], Says(Msg(p, "State", s)),
               UNCHANGED <<pc, pid, kind, output, outcome, current, made>>
        PROVE  RunInv'
    <3> DEFINE m == Msg(p, "State", s)
    <3>1. ServerMoves /\ server'[p] = s
      BY <2>0, <2>14, EndMoves
    <3>2. m \in Said
      BY DEF Said
    <3>3. m.pid = p /\ m.kind = "State" /\ ~IsOutput(m)
      BY MessageIs DEF IsOutput
    <3> HIDE DEF m
    <3>4. Says(m)
      BY <2>14 DEF m
    <3> QED
      BY <2>14, <3>1, <3>2, <3>3, <3>4, Speaks
  <2>15. ASSUME NEW p \in Pids, ServerStops(p) \/ \E s \in {"Completed", "Failed", "Disconnected"} : Finishes(p, s)
         PROVE  RunInv'
    <3>1. PICK s \in Terminal :
            /\ server[p] \in {"Running", "Stopping"} /\ server' = [server EXCEPT ![p] = s]
            /\ Says(Msg(p, "State", s)) /\ UNCHANGED <<pc, pid, kind, output, outcome, current, made>>
      BY <2>15 DEF ServerStops, Finishes, Terminal, run
    <3> QED
      BY <2>14, <3>1
  <2>16. ASSUME NEW m \in Said, SaysOther(m), ~IsOutput(m), ~IsEnd(m) PROVE RunInv'
    BY <2>16, <2>a, Speaks DEF SaysOther, run
  <2>17. ASSUME NEW p \in Pids \cup {0}, NEW what, NEW arg, SaysOther(Msg(p, what, arg)),
                <<what, arg>> \in {<<"State", "Stopping">>, <<"State", "Broken">>, <<"Bad", None>>},
                what = "Bad" => p \in Pids
         PROVE  RunInv'
    <3> DEFINE m == Msg(p, what, arg)
    <3>1. m \in Said
      BY <2>17 DEF Said
    <3>2. m.kind = what /\ m.arg = arg
      BY MessageIs
    <3>3. ~IsOutput(m) /\ ~IsEnd(m)
      BY <2>17, <3>2 DEF IsOutput, IsEnd, Terminal
    <3> QED
      BY <2>16, <2>17, <3>1, <3>3
  <2>18. CASE ServerSpeaks
    <3>1. CASE \E p \in Pids : server[p] = "Stopping" /\ SaysOther(Msg(p, "State", "Stopping"))
      BY <2>17, <3>1
    <3>2. CASE \E p \in Pids : server[p] = "Running" /\ SaysOther(Msg(p, "Bad", None))
      BY <2>17, <3>2
    <3>3. CASE SaysOther(Msg(0, "State", "Broken"))
      BY <2>17, <3>3
    <3> QED
      BY <2>13, <2>15, <2>18, <3>1, <3>2, <3>3 DEF ServerSpeaks
  <2>19. CASE UNCHANGED vars
    BY <2>19, <2>a, Quiet DEF vars, run, remote
  <2> QED
    BY <2>1, <2>2, <2>3, <2>4, <2>5, <2>6, <2>7, <2>8, <2>9, <2>10, <2>11, <2>12, <2>13, <2>15,
       <2>18, <2>19 DEF Next, Polled
<1> QED
  BY <1>1, <1>2, MutexHeld, PTL DEF Spec

\* A run says that its pipeline ended, or was stopped or cancelled, only once it did
\* (the terminal states of the read loop, the stop that finds its command gone).
THEOREM EndsAreTrue == Spec => []EndedOnServer
<1>1. RunInv => EndedOnServer
  BY DEF RunInv, TaskInv, EndsWell, EndedOnServer, Terminal
<1> QED
  BY <1>1, RunsAreSound, PTL

\* A run that ends well returns the whole output of its own pipeline, in order, and
\* nothing of a pipeline an earlier run left behind (the pid filter, under the mutex).
THEOREM ResultsAreOwn == Spec => []ResultIsOwn
<1>1. RunInv => ResultIsOwn
  BY DEF RunInv, TaskInv
<1> QED
  BY <1>1, RunsAreSound, PTL

-----------------------------------------------------------------------------
(* The handles.                                                            *)

\* A run that ends keeps its handle.
LEMMA EndKeepsHandles ==
  ASSUME HandleInv, NEW t \in Tasks, NEW how, Ends(t, how), UNCHANGED <<pool, handles>>
  PROVE  HandleInv'
  BY DEF HandleInv, Ends, Awaiting

\* So does one that goes on.
LEMMA StepKeepsHandles ==
  ASSUME HandleInv, NEW t \in Tasks, NEW at, pc[t] \in Awaiting \cup {"locking"},
         pc' = [pc EXCEPT ![t] = at], UNCHANGED <<pool, handles>>
  PROVE  HandleInv'
  BY DEF HandleInv

\* And one that waits.
LEMMA StutterKeepsHandles == HandleInv /\ UNCHANGED <<pc, pool, handles>> => HandleInv'
  BY DEF HandleInv

\* The pool is never closed under a run, nor under a waiting caller: only the last
\* handle closes it, and who uses the pool or waits for it has one (close).
THEOREM ClosedUnderNobody == Spec => []ClosedWhenUnused
<1>1. Init => HandleInv
  BY DEF Init, HandleInv, Awaiting
<1>2. HandleInv /\ [Next]_vars => HandleInv'
  <2> SUFFICES ASSUME HandleInv, [Next]_vars PROVE HandleInv'
    OBVIOUS
  <2>1. ASSUME NEW t \in Tasks, NEW what \in Kinds, Lock(t, what) PROVE HandleInv'
    BY <2>1 DEF Lock, HandleInv, Awaiting
  <2>2. ASSUME NEW t \in Tasks,
               \/ Start(t) \/ Started(t) \/ EndedInput(t) \/ Cancel(t) \/ Collect(t)
               \/ CancelSignalled(t)
        PROVE  HandleInv'
    <3>1. /\ pc[t] \in Awaiting \cup {"locking"} /\ UNCHANGED <<pool, handles>>
          /\ \E at : pc' = [pc EXCEPT ![t] = at]
      BY <2>2 DEF Start, Acquires, Started, EndedInput, Cancel, Collect, CancelSignalled, Step, Awaiting
    <3> QED
      BY <3>1, StepKeepsHandles
  <2>3. ASSUME NEW t \in Tasks,
               \/ ReadMessage(t) \/ ReadForQuery(t) \/ CommandGone(t) \/ Fails(t)
               \/ \E is_out \in BOOLEAN : Dropped(t, is_out)
        PROVE  HandleInv'
    <3>1. /\ (\E how : Ends(t, how)) \/ UNCHANGED pc
          /\ UNCHANGED <<pool, handles>>
      BY <2>3 DEF ReadMessage, ReadForQuery, ReadsOn, CommandGone, Fails, Dropped
    <3> QED
      BY <3>1, EndKeepsHandles, StutterKeepsHandles
  <2>4. ASSUME NEW t \in Tasks, CloseLast(t) PROVE HandleInv'
    BY <2>4 DEF CloseLast, LastHandle, HandleInv, Awaiting
  <2>5. ASSUME NEW t \in Tasks, CloseRefused(t) \/ RefusedHandleDrops(t) PROVE HandleInv'
    BY <2>5 DEF CloseRefused, RefusedHandleDrops, HandleInv, Awaiting, shared
  <2>6. ASSUME NEW t \in Tasks, Token(t) \/ Stop(t) PROVE HandleInv'
    BY <2>6, StutterKeepsHandles DEF Token, Stop, shared
  <2>7. CASE ServerSpeaks \/ (\E p \in Pids : ServerStops(p)) \/ UNCHANGED vars
    <3>1. UNCHANGED <<pc, pool, handles>>
      BY <2>7 DEF ServerSpeaks, ServerStops, Outputs, Finishes, SaysOther, shared, vars
    <3> QED
      BY <3>1, StutterKeepsHandles
  <2> QED
    BY <2>1, <2>2, <2>3, <2>4, <2>5, <2>6, <2>7 DEF Next, Polled
<1>3. HandleInv => ClosedWhenUnused
  BY DEF HandleInv, ClosedWhenUnused
<1> QED
  BY <1>1, <1>2, <1>3, PTL DEF Spec
=============================================================================
