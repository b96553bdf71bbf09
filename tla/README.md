# A verification development for psrp-rs

`psrp-rs` is an asynchronous client for the PowerShell Remoting Protocol: it opens a
runspace pool on a Windows host over WinRM, or in a `pwsh -sshs` process over SSH, runs
pipelines in it, answers the calls the server makes to the client's host, and exchanges a
session key for the values that travel encrypted. This directory holds TLA+ modules that
model its concurrent and stateful parts, TLC configurations that check them on small
instances, and proofs that the TLA+ proof system checks for all instances.

Files are named by their path under the crate's source directory, or by their name alone;
lines are given where a sentence rests on one.

## 1. The system

The crate is a stack. An application holds a `RunspacePool`, or handles on a
`SharedRunspacePool`. The pool drives a `RunspacePoolStateMachine`, cuts its messages into
fragments and gives them to a `PsrpTransport`: `WinrmPsrpTransport` (a shell on a WinRM
service, polled with HTTP requests) or `OutOfProcTransport` (a session over an SSH
channel). Nothing runs in the background: there is no task, thread or queue but those of
the caller, and **whoever awaits a call is the one that reads**. Each layer is therefore
exposed to the same three things: a call may be *dropped* at any await, a call may fail
half way, and a message meant for one reader may be read by another.

| Component | State | Operations | What makes it correct |
|---|---|---|---|
| OutOfProc session (`out_of_proc/session.rs`) | the acknowledgement awaited, the write or payload in progress, the open command, why it is broken, the queue | `send`, `recv`, `signal`, `close` | the server is never sent what it refuses; a send that succeeds was received; no received byte is lost; it fails closed |
| OutOfProc packets (`out_of_proc/packet.rs`) | the bytes of an unfinished line | `to_line`, `parse_line`, `LineSplitter::push` | the lines do not depend on how the stream is cut |
| OutOfProc transport (`out_of_proc/transport.rs`), SSH transport (`ssh.rs`) | a flag `closed`; the channel, the output read before the subsystem reply | `connect`, the host key policies, `read`, `write`, `close_shell` | credentials reach only a server whose key is trusted; output is read in order, from its first byte |
| Pool state machine (`runspace/state.rs`) | the state, the actions to carry out | `open`, `connect`, `close`, `mark_closed`, `on_message` | a pool that ended is never usable again, whatever the server says |
| Pool driver (`runspace/pool.rs`, `error.rs`) | the machine, the keys, the parked answers, the buffered messages, the next object id | open (two ways), `request_session_key`, `set_session_key`, `next_message`, host calls, `disconnect`, `reconnect`, `close` | every host call is answered once or accounted for; secrets travel encrypted; what is parked is settled |
| Pipelines (`pipeline.rs`, `metadata.rs`) | a run's identifier, its result so far, its token | `start`, `run*`, `write_input`, `end_input`, `stop`, `collect`, metadata queries | a result is that of its own pipeline; a cancelled run ends |
| Shared pool (`shared.rs`) | a fair mutex, counted handles | `run_script`, `run_pipeline`, `with_pool`, `close` | a stop reaches the caller's own pipeline; the last handle closes |
| WinRM transport (`transport.rs`) | the shell, the parked `Receive`, the current command, stop and done flags | `recv_chunk`, `execute_pipeline`, `signal_stop`, `close_shell`, `disconnect_shell`, `reconnect` | the output of a command reaches its readers once, in order; a shell is not leaked |
| Fragments (`fragment.rs`) | the buffer, the messages in flight | `split_message`, `feed` | a message comes out as it went in, or not at all |
| CLIXML (`clixml/`) | of one document: the elements open, the depth, the references kept and what they have cost; the next id | `parse_clixml`, `to_clixml`, `build_create_pipeline_xml`, escapes, base64 | what is written is read back; no document makes the decoder hold or nest more than its limits |
| Messages (`message.rs`), records (`records.rs`), host interface (`host.rs`) | none (values) | encode and decode, the typed views, `dispatch_host_call` | each side reads what the other meant |
| Cryptography (`crypto.rs`) | a key pair or a session key | the key blobs, the encryption of a SecureString | a secret is read with its key, and whole or not at all |
| Blocking wrapper, crate root | none | block on the asynchronous calls | – |

The layers interact by calls only, downwards; upwards a layer returns results. The shared
state is: the transport of a pool, used by every run on it; the messages a pool buffered,
which the next reader gets, whoever it is; the parked answers, which the next reader
sends; and the server's side of everything.

Hard to test, and what the models are for: a future dropped between a network effect and
the assignment that records it (a public key sent and its pair not yet stored, a parked
answer sent and not yet removed, half a line written); replies to requests that were
abandoned; the output of a pipeline whose run was dropped, read by the next run; a list
emptied before its elements are sent; a `Receive` that outlives its call; stops that name
no pipeline; queues at their limit. In the values: references that name references, texts
that look like the escapes or the padding put around them, type names written once for
several values, codes next to those that are defined. `PROJECT.json` lists these hazards by line, with the
properties that watch each.

## 2. The modules

| Module | Models | Checked by | Proved |
|---|---|---|---|
| `OutOfProcSession` | the session, the pipe, `pwsh -sshs` | `session` | `OutOfProcSessionProofs` |
| `PoolStates` | the pure part of `state.rs`: codes, the table of transitions, guards | through the next two | in the two that use it |
| `PoolLifecycle` | *abstract*: used from one opening to one end | as a property | |
| `RunspacePoolState` | the state machine | `state` | `RunspacePoolStateProofs` |
| `Documents` | the state machine with the documents it and its server exchange; everything below down to `SessionKeys` in it | `state` | |
| `Clixml` | *pure*: values, with their weight and height | `state` | |
| `ClixmlDecoder` | the decoder, a step per event | `state` | |
| `ClixmlEncoder` | *pure*: the encoder and the document of a pipeline | `state` | |
| `ClixmlText` | *pure*: escapes and base64, beside what an XML reader does to a text | `state` | |
| `PsrpMessages` | *pure*: the header of a message, the table of types | `state` | |
| `Records` | *pure*: the typed views, states and reasons | `state` | |
| `HostCalls` | *pure*: a host call read, dispatched and answered | `state` | |
| `Results` | *pure*: the builder of a pipeline, what a run collects, why it failed | `state` | |
| `SessionKeys` | *pure*: key blobs, padding and chaining, over an ideal cipher | `state` | |
| `RunspacePool` | the driver and its read loop, with the machine in it | `pool_safety`, `pool_keys`, `pool_parked` | `RunspacePoolProofs`, `RunspacePoolHistoryProofs` |
| `Pipelines` | shared handles, runs, queries | `pipelines`, `pipelines_handles`, `pipelines_query` | `PipelinesProofs` |
| `WinrmTransport` | the transport, winrm-rs and the service | `winrm`, `winrm_refused` | `WinrmTransportProofs` |
| `KnownHosts` | *pure*: the lookup of a host key, beside what a file means | `ssh` | `SshTransportProofs` |
| `LineSplitter` | *pure*: the line splitter, beside what the lines of a stream are | `ssh` | `SshTransportProofs` |
| `SshTransport` | connect, read and `close_shell` over SSH, with the two above in it | `ssh` | `SshTransportProofs` |
| `Fragments` | splitting and reassembly | `fragments` | `FragmentsProofs` |

`OutOfProcSession` works on whole lines; `SshTransport` is about what lies below it, the
bytes and where they are cut, and knows of the session only that it is closed first.

`MC<module>` holds what TLC needs of an instance: symmetry sets and constant sets.

### How a model corresponds to the code

An `async fn` becomes a program counter over its awaits. What runs between two awaits is
one action, because nothing can be interleaved there; at an await there is an action for
going on, one for the call being dropped, and one for the failure. State that lives in the
future (a local variable, a message in hand) is a variable that the drop resets; state
that lives in the object survives. `PROJECT.json` names the lines each definition models.

**OutOfProcSession.** `awaiting`, `writing`, `partial`, `open_command`, `broken`,
`inbound` are the fields `awaiting`, `write_in_progress`, `payload_in_progress`,
`open_command`, `broken` and the queue. An operation is the list of requests it has yet to
make (`plan`), computed by `Look` where the code looks at `open_command`, and each request
goes through settle, write, acknowledge (`StartWrite`, `WirePart`, `WireWhole`, `Written`,
`RequestDone`). Writing takes two steps so that it can be abandoned with half a line on
the wire. `lines` are the lines of the chunk just read, processed without an await: no
`Drop` in between. The server refuses exactly what the repository's own fake refuses, and
may die, with or without a last error line.

**PoolStates, RunspacePoolState.** `state` and the messages of the returned actions;
`OnState` is `on_message` for a state message. `Opening` is not visible: `open` leaves it
before it returns.

**Documents.** `exchange` is the one document, message, call or run in hand. While the pool
negotiates, `BeginDocument`, the `Put...` actions and `EndDocument` let the server send any
well-formed document made of a few tags, or one cut short: the functions of `decode.rs`
call each other as elements nest, so the calls in progress are a stack of frames in
`ClixmlDecoder`, and `Read` is one turn of the innermost loop. The decoder of these
documents has small limits (`DocDepth`, `DocBudget`) that they reach; the ids of the
references are chosen first because the code collects them in a first pass. What the
machine makes of the document is `OnState` or `OnMalformed`. The other actions each take a
value through the code in one step: `ReceiveState` and `ReceiveOther` a whole message
(encoded, decoded, judged), `WriteInput`, `StartPipeline` and `Handshake` what the client
writes, `HostCall` a call and its reply, `QueryCommands` and the `Run...` actions what is
made of what the server says, `WriteText`, `WriteBytes`, `EncryptSecret` and `ExchangeKey`
the encodings. A document is a sequence of the events of an XML reader; a text is one
string, but in `ClixmlText`, where it is a sequence of characters, and in `SessionKeys`, of
code points. Integers have scaled widths with the same order among them. A block of the
ideal cipher is the key with all that was chained up to it, so it is read after the same
blocks only; the layouts around it (padding, byte order, blobs) are computed.

**RunspacePool.** `pc` is the await of the one call in progress and `after` what follows a
send. `start_exchange` sends the public key and stores the pair when the send returned:
`Exchange`, then `SentPublicKey`. `next_message` is `FlushFirst` (answers parked for a key
that came since), the `Pop...` actions (a buffered message), `WaitForChunk` and
`ReceiveChunk`. `handle_host_call` is `PopHostCall`, which has read the call, and the
`Host...` actions, after the host answered; or `PopUnreadableCall`, when the body is no
CLIXML, is empty or no object, or has no `ci` or `mi`: the call was popped, the read ends
with the error, and `unreadable` remembers the call that nobody answers.
A key is the number of its exchange, negative if the application set it, so a property can
tell a key from the one it should have been.

**Pipelines.** The runs of several tasks, each through the mutex; `messages` is what
`next_message` has yet to return, and the parts of the pool that matter to a run are its
identifiers and the stop signal. `kind` tells a script, a `PipelineHandle` and a metadata
query apart, whose loop is another one (`ReadForQuery`). "Bad" is an own message that
cannot be decoded.

**WinrmTransport.** The `Receive` is a record of its own, because it survives the call
that polls it: `RecvChunk` resumes it or starts one, `DropRecv` leaves it. A request is
acted on by the service (`Act`) before the client hears of it, and may fail or be dropped
on either side of that. Stream 0 is the shell's own output.

**Fragments.** A byte is the fragment it belongs to and its place in it, so cutting the
stream anywhere, in the middle of a header included, is `SubSeq`. `Feed` is the whole of
`Reassembler::feed`, run to the end of its loop: a `Turn` takes the fragment at the head of
the buffer, once it is `Whole` (`decode_one`), and accepts or refuses it; the first refusal
ends the loop. Every turn drains a byte at least, so there are no more turns than bytes.

**SshTransport, KnownHosts, LineSplitter.** `connect` is a step per await; the policy, the
host, the port, the key and the file are chosen when the server shows its key, so every
combination is judged against `IsTrusted`. `GlobMatch` is the loop of `glob_match_bytes`,
with its one place to go back to: a `Turn` is one pass of it, on the numbers of characters
that are behind. `Matches` says from the end of the pattern which rests of the name it
matches, without going back. `Verdict` goes through the file in order, `Says` is without
order. A byte of the output is
one of five: text, the two line end characters and the halves of a byte order mark, which
stand for any character of several bytes. `LineSplitter!Push` is the splitter with its
buffer, a `TakeByte` for each byte; `LinesOf` are the lines of the whole stream, cut where
its newlines are (`Ends`). `BytesOf` are the bytes of the messages on their way. `trusted` and `written` are history.

### Abstract specification

`PoolLifecycle` says what a user may rely on: new, negotiating, open, away, closing, over,
and never back. The state machine implements it (`RunspacePoolState!KeepsLifecycle`,
checked and proved) and so does the driver with its transport
(`RunspacePool!KeepsLifecycle`, checked, and proved for a pool that is not disconnected), where the phase is read off the connection and
the machine together.

## 3. The runs

| Run | Shows | Bounds | Why they are enough |
|---|---|---|---|
| `session` | safety of the session, that it fails closed, and that every request ends | 2 pipelines, 3 operations, 2 lines to a payload, 2 lines of output, a queue of 1 | a hazard needs an abandoned operation, one that meets what it left, and one more; two pipelines let one command displace the other; the queue overflows |
| `state` | the machine against the lifecycle; the decoder's limits; that values, pipelines, texts, secrets, messages, calls, records and failures are read as they were written or meant | every code on the wire and one on each side, 4 messages of the client; documents of up to 9 events, 3 levels deep, with 8 nodes of copies; all texts of up to 3 of 9 characters and of 4 of 5; secrets of up to 4 of 6 code points; 3 public keys; about 440 values, pipelines of two commands, 3 records to a run | all states are reached; 9 events hold two objects, one in the other, and references to both; a text of 4 holds a whole escape, longer ones are given; values nest containers in containers; two commands are the least that share type names; 3 errors are one more than are quoted here |
| `pool_safety` | what is parked, encrypted, answered and accounted for | 2 host calls, 3 calls of the pool, 2 messages of the server's own, 1 fault | two parked answers are the least that can be half flushed; open, run and one more call read what another left |
| `pool_keys` | keys set by the application, reconnection, and that waits end | 1 host call, 4 calls, 2 messages, no fault | exchange, key set, exchange again, and a reader |
| `winrm` | the parked `Receive`, stops, the shell, the timeout streak | 2 commands, 1 chunk, 2 faults, a streak of 3 | a parked `Receive` needs two commands to be stale; 3 is the least streak that can be reset in the middle |
| `pipelines` | results, stops and closing with several tasks | 2 tasks, 2 pipelines, 1 value, 1 fault | one run abandoned, the next one reads after it |
| `ssh` | a key is trusted exactly when the file says so, and lines do not depend on the cuts | 2 keys, 5 hosts, 2 ports, about a thousand files (one entry with any pattern of up to 4 characters, or two entries in any order), 4 bytes of output, lines of 3, 1 other message | patterns with two stars need to go back; two entries are the least that contradict one another; 4 bytes hold a second line with a mark, a mark cut in two, and a line too long |
| `fragments` | what comes out, however the bytes are cut | 2 messages, 5 bytes, 2 to a fragment, headers of 2, 2 faults | first, middle and last fragments; a fault on each message, or two that could hide one another |

In `ssh`, MaxOther lets the server send one message without output, or end the channel.

`pipelines`, `winrm`, `ssh` and `fragments` have no type invariant of their own: the bounds
that matter (the line and the reassembly buffer) are conjuncts of `StreamIsSplit` and
`ReturnedInOrder`, and the rest would only repeat the assignments.

Deadlock is checked in `session`, where `Rest` is the one state with nothing left to do,
and in `state`. The other systems may stop: a closed pool, a transport that gave up its
shell, a peer that sent its last message.

### Violations

Four runs check a sentence of the code's own documentation and find it untrue.

- `pool_parked`: the parked calls of an unusable key *each get an error* and none waits
  for ever (`pool.rs`, comment of `accept_encrypted_session_key`). The list is taken
  (`mem::take`, line 526) before its elements are sent, so a read dropped at one of these
  sends, by a cancelled pipeline for instance, loses the rest.
- `winrm_refused`: `RunspacePool::disconnect` says that a refused disconnection tears the
  shell down. The transport takes the shell out before it asks (`transport.rs:476`), so
  the `close_shell` that follows finds none and the shell stays on the server.
- `pipelines_handles`: *the last outstanding handle closes the pool* (`shared.rs`). Two
  handles closed at the same time each see the other, and both are refused.
- `pipelines_query`: `get_command_metadata` promises the commands its pipeline reported.
  Its loop does not compare identifiers (`metadata.rs:144`), so it takes over the output,
  and the end, of a pipeline an earlier run abandoned.

Further places where the code and a sentence about it disagree, met while modelling. They
are visible in the models, and not kept as runs:

- `done` of the WinRM transport is not reset when a second command is started
  (`transport.rs:350`), so the empty long polls of that command are handed out as empty
  chunks, where the trait says that they must be retried (`transport.rs:25`);
- `close_shell` over SSH sets `closed` before it closes anything (`ssh.rs:565`): if it is
  dropped half way, another call returns `Ok` at once, and the destructor does not warn;
- authentication and the opening of the channel have no limit of time (`ssh.rs:461`);
  `connect_timeout` covers the connection and the subsystem reply;
- a reconnected pool counts its object ids from 1 again (`pool.rs:836`), though they are
  said to be unique in a pool (`take_object_id`) and the server's pool is the same one;
  `ObjectIdsUnique` is checked without reconnection;
- `disconnect` does not look at the state machine, so a pool the server declared broken
  can be disconnected and reconnected as `Opened` (`pool.rs:243`, against `state.rs:192`).
  `PoolLifecycle` holds of the driver where the application does not disconnect;
- after a `PUBLIC_KEY_REQUEST` the key in hand is still used until the new one arrives
  (`pool.rs:685`), although the request is taken to mean that the server has none
  (`pool.rs:426`);
- the table of transitions lets a server go from `NegotiationSent` to `Opened` without
  `NegotiationSucceeded` (`state.rs:311`), which the comment above it rules out;
- a host call that cannot be read ends the read with an error (`pool.rs:621`) and gets no
  answer: the server waits for it, though a host that fails is answered with an error "so
  the server doesn't hang waiting for a reply" (`pool.rs:662`) and the wait for a key says
  that host calls are answered by `next_message` itself (`pool.rs:442`).
  `HostCallsAccounted` excepts these calls by name (`unreadable`), and no other;
- one payload of a chunk that cannot be decoded ends the read before the messages of the
  others are queued (`pool.rs:606`);
- a cancellation is not watched while a task waits for the mutex (`shared.rs:92`);
- a decoded list arrives as an object with the list in `_value`, and four readers look for
  the bare list: the choices of `PromptForChoice` and the fields of `Prompt`
  (`host.rs:362`, `host.rs:392`), the tags of an information record (`records.rs:203`) and
  the parameters of a command (`metadata.rs:98`) are read as none. `ReadAsMeant` excepts
  them and says so;
- the encoder and the decoder are not inverse: a label (`ToString`) is never read, what an
  object holds beside members is lost when it has members, and a container that closes
  itself is dropped (`ReadsAs` says what comes back);
- `MAX_NESTING_DEPTH` counts elements, and an element can hold an object with a list in it,
  so a value can be nested twice as deep; type names copied by `TNRef` are not charged to
  the budget of the references;
- `feed` returns the error of a refused fragment and drops the messages it had completed
  before it (`fragment.rs:219`), though it says that it returns every message completed.

### Fairness

No scheduler is modelled, only what the code itself makes sure of once a call is polled.

- `session`: the executor polls an operation until it ends, and timers fire. Nothing is
  assumed of the server: `EveryRequestEnds` rests on the acknowledgement timeout. `recv`
  may wait for ever, and is not in the property.
- `pool_keys`: the executor polls, sends return, the host answers, and a server that was
  sent a public key replies. The pool has no timeout of its own, so the last assumption is
  needed; it is the protocol's obligation. Chunks that cannot be decoded lose the reply
  and are exempted, as the code has no recovery for them.
- `winrm`: the executor polls a `recv_chunk`, winrm-rs bounds the time of a request, and a
  long poll that reached the server ends. A server that is never reached is not excluded:
  this is what the streak of timeouts is for.
- `pipelines`: the executor polls each run, and the server honours a stop. A script is not
  assumed to end.

## 4. Proofs

`RunspacePoolStateProofs`, for every set of codes and every number of messages:

- `TypeCorrect`: the machine is always in a state of the enum. The step is `FromI32Type`.
- `NoResurrection`: `NeverResurrected`. It is not inductive: a pool that is not `Opened`
  could be in a state a server opens it from. `OnItsWayOut` (once ended: closing, closed
  or broken) is, because the table has no pair that leaves these three (`NoWayBack`).
- `LifecycleKept`: the machine implements `PoolLifecycle`: initial states map to initial
  states, every step to a step or a stutter, the server's by a lemma on the table.

The lemmas on the table come first in this module; the one that the driver needs too
(`ServerKeepsLifecycle`) is also in `RunspacePoolProofs`.

`RunspacePoolProofs`, for every number of host calls, pool calls, messages and faults:

- `ParkedAlwaysSettled`: an answer is parked only while a key is held or an exchange is
  under way. The inductive invariant `ParkedInv` adds what holds between two awaits: the
  public key being sent is that of a generated pair (the one that will be stored when the
  send returns, on whose strength the answer in hand is then parked), and a flush goes on
  only with a key. There is one lemma for each group of actions. The only assumption is
  that `None` is no number.
- `SecretsStayEncrypted`: no SecureString reaches the server unencrypted. `SecretInv` says
  where keys come from: each is the number of a generated pair or of a key that was set,
  and so is the pair being announced. Every step then is a `SafeStep` (it sends nothing
  new, no SecureString, an encrypted one, or a new public key), one lemma for each group
  of actions, and a safe step keeps `SecretInv`. A flush needs `ParkedInv`.
- `DriverTypes`: `TypeOK`. It needs to know what the message in hand is at each await
  (`CallIsAsked`, `PublicIsNumbered`, `ListsAreTaken`). For each part of the state there is
  a lemma on what any step does to it, and one that this keeps the types.
- `DriverKeepsLifecycle`: the driver implements `PoolLifecycle`, assuming that the pool is
  not disconnected. `disconnect` asks for no state of the machine, so a pool that has ended
  would come back by it: without the assumption the statement is false.

`RunspacePoolHistoryProofs`, for the same driver, over a whole run of it:

- `KeySetStays`: `OutOfBandKeyStays`. Exchanges are numbered in the order they start;
  `KeyOrder` says that a pair in use after a key was set has a higher number than those
  before it. Every step is one of four `KeyMoves`.
- `IdsNeverRepeat`: `ObjectIdsUnique`, assuming that the pool is not reconnected, for a
  reconnected one counts from 1 again. `IdsInv`: the ids delivered are below the next one,
  and below the one on its way.
- `NoHostCallLost`: `HostCallsAccounted`, each host call that can be read. What is being
  sent is the answer of the call in hand, of the first one parked or of the first one to
  fail; a chunk is read only when no message is left; a call is in hand only while the host
  is asked or its answer is on its way. `PlaceInv` says so, and every step is shown to move
  a call from one place to the next, to find that it cannot be read, or to be remembered in
  `lost`.
- `AnswersAreOnce`: `AnsweredOnce`, with faults. `OnceInv` gives a host call five places (on
  its way, buffered, in hand, parked, failing) and says that it is in one at most, and
  once. As long as it is in one, all its answers were repeated by a fault; once it is in
  none, one answer was not. A drop while a parked answer is going out is the step that adds
  an answer and leaves the call where it is (`AnsweredIsOnce`); every other step adds none,
  or takes the call from its place.

`OutOfProcSessionProofs`, for every number of pipelines, operations, lines and payloads:

- `SessionIsSound`: the invariant the next four rest on. At most one request is unanswered,
  whoever made it and whether or not that operation was dropped since, and `awaiting` names
  it. So what the client believes of the server (`SentInv`) is wrong only while a request
  or its acknowledgement is on its way, and the acknowledgement then says what to correct
  (`AckInv`). Nothing is requested before nothing is awaited, hence every request fits what
  the server has (`PlanInv`, `AwaitInv`, one lemma for each group of actions).
- `SessionTypes`, `ClientKeepsTheRules`, `CommandStateIsConfirmed`, `SuccessIsReceipt`:
  `TypeOK`, `ServerNeverMisled`, `CommandStateMatches` and `SentIsReceived`.
- `NothingIsLost`: `NoByteLost`. `OrderInv`: what was handed out and what is queued are the
  first payloads, numbered without a gap, and until the session breaks the rest is on the
  stream, in order, whatever acknowledgements are between.
- `QueueIsDrained`: `QueueDrainsFirst`.
- `SessionFailsClosed`: once the session is broken, or a write or a payload was abandoned,
  no line is begun and no byte goes out. This does not follow from the guard of the write
  alone, which is looked at an await earlier: the invariant `SoundInv` says that during a
  write the session is not broken and no received line is left that could break it.

`WinrmTransportProofs`, for every number of commands, chunks, faults and timeouts:

- `ParkedIsCurrent`: `ReceiveIsCurrent`. `ReceiveInv` adds that a `Receive` keeps its
  stream on its way to the server, and that one is started only while the shell is held.
- `OwnStopOnly`: `StoppedWasAsked`. `stop_signalled` is one flag for all commands, so
  `StopInv` says that it is up only if the server accepted a stop of the current one, and
  that the command a signal is under way for cannot change meanwhile.
- `OutputArrives`: `OutputReachesReaders`. `FlowInv`: what was handed out, then what the
  `Receive` holds, then what waits at the server, is the output of each stream; a `Receive`
  that was not answered, or with a fault, holds none.
- `ShellNeverLeaked`: `ShellAccountedFor`. `ShellInv` says where a taken shell is: a request
  that the server acted on before it returns, or a mishap that is remembered.

`PipelinesProofs`, for every number of tasks, runs, values and faults:

- `ResultsAreOwn`, `EndsAreTrue`: `ResultIsOwn` and `EndedOnServer`. `RunInv`: the messages
  that wait carry each pipeline's values in the order of their numbers, with its end last,
  those of abandoned pipelines among them; and what a run has collected is the first
  values of its own pipeline, with all the later ones still to be read. That only one run
  reads at a time is `MutexHeld`.
- `StopsAreOwn`: `StopIsOwn`. A stop names no pipeline; `LockInv` says that a task past the
  mutex heads its queue and that its pipeline is the one started last. Two lemmas say what
  joining and leaving the queue do to it.
- `ClosedUnderNobody`: `ClosedWhenUnused`. `HandleInv`: who uses the pool, or waits for it,
  has a handle, and a closed pool has none left.

`FragmentsProofs`, for any number of messages of any length, any payload and header size
but zero, and any number of faults:

- `FeedsAreSound`: the invariant. The bytes in the buffer and on the wire are, one by one,
  those of a sequence of whole fragments of the messages that were sent, however they were
  cut (`Laid`). Counted along that sequence, the fragments of a message that no fault
  touched have the ids that follow those already taken (`InOrder`), and the last fragments
  the places in `finished` that follow those already returned (`Delivered`). A turn of the
  loop takes the head of the sequence and keeps all this (`AcceptKeeps`, `RefuseKeeps`).
- `MessagesAreWhole`: `ReturnedWhole`. What is joined in an entry is a prefix of its message
  as long as its ids say (`Grown`), because a fragment is accepted only with the next id.
- `MessagesAreInOrder`: `ReturnedInOrder`. A fragment refused is of a message that a fault
  touched, and a buffer in which nothing is whole, with nothing on its way, is empty.

`SshTransportProofs`, for any hosts, ports, keys, files, patterns, outputs and limits:

- `GlobMatchIsMatches`: `glob_match_bytes` keeps one place to go back to, the last star,
  and is said to need no other. `GlobInv` is why: what is before that star is matched, and
  if the name matches at all then it does with the star where it stands or further on, for
  all that an earlier star could reach, a later one reaches (`GlobAhead`). Each turn that
  does not end the loop raises a measure, the characters behind the star's own start first,
  then those behind the pattern, so the number of turns in `GlobMatch` is enough
  (`MeasureGrows`, `TurnKeeps`).
- `VerdictIsTrust`: the verdict, reached entry by entry with an early return, is what the
  file says without order; `PatternsMatch` is the same for the patterns of an entry and
  their negations. Patterns are compared without case, and the reference compares them with
  a name in lower case, so both need `LookupNameIsLower`.
- `AcceptsWhatItVouchesFor`, `OnlyTrustedServers`: hence a key is accepted exactly if the
  policy vouches for it, and `CredentialsOnlyToTrusted`. `TrustInv` says at which awaits
  nothing was sent yet and at which the key was judged.
- `PushReadsOn`: what a splitter holds after a push is decided by the stream so far, not by
  where it was cut. `SplitSoFar` says what the loop holds after each byte: the good lines
  before the first bad one, whether there is a bad one, and the line that has begun;
  `TakeByteKeeps` adds a byte on both sides, with what a byte does to the newlines and the
  lines of a stream (`EndsAppend`, `RawsAppend`).
- `StreamIsSplitIntoLines`: `StreamIsSplit`. `StreamInv`: until connect fails, the output is
  what the splitter has read, then what is kept from before the reply, then what is on its
  way; and the splitter is not pushed anything after it failed.

The loops of `feed`, of the glob, of the lookup and of the splitter are recursive
functions. In `FragmentsProofs`, `TurnsAre` proves the equations of one; `LoopExists` and
`LoopValues` of `SshTransportProofs` do so for any function that a loop steps through a
set of values. What they say of every number of turns is proved by induction over a set of
numbers: those up to which the loop's invariant holds (`SetInduction`, `LoopEnds`,
`TurnInduction`). This is the form that the induction rules of the library, which take an
operator, do not have.

The assumptions on constants are that `None` and `Nil` differ from what they are told apart
from, and that bounds and sizes are numbers, positive where the code has a constant above
zero (`MAX_FRAGMENT_PAYLOAD`, `FRAGMENT_HEADER_LEN`). Of `SshTransport` they say besides
what hosts, ports and files are: names, patterns and hashed names are sequences over a set
`Chars`, in which a port is one character that is not a capital letter, and a file is a
sequence of entries. `IdsNeverRepeat` and `DriverKeepsLifecycle` have the
conditions named with them.

Only model-checked: liveness (`EveryRequestEnds`, `KeyCallEnds`, `ParkedAnswered`,
`RecvNotStuck`, `CancelledRunEnds`), which is out of the prover's reach with its fairness;
and all that is about values (`ReferencesBounded`, `NestingBounded`, `TextReadsBack`,
`WrittenReadsBack`, `ReadAsMeant` of `Documents`), where decoder and encoder would need an
induction over documents that the provers cannot make. These modules use RECURSIVE
operators, for values that hold values; a comparison of such values cannot be written
shortly without them.

## 5. Not modelled

The blocking wrapper, the wrappers for fuzzing and the crate root (`blocking.rs`,
`internal.rs`, `lib.rs`): no state and no order of their own. The tokenizing of XML
(`quick_xml`, and the attributes of a packet in `out_of_proc/packet.rs`); AES, RSA and the
generation of keys, and the deprecated hexadecimal form of a key (`crypto.rs`); the texts
of dates and floating-point numbers; the hashing of host names and the numeric forms of
addresses (`ssh.rs`). Of the fake server, the rules it enforces are the server of
`OutOfProcSession`; the knobs of its handle are that server's choices. The tests and fuzz
targets were read for what the crate promises.

## 6. Plan

1. Done: the session, the state machine with its abstract lifecycle and its documents, the
   pool driver, the WinRM transport, the pipelines over a shared pool, the fragments, the
   SSH transport; theorems of all of them but the documents, which state all the safety
   properties their runs check.
2. Models: numeric addresses in the host lookup; a server that blocks on the input of a
   pipeline.
3. Composition: the pool over the fragments; the pool over the WinRM transport, where a
   dropped read leaves a `Receive` behind.
4. Theorems: the counting of references and of nesting in the decoder, over a model of its
   values without RECURSIVE operators.
