# rbtl, verified

TLA+ models of rbtl (the Reliable Bridge Transport Layer), the TLC
configurations that check them on small instances, and TLAPS proofs of what
matters most for every instance. Paths are relative to the repository; the
exact lines each definition translates are in `PROJECT.json`, under `map`.

## The system

rbtl moves messages between a client and a listener over one of several
transports behind common traits. Every socket is polled: nothing happens inside
a connection between two calls of `process()`, which reads the clock, reads
everything the system has for it, and sends what is due.

| Component | State it keeps | Operations | Module |
|---|---|---|---|
| Ack bitmap (`rbtl-rudp/src/net/protocol/fragment/ack.rs`) | none | encode the received fragment ids, list the missing ones | `AckBitmap` |
| Fragmentation (`fragment/frag_generation.rs`, `mod.rs`) | none | cut a message, refuse empty and oversize ones | `Fragmentation` |
| FragmentAssembler (`fragment/frag_assembly.rs`) | per sequence id: the fragments, or that they were complete; acks sent; ages | `push`, `tick` | `FragmentAssembler`, `Receiver` |
| SentDataTracker (`net/sent_data_tracker.rs`) | per key message: its bytes, last ack, ages | `send_data`, `receive_ack`, `next_tick`, `is_seq_id_received` | `SentDataTracker` |
| Packet codec (`protocol/packet.rs`) | none | `to_bytes`, `attempt_from_bytes` | `PacketCodec`, `PacketBytes`, `ByteOrder` |
| rudp Socket (`net/socket.rs`, `net/inner.rs`) | status and its date, keys, dates of the last datagram received and sent, events | `process`, `send_data`, `send_end`, `drain_events`, drop | `Connection` |
| rudp Listener (`net/listener.rs`) | a socket per remote address | `process` (remove, receive, tick), send, end, drop | `Connection` |
| tcp Ingester (`rbtl-tcp/src/ingester.rs`) | the partial message, the results | `take_bytes` | `Ingester`, `ByteOrder` |
| tcp Socket, Listener (`rbtl-tcp/src/socket.rs`, `listener.rs`) | stream, status, heartbeat dates, last receipt, events | the connecting thread, `process`, `send_data`, `send_end`, accept, removal | `TcpConnection`, `SeqIds`, `Selections` |
| PingTracker (both crates) | the ping under way, the last 16 pings | `ping`, `pong`, `avg_ping` | `PingTracker` |
| RBTLClient and the adapters (`src/macr.rs`, `rbtl_impl.rs` of both crates) | one of the sockets | the calls of the `Client` trait, the names of statuses and events | `Client`, `SocketMoves` |
| RBTLConnector (`src/macr.rs`) | which protocols are done, the client being tried | `new`, `attempt_connect` | `Connector` |
| RBTLAsyncClient (`src/macr.rs`) | the client and the events under a mutex each, the stop flag, the events taken out and not read | the worker's loop; `drain_events`, `next_event`, `with_lock`, `send_stop`, `wait`, drop | `AsyncClient` |
| RBTLListener, the server half of the adapters, configuration | | | not modelled, see the end |

How they interact. In rudp, `Socket::send_data` hands the message to the
tracker, which emits Fragment datagrams; the peer's `add_packet` pushes them
into its assembler, whose `tick` sends Acks, which the first socket's
`add_packet` hands back to its tracker; `inner_tick` drives both ticks,
heartbeats, Syns and the timeout. In tcp a socket writes whole messages into
the stream, and its peer's `recv_all` gives whatever bytes there are to the
Ingester, whose results `process_ingester_results` turns into events and
receipts; a client's stream is made by a thread of its own and handed over
through a `OnceLock`. Above both, an RBTLConnector holds one client at a time
and calls its `process()` until it connects or is over, then goes to the next
protocol. The client it gives away may be owned by an RBTLAsyncClient, whose
worker thread calls `process()` every millisecond under the client's mutex and
moves the events into a shared buffer; the application swaps that buffer for its
own, and reaches the client through `with_lock`.

What is hard: datagrams lost, duplicated, delayed and overtaking each other;
acks that are stale; two ends with clocks read at different times; data dated
from the *last* `process()` (`cached_now`); connections that end, time out or
are dropped while their handshake is still under way; streams cut at any byte;
the thread that connects; a worker thread and its owner, either of which may
panic with the mutex in hand; bits, ids and lengths at their boundaries. Each such
place is a hazard of `PROJECT.json`, at its line, with the properties that
watch over it.

## The modules

    AckBitmap     Fragmentation        PacketCodec     ByteOrder
      |    \        /                   /        \      /      \
      |   SentDataTracker         Connection  PacketBytes   Ingester
      |          |                                             |
      |          |                                         MCIngester
    FragmentAssembler
      |    \      |
    Receiver  ReliableTransfer  --implements-->  MessageDelivery
      |            |
    MCReceiver  MCReliableTransfer

    SeqIds --- TcpConnection       PingTracker -- Client -- Connector -- AsyncClient
                 |                                  |                        |
    Selections --+----------------------------------+                  MCAsyncClient
                                                    |
    SocketMoves ------------------------------------+

The proofs are in modules of their own, `XProofs` for a module `X`, except that
`ClientProofs` is about `AsyncClient` with all it extends, `TcpConnectionProofs`
about `SeqIds` too, `WireFormatProofs` about `PacketBytes` and `Ingester`, and
the proofs of both connections about `SocketMoves`:

    FragmentAssemblerProofs             SelectionsProofs        ConnectionProofs
      |              \                  |            \         WireFormatProofs
    ReceiverProofs  ReliableTransferProofs  TcpConnectionProofs  ClientProofs

**Reliable transfer.** `FragmentAssembler` and `SentDataTracker` are the two
halves as components: operators that are whole handlers (`Push` is `push` and
the hand-over of the message; `AssemblerTick` and `TrackerTick` are a whole
tick, over all the messages), each constraining its own variables.
`ReliableTransfer` composes them with a network of fragments and acks, for
one direction (the other runs the same code on other state). `MessageDelivery`
is what an application is entitled to believe, in thirty lines and without
fragments, acks or time; `Promise` in `ReliableTransfer` is the refinement
mapping. `Receiver` is the assembler alone, fed with *any* fragments in any
order: an environment weaker than every sender and network, for what the
assembler guarantees by itself.

**Connection.** Both sockets and the listener's bookkeeping for one client.
`process()` is split into `Begin` (the clock, removal of old remotes), one step
per datagram (`Gets...`, one action per packet variant, and `Accepts` /
`Ignores` for an unknown source) and one closing step (`Finishes...`, one per
outcome of `inner_tick`); the clock stands still while an end is inside. Keys
are numbers, and `FreshKey` reuses a number that occurs nowhere any more.
`process()` queues events and takes none out: that is `AppDrains`, a step of the
listener's application, which may come at any time or never (what the client's
application drains, no step depends on).
Messages are best-effort ones of a single fragment, for which tracker and
assembler send nothing.

**TCP.** `Ingester` is the framing: `take_bytes`, with the status and the bytes
of the message it has not finished, on a stream of real bytes (`ByteOrder` has
the numbers, as both protocols write them). It shows that the messages written
are read whatever the cuts; on this ground `TcpConnection` keeps the stream as a
sequence of messages, and makes the cases the Ingester cannot undo (`Torn`:
`write()` took a part; `Oversize`: above the receiver's limit) break the
framing, after which anything may be read. Here `process()` is one step, since
the other end can only append to the stream meanwhile; what it depends on
*twice*, the `OnceLock` of the connecting thread, is read in two steps
(`ClientChecksDial`, then `ClientProcesses`), so that the thread may deliver the
stream in between. Messages are counted as they are sent, and their sequence ids
(`SeqIds`) are started over: the run sends four messages over three of them.
`Selections` is what a filter keeps
of a sequence, the data of the events here and what `drain_events` converts in
`Client`.

**Client, connector, worker.** `Client` is what a caller of either socket can
tell from outside: a call of `process()` is any number of steps that change the
status and queue events as `SocketMoves` allows (`RudpMoves`, `TcpMoves`, from
the handlers that `Connection` and `TcpConnection` model in detail; that these
do nothing else is proved, see below), and receipts come for messages sent, late,
doubled (rudp) or never (a tcp receipt that could not be written never comes,
while later ones may). Statuses and events keep the names of the sockets and
are converted where the adapters do it. `Connector` splits `attempt_connect`
into one step per turn of its recursion, with what `process()` does in between.
`AsyncClient` splits the worker's loop wherever the owner can come in between,
and lets either thread panic: the worker inside `process()` of an rudp socket
(the panics of `ReliableTransfer`), the owner inside `with_lock`. A panic
poisons the mutex, as the standard library does.

**Bytes.** `PacketBytes` is the datagram format of rudp, byte by byte and for
every variant. A crc is kept as the bytes it was computed over, so two contents
never share one. It has no states and no run; it is there to be proved about.

Conventions. An `Instant` is only ever compared with `now`, so it is kept as an
age, saturated at the delay it is compared with. Options are sets of at most
one element. A hash map's order, and what a broken framing yields, are
nondeterministic. "history" marks variables that record and are never read by
an action. An operator whose comment says "Mutant of X" is X with a plausible
bug: `PROJECT.json` lists, for each property of each run, the mutant that the
property catches.

## What the runs check

The comment at each CONSTANT gives the delay of the code. `Disagreement` has
them in seconds and `ConnectionPrompt` in half seconds; `Receiver` and
`TcpPrompt` scale them down and keep their order. The others do not always:

- `TransferPrompt` is long enough in the receiver's limits for three losses to be
  repaired within any of them, as they are in the code (a resend every 160 ms, a
  limit of 1 s), and short in the sender's clean-up (4 units), which in the code
  comes after the shortest of these limits. An earlier clean-up is the harder
  case for what the sender promises.
- `TransferAsync`, `ConnectionAsync` and `TcpFaults` check safety only, with the
  smallest delays that let each timer fire, some of them equal. What they check
  is proved for all delays.

| Run | Question | Bounds |
|---|---|---|
| `Receiver` | Are acks true and exact, whatever arrives? Is nothing delivered twice while remembered? | a message of 2 fragments, sent encrypted as key and again in clear, and one of 3, one of which never comes; a byte of 2 bits, so that one of them has no bit for its last fragment |
| `TransferPrompt` | Does the transfer deliver intact, keep every promise of `MessageDelivery`, learn every delivery, and deliver no copy of what it knows delivered? | one message of each kind, 3 datagrams lost, 1 duplicated, `process()` up to 2 units apart, sends before the SynAck |
| `TransferAsync` | Does it implement `MessageDelivery`'s safety, deliver intact and keep what is not delivered, under datagrams delayed without limit and with messages that make either thread panic? | one key message, 1 duplicated, any delay, sends after the SynAck |
| `ConnectionAsync` | Is the life cycle safe under stale datagrams? Does the listener forget no event of an application that drains? | 1 datagram delayed for any time, 1 duplicated, one send, one end, drops, drains at any moment |
| `ConnectionPrompt` | No one-sided timeout; handshakes resolve; the listener forgets dead clients | the code's own delays in half seconds, `process()` up to a second apart, 1 loss |
| `Ingester` | Do cuts of the stream matter? | any 3 of 6 messages: bodies of 0, 1 and 2 bytes and one above the limit, whose bytes look like ids and heads, a receipt and a heartbeat; heads of full width; every cut |
| `TcpFaults` | Data in order and once, receipts for data that is queued, the end last, final reasons, announced removal | one end; 4 messages of the client over 3 sequence ids, the fourth with the id of the first; with two messages, one write torn, refused or oversize; with one, the network cut at any moment, or data of the server |
| `TcpPrompt` | No one-sided timeout; both ends learn | dial and timeout equal, as in the code; the network cut at any moment |
| `AsyncClient` | Does the connector skip no protocol and decide? Is no event lost, doubled or out of order between the threads, and no status seen before its event? Does the worker stop? Are pings true? | both protocols, either of them offered or not; 3 events and messages, 2 turns after the stop (10 in the code), 2 pings remembered (16), averages over -1, 0 and 1 units of time |

Why these bounds are enough to be interesting. The order of the delays is what
decides which of two timers fires first. In the transfer, messages share no
state but the counter of sequence ids, so one message at a time shows every
interaction of its own; two bits in a byte bring the boundary of 8 fragments
down to 2 (the bitmap's proof holds for every width). `MaxLate` bounds how many
datagrams (or TCP messages) may be under way while time passes, not how long:
with 1, one datagram may arrive at any later time, which is what a stale Syn,
SynAck or End takes. `MaxLosses` bounds the losses, `MaxFaults` the torn writes;
`MaxIdle` how long an application forgets to call `process()`: in
`ConnectionPrompt` two half seconds, and with three a single loss is enough for a
one-sided timeout, since a heartbeat leaves only with the first `process()` after
a second. `MaxSendsMixed` bounds the messages of a tcp connection whose server
sends too, whose network is cut or whose writes fail (one more then); the long
sequences that make ids start over are the client's alone, on a stream that
works until an end closes it. `ListenerDrains` takes the drains, on which no other step
depends, out of the runs whose properties do not speak of them. `MaxActivity`
bounds events and messages together: with 3, a client may connect, receive and
end, or send two messages whose pings displace each other. TLC finds every
listed mutant within these bounds.

Three runs expect a violation; each shows a disagreement between the code and
what it says of itself:

- **`GarbledRepair`**. The first transmission is cut from the ciphertext, a
  resend from the plaintext, and the receiver decides whether to decrypt from
  one fragment. With two or more fragments and a loss, it may hand a mixture to
  the application (or drop the set as corrupted). With one fragment it cannot.
- **`NineFragments`**. An ack has `ceil(frag_total / 8)` bytes, where
  `frag_total` is the id of the *last* fragment. At 9, 17, ... fragments the last
  has no bit: an ack without it reads as complete, and an ack of a set that
  holds it panics on an index out of bounds.
- **`Disagreement`**. Any packet counts as a sign of life before its origin is
  checked. A late Syn after the listener removed a remote makes a second one,
  with a key the client does not have: each refuses the other's packets, and
  each is kept alive by them.

The invariants of the passing runs are therefore stated, or their messages
chosen, outside these cases: `HasBitForLast` guards the ack properties,
`SoundMessages` and `KeyMessages` are of one fragment when encrypted. What
`MCReliableTransfer` calls `PanickingMessages` is run in `TransferAsync`.

Deadlock is checked in the rudp runs, where time can always pass. It is not in
the others: the Ingester stops when its bounded writes are read, and a TCP
connection of which both ends are dropped has nothing left to do. `AsyncClient`
says itself where it may stop (`Finishes`), and deadlock is checked there.

## Fairness

Liveness assumes weak fairness of: each end's `process()` (the documented
contract of the library: call it continuously; it drains the socket and
returns), the connecting thread's end (`connect_timeout` returns), the
listener's application draining its events (`TcpPrompt`: a remote is kept until
it does), and the passing of time. Nothing is assumed of the applications'
sends and ends, of drops, of the network's losses (they are bounded instead,
or, in TCP, end in a cut). Weak fairness suffices because an arrived datagram
stays until it is read. The promise of `MessageDelivery` is weak fairness of
the *delivery of a message still promised*, so an expiring message that expires
breaks nothing.

In `AsyncClient` it is assumed that the owner of a connector calls
`attempt_connect` again (its documentation asks for it); that a handshake
resolves, which is strong fairness because each call only offers a chance
between its two ends, and which `ConnectionPrompt` shows for rudp and the dial's
and the heartbeat's timeouts give for tcp; that both threads are scheduled and
`process()` and `join()` return; and, for `EventsReachOwner` only, that the owner
goes on reading. It is not assumed that the owner ever sends, ends or stops.

## What is proved

All theorems are about every value of the constants that the named assumptions
of the modules admit: any number of messages, fragments, losses, repetitions and
faults, any delays. `PROJECT.json` lists the theorems, each with the property of
a run that it states. The candidates for the inductive invariants were checked
with TLC on the runs' instances before they were proved.

### The receiver

`FragmentAssemblerProofs` has the facts about acks and about the operators of
the assembler, among them `RoundTrip`: what the receiver encodes the sender
decodes, and encoding does not panic, if the last fragment has a bit. From
`ReceiverInvariance`, the inductive invariant `ReceiverInv`, follow
`ReceiverTypes`, `AcksAreTrue` (an ack that reports nothing missing is only ever
sent for a delivered message: it is sound to stop resending), `AcksExact`,
`NoneWaitsInVain` (no set waits with all its fragments) and `NoSecondCopy`
(while a complete set is remembered nothing of it is delivered again, and it is
remembered until it is stale).

The argument. That acks are true is not inductive: an ack is built long after
the fragments arrived, from an arbitrary one of them. `ReceiverInv` adds
`SetInv`: a complete set was delivered, and a set that waits holds at least one
fragment and at most `frag_total` of the `frag_total + 1` there are. From the
count follows that an id is missing (`WaitingLacksOne`, by cardinalities), from
`EachFragmentHasABit` that its bit is in the ack, hence that the ack reports it
(`AckOfWaitingSet`). Each action has its lemma (`FragmentArrivesStep` with one
case per outcome of `push`, `TicksStep`, `PanicsStep`, `AgesStep`). The one
assumption on the environment is `ReceiverAssumption`: all fragments of a
message name the same `frag_total`, and the parser has refused ids beyond it.

### The transfer

`ReliableTransferProofs` carries this from the receiver alone to both ends and
the network, where that assumption is *false*: a message is cut from its
ciphertext first and from its plaintext when resent, and the two may differ in
their number of fragments. `TransferInv` is a chain. A fragment under way, or in
a set, is one its message was ever cut into (`SentOf`); so a set that waits
lacks one of them (`Partial`); so an ack that reports nothing missing comes from
a delivered message (`Tells`), wherever it is: under way, delayed, doubled, or
the last one the sender has; so does `done`, from which `is_seq_id_received`
answers.

The conclusions are drawn message by message, for those the code can keep its
promise to. `BelievableIsDelivered` and `BelievableIsKept`: a message whose
ciphertext makes as many fragments as its plaintext, and whose last fragment has
a bit in the ack. `UnmixedIsIntact`: a message that is not encrypted as a key
one of several fragments. `ReceivedIsDelivered`, `DeliveredIsIntact` and
`KeptIsDelivered` are the invariants of the runs, when the application sends no
others. These hypotheses are what the code needs, not what the proof does:
`NineFragments` and `GarbledRepair` show the violations without them. The proofs
are about any number of messages at once; so it is here only, and not in a run,
that a tick sends some messages again before it panics at another (`TrackerPanic`:
which ones is up to the order of the hash map).

`PromiseIsKeptSafely` is the refinement: the initial states of the transfer map
to those of `MessageDelivery`, and each step to one of its steps or to none.
A `send_data` that is accepted is `Send`, the first completion of a message's set
is `Deliver`, and what the tracker concludes from an ack or forgets in a tick is
`Settle`, for all its messages at once; what had to be shown is that it
concludes and forgets nothing else than what was delivered, or may expire. It is
stated for applications that send believable messages only.

### A connection of rudp

`ConnectionProofs`, with the inductive invariant `ConnectionInv`. The types
alone are not inductive: that a socket never gets a key it should not have
depends on what is under way. `Genuine` says that every Syn under way is the
client's; `Sound` what keys a socket has and what it owes to its application
(Connected once it knows the other's key and before any data, and how it ended);
`Settled` that of an application that has drained its events since the last call
of `process()` the only one that may be unread is that of a `send_end`, and since
when. From it `ConnectionTypes`,
`ConnectedBeforeData`, `FinishedForGood` and `RemovedAfterNews`. The last is about
an application that drains its events between any two calls, because the removal
goes by age alone and looks at no event, and it needs the clocks: what is unread
when a call of `process()` starts was queued after that drain by a `send_end`,
which is dated from the clock of the call before; by that same clock the removal
decides, so a remote whose status is old enough has nothing unread.

### A connection of tcp

`TcpConnectionProofs`, with the inductive invariant `ConnectionInv`:

- `FlowInv`: as long as the framing holds, what an end has queued, followed by
  the data among any sound messages that it has not read, is a prefix of what
  the other end sent; while nothing is cut or closed, with all of them it is all
  of it.
- `ReceiptsInv`: receipts under way are for data that is queued. `OrderInv`: the
  ids accepted from an application increase. `EofInv`: a stream that is not cut
  or closed ends only when its writer shut it down.
- `SocketsInv`: of each socket, that its status is the last it announced, that
  its last receipt is for data queued at the other end, and that a socket that
  reports an end has read everything. `LifeInv`: the listener makes its socket
  once, of a connection that carried nothing yet.

Most steps are `Quiet`: they shorten what is under way and change no more of a
socket than its status and its ages, and keep the stream's part by one lemma.
The two that are not are `process()` (`ProcessesKeep`: it takes a part of what
there is, whatever it takes for its results, and writes no data) and `send_data`
(`SendsKeep`). From it follow `TcpTypes`, `DataComesInOrder`, `DataIsAsSent`,
`EndHidesNothing`, `OverForGood` and `RemovedWhenTold`.

`DataIsAsSent` is about the 2^32 sequence ids of the code and any number of
messages. The ids are started over, and `is_seq_id_received` compares them around
the circle: `ReceivedIsSentBefore` shows that it tells which of two messages was
sent first if they are close enough. `DataIsWhatWasSent` therefore speaks of the
messages sent no more than half of all ids after the one of the last receipt; one
that is further on is taken for one that is received. `RemovedWhenTold` says that
every event was taken, the last one included.

### What a client may build on

`Client`, and with it everything about the connector and the worker, takes from
the two connections only `SocketMoves`: the statuses a socket may take inside
`process()` and the events that come with them. That the detailed models do
nothing else, in any step and whatever the network does, is proved:

- `SocketsMoveAsClients`, of rudp, where a step is one datagram or one tick: the
  status and the history of a socket stay as they are or make one of
  `RudpMoves`; outside `process()` only a `send_end` changes them. What is not
  obvious is that nothing but the SynAck is heard before it: data and an End pass
  the check of origin only from the known key, and a socket that awaits the SynAck
  knows none (a part of `Sound`), while no datagram comes from key 0.
- `TcpSocketsMoveAsClients`, of tcp, where a step is a whole `process()`: there
  is a path from the old status to the new one, along which each new event is one
  of `TcpMoves` (`MovesOn`). The results are taken one by one
  (`IngestedStepwise`), then the timeout and the end of the stream are moves, or
  are kept out by a status that is over. The attempt at this proof showed that a
  socket may go from Connecting to RemoteEnded, if the stream is delivered between
  the two looks at the `OnceLock` and is over already; `TcpMoves` has that move.

Both speak of one socket and its owner's view; the two are not composed with
`AsyncClient` into one model.

### The client, the connector and the worker

`ClientProofs` is about `AsyncClient` as a whole, with `Connector`, `Client` and
`PingTracker`.

`PingsStayTrue` is `PingsAreTrue`. That a recorded ping is the time its message
took is not inductive: the time is measured by an age the tracker keeps, while
the message's own first receipt may have come long before. `PingInv` adds that
the message of the ping under way was sent as long ago as the tracker believes
and has had no receipt (`WaitingInv`: the first one would have ended the ping),
or was never sent at all (a refused rudp message is pinged with), and that the
sequence ids are given out once. For the averages it adds that the recorded
pings are ordered by age, which is why `avg_ping` may stop at the first one that
is too old. The ages of the model saturate at the limits they are compared with,
and the proof covers that too.

`ClientsInvariant` is the rest. `ControlInv`: where the three are, and that the
turns after a stop do not wrap around. `ConnectorInv`: the client in hand is of
the first protocol that is not done, and the protocols before it have failed, in
order; from it `VerdictsAreDeserved`. `EventsInv`: what was read, what is stored
in reverse, the shared buffer and the client's queue are, one after the other,
all the events there were; from it `EventsAreKept`. `StatusInv`: the last event
that tells a status tells the socket's; from it `StatusIsAlwaysTold`.

What `drain_events` converts is a selection of a sequence. The prover can
neither unfold `SelectSeq` and `FoldLeft`, which are recursive, nor use its
library's induction theorems, so `Selections` writes the selection with the
positions it takes, and `SelectionsProofs` argues by the least number for which
a claim would fail (`LeastElement`, `AllNumbers`). The other recursions of the
modules that are proved about are recursive functions for the same reason.

### The bytes of a datagram

The first half of `WireFormatProofs` is about all packets and all datagrams of
rudp: `ReadsWhatWasWritten` (a packet of any variant is read back unchanged),
`PacketsFit` (what is written has the size that was allotted, so that no
`copy_from_slice` panics, and what the protocol sends fits in the buffer the
receiver reads into), and `ReadsPacketsOnly` (any datagram is refused with one of
the three errors or read as a well-formed packet). The last is what `Receiver`
assumes of its environment: ids beyond `frag_total` do not reach the assembler.
The steps are where each part lies in the concatenation (`Joined`), that the
pairs of `frag_id` and `frag_total` of two kinds never agree, and big-endian
numbers.

### The stream of tcp

Its second half is about all messages and all ways to cut their bytes into
reads. From `IngesterInvariance` follow `IngesterTypes` (the lengths subtracted
in `take_bytes` never wrap, and no more is held of a body than the limit),
`MessagesAreFramed` (up to an error, exactly the messages that were written, in
order, and an error only for a message above the limit), `OnlyEmptyWait` (a
message whose bytes have all arrived is reported, but for an empty one, which
waits for the next byte) and `NoneIsMissed`: if no message is above the limit,
there is never an error, and whenever all bytes are read every message is
reported, an empty last one excepted. That is the ground on which
`TcpConnection` keeps its stream as messages.

The invariant is on the bytes. What was written and not reported is what the
ingester holds, then what the call in hand has left, then what is unread
(`Keeps`); a read moves bytes from the third place to the second, and each call
of `take_bytes` by itself moves some to the first or turns them into a result
(`TakeBodyKeeps`, `TakeHeadKeeps`). To know the next message from the bytes held,
its head or its body must be incomplete: `FramingKept` alone is not inductive,
and `Partial` is what it lacks. `Progresses` is the termination of the recursion:
with n bytes n + 1 calls are enough (`TakeBytesKeeps`), the one in excess being
that which finds an empty body and takes no byte.

### Only model-checked

- All liveness, and the fairness of `MessageDelivery`: the prover reaches neither.
- `NoCopyOnceKnown`, and `NoSpuriousTimeout` of both protocols: they hold
  by the sum of several delays, for a network that is prompt, and only of the
  constants of those runs.

`PacketBytes` on the other hand is only proved: its packets are too many to
enumerate.

## What the properties leave to the reader

Behaviour met while modelling that no passing property forbids, because the code
does it:

- A sender may never learn of a delivery when a datagram is lost: fragments sent
  again carry no key flag, and at most two acks are sent (`DeliveryIsLearnt`
  excepts losses). It then resends until the receiver forgets the set, 20 s
  later, and delivers a second copy. `NoCopyOnceKnown` says when this cannot
  happen.
- A plaintext that fills its last fragment needs one fragment more when
  encrypted: an ack of all but the last then reads as complete.
- An empty message sent encrypted is accepted and panics at its first resend.
- `send_data` dates a message from the last `process()`; before the SynAck it
  goes out without destination and is dropped: only a resend delivers it.
- A rudp socket's own `send_end` queues the event an end of the remote does, and
  is reported as `by_remote: true` (`StatusIsTold` makes an exception of it),
  while `socket.rs:72` calls it "ended by the other end". On a socket that had
  timed out or was ended by the remote it queues another Ended, and lets the
  application send again.
- The adapters' `next_event` returns `None` for a `Raw` datagram, so a loop that
  ends at `None` may stop with events left.
- rudp's listener removes a remote two seconds after it is over, whatever is
  unread: an application that goes on calling `process()` and drains no event for
  that long loses them, the one that says how the connection ended included
  (`RemovalIsAnnounced` is about one that drains). The listener of tcp waits until
  all are taken.
- The first error of a send in rudp's `Listener::process` leaves the ticks of the
  remaining remotes to the next call; `disconnect` returns `true` for a remote
  that is over.
- AsyncClient: `wait` without `send_stop` does not return, even when the
  connection is over. Events queued after the worker has seen the stop are never
  handed over, and the ten turns after it do not wait for acks.
- AsyncClient: `drain_events` after a `next_event` yields what that one left over
  in reverse order (`mixed`; its documentation asks to use one of the two).
- `avg_ping` of a negative number of seconds panics in
  `Duration::from_secs_f32`, before the line that handles `seconds <= 0.0`; inside
  `with_lock` this poisons the client's mutex, and the worker panics at its next
  turn. The stop terminates all the same.
- TCP: the count returned by `write()` is not looked at, so a short write breaks
  the framing for good while `send_data` returns `Ok`.
- TCP: an empty message is reported with the next byte only
  (`OnlyEmptyMessagesWait`); a message above the limit loses the rest of its
  chunk and the framing.
- TCP: the heartbeat clock starts with `connect`, so a slow dial makes a client
  time out right after it connected (excepted in `NoSpuriousTimeout`); options
  given to `from_addr` reach the dial but not the socket, which uses the default
  configuration.
- TCP: data may be reported before Connected, if the stream is delivered between
  the two looks at the `OnceLock`, and the end of the stream too, so that a
  client may be over without ever having been Connected; `send_end` while
  connecting shuts nothing down, and the listener's remote then ends by its
  timeout, or when the client's socket is dropped.
- TCP: an error of the framing replaces a status that is over, against the
  intent of `set_status` (`OverIsFinal` excepts it).

## What is not modelled, and the plan

Not modelled: the crc and encryption themselves (a crc stands for its content, a
ciphertext is a flag; decryption fails unless every fragment carries it),
logging, `Raw` datagrams in `Connection`, errors of the system's UDP send (a
datagram that is not sent is a lost one), several remotes at once (they share
only the order of their ticks), wrapping of rudp's 32-bit sequence ids,
configuration changes at run time, `new_blocking`; the examples, traits and plain
data. RBTLListener passes every call on to the listener of a protocol and keeps
no state but those listeners. The panics of `ReliableTransfer` occur in
`AsyncClient` as a choice, not through the composition of the two.

Order of the work: (1) reliable transfer, (2) life of a rudp connection, (3)
TCP, (4) the connector, the worker thread and the pings, (5) the bytes of a
datagram, (6) proofs of everything that the runs check for safety, but for what
holds only of a prompt network, and of what `Client` takes from the connections.
These are done; then

7. More of the rudp listener: several remotes and `disconnect`.
