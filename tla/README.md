# A verification project for gowormhole

gowormhole sends files, text or a byte stream from one computer to another over a WebRTC data
channel. Two clients that were given the same code meet in a *slot* of a signalling server,
authenticate each other with a password-based key exchange (CPace), exchange their WebRTC
descriptions through the server, and then talk to each other without it.

This directory holds TLA+ modules for the parts of it that decide whether that works, the TLC
configurations that check them on small instances, and proofs of the main results for all
instances. Definitions are translated from the Go sources; `PROJECT.json` maps each to its lines.

    cd tla
    tlc -workers 2 -config MCSlots.cfg MCSlots        # one run; the others are listed below
    for m in SlotsProofs SlotsRefinement HandshakeProofs TransferProofs ProgressProofs ChannelProofs WebHandshakeProofs CodesProofs; do tlapm $m.tla; done

## 1. The system

### Components

| component | code | state | operations | interacts with |
|---|---|---|---|---|
| slot table | `cmd/gowormhole/slot.go` | `Slots.m`: key to `*SlotItem`; `SlotItem.Mode` (0, 1 or 2 clients), its channel `C` | `Setup`, `Delete` (locked), `Reserve` (not locked), `free` | shared by all handler goroutines |
| joining a slot | `signallingserver.go`: `relay`, `joinPeers`, `waitPair`, `reserveSlotKey` | per websocket: `slotKey`, `rconn`, a context with `slotTimeout` | join, write `InitMsg`, swap connections over `slot.C`, clean up | the table; its partner handler over the channel; the client |
| read loop | `signallingserver.go`: `relay` | `rconn`, state of two websockets | forward a message, pass on a close code | both clients |
| HTTP front | `signallingserver.go`, `prometheus.go` | metrics | routing, headers, TLS | - |
| client handshake | `wormhole/dial.go`, `cpace.go`, `util.go` | key, peer connection, `opened`/`err` channels | key exchange, offer, answer, candidates, waiting for the channel | its websocket; ICE callbacks |
| data channel | `wormhole/dial.go` | `flushc` condition, buffered amount, rwc | `Read`, `Write`, `Close`, `open`, `error` | transfer; pion callbacks |
| file transfer | `send.go`, `recv.go`, `meta.go` | files on disk, positions, hashes, retry counter | announce, answer, header, data, retry | data channel |
| timeout wrapper | `internal/util/timeoutio.go` | one goroutine per call | `Read`, `Write` with a deadline | data channel |
| progress | `internal/util/pb.go`, `http.go` | `FilesResult` | start, add, finish | transfer; HTTP clients |
| HTTP service, C library | `http.go`, `cshare.go` | `FilesResult` of a call | `sendFiles`, `recvFiles`, `createCode` | transfer, signalling server |
| browser handshake | `web/ww.ts`, `web/webwormhole.go` | `state` (the next handler), the promise `done`, key, peer connection | websocket events, promises of WebRTC | server, peer |
| browser transfer | `web/main.ts`, `web/sw.ts` | a queue of sends, download streams | send, receive, download | data channel, service worker |
| pipe | `pipe.go` | two goroutines | copy stdin and stdout, close | data channel |
| codes | `wordlist/`, `newConn`, `requestCode` | none | encode, decode | users, reservations |
| NAT probe, TURN, public IP | `nat-behaviour.go`, `turn*.go`, `publicip.go` | little | - | UDP |

### What is hard, and what makes each part correct

The complete list is "hazards" in `PROJECT.json`, each with its line. In short:

* **Slots.** Goroutines meet in a table, then share a pointer whose `Mode` they read after the
  lock is released, and an unbuffered channel over which two connections are swapped by *two*
  sends. Correct means: a slot never has a third handler; the handlers of a slot are piped to
  each other and nobody can come between the two sends; the two clients are never both told to
  wait; nobody stays in the rendezvous beyond `slotTimeout`; a timed-out client's slot is free.
* **Handshake.** Untyped messages and candidates (sent by a callback) share one websocket, peers
  with different passwords must not connect, and when one side gives up the other must not be
  left in a read that has no timeout.
* **Transfer.** Headers and raw data share one channel and only counting separates them; a
  transfer resumes from whatever is on disk; either side may fail at any point and both retry.
* **Data channel.** A writer waits on a condition variable that a callback signals once: no wakeup
  may be missed, and at most one writer may wait. A deadline abandons a goroutine that still
  shares its results with the caller. The first direction of a pipe to end closes both.
* **Progress.** One record is at once the progress bar and the answer; what it says must be on the
  disk, over resumes and retries, and a bar that is finished twice panics.
* **Browser.** Websocket events arrive while a handler is at an `await`; the role comes from the
  user's input, not from the server; and an offering peer cannot see a bad key for itself.
* **Codes.** Every slot the server hands out has to survive encoding and decoding.

## 2. Modules

| module | models | role |
|---|---|---|
| `Rendezvous` | the promise of `relay`'s comment: rooms of two, one partner for ever, matched at once | abstract specification |
| `Slots` | `slot.go`, and `relay`/`joinPeers`/`waitPair`/`reserveSlotKey` for any number of handlers | core; implements `Rendezvous` |
| `SlotsProofs` | - | inductive invariant of `Slots` and the theorems on its safety |
| `SlotsRefinement` | - | proof that `Slots` implements `Rendezvous` |
| `HandshakeProofs` | - | inductive invariant of `Handshake`, that only equal passwords connect, and that no message overtakes another |
| `Handshake` | both clients of a pair (`dial.go`, `cpace.go`, `util.go`) and both read loops of `relay` | composes client and server over two websockets |
| `Transfer` | `send.go`, `recv.go`, `meta.go`, with the errors of `timeoutio.go` and `Wormhole.Close` | both ends over one channel |
| `TransferProofs` | - | inductive invariant of `Transfer`, and all of its safety |
| `Channel` | `Write`, `flushed`, `Read`, `Close` of `dial.go` between two ends, over a channel of pion | what goroutines do inside the data channel |
| `Pipe`, `TimeoutIO` | `pipe.go`; `timeoutio.go` with the callers `sendFilePos` and `receiving` | the two users of `Channel` |
| `ChannelUse` | - | composes `Channel` with either user at its ends; properties |
| `ChannelProofs` | - | inductive invariant of `ChannelUse`, and all of its safety |
| `Progress` | `FilesResult`, `sendFiles` and `recvFiles` of `http.go`, `pb.go` | `Transfer` with the bar that every step of it updates |
| `ProgressProofs` | - | that `Progress` implements `Transfer`, its inductive invariant, and what the answers are worth |
| `WebHandshake` | `ww.ts`, `webwormhole.go` | `Handshake` with browsers in the place of one or both clients |
| `WebHandshakeProofs` | - | inductive invariant of `WebHandshake`, and its safety |
| `Codes` | `wordlist.go`; `newConn`, `initPeerConnection`, `requestCode`, `createCode` as its users | pure operators |
| `CodesProofs` | - | codes lead back to the slot and the password they were made for |
| `MCSlots`, `MCHandshake`, `MCTransfer`, `MCChannel`, `MCProgress`, `MCWebHandshake` | - | the instances TLC checks |

### Slots

A process is a websocket handler (`Conns`) or a reservation request (`Reservers`). A `SlotItem`
is named for the process that allocated it, which allocates one at most. `pc` is the place in the
code:

    new -Setup-> write -WriteInit-> branch -Branch-> wait | recv
    wait (the select of waitPair) <-Ping/PingReturns-> ping
    wait -Transfer-> await -Transfer-> relay      the handler that sends first
    recv -Transfer-> reply -Transfer-> relay      the handler that receives first
    wait, recv -TimedOut-> timedout -CloseTimedOut-> alone;  relay, alone -Leave-> done

* `Setup` is one step because the code holds the lock throughout. `SetupNew` and `SetupExisting`
  are its two branches. `Reserve` is two steps (`ReserveFree`, `ReserveStore`), for it takes no lock.
* `MapFault` is Go's fatal error on concurrent map access: it may end the process whenever
  `Reserve` is in the map together with anybody else; afterwards nothing happens (`up`).
* `WriteInit` and `Branch` both read `mode`, in different steps: the code reads `slot.Mode`, then
  writes to the network, then reads it again. That is a data race with the peer's `Setup`;
  each read returns an old or a new value, as the order of the steps here.
* `Transfer` is the rendezvous of a blocked sender with a blocked receiver of the same item's
  channel, whichever pair of the four channel operations they are at.
* `Ping` and `PingReturns`: while the keep-alive ping of `waitPair` blocks, the handler is off the channel.
* `CloseTimedOut` deletes the key of the *URL*, as `relay` does, whoever holds it by then.
* `free` tries random numbers. Which one it finds is a choice over the free keys; it may give up
  only when some key is taken.

### Handshake

The composition starts where `Slots` ends: two handlers with each other as `rconn`. `A` is the peer
that was told `ModePeer2` (key exchange first, then answers), `B` the one that was told `ModePeer1`
(offers). `toServer` and `toClient` are the two directions of the two websockets, in order and with
the close frame in its place; `handler` and `server` are the read loop and the server's end of each.
Client steps are named for what they send or receive; `LocalError` is any error that
`dial.go` returns without closing the websocket; `Exit` is the end of a client's process, with or
without the frames it had written; `ReadFails` is a failed read of the handler for any other reason
(`slotTimeout`, a broken connection). CPace is taken at its promise: equal keys exactly for equal passwords.
ICE is not relied on: `Open` may happen, at either end, once all descriptions are set, and never has to.

### Transfer

A file is a sequence of chunks; one chunk stands for what one message carries. The hash of a prefix
is the prefix: xxhash is taken not to collide. `wire` and `reply` are the two directions of the data
channel. `Init` allows any files at the sender and anything at all at the receiver. The sender writes
metadata, gets positions and hashes, and sends for each file a header and the rest (`SendHeader`,
`SendData`). The receiver's copy of a chunk is two steps, the `Read` (`RecvData`, with the chunk then `inhand`) and
the write to the disk (`WriteData`), since either may fail.

* `path` is where a file is received. The code joins the directory with the base name (`meta.go:86`, `meta.go:174`), so two
  announced files can share a destination; `path` is any such sharing, chosen in `Init`, and `Sole(i)` says that file `i`
  has its destination for itself. Files that share one are resumed each from what was there before the other
  came, so nothing is claimed of them.
* `ReadLoses` is a `Read` whose timer fires as its goroutine returns, so that `CopyN` sees 0 bytes and no error, as in
  `TimeoutIO`: the message is gone and the copy goes on. From then on a header can be taken for data. `lost` has the attempts in which
  that happened, `Whole` says that the current one is not among them.

`SenderFails`, `ReceiverFails` and `Break` are the timeouts that are reported, disk errors and broken
connections at any point, with any part of what was on its way lost. `SenderCloses` is
`Wormhole.Close`, whose flush is limited in time and whose result nobody looks at. `Redial` is the
retry of both sides. Files do not change under the sender. Two sides that disagree on whether an
attempt failed do not meet again: the one that retries dials alone and is timed out by the server,
which is a dead end of the model.

### Channel, Pipe, TimeoutIO, ChannelUse

An end of the channel has two *routines*, the goroutines that may call `Read` or `Write`:
in a pipe, one copies stdin to the channel and one the channel to stdout; behind a timeout wrapper, one
serves the call under way and the other is what an earlier call may have left behind.

    Write:  lock -Lock-> park -Park-> waiting -Flushed-> lock ...   lock -Lock-> write -Put-> ok | err
    Read:   read -Take-> ok        read -ReadEnds-> eof | err

* `Lock`, `Park` and `Flushed` are `sync.Cond`: `Wait` is listed as a waiter *before* it unlocks
  (`Park`), and `Flushed` takes the lock, so that a signal cannot fall between the test of the buffered amount
  and the wait. `Deliver` starts the callback only when the amount *falls to* the threshold, and
  `Signal` wakes one waiter.
* `buf` is what is written and not acknowledged, `inq` what has arrived. `CloseChannel` is the end of
  `Close`'s wait, empty buffer or not (`gaveUp`).
* In `TimeoutIO` the two stores of the goroutine (`StoreN`, `StoreErr`) and those of the `return 0, ErrTimeout`
  (`SelectTimer`, `SetTimeout`) go to the same named results. That is a data race: every
  interleaving of them is a behaviour.
* `Pipe`'s `Fatal` is `util.FatalfIf`, which ends the process without `Close`.

### Progress

`entries` is `Progresses`, `current` says whose `currentProgress` is not nil, `lagging` whose result
file is behind. Every step of `Transfer` is taken together with the bar's part of it: `SendHeaderBar`
and `RecvHeaderBar` are `Start` and the `Add` of the position, `SendDataBar` and `RecvDataBar` the `Add` of
the proxies. `pb.go`'s `Reader.Read` adds a chunk before `CopyN` writes it: `WriteDataBar` comes later, with
`ReceiverFailsBar` in between. Whatever ends the copy of a file runs the deferred `Finish` (`Closed`).
`Reader.Read` also calls `Finish` at `io.EOF` by itself (`FinishesItself`); when that happens inside a file, the
deferred `Finish` finds no current entry and panics (`RecvEndBar`). `Returns` is the answer of a call.

### WebHandshake

A browser is a peer of `Handshake` whose `pc` names the handler in `state`. Handlers that end in an
`await` are two steps with a state of their own in between (`localOffer`, `localAnswer`), in which events can
arrive. `WebHold` and `WebAnswer` are the candidates that wait for the promise `done` and
are let go by it. `thrown` is an exception in a handler. `Side` is the role: a Go client takes the one of the
`InitMsg`, a browser side A exactly if its user typed a code (`coded`: the first client of the slot has one, too,
because the slot was reserved). Each of the five functions of `webwormhole.go` is an
operator. Go clients and the server's read loops are the actions of `Handshake`, unchanged.

### Codes

A code is the sequence of its parts, a list of words is any function from `0 .. 511` to different words. `VarintEncode`
and `VarintDecode` work on bytes: the slot in one to three bytes of seven bits, then the password, a word for
each byte, from the even or the odd half of the list by its place. `NewConn` is what a client dials with.

## 3. Runs

| run | instance | states | shows |
|---|---|---|---|
| `slots` | 3 connections, 1 reservation, 1 key, fairness | 176,761 | `TypeOK`, `ModeCountsUsers`, `OneFirstPeer`, `OneWaiter`, `PairedMutually`, `RolesDiffer`, `Slots` implements `Rendezvous`, and `JoinEnds`: no handler is kept in `joinPeers` |
| `handshake` | 2 passwords, 1 candidate each, fairness | 155,604 | `OrderedSignalling`, `Authenticated`, `PartnerQuits`, `HandshakeEnds` |
| `transfer` | 2 files of up to 2 chunks of 2 contents, with one destination or two, window 2, 2 attempts, fairness | 2,147,404 | `Framing`, `ReceivedIsSent`, `ProgressKept`, `CompleteUnlessFault`, `TransferEnds` |
| `channel` | 2 messages one way, 1 the other, threshold 0, window 1, fairness | 203,324 | `NothingLeftOut`, `OneWriter`, `WakeupDue`, `FirstToEndDelivers`, `WriteResumes`, `PipeEndsTogether`, `CallersEnd` |
| `progress` | 2 files of up to 2 equal chunks, with one destination or two, window 2, 2 attempts, fairness | 936,621 | `WrittenOnDisk`, `WithinSize`, `ReportsComplete`, `CallsEnd` |
| `web_handshake` | every mix with a browser, 2 passwords, 1 candidate each, fairness | 310,606 | `EventsInOrder`, `CandidatesKept`, `WebAuthenticated`, `ByeReportsBadKey`, `WebPartnerQuits`, `ClashEnds`; codes at the boundaries |
| `slots_split`, `slots_timeout`, `slots_reserve`, `handshake_badkey`, `transfer_tail`, `progress_finished` | small | - | the findings of section 6 |

**Bounds, and why they are enough.** Three connections are the fewest with which a third party can
interfere with a pair (join its slot, reach its channel between the two sends, or take over a key
that a timeout freed); one reservation is enough to race with any of them, and with one key all four
meet. Two keys are used where an entry is overwritten or left behind (`slots_reserve`, `slots_timeout`);
that the safety of `slots` does not depend on their number is proved. Two passwords can agree or differ. One candidate
is enough to overtake a description or to be read in its place; a second one would only be
queued behind it. `MaxLen = 2` gives empty, partial, complete, longer and different files; two
files make the second header follow the data of the first; a window of 2 lets a header be
queued behind data and lets the sender block. Two attempts are enough to resume once; the
property that relates attempts (`ProgressKept`) is about each step. `MCTransfer` leaves out only that both files of the
sender are of full length (`Short`), and names the two contents by the first chunk there is (`Named`).
In two files every sharing of destinations occurs.

In `channel` the threshold is 0, so that the second `Write` of the end with two messages has to wait
for a flush; with a window of 1 a reader that does not read keeps it there. Two routines per end are
all that `pipe.go` has, and all that can be alive behind a timeout wrapper, whose callers
give up at the first error; `OneWriter` and the guard of `Call` would show a third. In `progress` the
chunks are all equal: contents are `transfer`'s concern, and a `FilesResult` tells files apart by
their sizes only. `MCProgress` keeps the second file at one chunk, at the sender and on the disk (`Short`). In `web_handshake` either peer, or both, is a browser, with equal and different
passwords, at a slot with and without a reservation.

**Symmetry.** No run has a symmetry set, since all large ones check liveness. In `slots` the connections arrive in one
order (`InTurn`, an action constraint): no definition of `Slots` tells them apart (`Partner`'s `CHOOSE` has one candidate at most),
and no fairness asks for an arrival, so that every behaviour is one of these with connections renamed. TLC warns
that constraints and liveness do not mix: that is so of one which cuts a behaviour off where fairness asks it
to go on, and this one does not.

**Deadlock** is checked for `Slots`, whose only resting states are all handlers gone or the
process dead (`Stopped`). In all other modules both programs end, so it is not;
the liveness properties say that they end in the right place.

**Fairness.** Weak fairness on what a goroutine does next, since Go's scheduler runs every goroutine
that can run, and on timers (`slotTimeout`, the 30 s of `waitDataChannelOpen`). A `Ping` is sure to
return only when its context is done. Nothing is assumed of the peers' will to connect or to
leave, of ICE, of local errors, of crashes or of the network: those actions have no fairness. The
fairness is per handler (`Slots`), per peer and kind of step (`Handshake`), per side (`Transfer`).

`ChannelUse` has one weak fairness condition, for all that goroutines, timers and the
delivery of packets do: messages are bounded and no step can be repeated for ever, so a single condition
leaves none of them out. There is none for stdin and for the loss of packets. `Progress` has
it for answers, retries, `Close`, for the write to the disk, which returns, and for the errors that end a call in any other place, since
every read and write on the channel has a timer; `WebHandshake` per peer for what a Go client
does, what a browser does with the events it has (and for the promises of the WebRTC API), and
the server; none for ICE, exceptions or the page being closed.

**Every property can fail.** For each one `PROJECT.json` names a mutant: a change of a single
definition that a slip in the code would cause (an entry not deleted, a mode not advanced,
branches exchanged, no reply over the channel, a description set before it is sent, an unchecked
hash, a truncated file ...) for which TLC finds a counterexample in the same run.

## 4. Proofs

`SlotsProofs` and `SlotsRefinement` hold for any sets of connections, reservations and keys, under
`SlotsAssumption` alone: connections and reservations are distinct, the blank key is no key, `None`
is nothing else.

The invariants of `Slots` are not inductive by themselves. `IInv` adds what they rest on:

* `Fresh`: a process that has not allocated is in no table entry, and its item has `ModeNone`.
  Without it `ReserveStore`, which overwrites an entry unseen, could put a full item back.
* `TableSound`: no item is under two keys, none in the table is full. Without it `Setup` through
  a second key would add a third handler.
* `ModeUsers`: the exact set of handlers of an item, by its mode. `AtMostTwo` and `AloneInModePeer1`
  follow; they are why reading `Mode` outside the lock cannot make two first peers (`OneFirstPeer`) or two waiters
  (`OneWaiter`): whoever reads `ModePeer1` is still alone.
* `Paired`: a handler at `reply` has received a connection whose handler is at `await`, and
  conversely. With `OneWaiter` and `AtMostTwo` the second send of the swap finds exactly that one.

| theorem | says |
|---|---|
| `TypeCorrect` | `Spec => []TypeOK` |
| `ModeCounts` | `Spec => []ModeCountsUsers`: `Cardinality` of an item's users is its `Mode`, full items are off the table |
| `FirstPeer`, `Waiter` | `Spec => []OneFirstPeer`, `Spec => []OneWaiter` |
| `Pairing` | `Spec => []PairedMutually` |
| `RolesCorrect` | `Spec => []RolesDiffer`: of two clients that are piped together one was told to offer, the other to answer |
| `Refinement` | `Spec => RendezvousSpec`: `Setup` enters a room, the first send of a swap is the match, everything else stutters |

`RolesCorrect` rests on `Roles`, which follows a client's `InitMsg` through the handover: a handler
that waits told its client `ModePeer1`, everybody else in its slot was told `ModePeer2`. It is also what
justifies the start of `Handshake`, with one peer of each role.

`Refinement` needs one invariant more, `Matching`: a handler that exchanged nothing is nobody's
`rconn`, and no two handlers have the same, so that `Partner` is a function of the `rconn`s (`PartnerIs`).

`HandshakeProofs` holds for any set of passwords and any number of candidates (`HandshakeAssumption`:
`None` is no password and no close code). Its invariant follows the frames: whatever is on a peer's websocket, on either
side of the server, is unsealed or sealed with that peer's own password (`ServerStreams`,
`ClientStreams`), and a peer has its key before it reads a description (`Keyed`). So a description that opens
was sealed with the same password. `TypeCorrect` and `OnlyEqualPasswords` (`Spec => []Authenticated`)
follow.

`OrderedSignalling` speaks of the first frame at a reader; what comes behind it is decided earlier and elsewhere, by a
description or a candidate that another goroutine wrote. `Ordering` follows both: each peer sends its key exchange
message, its description and then candidates (`Sort`), `Received` and `Sent` count the first two by where the
call is, and the frames on the two websockets of a direction continue what the reader has read and end
where the writer is (`Ordered`), as long as somebody passes them on. The one place where another goroutine
writes is why it holds that a peer gathers candidates only after its description was sent (`Ends`). `OrderedHolds` is the result.

`TransferProofs` holds for any number of files, chunks, attempts and any window (`TransferAssumption`: positive
numbers, and `None` is no file). `Framing` and `ReceivedIsSent` say what the receiver meets next; they are not
inductive, because what it meets later is decided by what is on the wire, and nothing on the wire says what it
is. The invariant supplies the labels:

* `Labelled`: a chain of *places* (before the metadata, before the next header, before a chunk of a file) leads from where
  the receiver is, message by message, to where the sender is, as long as the channel is up and no Read has lost a
  message in this attempt. A message that is written makes the chain longer, one that is read makes it shorter, and of a channel that
  breaks a beginning is left (`ChainAppend`, `ChainTail`, `ChainEnds`); each of the last two leaves it a chain. A lost message
  breaks it, until `Redial` begins a new one.
* `Promised`, `Headers`: every answer and every header on its way starts a file where the receiver has a beginning
  of it. It takes both: the comparison of hashes is made when the header is sent, of an answer computed before, and
  `Kept` (what agrees with the sender's file stays) is why nothing the receiver does in between invalidates it, in a
  destination that no other file has. `ResumeIsSafe` is the comparison itself, `PromisesKept` the time between.
* `ReceiverPlace`, `SenderPlace`, `InHand`, `Finished`: what the receiver has of the file under way, in its hand and on the disk, and
  of those before.
* `Orderly`: nothing follows the end of the channel, and without a fault it is down only when the sender has returned.
  With it the chain says, until the first fault, that the whole of what the sender wrote is on the wire or read (`Joined`): the end
  of the channel then meets a receiver that is through with all files, which is `CompleteUnlessFault`.

The parts that speak of contents are conditional in the same way as the properties: on `Whole` and `Sole`. They hold again
after a retry because they ask nothing of what an earlier attempt left on the disk: an answer is compared with the file of the
sender by its hash, whatever it is an answer about.

`ProgressProofs` first shows that the service is a transfer (`ServiceTransfers`: a step of `Progress` is one of
`Transfer`, or changes only entries and answers), and adds to the invariant of `Transfer` that the bar is where the copy is:
the pointer is set exactly while a file is copied, and its entry has the position of the copy, and that of the chunk in
hand too once it is read (`SenderBar`, `ReceiverBar`). Without that an `Add` could go past the size. `Logged` says that an entry is on
the disk but for its last chunk; it is kept over attempts by `Kept`, as long as no Read has lost a message. `Listed` says that each
file the receiver is through with in this attempt has a full entry, `Answered` that a result was given only after the end of the stream.

A panic comes with the end of the stream inside a file. It is found at the step itself (`PanicFound`): the sender never meets it, since
its bar and its copy end together (`SenderBarsApart`), and the receiver meets it with its last entry below the size of the file.
What the panic found cannot change (`Panicked`): a call that panicked is not made again, and its bar is closed.
`PanicsAfterFault`, a property that no run checks, follows.

| theorem | says |
|---|---|
| `TransferProofs!TypeCorrect` | `Spec => []TypeOK` |
| `FramingHolds` | `Spec => []Framing`: no header is read as data, no data as a header, in an attempt in which no Read has lost a message |
| `ReceivedIsSentHolds` | `Spec => []ReceivedIsSent`, whatever was on the disk, wherever attempts were cut and whatever earlier ones garbled; of files with a destination of their own, under the same condition |
| `ProgressKeptHolds` | `Spec => ProgressKept`: a beginning of a file only grows, under the same conditions |
| `CompleteUnlessFaultHolds` | `Spec => []CompleteUnlessFault`: without a fault no call fails, and a receiver that returns has all files |
| `ServiceTransfers` | `ProgressSpec => Spec` |
| `ProgressTyped`, `WithinSizeHolds` | `ProgressSpec => []ProgressTypeOK`, `[]WithinSize` |
| `WrittenOnDiskHolds` | `ProgressSpec => []WrittenOnDisk`: what is reported is what was read, and all but a last chunk of it is on the disk |
| `ReportsCompleteHolds` | `ProgressSpec => []ReportsComplete` |
| `PanicsAfterFaultHolds` | `ProgressSpec => []PanicsAfterFault`: only a receiver panics, after a fault, with its last entry finished and short of its file |

`ChannelProofs` holds for any messages, window and threshold, and for both users of the channel. The invariant has three parts:

* `EndOK`: the control of an end. In a pipe each routine is where its copy has it, and `first` says which one made `main`
  leave. Behind a timeout, a routine is alive only for the call under way, or is the one that the last call left behind
  when the program was about to close (`CallEnd`), and until a timer expires the named results are what that
  routine stored (`Results`). `OneWriter` rests on it.
* `SyncOK`: who is about to wait holds the lock, and `WakeupDue`. `Park` relies on the first: `flushed` cannot signal
  between the test of the buffered amount and the wait. `OneWriter` is what lets it signal one waiter only.
* `Stream`: a message is handed on, held by the routine that read it, in the queue, or in the other end's
  buffer, in this order and nowhere twice; together they are what the other end took from its source
  (`Total`), except for the one message that a routine in `Write` has. `NothingLeftOut` alone would not survive a
  `Take`. `SawEnd` and `AllRead` follow the end of the stream behind the last message.

| theorem | says |
|---|---|
| `HandshakeProofs!TypeCorrect`, `OnlyEqualPasswords` | `Spec => []TypeOK`, `Spec => []Authenticated` |
| `OrderedHolds` | `Spec => []OrderedSignalling`, for any number of candidates |
| `ChannelProofs!TypeCorrect` | `Spec => []TypeOK` |
| `OneWriterHolds`, `WakeupDueHolds` | `Spec => []OneWriter`, `Spec => []WakeupDue`: a single `Signal` is enough, and is due |
| `NothingLeftOutHolds` | `Spec => []NothingLeftOut`: in order and complete, up to an expired timer |
| `FirstToEndDeliversHolds` | `Spec => []FirstToEndDelivers` |

`WebHandshakeProofs` holds for any passwords and number of candidates, for both mixes of a browser with a Go client and for
two browsers, and whether the two took different sides or both side A. Its invariant has four parts:

* `Base`: types, the labels that a peer of each kind and side can have (`Place`), and what is sealed with which key (`Streams`, `Keyed`),
  as in `HandshakeProofs`; two peers that both took side A never seal anything. `WebAuthenticated` follows.
* `Ordering`: `Sent` and `Read` count the messages of a peer, `MayCome` says which one can be next after so many. A
  browser counts its candidates, so numbers are exact: what is read, on the two websockets, and not yet gathered
  add up (`Due`), as long as the relay passes messages on (`Passing`) and the peer can still send (`Live`).
  A Go client does not count, and needs only that candidates come last (`OrderMoves`). That no browser has counted more candidates than
  were gathered (`Counted`) makes `WebTypeOK` hold.
* `Quiet`: while the offer is made only keys and closes are on their way. `Ordering` alone would allow an
  answer there, since it counts the messages of one direction; the two directions meet in this part.
* `ByeFirst`: in a stream behind a browser A a close over a bad key has "bye" directly before it (`Announced`); if the
  close is the first frame that A's read loop has left, "bye" is the last one on the other side of the
  server (`EndsInBye`). When B reads it, it has another key and returns `ErrBadKey` (`ByeRead`) before it can see the close.

`Keeping` counts candidates on top of the first three parts, for `CandidatesKept`. Each step moves a
candidate along its way (`SenderKeeps`, `ForwardKeeps`, `ReaderKeeps`) or leaves all where they are; `CandidatesAppend`
and `CandidatesTail` are what that does to the number in a stream. It rests on the order of messages in both directions: what a browser counts is a
candidate (`OnlyCandidates`), and what it reads otherwise is none (`NoCandidateYet`). The candidates that waited for the answer are added
only if `done` was not settled before; `Unsettled` says that nothing but a close or an error settles it.

| theorem | says |
|---|---|
| `WebInvariance` | `WebSpec => []WIInv`, the four parts together |
| `WebAuthenticatedHolds` | `WebSpec => []WebAuthenticated` |
| `WebTypeOKHolds` | `WebSpec => []WebTypeOK`: types, and no more candidates held and added than gathered |
| `EventsInOrderHolds` | `WebSpec => []EventsInOrder`, for any number of candidates |
| `ByeReportsBadKeyHolds` | `WebSpec => []ByeReportsBadKey` |
| `CandidatesKeptHolds` | `WebSpec => []CandidatesKept`: none is added before the remote description (`AddedToRemote`), none is lost while nothing fails |

`CodesProofs` holds for every list of 512 different words (the list in `wordlist.go` is one), every slot below
2^21 (what `free` draws from) and every password. `Uvarint` follows the three lengths of an encoded slot, `OneEnd` shows
that a number ends in one place only, `WordsOfBytes` that words fit their places and lead back
to their bytes. From these:

| theorem | says |
|---|---|
| `RoundTrip` | what `VarintEncode` makes is decoded to its slot and password |
| `CodeOfConnection` | the code a client shows makes the other one dial its slot with its password |
| `CodeOfReservation` | a code `createCode` returns leads to the reserved slot; to slot 0 if the answer had no key |
| `WordLeftOut` | a code that lost a word is refused, unless it was the last word |
| `SlotAlone` | the words of the slot alone are accepted, with an empty password, by `newConn`, and refused by the browser |

**Only model-checked:** liveness (`JoinEnds`, `PartnerQuits`, `HandshakeEnds`, `TransferEnds`, `WriteResumes`,
`PipeEndsTogether`, `CallersEnd`, `CallsEnd`, `WebPartnerQuits`, `ClashEnds`), which with fairness and `ENABLED` is out of
the prover's reach. Every invariant that a passing run checks, the action property `ProgressKept` and the refinement of `Rendezvous`
are theorems.

## 5. What is left out

* Cryptography, SDP and ICE are taken at their promise, pion's data channel at what its documentation says of
  order, acknowledgement and the low-buffer callback.
* The HTTP front, metrics, TURN, public IP, flags and logging keep no state the protocol depends on. The choice of an
  operation by the fields of a JSON request and the memory handed over by the C library are left out, too.
* The NAT probe is a diagnostic command: a fixed sequence of requests that nothing else uses.
* The browser's queue of sends and the service worker's downloads are TypeScript around DOM elements, streams
  and the life of a service worker, which the browser decides; their hazards are listed with a note.
* The octal encoding of codes, which `Encode` never uses, and the hints of `Match`.
* Generated scripts and assets.
* Where modules meet: `Slots` ends where both clients are piped together, `Handshake` and `WebHandshake` start there; a reset
  of a single websocket is in `Handshake` (`ReadFails`) and, before there is a partner, unnoticed by the
  code (`WriteInitFails`, `Leave`). What a goroutine does that a timeout abandoned is in `TimeoutIO`; `Transfer` has its two outcomes for the
  caller, an error (`SenderFails`, `ReceiverFails`) and a Read of nothing (`ReadLoses`). A third call on a channel that timed out does not exist in
  the code. The wrapped `Close` of `timeoutio.go` is never called.

## 6. Findings

* `signallingserver.go:184` (`slots_split`): `Mode` is read again after the write of the `InitMsg`. If the
  second client's `Setup` comes in between, both handlers receive from the channel and both time out.
* `signallingserver.go:107` (`slots_timeout`): a timed-out client whose slot the server chose keeps
  it, because the key of the URL, which is empty, is deleted.
* `slot.go:70` (`slots_reserve`): `Reserve` without the lock overwrites the entry of a waiting client.
* `dial.go:477` (`handshake_badkey`): the offering peer does not return `ErrBadKey` when a Go client answers
  (a browser's "bye" makes it return it, see `ByeReportsBadKey`).
* `recv.go:173` (`transfer_tail`): a longer file at the receiver keeps its old end under the new content.
* `http.go:256` (`progress_finished`): `finished`, which `cshare.go:74` and `:120` explain as whether the transfer is complete, is set by the
  deferred `Finish` after an error as well. A `written` equal to `size` does not make up for it: the bytes are added before they are
  written, so after a failed write of the last chunk the two are equal, too (`WrittenOnDisk` says what `written` is worth). The result
  file never has the error: it is set after the last write of the file.
* `timeoutio.go:66` (`ReadLoses`; no run of its own): a `Read` that times out can return 0 bytes and no error, although
  `timeoutio.go:13` and `:21` promise `ErrTimeout`. The message it had taken is lost, and `CopyN` takes what comes next, the
  following header included, for it; when the sizes fit, both sides report success for a garbled file. `NothingLeftOut`, `Framing`,
  `ReceivedIsSent` and `ProgressKept` are stated for the ends, or attempts, in which that did not happen; without the
  condition TLC finds each of them violated.

The properties state some behaviour that is not a finding, since no text of the repository denies it,
but that a reader should know of:

* A receiver whose stream ends in good order inside a file panics instead of trying again
  (`PanicsAfterFault`; `pb.go:65` with the deferred `Finish`). `net/http` recovers it for the HTTP service, the C library's process ends.
* Two announced files of one base name share a destination (`meta.go:86`, `meta.go:174`). The one overwrites the other, or is mixed with it,
  and both sides may report success (`Sole` is the condition of `ReceivedIsSent` and `ProgressKept`).
* `Close` does not wake a `Write` that waits for a flush (`WriteResumes`' exception).
* A browser that hears that its peer hung up never settles the promise of `dial` (`WebPartnerQuits`' exception, `ww.ts:375`).
* A browser as first client of a reserved slot takes side A, as the second one does; the handshake fails. Both calls return,
  except that of a browser which hears "peer hung up" first and is left as above (`ClashEnds`).
* `requestCode` sends `bearer`, the server compares `Bearer`; without a key in the answer the
  code is one for slot 0 (`CodeOfReservation`).

## 7. Plan

1. `Rendezvous`, `Slots`, `SlotsProofs`, `SlotsRefinement`, `Handshake`, `HandshakeProofs`, `Transfer` - done.
2. `Channel`, `Pipe`, `TimeoutIO`, `ChannelUse`: flow control, the abandoned goroutine, the pipe - done.
3. `Progress`: the answer of a transfer through its faults and retries - done.
4. `WebHandshake`: the browser against both kinds of peer - done.
5. `Codes`, `CodesProofs` - done, without the octal encoding.
6. `TransferProofs`, `ProgressProofs`, `ChannelProofs`, `WebHandshakeProofs`, and the order of messages in `HandshakeProofs` - done.
7. The invariants that were only model-checked (`CompleteUnlessFault`, `CandidatesKept`) proved - done.
8. Left: the browser's queue across reconnects, and the liveness properties, which stay with TLC.
