# Specifications of the RADIUS library

TLA+ modules for the parts of `github.com/wxccs/radius` whose correctness
depends on order or on limits: goroutines that share a table, a socket, a pool or
a connection, messages that are late, lost or altered, deadlines, shutdown, and
codecs that must undo each other. Paths below are relative to the
repository's root.

## 1. The system

| Component | State | Operations | Talks to | Hard behaviour |
|---|---|---|---|---|
| Duplicate detector, `server/dedup.go` | map (address, Identifier) -> entry (reply, done channel, expiry), one mutex | `Seen`, `Store`, `Lookup`, `Cleanup`, `Size` | called by the servers' goroutines | old clock readings, entries evicted and replaced under waiters and late stores, an unlocked read |
| UDP server, `server/server.go` | socket, WaitGroup, the detector | `Serve`, `handleOne`, `Close`, `Shutdown` | transport, detector, handler | one goroutine per datagram, shutdown against dispatch, a WaitGroup added to while it is waited for |
| TCP server, `server/server.go` | listener, WaitGroup, connections | `Serve`, `handleConn`, `Close`, `Shutdown` | transport, detector, handler | sequential requests per connection, idle connections at shutdown |
| Identifier pool, `protocol/identifier.go` | buffered channel of 256 tokens | `Acquire`, `Release` | client | exhaustion, cancellation, double release |
| Protocol client, `protocol/client.go`, `verify.go` | pool, transport, policy | `Authenticate`, `Account`, `SendCoA`, `SendDisconnect`, `Close` | pool, transport | retransmission, late replies, several calls on one socket |
| Retransmission policy, `protocol/retransmit.go` | none | `NextDelay`, `Attempts` | client | width of the shift, the cap, the jitter on top of it |
| UDP transport, `transport/udp.go` | socket with one read deadline | `ReadPacket`, `SendPacket`, `Exchange` | server, client | shared deadline, shared receive queue |
| TCP, TLS, DTLS transports, `transport/*.go` | connection, mutexes | `Accept`, `ReadPacket`, `WritePacket`, `Exchange` | server, client | framing after a partial read, cancelled accept |
| Packet codec, `packet/` | a packet's attribute list | `Marshal`, `Unmarshal`, `Add`, `Set`, `Get`, extended attributes | everything | lengths at their limits, fragments |
| Dictionary, `dictionary/` | two maps over the same definitions, one RWMutex | `Register`, `RegisterFromDict`, lookups | codec helpers | agreement of the two maps |
| Parser and generator, `dictionary/parser`, `dictionary/gen` | the include stack | `Parse`, `ParseFile`, `Generate` | dictionary | include cycles |
| Crypto, `crypto/` | none | authenticators, hiding, tunnel tags, MS-CHAP, MPPE | codec | tags that look like data |
| Vendors, facade, tool, types, errors, log | none of their own | constructors, re-exports | | |

What makes the modelled ones correct:

* detector: a key has one first sighting per window; everyone who waits is
  released; a reply found under a key was published for it;
* UDP server: a duplicate gets the first answer's bytes and does not run the
  handler; every goroutine ends and is counted; `Shutdown` means what it says;
* TCP server: replies go out in the order of the requests, each that of the
  latest run of the handler for its key; every connection ends with its client;
* pool: an Identifier has one user at a time and none is lost;
* client: every call gives its Identifier back on every path, returns no reply to another
  call that is under way, and returns at all;
* client and UDP server together: a call is given a reply of a handler that ran on a request with
  its Identifier and its Request Authenticator, and no two of its transmissions are handled in one
  window; a reply is refused only because another call used the Identifier or a handler outlived its
  window;
* transport: one exchange's deadline and reply are not another's; an accepted
  connection has one owner;
* codec: what is sent is read, or refused; a reply that is accepted is one the server gave
  to this request, or to an earlier one with the same Request Authenticator;
* attributes: what is split, hidden, tagged or wrapped comes back as it was;
* retransmission: the deadlines double up to their maximum, within the jitter, whatever the
  width of a `Duration`, and a call that never ends is one without a timeout;
* dictionary: its two maps hold the same entries, and the last registration wins;
* parser: the result is what the files say, and including a file ends.

## 2. Modules

    IdAllocator                    what a pool of Identifiers promises
        ^ refines
    IdentifierPool                 protocol/identifier.go
        ^ extends, refines
    ProtocolClient                 protocol/client.go over transport/udp.go

    Deduplicator                   server/dedup.go
        ^ extends, refines
    UDPServer, TCPServer           server/server.go over transport/udp.go, tcp.go

    EndToEnd                       the calls of one Client, the network, and a UDPServer:
                                   extends UDPServer, instantiates and refines ProtocolClient

    StreamConn                     TCP, TLS and DTLS Exchange: transport/*.go
    StreamListener                 TLS and DTLS Accept

    PacketCodec                    packet/packet.go, protocol/verify.go
        ^ extends
    SignedExchange                 builders, client, server, network around it

    Dictionary                     dictionary/dictionary.go
        ^ extends
    DictionaryCodec                packet/dict_helper.go
    DictionaryParser               dictionary/parser/parser.go
        ^ extends both
    DictionaryLoad                 dictionary/register.go

    ExtendedAttr                   packet/extended.go
    HiddenOctets                   crypto/crypto.go, tunnel.go, mppe.go
    AttributeLayers                crypto/tunnel.go, vendors/vendors.go
    RetransmitSchedule             protocol/retransmit.go, client/client.go

The theorems about a module are in a module of their own: `DeduplicatorProofs`,
`UDPServerProofs` (server and `EndToEnd`), `TCPServerProofs`, `ProtocolClientProofs` (pool and client),
`StreamProofs` (both stream modules), `DictionaryProofs` (the four dictionary modules) and
`CodecProofs` (the exchange, extended attributes, hiding, layers, the schedule);
`RecursionProofs` has what the last two need about recursive functions. `MC<M>` holds the
definitions that the configurations of `M` need. `MCStream` runs one of
the two stream modules, `MCCodecs` one of the six sequential ones: `focus` says
which, and the others keep their initial state.

**Deduplicator.** A caller is a goroutine with one request. `entries` is the
map, `entry` the heap objects it points to, named by the caller that allocated
them, so that an evicted entry and its successor under the same key are two
objects, as in the code. What the mutex covers is one action (`SeenLocked`,
`Store`, `LookupLocked`, `Cleanup`), what it does not cover is an action of its
own: the clock reading of `Seen`, the wait on `done`, and the copy of the reply.
The copy is a data race with a late `Store`; its outcome is the old reply, the
new one, or a mixture (`Torn`). Time is a counter; a caller begins only while
its window still fits below `MaxTime`.

**UDPServer.** The callers are the datagrams. `Serve` holds a datagram between
`ReadPacket` and `wg.Add`; `handleOne` is cut where it calls the detector, runs
the handler, or sends. The detector's actions are conjoined with the goroutine's
own step. The handler returns a reply, none, or an error. `Close`, any number of
`Shutdown` calls and the cancellation of the contexts happen at any time.

The WaitGroup is external and modelled by what `sync` does: a `Shutdown`'s `helper` goroutine calls
`Wait` (`WaitStarts`) and sleeps while the counter is not zero; the `Done` that brings it to zero
then releases all who sleep (`DoneReleases`), and each wakes in its own time (`WaitWakes`). `Serve`
may still hold a datagram, and its `Add` may come in between: before the release it panics
("Add called concurrently with Wait", `DispatchPanics`), after it the helper does when it wakes and
finds the WaitGroup in use ("reused before previous Wait has returned"). `panicked` ends the program.
`TCPServer` has the same of the connections (`StartConnPanics`).

**TCPServer.** The callers are the requests; a connection's client sends those of
its script in order and may hang up at any time. `Accept` and the goroutine that
it starts are two actors: on cancellation the first returns and the second may
still take a connection, which stays `delivered`. A connection's goroutine has one
place in `handleConn`, cut as `handleOne` is; `readN` counts what it has read. A
deadline of `Serve`'s context limits every read, a plain cancellation none.

**IdentifierPool, IdAllocator.** The channel is a sequence of tokens. The
refinement maps it to the owner of each Identifier.

**ProtocolClient.** Users of the pool are calls on one `Client`. The four calls
have one shape: acquire, marshal, exchange with retransmission, verify, release.
All calls share the socket: its one read deadline (`sock`), its receive queue
(`inbox`) and its fd lock, which admits one reader. Requests and replies are lost
and delayed by the network; a request that is sent again may be answered twice. A
server that keeps replies by Identifier, as this library's does, may answer with the
reply to another call, and with a damaged one (`Torn` above); so the server of the
model answers a request with any reply for its Identifier. A reply names the request
it answers. Whether it verifies is decided by the Identifier and by `auth`, what else the Request
Authenticator of a call depends on: two requests of a digested code with equal attributes have the
same, and so have two Access-Requests for which the caller supplied the same
(`protocol/client.go:259-266`, `packet/packet.go:112-114`). A call gets any of `Auths` when it begins.

The policy's delays are taken to be positive, as the default policy makes
them; a delay of zero would leave an attempt without a deadline
(`protocol/client.go:506`), which is `RetransmitSchedule`'s subject.

**EndToEnd.** Both ends are the modules above, each step of either being the one of its module.
A caller of the detector is a datagram here: one transmission of a call, under an Identifier that
the call may come to hold, and all from one address, which is that of the client's socket. The
network delays and loses datagrams of both directions (`net`, `settled`); it hands a request to
`ReadPacket` (`Receive`) and a reply, under the Identifier of the datagram that it answers, to the
client's socket (`ReplyGoes`). Where `ProtocolClient` lets a server answer with any reply for the
Identifier, here the server is the one of the repository, and that it does no more is
`ImplementsClient`. It does not repeat a datagram that was transmitted once.

**Dictionary.** An entry is named by its position in the log of registrations, so
that two entries with equal fields are two objects. `Register` and `ResetForTest`
are one action each, being one critical section.

**DictionaryParser.** The recursion of `parseFile` and `handleInclude` is a stack of
frames, one per activation of `parse`. `reader` tells `Parse` from `ParseFiles`: it
resolves no `$INCLUDE` and keeps no `visited`. The reference, `Says`, computes what
the files say from the include relation alone, to a depth of the number of files: no
stack, no order of reading, the vendor of a line from the marks before it.
Paths name files without links; in the program a cycle through symbolic links has
other paths each time round and ends when the system refuses to open one.

**DictionaryLoad.** `RegisterFromDict` registers, one critical section each, the
attributes of a `Dict` that comes from the parser or was built by hand, while other
goroutines register and reset. The vendor of an attribute is not looked at, so that
a vendor's sub-attribute takes the place of the standard attribute with its number.

**StreamConn.** One connection and the calls of `Exchange` on it, `kind` telling the
transports apart. `exMu` is held from `Lock` until the call returns; waiting for it
takes no notice of a context. The connection has two deadlines, which name the call
that set them: only TCP sets one for writes (`transport/tcp.go:246`), all three set or
clear the one for reads. A packet is four units, two of them the header, so that a
read can stop inside either; a DTLS record is one unit, of a length that fits the
buffer or not. The peer answers any request it has read, in order over a stream and
in any order over DTLS, or does not; it stops reading, or closes. A write that TCP's deadline
cuts short leaves half a request (`torn`), and the peer, which frames by lengths as
`readFramedStream` does, takes the octets of the next request for the rest: such a packet is `None` in
`inbox`, may end in the middle of the next request or at its end, and is answered or ignored like any
other, with up to two replies, since its octets may make two packets. What a timed out
call leaves in the stream the next one reads, and a header out of step gives any
length.

**StreamListener.** A call of `Accept`, its goroutine and the channel of one place
between them. A TLS handshake runs under the call's context, a DTLS one does not; a
peer may never finish either. `peer` and `taken` say where each connection is.

**PacketCodec.** `Marshal`, `Unmarshal` and the verifications as operators on terms: a
digest is equal to another if its algorithm, its input and its secret are. That is
what the code uses MD5 and HMAC for, and no claim about MD5. Attributes are their
type, length, first 16 octets and rest, which is what the code tells apart: the
Message-Authenticator is 16 octets that are zeroed, digested over and filled in, a
password is hidden as a whole. Lengths are those of the code.

**SignedExchange.** One request and its reply: the builders, what the client adds
(`protocol/client.go:259-283`), the datagram on its way, padded or altered in any one place, the
server's `Unmarshal`, `Reply` and edits of it by a handler, the way back, on which the reply may be
one to an earlier request with the Identifier, and the client's checks. An Access-Request has a
random Authenticator or one the caller supplies (`Authenticator`). The earlier request had another
Request Authenticator or, where that is `Repeatable` (of a digested code, or supplied), the same
(`Stale`). Client and server may have different secrets. Handlers may compose anything, of any code.

**ExtendedAttr.** A list of up to `MaxGiven` attributes through `MarshalExtended`,
`MarshalExtendedFragments` and the reassembly, one fragment a step. A piece of a value is an
interval of it, so that a lost, repeated or misplaced octet shows; the length octet is taken modulo
256.

**HiddenOctets.** The two loops of block chaining, one block a step, with the sender's
and the receiver's secret and seed. Blocks, digest and XOR are constants, with the
assumptions that XOR undoes itself and that a digest is a block.

**AttributeLayers.** Tags of RFC 2868 and the header of a vendor's attribute, put on and
taken off, with the limits of the octets that hold lengths.

**RetransmitSchedule.** The times of a call that nobody answers, from `client.Config`
through `NextDelay` to the last attempt. A `Duration` has `Width` bits and the shift
wraps. Jitter is a number of hundredths, and a delay any that `NextDelay` may draw, each time anew;
a float that is no `Duration` becomes the least or the greatest one.

**DictionaryCodec.** An attribute is made by its name and read by its type; other
goroutines register and reset between. Of octets are kept how they were encoded, what
they mean and how many they are.

### Slips

A definition whose name ends in `Slip` is the code with one plausible mistake: a
dropped guard, an early return before a `defer`, a wrong key. No specification
uses them. Each is listed in `PROJECT.json` with the property that fails when it
takes its original's place.

## 3. Runs

| Configuration | Bounds | Question |
|---|---|---|
| `MCDeduplicator.cfg` | three requests of one key, one of another with the same address; TTL 1, clock to 3 | windows, which reply a duplicate may get, no channel closed twice |
| `MCDeduplicator_live.cfg` | two and one requests | does the ticker release every waiter |
| `MCUDPServer.cfg` | two copies of one request with one `Shutdown`, `Close` and cancellation; or a third copy that may evict their entry and a server that goes on (`ThirdOrEnd`); clock to 2 | duplicates, what is left after nil or a panic, do requests and `Shutdown` end, and can a counted goroutine always go on |
| `MCTCPServer.cfg` | one connection with two requests of one Identifier, another that sends one or, where the server ends, none (`OtherOrEnd`); one `Shutdown`, clock to 2 | which reply a request gets, what a duplicate waits for, do connections and `Shutdown` end |
| `MCProtocolClient.cfg` | three calls (one with a deadline, and only it is given up, `TimedEnd`), two Identifiers, two Request Authenticators, one attempt, one reply held by the socket (`OneReply`) | whose reply a call gets, does every Identifier come back, the allocator's contract |
| `MCProtocolClient_live.cfg` | two calls with deadlines, two attempts, `OneReply` | do calls return, is a deadline to come wherever one reads |
| `MCEndToEnd.cfg` | two calls of up to two transmissions, one Identifier, two Request Authenticators; two datagrams in all (`TwoDatagrams`); one end ends, and then with one datagram and one call (`EndsAlone`); clock to 2 | was an accepted reply earned, and once; why is one refused; is this server one that the client's module allows |
| `MCDictionaryLoad.cfg` | every disk of three files of two, two and one lines, read from the first or the first two; two hand-built `Dict`s; one call of another goroutine | the two maps, the last write, what files say, what a loaded `Dict` leaves |
| `MCStream.cfg` | three calls (two with deadlines) on one connection of each kind; or two calls of `Accept` and two peers | whose reply, whose deadline, whose connection; do calls end |
| `MCCodecs.cfg` | see below | do the codecs undo each other |

`MCUDPServer_ShutdownNilMeansFinished.cfg` and `MCProtocolClient_DeadlineBoundsRead.cfg` check
what a comment says and fail (section 4).

The bounds are the smallest at which the cases of interest occur. An entry's torn copy needs a
reader and two storing callers of one key, hence three requests; the fourth, of another Identifier,
tells the key's parts apart. The clock to 3 with TTL 1 lets a window open, close and be followed by
two more. Three calls and two Identifiers make one call wait and then reuse an Identifier whose late
reply is still under way; two Request Authenticators make that reply verify, or not. One attempt
suffices there, since a call that gave up leaves the same late replies as one that retries; the
retry loop itself runs in the liveness configuration. A reply behind another in the socket may as
well arrive when that one has been read, so that one held at a time is enough. End to end, two
datagrams are a request and its retransmission, whether handled in one window or two, or the
requests of two calls that hold the Identifier after each other, of which the second may be answered
with the reply to the first. A datagram that comes while the server ends meets one copy of itself at
most in a new way, so the third copy is left to the runs in which nothing ends. Two requests on a
TCP connection are a first sighting and its duplicate, or two windows; the request of the other
connection may evict their entry between two steps. An idle connection is what `Shutdown` waits for.
With the detector off (`Dedup = FALSE`) the servers are left to the theorems. Three files of so few
lines include themselves directly, through one or through two others, or one file twice, and open
and close vendor blocks across an include; they register one type under two names and one name under
two types.

Three calls on a connection are one that times out, one that reads what it left and one
that waits for the mutex; one of them has no deadline and finds another's. Over TCP one that is
half written, one whose octets complete it and one that reads the answer to both. Two peers and two
calls of `Accept` are what a listener can mix up.

`MCCodecs`: an exchange of up to two builder calls and two edits, over seven codes, two Identifiers,
equal, different and empty secrets, attributes whose number brings a packet to either maximum length
(`MaxLength` is 74, so that three attributes do), a password of 129 octets and a
Message-Authenticator of 17. Two extended attributes after each other, of the lengths at which a
fragment, an attribute or the length octet is full. Hidden values of the lengths around one block
and around both limits, with four block values and a digest that tells two secrets apart; chains of
more than two blocks take two values each. Tags and first octets on both sides of 0 and 31, vendor
values around 247 and 253. Durations of five bits, one of them negative, with up to seven attempts,
so that the shift passes the sign, wraps to a positive number and then to zero; jitter negative, of
none, a tenth, a half and one and a half, so that a delay is drawn on both sides of its base, of
zero and of the greatest `Duration`; timeouts before the first attempt's deadline and behind
several. Two types and two names with every value type and two registrations.

Requests of one key (in `MCDeduplicator`), the calls without deadlines, Request Authenticators,
Identifiers (in `MCCodecs`), and calls with their datagrams are interchangeable, and safety runs use
that symmetry; liveness runs do not.

Deadlock checking is off in every run: requests, calls and the clock are
finite, so every behaviour stops, and a waiter that nothing will wake is
what `WaitersAreReleased`, `RequestsFinish`, `ConnectionsEnd`, `CallsReturn`,
`TimedCallsReturn` and `AcceptsEnd` look for.

### Fairness

* A goroutine that can run is run, and time passes (`WF` of each goroutine's
  step and of the clock), until the WaitGroup panics: `RequestsFinish`, `ConnectionsEnd` and
  `ShutdownFinishes` say "or the program has died".
* Handlers return. Nothing says that they reply; where a property needs it, it
  says so (`NoSilentHandler`).
* `Cleanup` is fair only in `Deduplicator`, whose comment asks its owner for a
  ticker. The servers never call `Cleanup`, and neither do their specifications.
* `TCPServer` assumes no passing of time. A client need not send and need not hang
  up; `ConnectionsEnd` speaks of those that did, and `ShutdownFinishes` of the case
  that all did.
* Streams: a call that holds the connection goes on if it can, and deadlines pass. Of
  the peer nothing is assumed, nor that the mutex is fair: `TimedCallsReturn` speaks of
  the call that holds it. A handshake need not end, unless a canceled TLS one.
* The environment owes nothing: no datagram need arrive, no server answer, no
  context end early, nobody close or shut down.

## 4. Where code and comments disagree

Two runs check what a comment says and fail:

* `ShutdownNilMeansFinished`: a datagram already read but not yet counted is
  handled after `Shutdown` returned nil. `ShutdownLeavesAtMostOne` is what holds. The same late
  `wg.Add` (`server/server.go:192`, `:376`) may meet `Shutdown`'s `wg.Wait` (`:297`, `:473`) between
  its release and its return, and then the WaitGroup panics and takes the program with it.
* `DeadlineBoundsRead`: another exchange on the socket clears or moves the
  deadline of the one that reads.

The models show others, which have no run of their own. In the servers and the client: a duplicate
over UDP is not dropped but waits for the reply, and forever if the handler was silent and no later
request evicts the entry (`server/server.go:220`), and a `Shutdown` without a deadline waits with
it, so that cleanup is required after all (`server/dedup.go:130-133`; `RequestsFinish` is what
holds); a reply that fails verification is not discarded but uses up an attempt, and the last one's
error ends the call before its deadline (`protocol/client.go:467-469`); `Lookup` reads the reply
without the mutex while a second `Store` may replace it, a data race (`server/dedup.go:124` against
`:33`; `TornOnlyAfterSlowHandler` says when); it waits where `server/dedup.go:28-31` says that it
returns nil; the package says that it detects no duplicates (`server/server.go:38`); `Seen` takes
its clock reading before the mutex, so a window can be recorded when it is already partly or wholly
over, and the next request within the TTL is a first sighting again (`server/dedup.go:71-73`); over
TCP the wait of a duplicate blocks the connection's only reader, so that the connection may outlive
its client (`server/server.go:384-385`); `Serve` reads on after its context is cancelled if
datagrams keep coming (`server/server.go:171-177`); `mapReadErr` does not return nil for a closed
listener (`server/server.go:265-272`); the detector never sees two TCP connections of one client as
one address, since the address it is given has the connection's port (`server/server.go:414-416`);
`Exchange` does not look at Identifiers (`docs/design/protocol.md:238-239`); `ErrNoResponse` is
never returned, as silence leaves the last attempt's error (`protocol/client.go:546-549`); a policy
with a maximum of zero but not all zero leaves the first attempt without a deadline
(`protocol/client.go:506`), and a timeout of zero leaves the last one without, so that the policy is
never exhausted (`client/client.go:58-62`); `Max` is called "the upper bound on delay between
retries" (`protocol/retransmit.go:60`), but the jitter is added after the cut (`:82-86`), as the
test expects (`protocol/retransmit_test.go:65-80`), so that `BackoffDoubles` can only bound a delay
by the jittered maximum.

A Response Authenticator proves that the reply is to a request with the same Request Authenticator,
and that may be another call's: two equal requests of a digested code under one Identifier have the
same (`packet/packet.go:112-114`), and so has an Access-Request whose Authenticator the caller "must"
replay "across calls" (`protocol/client.go:71-73`). The detector or the network then answers the second
call with the first's reply, which it accepts although its own request was not handled.
`RepliesStayApart`, `AcceptedMeansServedOncePerWindow` and `AcceptedReplyIsGenuine` say exactly which
replies these can be.

In the transports: over TLS and DTLS the context's deadline does not bound the write
(`transport/tls.go:182`), and over TCP one that an earlier call set still does; a write that it
cuts short leaves the connection open and the peer out of step (`transport/tcp.go:251`), so that later
calls are given what answers no request of theirs (`OutOfStepOnlyAfterTimeout`); a connection that
closes in the middle of a packet gives `ErrConnClosed`, not `ErrMalformedPacket`
(`transport/tcp.go:119`, `transport/dtls.go:119`); the buffer of a DTLS read is an octet
smaller than the largest packet `validateRadiusLength` accepts (`transport/framed.go:59`);
`transport/dtls.go:67` and `:171` say opposite things about where pion shakes hands, and the model
allows both.

In the codecs: padding behind the Length is ignored, but not by the Message-Authenticator
(`packet/packet.go:183` against `:321`); `Unmarshal` zeroes a Message-Authenticator of 16 octets
only, `Marshal` the first 16 of any, so a longer one in a digested request is never accepted
(`packet/packet.go:360`, `:92`); the client validates a Message-Authenticator where a reply has one,
not on every reply to EAP (`protocol/client.go:63-65`); a plain extended value of 253 octets is
marshalled with a length of 0 (`packet/extended.go:88`, `:108`); `DecodeTunnelTag` takes 0x00 for
data (`crypto/tunnel.go:227`); `NewVSA` cuts a value at 253 octets where the attribute holds 247 and
`MarshalBinary` refuses the rest (`vendors/vendors.go:31`); `DecodeVSA` does not look at the
attribute's type (`vendors/vendors.go:50`).

## 5. Theorems

Proved for every number of callers, keys, calls, Identifiers and attempts, every
TTL and every clock bound, from the assumptions beside the constants: the model's
marks are not callers, the TTL is positive, the pool is seeded with each
Identifier once, and there is at least one attempt. Those of the codecs and the parser say what
a Go value of the type is: attributes are attributes, lengths are natural numbers, a `Duration` fits
its width, a salt has its first bit set, a line is a directive, there are finitely many files. One
excludes values: a Message-Authenticator has at least the 16 octets that `Marshal` writes
(section 6).

*Detector* (`DeduplicatorProofs`). The safety properties of the first run do not
hold by themselves from step to step. `IInv` adds that the map sends a key to an
allocated entry of that key, that an entry out of the map has expired and its
channel is closed (`EvictedInv`, the core), that clock readings and insertions are
not from the future, that whoever waits or copies points to an entry of its own
key, and that replies stem from callers of the key that stored. Windows are
exclusive because eviction with an old reading removes only entries that are
expired now as well, so a key is free only after its expiry.

*Server* (`UDPServerProofs`). Every server step is a step of the detector or
leaves it alone, by the way the module is written (`ServerStepImplements`, a lemma), so `IInv` holds in
the server. `SInv` adds the count: `wg` is the
number of goroutines started and not done, at most one datagram is held by `Serve`
and then `loop` says so, and a `helper` that was released, a `Shutdown` that returned nil and a panic
find the socket closed and nothing unfinished but that one. From it: types (the counter never
goes below zero), `ShutdownLeavesAtMostOne`, `DuplicatesGetTheSameReply`. Of the liveness of
`Shutdown` the part that is safety is proved, `CountedRequestsProgress`: whatever goroutines
the counter counts, one can go on. `HandlingInv` and the detector's `OpenInv` give it: an open
channel belongs to an entry whose caller is still handling, or has ended without a
reply, so those who wait do not wait for each other. `AnswerInv` is about what is sent: nothing
before the goroutine ends, one reply at most, and that one published for the key by a caller that
stored, or a torn copy where two have stored and the first too late (`SlowKey`).

*End to end* (`UDPServerProofs`). `EndStepIsServers` and `EndStepIsClients` show that every step of
the whole is a step of `UDPServer` or leaves it alone, and likewise of `ProtocolClient`. The first is
plain; the second is about the network's steps, which must be answers and losses that the client's
module allows, and needs `EndInv`. Its parts: `LinkInv`, that the client's count of copies in flight is
the number of datagrams that are neither answered nor lost; `FreshInv`, that a datagram that has set
out was transmitted by its call, under the Identifier that the call has kept; `InboxInv`, that every
reply in the socket is of a datagram under its Identifier, and of a call that was served or torn; and
`GivenInv`, what the calls made of them. The client's part of a step is used through what it may do to
one call, `Advances` and `Judges` (`ProtocolClientProofs`). Hence the lemma `EndImplementsServer` and
`EndImplementsClient`, by which all theorems about either end hold in the whole;
`AcceptedWereServed`: what a call is given was published by a handler for a request with its Identifier
and its Request Authenticator, its own or one of an earlier call, and its own transmissions were
handled once per window, which is the detector's `WindowsExclusive` because they have one key; and
`RefusalsHaveAReason`: a reply that does not verify is that to a call with another Request
Authenticator, or damaged by a handler that has outlived its window, so that retransmission alone
never makes a client refuse its own reply.

*TCP server* (`TCPServerProofs`). Four invariants, one on top of the other. `PlaceInv`
has the places and counters, from which every step is one of the detector. `ServeInv`
adds the WaitGroup and its helpers, the one connection between `Accept` and `wg.Add`, and what a
released helper or a panic leaves; it gives `AtMostOneStranded` and
`ShutdownLeavesAtMostOne`. `PhaseInv` is the sequential order of a connection: only
the request being handled is inside the detector, those before it have returned, those
after it have not begun. `RunInv` rests on it: the entry of a key is that of the
latest run of its handler, holds that run's own reply or none, and is what a
duplicate's `Lookup` points to. Hence `WaitsOnlyOnSilence`, and with `WireInv`, which
says that what is on the wire answers requests already read, in their order,
`RepliesInOrder` and `AnswersAreOfTheLatestRun`. In the second the other connections'
evictions matter: an evicted entry is closed with its reply, and a later first
sighting is a later run.

*Hits* (`DeduplicatorProofs`, `HitsAreOfTheirWindow`). That a duplicate gets the reply of the
request that opened its window, or of one that outlived its own, needs `StaleInv` beside `IInv`:
whatever is stored in an entry, copied or returned belongs to the entry's own caller or to one
whose window is over, and expiry stays.

*Streams* (`StreamProofs`). `ConnInv` adds to the types that one call at most holds the mutex, that
the read deadline is the reader's own, that the write deadline is that of a call of this
connection's past, `TearInv`: until a deadline has cut a write over TCP, the peer reads whole
requests, and `InStep`: until a call fails by a deadline, all that is in the stream or half read is
the reply to the call that reads, in its place, and nothing if none reads. So the header is that of
a packet, the length is right, and what is returned is the caller's. `ListenInv` follows each
accepted connection from its goroutine through the channel to one caller.

*Hiding* (`CodecProofs`). `HiddenInv` relates the two loops: every block produced is the
other side's under the digest of the ciphertext before it. It holds for any number of blocks, any
digest and any XOR that is its own inverse.

*Pool* (`ProtocolClientProofs`). `PoolInv` is its own strengthening: held and
buffered Identifiers together are all of them, each once; so the buffer has room
for every release, and the pool implements the allocator.

*Client* (`ProtocolClientProofs`). A call's place and its place in the pool correspond (`CallInv`):
it is under way exactly while it holds the Identifier it transmits, whatever way it leaves. The
client takes the pool's steps (`ClientImplementsPool`, a lemma), so that the pool's theorems hold in
it; with `CallInv` they give `IdentifiersComeBack`: every Identifier is in the channel or with a
call under way. `RepliesAreApart` is the other use of exclusive Identifiers: where two calls have
one Request Authenticator and one Identifier they have had it one after the other, so that the call
whose reply the second is given is over. `TimerInv` is about the deadline that the calls share: it
has passed on the socket when it has for the `Exchange` that set it last, and only a call without a
deadline leaves the socket without one. `ReadsAreNeverStuck` follows, the safety part of
`CallsReturn`: where every call has a deadline, whoever reads reads from a socket whose deadline has
passed or will.

*Dictionary* (`DictionaryProofs`). Types, `IndexesAgree` and `LastWriteWins` are
inductive together. Agreement is what makes the deletions of `Register` right: the
entry under the new type and the entry under the new name are unbound from both
maps, because each is in both. The theorems are about any registrations and resets
in any order, of which `RegisterFromDict` is one. `DictDecodesWhatItNamed` rests on agreement:
while a name stands for its definition, so does its type, and what was encoded under the one is
decoded under the other.

*Parser* (`DictionaryProofs`). For any number of files of any length that include each other in
any way, `ParsesWhatFilesSay`. `ParserInv` follows the stack: a frame has collected exactly what the
lines it is done with say (`HasRead`), and every frame but the innermost is at the directive that
includes the next one's file (`Includes`). What a file says is read to the depth that its frame has
left, which is why the reference can be met: `visited` is the set of the stack's files, all
different, so the stack is never deeper than the number of files, and a file that is on it already
can be read to no depth, since reading it would have to be deeper than itself. This is where an
include cycle becomes the error. `FlattenSeq` of readings is unfolded line by line.

*Loading* (`DictionaryProofs`). `LoadInv` adds that the entries of a parsed `Dict` are those of
lines, hence their value types are ones `mapValueType` knows: nothing that was parsed is rejected
(`ParsedDictsLoad`). Every step of a load is a step of `Dictionary` or leaves it alone
(`LoadImplementsDictionary`, a lemma), so both maps agree while a `Dict` is half loaded. What they then
hold is said by the `Dict` alone (`LoadedDictionaryIsTheDict`): an attribute stands unless a later
one of the `Dict` has its type or its name. `LogInv` is that the log of registrations is the
attributes of the `Dict` that the load has passed, in their order.

*Schedule* (`CodecProofs`). For any width, any policy of integers, negative ones included, and
any number of attempts. `ScheduleInv` says that the deadline of the attempt under way is one that
`NextDelay` may draw for it and is positive, and that an attempt before the last without a deadline
has drawn none that is. `EveryBackoffDoubles` needs what the wrapped shift computes: it is exact while
the exact value fits, so `Initial << k` is cut only at the maximum (`BaseIs`); and what the jitter
makes of it: as long as the greatest product is a `Duration`, a draw is within its hundredths of the
base (`NextDelayIs`). `OnlyUntimedCallsAreStuck` turns that round: a draw that is not positive comes
from a maximum that is not, from a base that the jitter brings to zero or below, or from a product that
is no `Duration`.

*Layers* (`CodecProofs`). What is sent determines what is read off: a tag that is none of 1..31
is not sent and is read as 0; the first octet of a salt is above 0x7F and can be no tag; an integer
sent without a tag whose first octet could be one has three octets left, and is refused; and the
vendor's length octet holds every length that the attribute's own admits, `MarshalBinary` refusing
what lies between 247 and 253.

*Extended attributes* (`CodecProofs`). For lists of any length and values of any size.
`ExtInv` has two halves. The writer's, `WireOK`: a fragment is an interval of its attribute's value,
`more` says whether the value goes on, and the next fragment continues it or begins the next
attribute that is marshalled (`Follows`, `Gap`). The reader's, `ReaderOK`: its pieces are the value
up to where the last fragment ended, and what it has read is whole, in order, without a gap. So a
fragment is never foreign to the pieces before it, and the only one that is malformed is that of a
short value of 253 octets, at which the reader stops.

*Exchange* (`CodecProofs`). For any attributes, edits, secrets and Identifiers and any number of
builder calls. `ExchangeInv` says for each phase what is in flight as a function of what was
marshalled (`OnTheWay`): the datagram itself, it with padding, or one of `Altered`. The lemmas
are about `Marshal`: it is a function of the terms it covers, so that two datagrams with one digest
have one code, one Authenticator and the same attributes up to what was zeroed (`MD5Injective`,
`FillTwice`), and a change of any one place that is covered is a different digest. That a request is
read when nothing happened to it (`EverySentRequestIsRead`) needs the converse, that zeroing what
`Marshal` filled gives back what it digested, which fails for a Message-Authenticator of more than
16 octets. `Delete` and `Set` keep lists lists (`KeptIsAttrSeq`). What an earlier reply does is decided
by its Request Authenticator: under another one it does not verify (`VerifiedIsRepeated`), under the
same it does (`RepeatedVerifies`).

*Recursive functions* (`RecursionProofs`). `TLAPS` takes a definition `f[n \in S] == ...` for the
choice of a function that satisfies it, whether there is one or not. The proofs therefore show first
that there is (`RecursionIsDefined`, by unfolding to n and gluing), and do induction over sets
instead of operators (`SetInduction`). With these the powers of two, the depth of `Says`, the
loop of `Kept` and the flattening of readings are proved about, not only evaluated. What stays
opaque is `^` and what the community modules define by `RECURSIVE`; the models that are proved
about do not use them.

Some theorems state what no run repeats: that every waiter is reachable, every open channel has its
caller and a hit is published for its key (detector); that no Identifier is held twice or lost; that
at most one connection is stranded by a TCP server's cancellation, what a nil `Shutdown` leaves
there, and that its replies go out in order; that the last registration wins and a parsed `Dict`
loads; that only the first hidden block needs the seed; that only a call without a timeout is stuck;
and the types.

Every invariant, action property and refinement that a run checks is proved, but for those
that section 4 refutes. Only model-checked is liveness, which the prover does not treat (fairness
and `ENABLED`): `WaitersAreReleased`, `RequestsFinish`, `ShutdownFinishes`, `ConnectionsEnd`,
`CallsReturn`, `TimedCallsReturn` and `AcceptsEnd`.

## 6. Not modelled

* CHAP, MS-CHAPv2 and the derivation of MPPE keys (`crypto/chap.go`, `mschapv2.go`, most of
  `mppe.go`): fixed compositions of standard hashes without state, which the repository checks
  with published vectors.
* The vendors' packages: one constructor per attribute number over `NewVSA`. The standard
  dictionaries: tables. `types`, `errors`, `log`: constants and an interface.
* The code generator and `packet/format.go`: text. The command-line tool: flags.
* `Mux` and `SecretMap`: filled before `Serve`, read afterwards.
* Octets: hashes are terms, so a collision is not modelled, and neither is a failing source of
  random numbers, which leaves a salted value unpadded (`crypto/tunnel.go:104`). A
  Message-Authenticator shorter than 16 octets, which `Marshal` writes past.
* Stray datagrams, panics of handlers, symbolic links, a write that ends early but for a deadline,
  and one that the kernel itself times out.
* What a misread request makes of its octets: of two requests in one only that the peer may answer
  once or twice with something.
* A request that the network itself duplicates: `EndToEnd` has the client's retransmissions, `UDPServer`
  alone any datagrams. Clients behind several sockets, and `EndToEnd` over TCP.

`PROJECT.json` lists every component with its status and reason, and every hazard
with the properties that watch it.

## 7. Plan

Done: the detector, both servers, the pool, the client, client and UDP server end to end, the
streams and listeners, the codec with its attributes, hiding and layers, the schedule, the
dictionary and its parser, with the proofs above. What would come next:

1. Proofs: the safety part of the liveness of the TCP server and the streams, as it is proved
   for the UDP server and the client; that `AnsweredOK` holds across several exchanges with one
   Identifier, which would join `SignedExchange` to `EndToEnd`.
2. `Exchange` over a stream under the client's retransmissions (`protocol/client.go:514` with
   `transport/tcp.go:242`), where an attempt that timed out leaves its reply to the next.
