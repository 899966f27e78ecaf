# syncryn1z3, specified in TLA+

syncryn1z3 is a PTP (IEEE 1588) master with a web interface: people create
clocks over HTTP and synchronise with them over UDP.  This directory holds TLA+
specifications of the parts of it whose correctness depends on the order of
things, the TLC configurations that check them on small instances, and proofs,
checked by TLAPS, of the central properties for every value of the constants.

All paths below are relative to the repository (`src/` is its root).  The
server's sources are in `src/service/src`, abbreviated `S/`.

## 1. The system

One process, one libuv thread.  `S/main.c` sets up the database, the PTP state,
two UDP sockets and an HTTP server and runs the event loop.  Beside it, started
by `src/service/entrypoint.sh`, runs a Python process that deletes old clocks
from the same database file.

```
  UDP 319/320 --> udp/udp.c --> rx_ring --> ptp/tasks/ptp_tasks.c --+
                  (udp pool)                (ptp pool)              |
  UDP 319/320 <-- udp/udp.c <-- tx_ring <----------------------------+
                                             | db_get
  HTTP 8080 <--> http/http.c <--> http/tasks/http_tasks.c
                                             | db_get, db_set, db_get_recent
                              db/db.c (cache) <--> sqlite file <-- cleanup.py
```

| component | state it keeps | operations | what makes it correct |
|---|---|---|---|
| UDP transport, `S/udp` | its buffer pool, two sockets | `udp_poll` = `udp_receive_message`, then `udp_send_message` until an error | no buffer is lost on an early return; replies leave; a poll ends |
| Buffer pools, `S/util/mempool.h` | head and tail in a circle of descriptors | `get`, `put`; `put` exits the process when a buffer comes back out of order | callers return buffers in the order they took them |
| Message rings, `S/util/ring.h` | head, tail, slots | `put`, `get` | first in, first out; never refuses what a pool could hand out |
| PTP message handling, `S/ptp/ptp.c`, `ptp_helper.h`, `tasks/` | reply pool, two rings | `ptp_enqueue_message`, `ptp_handle_message` and a handler per message type, `ptp_dequeue_message` | every request is answered; a reply that cannot be finished does no harm to others |
| PTP authentication, `S/ptp/security` | marks on the TLVs of the request in hand | check, add and complete authentication TLVs | a TLV is served exactly to those who have the clock's policy and secret; replies verify |
| PTP codec, `S/ptp/protocol` | none | encode, decode | decoding what was encoded gives it back; packets are aligned and fit |
| Clock database, `S/db` | sqlite table, a direct-mapped cache | `db_get`, `db_set`, `db_get_recent` | the cache never contradicts the table; acknowledged clocks are there |
| HTTP tasks, `S/http/tasks` | none of its own | `create_clock`, `inspect_clock`, `get_clocks` | what is answered is what is stored |
| HTTP sessions, `S/http/http.c` | request and response buffer of a connection | libwebsockets callbacks | requests are answered in order, each from its own text; no buffer is freed twice |
| JSON library, `src/service_hidden/src/json.c` | none | build, parse, serialise, free | a value survives; a text that stops short is refused; memory is returned, also when some cannot be had |
| Cleanup task, `src/service/cleanup.py`, `entrypoint.sh` | whether it is its first round | delete rows older than 15 minutes, every 50 s | only expired rows go, and all of them go |
| Client, `src/service/client` | a queue of replies, t1 to t3, the authentication policy | send a request, await a reply, synchronise, fall back to another policy | a result stems from one exchange, and is as exact as its delays allow |
| Front end, `src/service/static/main.js` | an inspected clock, a list of recent clocks, requests not answered | create, inspect, list; count the list's times up every second | what is shown is what was last asked for; the times in the list stay right |
| Proxy, checker | - | - | outside the models, except how the checker verifies replies |

Interactions: the UDP transport calls PTP through two callbacks
(`enqueue_callback`, `dequeue_callback`); buffers are owned by a pool, pointed
to by a ring and returned by whoever finishes with them; handlers and HTTP
tasks call the database synchronously; the cleanup task shares nothing with the
server but the file, so the cache is never told of its deletions.

### Behaviours that are hard to test

* **Buffers in order.** `util_mempool_put` ends the process if buffers do not
  come back first in, first out.  No type or local check ensures it: it follows
  from every handler queueing each buffer the moment it takes it, from the ring
  being no smaller than the pool, and from every early return giving back the
  right buffer.
* **Partial failure while replying.** The signaling handler queues its reply
  *before* it looks at the request's TLVs.  If one fails the reply stays in the
  transmit ring with length 0, an error message is queued behind it, and
  `udp_poll` stops draining at the empty one.  Replies behind it are stranded
  until the next datagram.
* **A limited pool.** Seven reply buffers; stranded replies, or one datagram with
  many unicast requests, use them up in the middle of a handler.
* **A cache beside a table that others change.** Rows disappear without the cache
  noticing; the same clock can be created again; several ports share a slot; and
  the zero behind a secret that fills its buffer lands in the next slot.
* **Two processes and an empty volume.** Whoever touches the file first decides
  whose it is, and whether the cleanup task finds its table.
* **Late replies.** All requests of the client have sequence id 0 and it takes
  whatever reply comes next; a reply to a request it has given up must not find
  its way into a synchronisation.
* **Values in front of values.** A message may have several authentication TLVs,
  and an integrity value (ICV) is computed over everything in front of it, earlier
  ICVs included.  A check marks the TLVs it covers, so that later ones are not
  checked again.
* **A clock that stands on another.** A clock is stored as its difference to the
  monotonic clock of the host, modulo 2^64, in rows that outlive the process and
  the host.
* **Limits that meet.** The encoder pads every message with one TLV more than the
  message has, and the decoder has limits of its own for texts, TLVs and lengths.
  The encoder writes the type of a TLV before it looks whether there is room.
* **Connections that are kept.** The buffers of a connection are forgotten at
  every request and freed only at the close; an answer that fails is tried again.
* **Texts without an end.** The JSON parser knows a length only, and looks at the
  character there before it compares positions.
* **Memory that cannot be had.** Every constructor and every step of the JSON parser
  may fail half-way, with parts to be freed by somebody.
* **Answers that overtake each other.** The page shows whatever answer comes; and it
  counts times up as texts, by way of a date that is set field by field.
* **Crashes.** Between the insertion of a row and the answer to its creator.

`PROJECT.json` lists each hazard with its line and the properties aimed at it.

## 2. The modules

| module | what it is | extends or instantiates |
|---|---|---|
| `Mempool` | the buffer pool, as operators on a pool state | - |
| `Ring` | the message ring, as operators on a ring state | - |
| `MessagePath` | the way of a datagram and its replies through `udp.c`, `ptp.c`, `ptp_helper.h` and `ptp_tasks.c` | `Mempool` (one operator module for both pools), `Ring` (for both rings), `ReplyQueue` |
| `ReplyQueue` | abstract: a bounded queue of replies | - |
| `MessagePath_proof` | the invariants of `MessagePath` proved; that it implements `ReplyQueue`, what can be stranded, and how long a poll takes | `MessagePath`, TLAPS |
| `MCMessagePath` | instances of `MessagePath` for TLC | `MessagePath` |
| `ClockStore` | table, cache, HTTP tasks, cleanup task, container | `ClockTable` |
| `ClockTable` | abstract: what readers of the store can rely on | - |
| `ClockStore_proof` | the invariants of `ClockStore` proved, and that it implements `ClockTable`; that `PortTime` is a `ClockStore`, and exact | `PortTime`, TLAPS |
| `MCClockStore` | instances of `ClockStore` for TLC | `ClockStore` |
| `PortTime` | the store composed with the host's monotonic clock: the time of a clock | `ClockStore` |
| `MCPortTime` | an instance of `PortTime` for TLC | `PortTime` |
| `PtpClient` | the client, the server as it answers one client, and the network between them | - |
| `PtpClient_proof` | the invariants of `PtpClient` proved, how long a client runs, and that it does not fail on a network that works | `PtpClient`, TLAPS |
| `MCPtpClient` | instances of `PtpClient` for TLC | `PtpClient` |
| `MessageCodec` | `ptp_encode_message` and `ptp_decode_message`, one after the other | - |
| `Authentication` | a request and its answer, signed, checked and signed again, on the messages of the codec | `MessageCodec` |
| `Authentication_proof` | the theorems about `MessageCodec`, and those about `Authentication` that build on them | `Authentication`, TLAPS |
| `MCMessageCodec` | an instance of `Authentication`, and so of `MessageCodec`, for TLC | `Authentication` |
| `HttpSession` | a connection of the HTTP server and its memory | - |
| `HttpSession_proof` | the invariants of `HttpSession` proved | `HttpSession`, TLAPS |
| `JsonText` | the JSON library, as a machine with a stack of calls | - |
| `JsonText_proof` | memory and serialisation of `JsonText`: its invariants proved | `JsonText`, TLAPS |
| `JsonParse_proof` | parsing in `JsonText`: what is read is the value that was sent | `JsonText_proof` |
| `MCJsonText` | an instance of `JsonText` for TLC | `JsonText` |
| `FrontEnd` | the page of the web interface | - |
| `FrontEnd_proof` | the invariants of `FrontEnd` proved | `FrontEnd`, TLAPS |
| `MCFrontEnd` | an instance of `FrontEnd` for TLC | `FrontEnd` |

### MessagePath

The server is single threaded, so the model is a program counter `pc` walking
through one poll callback: `idle` → receive → `handle` → a handler →
`release` → `drain` → `idle`.  Every action is one call of the code.

| variable | code |
|---|---|
| `udpPool`, `ptpPool` | `udp_state.mempool`, `ptp_state.mempool` |
| `rxRing`, `txRing` | `ptp_state.rx_ring`, `ptp_state.tx_ring` |
| `datagram`, `reply` | the contents of the descriptors of the two pools that are in use |
| `request`, `response`, `tlv` | locals of `ptp_handle_message` and of the signaling handler |
| `own` | history: the descriptors taken for the request in hand |
| `sendtoFails` | whether `sendto` can fail, a choice made once |

`UdpReceiveMessage` and `UdpReceiveFails` are the first half of `udp_poll`;
`PtpHandleMessage` takes the request from the receive ring and dispatches it;
`HandleDelayRequest`, `HandleManagement`, `SignalingStart`, `TlvDenied`,
`TlvGranted`, `TlvInvalid` and `SignalingFinish` are the handlers;
`GeneralError` and `ReleaseRequest` are the end of `ptp_handle_message`;
`SendReply`, `SendFails`, `DropUnfinished` and `DrainEnds` are one turn each of
the sending loop.  `Respond` is `ptp_get_and_init_response` with the
`ptp_finalize_message` that follows it, error paths included: it is used by
every action that takes a buffer.

Abstractions.  A datagram is its kind, its socket, its sender and the number of
unicast requests in it; a reply is its kind, its addressee and whether it was
encoded.  Whether a datagram decodes, whether its sender may use the clock and
whether a system call succeeds are choices.  When a unicast request is granted,
`db_get` in `ptp_send_announce` cannot fail: `ptp_security_check_auth` has just
put the row into the cache.  The replies whose encoding cannot fail (fixed size,
no authentication TLV) are ready at once; a management reply may turn out too
long.  "Ready" is a length above 0, which is all `udp_send_message` looks at: a
reply that was given up and has a length nevertheless (see `Overrun` of
`MessageCodec`) counts as encoded.  A descriptor that is not in use has no
content: the code does not read one.

### ClockStore

A `db_*` call runs on the server's one thread and touches the database in one
transaction, so it is one action; rounds of the cleanup task, ticks of the
clock, and crashes come between any two.

| variable | code |
|---|---|
| `table`, `schema` | the sqlite table `ports` |
| `cache` | `db_state.cache`, an array of `struct db_entry` |
| `owner` | the owner of `/data/db.sqlite` |
| `up` | the server is past `db_setup` |
| `cleaner` | the cleanup process: before its first round, in its loop, or ended by an error |
| `page` | the last answer of `get_clocks`: rows read, and clocks listed |
| `promised` | history: rows whose creation the client was told of |
| `filled` | history: ports that had a clock whose secret has `DB_SECRET_SIZE` characters |

`DbSetup`, `DbGet`, `CreateClock`, `CreateClockFails`, `GetClocks` and
`GetClocksFails` are the server's operations, `CleanupStarts` and `Cleanup` the
rounds of `cleanup.py`, `DbSetupFails`, `Restart` and `CrashAfterInsert` the
ways the container restarts, `Tick` the passing of time.  Of a clock its policy,
its visibility and whether its secret is `full` are kept apart; offset,
description and secret are one value.  `inspect_clock` is a `DbGet` as far as the
state goes.  The list of recent clocks keeps the order of the code: all rows are
written into their slots first, then the answer is read from the slots; a query
that fails has written those it had come to, which may be all.

A secret of 64 characters fills `secret[64]`, and the zero that `strcpy` writes
behind it (`S/db/db.c:127` and `:189`) is the first byte of the next slot, its
`authentication_policy`: the clock there is open to anybody until its row is
read again (`src/documentation/README.md:150`).  `CacheAfter` does this
(`Overrun`); behind the last slot there is none.  Every property about the cache
is therefore stated up to the policy of the clocks that are `Exposed`: those
whose slot lies behind that of a port in `filled`.  That they are the only ones,
that they lose nothing else, and that no other reader sees anything of it is
what the properties say.

### PortTime

`PortTime` extends `ClockStore`: the value of a clock is now the difference the
server stores.

| variable | code |
|---|---|
| `boot` | when the monotonic clock that `util_get_time_ns` reads was 0 |
| `asked` | history: the time asked for at a port's latest creation, when that was, and what restarts of the host have lost since |

`SetClock` is `create_clock` with its arithmetic, `HostRestarts` a restart that
also sets the monotonic clock back, `Untimed` every other step of `ClockStore`.
`TimeOfPort` is the sum every reader computes (`ptp_get_port_time`, the announce
message, the management response, the list of recent clocks).  A restart of the
host loses what its clock had counted, for every clock stored: `TimeExact` says
that this is all that is ever lost.  Times are unsigned and wrap at `Modulus`.

### PtpClient

`src/service/client/ptp_client.py` is one asyncio task; it is modelled by the
await it is at, and an action is what it does from one await to the next.

| variable | code |
|---|---|
| `setting` | the policy of the clock asked for, and whether the network is a perfect one; it never changes |
| `pc` | the await of `get_user_description`, `get_offset` or `run_synchronization` the task is at, or the request it makes next |
| `policy` | `auth_info.policy` |
| `inbox` | `PtpProtocol.queue` |
| `times`, `offset`, `round` | `t1` to `t3` of `run_synchronization`; what `get_offset` returned; turns of `loop()` |
| `requests`, `replies` | the datagrams on their way |
| `sent`, `begun`, `result` | history: requests sent, when the synchronisation began, its result and how long it took |

`AskDescription`, `AskAnnounce`, `AskSync`, `AskDelay` send; `TakeDescription`,
`TakeGrant`, `TakeAnnounce`, `TakeSync`, `TakeDelayResponse` are the awaits that
succeed, `DescriptionFails` (with the fallback to "plain") and `GivesUp` those
that raise.  `ServerPoll` is `MessagePath` as one client sees it: the kinds of
replies to a request in the order the handlers queue them.  A request carries a
number, `to` in its replies, that the messages do not have; no action looks at
it, `OwnAnswers` does.  The network (`Deliver`, `LoseReply`, `LoseRequest`)
loses and reorders but does not duplicate.

Abstractions.  An offset is in nanoseconds, as a number; the field of the
announce message it travels in keeps whole seconds in 32 bits, and `Second` and
`HalfRange` are small.  `Skew` is constant: the two monotonic clocks run at the
same rate.  A timeout needs an empty queue and may otherwise strike at any time:
the model does not count the second.  Once its synchronisations are done the
client waits for a key; that is "done" here.  What it displays besides the
result (the drift, a quotient of a result and a time; a terminal too small) is
not modelled.

The result is `int(x / 2)` (`src/service/client/ptp_client.py:239`), a division
of integers in floating point: x is rounded once, to the nearest float, and the
half of a float is one.  `Nearest` is that rounding, for floats that are exact
below `Precision` (2^53) and multiples of a power of two (`Spacings`) above it;
of two floats that are equally near it takes the even one.  In nanoseconds this
begins to matter when the uptimes of the two hosts differ by about 52 days, so
`SyncAccuracy` allows, besides half the time the exchange took, for the `Loss`:
the truncation as long as the sums are below 2^53, and one part in 2^53 of them
beyond that.

### MessageCodec

A message is built (`AddTlv`), encoded (`EncodeHeader`, `EncodeNext` for each
TLV, `EncodePad`) and decoded (`DecodeHeader`, `DecodeTlv` for each,
`DecodeEnds`).

| variable | code |
|---|---|
| `message`, `room` | the arguments `message` and `length` of `ptp_encode_message` |
| `head` | the local `head`, of the encoder and then of the decoder |
| `packet` | the buffer: the type, the timestamp and the TLVs with the offset each was written to |
| `decoded` | what `ptp_decode_message` has found |

Lengths, offsets, padding and the limits of both sides are those of the code,
with the sizes of its packed structures.  A text is its length, and the length of a
packet is the `length` of its buffer.  The fields that
are copied and put into network byte order and back are left out; timestamps,
which are divided and multiplied, and the bit fields of the unicast TLVs are
kept.  Only packets this encoder made are decoded: what the decoder does with
others is not modelled.  Where the code is odd the model is too: the condition in
front of the padding lacks parentheses and is always true, so every message is
padded; the seconds are reduced modulo a number meant as a mask, without harm
for 64-bit nanoseconds; the flags of a grant are written to one half of their
byte and read from the other, so `RoundTrip` leaves them out, as no reader of
the flags exists.

Four of its oddities show in what the properties say.

* `ptp_encode_tlv` stores the type of a TLV, and clears the whole of a padding,
  before it looks whether there is room.  `buffer.length` lies right behind the
  data, so a TLV that is refused when `head` is at the end of the buffer, or one
  byte before it, leaves the bytes of its type there (`Overrun`): the message that
  was given up then has a length.  `PacketAligned` says exactly when, and that all
  that is sent as a whole is aligned; `RefusedForAReason` is about the refusals.
* The padding that is cleared too early reaches six bytes beyond the buffer at
  most, since it ends at an aligned place: over the length, still 0 then, and
  unused bytes of the structure.
* The length of a description is stored in 8 bits and compared with the limit then
  (`S/ptp/protocol/ptp_encoding.c:218`): one of 257 characters is sent as one of 1
  (`Written`).  The server itself sends none longer than 128.
* A decoded error text has no terminator (`S/ptp/protocol/ptp_decoding.c:265`): what
  an older message has left in the structure goes on behind it (`Decodings`), unless
  the structure was `clean`.

`RoundTrip` says what is left: of descriptions the length modulo 256, of error texts
at least what was sent, of everything else what was encoded.

### Authentication

`Authentication` extends `MessageCodec` and runs it twice: a client builds a
request, encodes it, decodes it again to find the places of its ICVs and fills
them in; the server handles the TLVs one by one, builds the answer, encodes it,
decodes it again and signs it the same way.

| variable | code |
|---|---|
| `stage` | which of these is under way |
| `client` | `auth_info` of the client: policy and secret |
| `entry` | the row of the clock, or that there is none ("unpopulated") |
| `icvs` | the ICVs in the packet, in the places of their TLVs |
| `authenticated` | the TLVs `ptp_security_check_auth` has marked |
| `served`, `reply` | history: what was allowed; the TLVs of the response |

`SignRequest` is a turn of `finalize_auth_tlvs` of the clients, `SignReply` one of
`ptp_security_complete_auth_tlvs`; `HandleGuarded` is the handling of a TLV that
needs authentication, with `ptp_security_check_auth` in it (`CheckAuth`),
`HandleOpen` of one that does not; `FinishReply` is `ptp_security_add_auth_tlv`.

The server compares a hash as far as the TLV says that it is long, and a plain
secret up to its end (`S/ptp/security/ptp_security.c:96`), wherever the TLV
ends.  A value of no bytes therefore passes for a hash, shorter ones pass if
they agree as far as they go, and what is compared behind 32 bytes is whatever
the stack holds: `Verdicts` are the outcomes there can be.
`src/documentation/README.md:237` says so too. `AuthenticationDecides` is hence
about values that are `Conclusive`, of the length all clients of the repository
give them or longer, and claims nothing about shorter ones.

The loop that marks TLVs goes one place too far (`:216`): in front of the first
TLV, `tlvs[-1].authenticated` is a byte of the packet's data, at `Mark` = 1428,
which becomes 1.  A later check of the same request whose value, or what it
covers, has that byte may fail for it (`Touched`); `AuthenticationDecides`
exempts that from "those who may are allowed", not from "nobody else is".  It
takes a request of more than 1428 bytes.

Abstractions.  An ICV is what it was computed from; of a hash that is cut, or
secrets that begin alike, whether they agree is a choice.  A message without any
authentication TLV makes `ptp_security_check_auth` look at the place behind its
last TLV, where an earlier message may have left one: the verdict is then a
choice, and `AuthenticationDecides` is about TLVs that have an authentication
TLV behind them.  Every handler of one request finds the same row: that the
cleanup task deletes it between two of them is left out.

### HttpSession

One connection, as `http_callback` sees it; `pc` is the callback libwebsockets
makes next ("retry" is inside one, between the two attempts at an answer).

| variable | code |
|---|---|
| `session` | `struct http_session`: `request.data`, `request.length`, `response.buffer`; `answer` is what `response.data` points to |
| `heap`, `taken` | the blocks `malloc` and `realloc` have returned and `free` has not been given |
| `requests`, `received` | the requests of the peer, and how much of the last body has been passed on |
| `wire` | history: what was written |

`NewRequest`, `Body`, `Writeable` and `Closed` are the callbacks of their names,
`HandleMessage` and `GeneralError` the two parts of `http_handle_message`,
`SendResponse` is `http_send_response` with its four outcomes.  Whether memory
can be had and a write succeeds are choices, and so is what a task answers.  The
callbacks come in the order libwebsockets makes them.  `LostExplained` lists the
ways a block is lost, and says that a close leaves none that the session still
pointed to. A byte of a body is identified by its request and its place, so that
`AnswersOwnRequest` can tell whether a text was put together rightly.

### JsonText

The functions of the library call each other for values inside values.  Here a
value is the sequence of its nodes, each before those inside it, and the calls
that have not returned are a stack of the objects they are for; an action is
what a function does between two calls, or between two tests that can fail.
`Create`, `Created` and `Attach` are a task that makes an answer with the
constructors and `json_object_push`, without looking whether they failed;
`Serialize` to `WriteEnd` are `json_serialize`; `ClientSends` (`json.dumps` puts
spaces), `OtherSends` and `Cut` (the texts cut short that `test_anti_parsing`
tries) are where a text comes from; `Parse` to `Out` are `json_parse`; `Release`
is `json_free`.

| variable | code |
|---|---|
| `pc` | the function, and the place in it |
| `value` | the value the task is to build, or a client made a text of |
| `tree`, `open` | the nodes of the value there is so far, and the objects that calls are for |
| `text`, `room` | what is written, or is to be parsed; the argument `size` of `json_serialize` |
| `beyond` | the character in memory behind the text, chosen at each parse |
| `at`, `from` | how many nodes have been built or written, or the offset of the parser's pointer; where a string or a number began |
| `string`, `number`, `key` | the locals of the parsing functions |
| `memory` | the blocks in use, each named by its node and the pointer to it; how many are lost, how many allocations have failed, whether something was freed that was not in use |

A client escapes more than the library does: a tab becomes `\t`, and other
characters `\u` and the digits of their code, while `_parse_string`
(`src/service_hidden/src/json.c:107`) only drops the backslash.  `Letter` maps
each such character to the letter that stands behind the backslash (a code's
digits are ordinary characters behind it); `ClientSends` sends it like that, and
what `Arrived` is the letter.  `RoundTrip` says so: a value is given back but
for these characters.

A few characters stand for all, and numbers are in a small base and wrap at a
small range.  The accessors, the string functions and zero bytes inside texts
are left out; arrays are not compiled in.

### FrontEnd

| variable | page |
|---|---|
| `fetches`, `sent` | the calls of `fetch` not settled, with the server's answer once it has one |
| `panel` | the inspected clock on display, or the placeholder |
| `table` | the rows of the list, with the time in each |
| `clocks` | the server: the clocks created, in their order, and how far ahead of the time of day each is |
| `inspected`, `version`, `excuse` | history: the clock last asked for; which list is on display; how many requests had been sent when last one failed or an older list came, 0 once a list asked for later has come |

`CreateClock` and `InspectClock` are the buttons, `Serve` the server,
`HandleResponse` the handlers of answers, in any order; `UpdateClocks` is the
timer.  Dates are computed as the methods of `Date` do, in any calendar
with the same months every year, with the order in which `updateClocks` sets year,
month, date and time.
The timer is exact; there are no leap years; the server has no collisions and
expires nothing (`ClockStore` has both).

Three things the page does are visible in the properties as exceptions.  When
two inspections are unanswered at the same time the older answer may come last
and stay: `InspectFresh` excuses that, and so says nothing about answers to
inspections that overtake each other.  A list that comes after a newer one is
shown, and so a creation may be missing from the page: `ListCatchesUp` excuses
that until a list comes that was asked for afterwards, and a request that failed
likewise.  And `updateClocks` (`src/service/static/main.js:258`) sets the month
while the day is still today's: on a day that the month of the row does not
have, the row jumps a month ahead (`skipped`), which `RowsAccurate` exempts.
Clocks created as hidden are not in the model: they are in no list.

### Abstract specifications

* `ReplyQueue`: a queue of at most `PoolSize - 1` replies.  A reply joins at the
  back, may become ready, changes in no other way, and leaves from the front.
  `MessagePath` implements it with `queue` mapped to the transmit ring's slots
  seen through the descriptors they point to.
* `ClockTable`: `stored` and what a reader sees, `view`.  What is stored is seen
  as it is stored; what is gone may be seen for a while, and once it is not, it
  is never seen again until a clock is created in its place.  Some clocks are
  `exposed`, and may be seen without their policy.  `ClockStore` implements it with
  `view` mapped to "the slot if it is a hit, else the row", and `exposed` to the
  ports whose slot lies behind that of a port in `filled`.

## 3. The runs

| run | question | bounds | result |
|---|---|---|---|
| `message_path` | do buffers stay in order, is every request answered, and what can be stranded, if anything may fail? | 4 descriptors (3 usable), rings of 4, up to 2 unicast requests, 2 clients (symmetric), `sendto` that may fail and that never does | `NeverOutOfOrder`, `IdleHasRoom`, `EveryRequestAnswered`, `UnfinishedExplained`, `StrandedReplies` hold |
| `message_path_live` | is it a queue, and does everything come to an end? | 3 descriptors, up to 2 unicast requests, 2 clients | `IsReplyQueue`, `PollCompletes`, `RepliesLeave` hold |
| `clock_store` | are stored clocks what readers get, is their time exact, and is the store the abstract one, across everything that happens to the file and to the host? | 2 ports, the slot of one in front of the other's, and 1 special one; clocks with a full secret and no policy or with a policy and a shorter one; 2 slots, lists of up to 2, 3 instants, lifetime 1, times modulo 4, a host up for 3 instants | `PortTimeTypeOK`, `CacheCoherent`, `PromiseKept`, `TimeExact`, `IsClockTable` hold |
| `recent_clocks` | what does the list of recent clocks show, and do its processes get on? | 3 ports of which 2 share a slot, lists of up to 3, 2 instants, lifetime 0 | `RecentExceptCollisions`, `ExpiredDeleted`, `ServerComesUp` hold |
| `recent_clocks_collision` | is it the clocks found? | the same | `RecentClocksShown` is violated |
| `cleanup_task` | does the cleanup task, once started, run? | 3 ports of which 2 share a slot and 1 is special, 4 instants | `CleanupTaskRuns` is violated |
| `ptp_client` | can a late or lost datagram spoil a result, and does the client succeed when nothing goes wrong? | 2 synchronisations, 4 instants, seconds of 2 ns, 3-bit offsets, floats exact below 2 and 4 apart at most, a clock without policy and one with the policy tried second, a bad network and a perfect one | `SyncAccuracy`, `TimeShown`, `OwnAnswers`, `ClientEnds`, `ReliableSucceeds` hold |
| `ptp_client_shown` | is the time shown the clock's? | 3 synchronisations, the second clock | `ClockTimeShown` is violated |
| `message_codec` | does the decoder get what the encoder was given, and does authentication let in and sign as it should? | any 2 TLVs, or 3 as clients send them, or 4 of which all are guarded or sign; texts one shorter to one longer than the limits, and longer than 256; 3 buffers, 3 timestamps; clocks of all policies and none | `PacketAligned`, `RefusedForAReason`, `OwnMessagesDecode`, `RoundTrip`, `AuthenticationDecides`, `RepliesVerify` hold |
| `http_session` | is each request answered from its own text, and memory used and freed rightly? | 3 requests of 0, 1, 3 and 4 bytes, at most 3 allowed | `TypeOK`, `SessionOwns`, `AnswersOwnRequest`, `OneAnswerEach`, `LostExplained`, `RequestsEnd` hold |
| `json_text` | do values survive, are cut texts refused, is memory returned? | objects of up to 2 pairs, 3 deep, 4 texts of others, 2 characters that clients escape as a letter, base 3, numbers below 16, 6 buffers; any two allocations fail | `FitsExactly`, `RoundTrip`, `PrefixRefused`, `MemoryReturned` hold |
| `front_end` | does the page show what was asked for, and do its times stay right? | 2 clocks (symmetric), one behind and one ahead, 3 requests, a year of 8 days of 2 seconds of which the second half passes | `InspectFresh`, `ListCatchesUp`, `RowsAccurate` hold |

Why the bounds are enough.  A pool of four descriptors is the smallest with
which a datagram can use up the pool both before and after the loop over its
TLVs: two granted requests use it up at the end of the loop, a stranded reply
from an earlier datagram inside it, and then the error message that follows
finds nothing.  The proofs of section 5 remove the bound for the invariants they
cover.  In `ClockStore` everything a slot can go through involves the port in
it, another port of the same slot, the port of the slot in front, and a row
created, expired and created again.  `recent_clocks` has the ports that collide,
and lists that pass over all of them; `clock_store` has the neighbours, one with
full secrets and one whose policy can be lost, and enough instants to expire a
row and create it again (`MaxTime` = 2 with lifetime 1); what both at once would
add is left to the proofs.  In `PortTime` both sums overflow: the host may have
been up for longer than the time asked for, and clocks run past the modulus.  In
`PtpClient` a stray reply can only be left from a request that was given up or
answered twice, and after the first request for the description every failure
ends the client; two synchronisations have every request precede and follow
every other.  A clock without a policy admits both requests for the description,
so that two answers to them can be on their way at once.  With a skew of several
units a float of the run is exact, or a multiple of 2 or 4.  In `MessageCodec`
the buffers are too short for some payloads, for some TLVs, and only for the
padding; three TLVs are the most a message can have, so that the decoder's limit
strikes and the answers of a request may leave no room for an authentication
TLV; a request of three has room for a TLV between two authentication TLVs and
in front of both, which is all their marks can tell apart (`Scope` keeps three
TLVs to the kinds clients send, at one timestamp), and one of four for the byte
in front of the first TLV to lie in a value that is checked after it was set;
TLVs end with the buffer and one byte before it; the three timestamps fit into
the low part, do not, and use all of the high part but its largest value.  In
`HttpSession` a request can only be disturbed by what the one before it left,
and that one by its own predecessor; bodies are empty, shorter than the limit,
at it and above it.  In `JsonText` every kind of value is first, last, alone and
inside, the strings are those that look like the end of something, and the
buffers are about as long as the texts; characters that clients escape stand
first and alone; an allocation that fails leaves a part missing, and the second
one meets what the first has left, at each later place.  In `FrontEnd` three
requests are two inspections or creations beside the list asked for at the
start; the time runs across the end of a day, of the months of 2 and 3 days and
of the year, with a clock days behind and one days ahead of it. `MaxTime` (of
`ClockStore`, `PtpClient` and `FrontEnd`), `MaxRequests` (of `HttpSession`) and
`MaxFetches` (of `FrontEnd`) are the only bounds on counters.

The three violations are disagreements between the code and its documentation,
listed under `findings`: `db_get_recent` hands out pointers to slots that later
rows of the same list overwrite (`S/db/db.c:181`), and `cleanup.py` ends in its
first round when the server has not created the table yet
(`src/service/cleanup.py:14`).  An announce message carries a clock's offset in
whole seconds (`S/ptp/tasks/ptp_tasks.c:73`), so the client does not show the
time of the clock but one off by up to a second.

## 4. Fairness

`MessagePath.FairSpec` assumes only that a callback that runs goes on running:
weak fairness of the handler and transmission steps.  Nothing is assumed about
datagrams; `RepliesLeave` is therefore stated under the condition that polls
keep happening, and without it is false, since stranded replies wait for the
next datagram.

`ClockStore.FairSpec` assumes weak fairness of the cleanup rounds (an endless
loop with a sleep), and of the server's start (a process that was started gets
through `db_setup` or fails in it).  Nothing is assumed about requests or the
first round of the cleanup task; restarts can happen at any time and as often
as one likes.

`PtpClient.FairSpec` assumes weak fairness of the client: asyncio runs a task
that is ready, and the timer of `wait_for` makes it ready.  That is enough for
`ClientEnds`; a client that waits for a key at the end counts as ended.
`ReliableSucceeds` is about a network that delivers and a server that polls,
which `ReliableSpec` assumes in addition; the run checks both under
`ReliableSpec`, but nothing besides the client's own steps takes `ClientEnds`
further (`ClientBounded`).  `HttpSession.FairSpec` assumes that a callback
completes, that libwebsockets calls back when the connection can be written (or
fails), and that it closes a connection whose callback returned an error.
Nothing is assumed about the peer.  `MessageCodec`, `Authentication`, `JsonText`
and `FrontEnd` have no liveness property.

## 5. The proofs

### MessagePath

`MessagePath_proof` proves, for every pool size of at least two, every ring at
least as large as the pool, any number of unicast requests and any set of
clients:

    Spec => []TypeOK                  (TypeCorrect)
    Spec => []TransmitOrder           (TransmitOrderHolds)
    Spec => []RequestBuffers          (RequestBuffersHolds)
    Spec => []NeverOutOfOrder         (NeverOutOfOrderHolds)
    Spec => []IdleHasRoom             (IdleHasRoomHolds)
    Spec => []EveryRequestAnswered    (EveryRequestAnsweredHolds)

The assumptions are the named ones of `MessagePath`: `SizeAssumption` (the code
has 8 and 8), `DataAssumption`, `NoneAssumption`.

None of the properties is inductive alone.  That `put` finds the buffer it
expects (`NeverOutOfOrder`) needs to know that the ring's oldest entry is the
pool's oldest descriptor, i.e. `TransmitOrder`; for the receive side the same
is part of `RequestBuffers`, together with where in the callback we are.  That
the ring never refuses a reply is a consequence: it holds exactly the
descriptors in use, of which there are fewer than the ring has slots.  That a
poll ends with a free buffer needs an argument over its length, which
`AnswerRoom` records: on entry there is a free buffer, so the first reply of a
request is always queued; hence when draining starts something is in the ring,
and each way in which draining ends has just returned a buffer or found the
ring empty.  `SignalingLocals` bounds the loop and places its response among the
buffers in use.  `IInv` is the conjunction.

The proof has three layers: lemmas on the pool and on the ring (what get and
put do to the sequence of items), two lemmas on both together (`OrderPut`,
`OrderGet`: taking and queueing, or dequeuing and returning, keeps them in the
same order), and one lemma for each action.

It also proves that the transmission path implements the abstract queue, and what
can be left in it:

    Spec => IsReplyQueue              (ImplementsReplyQueue)
    Spec => []UnfinishedExplained     (UnfinishedExplainedHolds)
    Spec => []StrandedReplies         (StrandedRepliesHolds)

`IsReplyQueue` maps the queue through the ring; under `TransmitOrder` that is the
same as reading the pool's descriptors in use in their order (`QueueView`), which
is easier to follow from state to state.  Each kind of step then has a lemma:
steps that leave replies alone stutter (`QueueAlone`), taking a buffer joins
(`QueueAccept`), finishing the response changes one reply in place
(`QueueFinish`), sending or dropping is the front leaving (`QueueDepart`).

What is unfinished or stranded takes an invariant about places in the queue,
`StrandingInv`, inductive together with `IInv`.  `LastReplies`: the replies to the
request in hand are the last in the ring, for its sender, and all but the first are
finished.  `UnfinishedReply`: the one that is not is the signaling reply while its
handler runs, and what the end of `ptp_handle_message` makes of it.  `LeftBehind`:
what other requests left is finished; while the ring is drained, what stands behind
an unfinished reply is finished and for the same client, so that when the loop
stops there only that client's replies stay.  `ReplyJoins` says what taking a buffer
does to the places, `PlacesKept` that everything else leaves them alone.

`TransmitOrder` and `RequestBuffers` are parts of the invariant and are proved; the
runs check the properties that rest on them.

The rest of the module is what `PollCompletes` and `RepliesLeave` need besides
fairness:

    Spec => /\ [](StepsLeft \in 0..LongestPoll /\ (StepsLeft = 0 <=> pc = "idle"))
            /\ [][pc # "idle" => StepsLeft' < StepsLeft]_vars        (PollBounded)
    Spec => [][(pc # "idle" /\ pc' = "idle") =>
                 \/ TransmitQueue = <<>>
                 \/ TransmitQueue' = Tail(TransmitQueue)]_vars       (PollRelieves)

`StepsLeft` counts the replies in the ring, twice the unicast requests still to be
looked at, since each may queue a reply that has to be sent in the same poll, and
the functions still to be called; it falls with every step of a poll, from at most
`PoolSize + 7 + 2 * MaxTlv`, so that a fair loop comes back.  A poll that comes back
has taken the oldest reply out of the ring or left the ring empty; since replies
leave in order, one with n in front of it is gone after n + 1 polls.

### ClockStore and PortTime

`ClockStore_proof` proves, for any finite set of ports, any cache, page and
lifetime:

    Spec => []CacheCoherent           (CacheCoherentHolds)
    Spec => []PromiseKept             (PromiseKeptHolds)
    Spec => []RecentExceptCollisions  (RecentExceptCollisionsHolds)
    Spec => RowsOnlyExpire            (RowsOnlyExpireHolds)
    Spec => IsClockTable              (ImplementsClockTable)

from `PortAssumption`, `SizeAssumption`, `PolicyAssumption`,
`NewClockAssumption` and `NoneAssumption`; the first two and the last hold up to
the policy of exposed clocks. The invariant adds to `CacheCoherent` that only
ports that are not special are stored and that those with a full secret are in
`filled` (`FilledKnown`), which makes whatever is overrun exposed; and it splits
`PromiseKept` in the part about the table (`PromiseStored`) and the reader's
view, which follows from coherence.  That a coherent cache stays so when a row
is created again, after the cleanup task has deleted it behind the cache's back,
is the one step where the invalidation in `db_set` is needed.  The lemmas on
lists say what the last row of a list with a given slot is, and that the cache
then holds it, or what the zero of a full secret later in the list has left of
it (`SlotAfter`).

And about `PortTime`, for any modulus:

    PortTimeSpec => Spec                  (ImplementsClockStore)
    PortTimeSpec => []PortTimeTypeOK      (PortTimeTypeCorrect)
    PortTimeSpec => []TimeExact           (TimeExactHolds)

The first makes all of the above available.  `TimeExact` then needs that the
difference in the row, and the one in a slot whose row is gone, are the difference
for the latest creation, and some arithmetic of remainders (`SameRemainder` and
the lemmas behind it).  `TimeAssumption` is added.

### PtpClient

`PtpClient_proof` proves, for any skew, offset, unit, number of synchronisations
and set of policies:

    Spec => []IInv                    (ClientInvariant)
    Spec => []TypeOK                  (ClientTypeCorrect)
    Spec => []SyncAccuracy            (SyncAccuracyHolds)
    Spec => []TimeShown               (TimeShownHolds)
    Spec => OwnAnswers                (OwnAnswersHolds)

from `ClientAssumption`, `NoneAssumption` and `FloatAssumption`, by which there
are floats of the size of the sums.  The messages do not say which request they
answer, so the argument is that there is never a choice.  `OneExchange`: apart
from requests for the description there is the latest request, or there are
replies to it, of each kind at most one and only of those the client still waits
for.  This survives a loss because after a timeout the client fails rather than
asking again; only the request for the description is tried twice, and its
answers get no synchronisation on.  `Recent`: these replies carry times of this
exchange.  `Timeline` orders t1 to t3, and `OffsetKnown` says that the offset is
the announced one.  `SyncAccuracy` is arithmetic on `Timeline` and `Recent` at
the one step that makes a result, with a bound for what the division loses,
`TimeShown` follows with the rounding of `OffsetKnown`, and `OwnAnswers` is
`Recent`.

What `ClientEnds` and `ReliableSucceeds` need besides fairness:

    Spec => /\ [](TurnsLeft \in 0..(5 * Syncs + 7) /\ (TurnsLeft = 0 <=> ~Running))
            /\ [][IF Client THEN TurnsLeft' < TurnsLeft
                            ELSE TurnsLeft' = TurnsLeft]_vars        (ClientBounded)
    Spec => [](setting.reliable => pc # "failed")                    (ReliableNeverFails)

A synchronisation is five steps, the way to the first one five, or seven with both
policies; nothing the server or the network does adds to them.  That the client does
not fail on a network that works takes an invariant of its own, `InStep`: either the
request is on its way and nothing else is, or the replies to it are, in the order
in which the client takes them (`Coming` is its inbox and the replies behind it,
`Expecting` what they must be); and the policy is one the clock admits, except
before the description is there, whose refusal leaves only the other policy.

### MessageCodec

The first half of `Authentication_proof` proves, for limits, buffers, texts and
sets of timestamps of any size below the 16 and 32 bits of seconds:

    Spec => []IInv                    (Invariant)
    Spec => []TypeOK                  (TypeCorrect)
    Spec => []PacketAligned           (Aligned)
    Spec => []OwnMessagesDecode       (OwnDecode)
    Spec => []RoundTrip               (DecodesToTheSame)
    Spec => []RefusedForAReason       (RefusesForAReason)

The assumption is `CodecAssumption`.  The invariant adds to the properties where
things are: `Layout` says that TLVs lie one behind the other from the end of the
payload on and are the message's in their order, `Progress` that the decoder is
at the beginning of one of them and has found those before it.  Since their
offsets increase strictly (`TlvsApart`) there is only one at the decoder's head;
it passes the decoder's checks because the encoder's limits are at least as
strict (`TlvAccepted`, by the kind of TLV); and it is decoded to what it was
made from, up to what `Received` allows texts (`TlvRoundTrip`, and
`TimestampRoundTrip` for the header, which needs some arithmetic of quotients
and remainders).  `PadAligns` is the reason packets are aligned.

`RefusedForAReason` compares where the encoder is with the sum of the sizes of
TLVs, which is a recursive function, `EncodedSize`.  Its invariant is `Summed`:
the encoder has come as far as the sizes of the TLVs it has encoded, no further,
so nothing is lost between them.  That the function exists and is the sum
(`EncodedSizes`) would be an induction; here the argument is by a least
counterexample (`LeastNumber`, from the well-foundedness of the natural
numbers): a sum that exists up to k can be continued to k + 1 (`PartialSums`).
The same argument shows that it grows (`EncodedSizesGrow`), so that a message of
which a part is too long is too long (`PrefixTooLong`); and `PadIsLeast` says
that no smaller padding would do.

Its second half builds on that, for any sizes of ICVs that differ, any
descriptions and any number of TLVs:

    AuthSpec => []AuthIInv                (AuthInvariant)
    AuthSpec => []AuthTypeOK              (AuthTypeCorrect)
    AuthSpec => [](PacketAligned /\ OwnMessagesDecode /\ RoundTrip)
                                          (RequestsAndRepliesDecode)
    AuthSpec => []RefusedForAReason       (RequestsAndRepliesRefusedForAReason)
    AuthSpec => []AuthenticationDecides   (AuthenticationDecidesHolds)
    AuthSpec => []RepliesVerify           (RepliesVerifyHolds)

`AuthenticationAssumption` is added: hashes are compared up to the 32 bytes
computed, and plain secrets are longer.  `AuthSpec` is not a refinement of the
codec's `Spec`, since it starts a second message; `AuthIInv` contains the
codec's invariant, whose step lemmas are used for both messages.  `Signatures`
says that each value is what its maker computed from what stands in front of it,
`Stages` what there is of request and answer when.  If the first authentication
TLV behind a TLV has a conclusive value, a check accepts it exactly if the
client may, but for the byte in front of the first TLV (`Signatures`,
`AcceptedIfEntitled`, `CheckDecides`); but a mark made for one TLV covers
others, so the invariant needs that marks on TLVs still to come, if a conclusive
value decides about them, are deserved: `MarksDeserved`.  That is kept since
what a check marks lies in front of the authentication TLV that decided, which
therefore decides about all of it (`DecidedTogether`).  A reply has one
authentication TLV, its last (`Answered`), which is why the checker's look at
the first finds the right one.

### HttpSession

`HttpSession_proof` proves, for any number of requests of any lengths, cut into
chunks in any way, and any limit:

    Spec => []TypeOK                  (TypeCorrect)
    Spec => []SessionOwns             (SessionOwnsHolds)
    Spec => []AnswersOwnRequest       (AnswersOwnRequestHolds)
    Spec => []OneAnswerEach           (OneAnswerEachHolds)
    Spec => []LostExplained           (LostExplainedHolds)

The assumption is `SessionAssumption`.  That an answer is made from the whole of
its own request needs to know, before it is made, that the buffer holds what has
come of this request's body and nothing else, and that a session in front of its
task has all of it: `Progress`.  That pointers are live needs to know what kind
of block each is to, and that no block belongs to a request yet to come, so that
the next request starts with nothing of its own to lose: `Blocks`.  The same
tells that the close has freed all that the session had (`LostExplained`).  That
headers and bodies alternate needs the length of what has been written at each
callback, `Sent`.  The lemmas follow that division: one for growing a body by a
chunk (`BodyGrows`), two for writing headers and bodies, two for allocating and
for what `http_send_response` does to memory, and then one for each action.

A complete request is over after four callbacks at most, which is what `RequestsEnd`
needs besides fairness (`RequestsBounded`): `CallbacksLeft` falls with each, none is
for another request, and the last closes the connection or has written the body of
the answer.

### FrontEnd

`FrontEnd_proof` proves, for any users' clocks and times, any number of requests
with answers in any order, and any calendar:

    Spec => []IInv                    (Invariant)
    Spec => []TypeOK                  (TypeCorrect)
    Spec => []InspectFresh            (InspectFreshHolds)
    Spec => []ListCatchesUp           (ListCatchesUpHolds)
    Spec => []RowsAccurate            (RowsAccurateHolds)

from `FrontEndAssumption`: times are natural numbers, there are months, they have
days, and days have seconds.  `MonthStart` stands for the calendar, the days of the
year before each month and of the whole year, so that nothing has to be summed.

`InspectFresh` needs that every inspection under way is for the clock last asked
for or is known to overlap with it (`InspectsKnown`).  `ListCatchesUp` needs
that an answer with a list, and the table, are lists of the newest clocks there
were at some number of clocks (`ListsTrue`), and that, if there are more by now
and nothing excuses the table, some request will bring them: a creation that was
answered, a list that was asked for and is not made yet, or a list of all clocks
(`NothingForgotten`).  It needs the same of every list under way that would end
the excuse (`Clears`): such a list was asked for after whatever went wrong, and
what it lacks was created after it was made.  When nothing is under way there is
no such request, and so the table is up to date.  `RowsAccurate` is inductive
with the others, and its step is that adding a second to the text adds a second
to the time (`UpdatedAddsASecond`): dates and times determine each other
(`MomentParts`, `PartsOfMoment`, from the uniqueness of month, quotient and
remainder), so that setting year, month, day and seconds one after the other
ends at the moment meant, as long as no step in between asks for a day the month
does not have.

### JsonText

`JsonText_proof` proves, for any values and any texts of others, any buffers, memory
behind a text, number of failures, digits and range of numbers:

    Spec => []IInv                    (Invariance)
    Spec => []TypeOK                  (TypeCorrect)
    Spec => []MemoryReturned          (MemoryReturnedHolds)
    Spec => []FitsExactly             (FitsExactlyHolds)

from `JsonAssumption`: the values are objects, there are at least two digits,
all different and no other characters, and the characters that clients escape
are none of those either and stand as letters behind the backslash.
`MemoryReturned` says nothing of how the blocks are distributed while the
functions run, and that is what its invariant is about. `Nested`: the stack of
calls is a path of objects in the tree, and what came after an object is inside
it.  `Bare`: what could not be made has nothing inside it, but for a value that
is in no object yet.  `Heap`: the blocks in use are exactly those that some node
holds (`Holds`: its value, string and pairs, and its key once it is attached)
and those of the string and key being read (`Loose`), so that freeing the nodes
from some place on frees each of their blocks once and no other.  `Failures`
ties what is lost and what is missing to failures.  There is one lemma for each
way in which a function changes the tree: a node more (`GrowStep`), the last
child attached or taken away again (`ChildStep`), and one for each exit of the
parser.

`FitsExactly` has an invariant of its own, `FitInv`, on top of it.  `Shaped`:
nodes are inside objects only, so that the tree has a text.  `Writer`: how many
objects are open is where the next node is, or the end of one.  `WrittenPart`:
what is written is the text of the first nodes and of the ends that are due
(`Made`, node by node), and the room tested is what is needed.  That the
function fails only when it must is `MadeFits`: with the ends of the objects
open, no part of a text is longer than the text.  Where the library recurses
over data (`Numeral`, the concatenation of pieces), existence and type of what
it computes are proved by least counterexamples, as for `MessageCodec`.

`JsonParse_proof` adds what the parser makes of a value's text:

    Spec => []RoundTrip               (RoundTripHolds)
    Spec => []PrefixRefused           (PrefixRefusedHolds)

where a character a client has escaped arrives as its letter.  Its invariant,
`InStep`, says for each place of the program where in the text of the value the
parser is, and that the nodes made are the value's first (`Alike`, but for
objects whose memory could not be had): a key, or an item, is due and begins
here (`AtKey`, `AtItem`), part of a string or a number has been read (`Within`,
`WithinNumber`), an item or an object has ended (`AtPush`, `AtEnd`).  The
alternative, at each place, is that the text cannot be accepted any more: it
stops short, or an allocation has failed (`Stopped`), and the parser is where
nothing can be found that would let it go on (`Barren`, `NoObject`).  That these
are all is what makes the parser's order of attempts, a string, a number, a
word, an object, safe: the first character of an item tells its kind
(`FirstOfItem`); behind an item stands something that cannot belong to it
(`PieceEnds`), so the end of the text within an item, or right behind it, is
always too early.  After a failure the parser may go on in an object that it has
no memory for; `Missing` says that such an object is then open, so that the
value comes to nothing when it ends.  A number read digit by digit is one whose
numeral begins the numeral sent (`NumeralGoesOn`), never a greater one, so that
reading it does not overflow; and a numeral is that of one number only
(`NumeralSame`).  An object has ended as a whole exactly when the text has
(`EndOfText`).

## 6. Checked but not proved

* `PollCompletes`, `RepliesLeave`, `ExpiredDeleted`, `ServerComesUp`,
  `ClientEnds`, `ReliableSucceeds`, `RequestsEnd`: liveness under fairness is
  out of the reach of the prover used here, as is anything about `ENABLED`.  For
  `PollCompletes`, `RepliesLeave`, `ClientEnds`, `ReliableSucceeds` and
  `RequestsEnd` the measures that fall and the states that are never reached are
  proved (`PollBounded`, `PollRelieves`, `ClientBounded`, `ReliableNeverFails`,
  `RequestsBounded`); what is left to TLC is that a step is possible where one
  is needed, and that fairness then brings it about.

## 7. What is not modelled

* Fields of messages that are only copied, and packets and JSON texts of makers
  other than the ones in this repository.
* What `ptp_security_check_auth` finds behind the last TLV of a message without
  authentication, beyond the fact that it may accept it or not; a row that the
  cleanup task deletes between two queries for one request.
* Setting up and closing sockets; the orderly shutdown of `S/main.c`, which is a
  `Restart` here; logging; the wrapper of libb64.
* The cleanup task's own errors on a locked database; a server that finds the
  database busy is modelled (`CreateClockFails`, `GetClocksFails`).
* The accessors and string functions of the JSON library: each is a test and a
  field, or a loop over characters.
* The forms, notifications and layout of the page, and hidden clocks there; the
  terminal display of the client, with its own division for the drift
  (`src/service/client/ptp_client.py:344`); and the configuration of the proxy.
* A lost udp buffer would not show in `IdleHasRoom`, which is about reply buffers;
  `NeverOutOfOrder`, and `RequestBuffers` which is proved, would find it.
* `src/checker`, the test driver, except how it signs and verifies
  (`Authentication`); it holds a copy of the codec.

Two oddities of the code are in the models without a property of their own: the
fixed part of the time-offset TLVs is odd, so that the padding of their name for an
even length makes them odd (`S/ptp/protocol/ptp_encoding.c:409`; both sides agree,
and `RoundTrip` covers it), and the month set before the date in `updateClocks`
(`src/service/static/main.js:258`), which `RowsAccurate` names as its exception.

## 8. Plan

Everything planned at the start is done: the core (`Mempool`, `Ring`,
`MessagePath`, `ReplyQueue`), the store (`ClockStore`, `ClockTable`,
`PortTime`), the client, the codec with authentication, the HTTP session, the
JSON library and the page are modelled and checked, and every safety invariant
and action property is proved. What could be added: a `PtpClient` with several
clients on one server, composed with `MessagePath`, so that stranded replies of
one delay another; and a `FrontEnd` on `ClockStore`, with rows that expire.
