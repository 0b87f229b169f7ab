# TLA+ models of the obus Python runtime

This directory holds TLA+ specifications of the obus client runtime in
`src/python/obus/`, of the wxpyobus HMI built on it (`src/python/hmi/`) and of
the code generators' descriptor tables, checked with TLC. The runtime keeps a local mirror of a
server's object bus up to date over TCP. Each module below is translated from
that source. `PROJECT.json` maps every definition to the lines it models, and
lists the runs, the mutants, the findings and the hazards.

## The system

- **Client** (`client.py`).
  - The connection state machine: IDLE, CONNECTING, CONNECTED, DISCONNECTING and REFUSED.
  - `start`/`stop`.
  - `sendMethodCall`, which uses a 16-bit call handle that wraps from 65535 to 1 and a `pendingCalls` map.
  - One handler per received packet: CONRESP, ADD, REMOVE, EVENT, BUS_EVENT and ACK.
  - Bus-event notification. The user's `onBusEvent` runs first, then `dispatchBusEvent`. A `dispatched` flag makes that one single pass: registrations, then events (each committed after `onObjectEvent`), then unregistrations. Each unregistration first aborts the object's pending calls (`_removePendingCalls`).
- **Bus registry** (`bus.py`): handle → object, with a KeyError on a duplicate register or a missing unregister.
- **Bus events and data objects** (`buseventbase.py`, `data/*.py`).
  - Events built locally: CONNECTED, DISCONNECTED, REFUSED, and the single-item events for ADD, REMOVE and EVENT.
  - Decoded BUS_EVENT batches.
  - REMOVE packets and object events resolve their object against the live bus *when the main thread decodes them*.
- **Transport** (`transport.py`).
  - A reader thread connects, posts CONNECTED, feeds received bytes to the framing decoder, posts each raw packet, posts DISCONNECTED on EOF or error, then reconnects.
  - A writer thread runs its own looper and sends each posted packet on the socket the reader holds at that moment.
  - `stop()` closes the socket, joins both threads and drops `packetHandler`, so messages still queued for the main thread are discarded.
- **Looper** (`looper.py`): a FIFO queue per thread. The reader's messages reach the client on the main thread only, so all bus and pending-call state is single-threaded.
- **Descriptors and the XML loader** (`descriptors.py`, `xmlbus.py`): the client's bus description is loaded at run time into `BusDesc`/`ObjectDesc`/`StructDesc` tables.
- **Code generators** (`src/src/obusgen`): a second parser of the same XML (`obusparser.py`) drives the C generator, which writes a server's static descriptor tables, and the Java generator, which writes a client binding. The three descriptor sources must agree for a C server and a Python or Java client to understand each other.
- **HMI** (`src/python/hmi/`, `wxpyobus.py`): a wx frame with one `BusItf` per configured bus, each owning a `Client`.
  - Every handler runs on the main thread from the wx pending-event queue: the `looper` of the main thread is a `WxLoop`, so transport messages and inotify notifications share one FIFO queue.
  - `addBus` loads the xml file (a `DecodeError` leaves a BusItf with no client and the error as status), starts it if `busInfo.enabled`, and registers the file with `INotifyLinux` if `busInfo.autoReload`.
  - `INotifyLinux` watches each directory once (one `DirEntry` per watch descriptor, holding `FileEntry` records). Its own thread reads the inotify fd and posts every matching `FileEntry` to the main queue.
  - `onBusModified` keeps the started state in `busInfo.enabled`, then runs `removeBus` (unregister, stop, delete the tree item, drop from the list) and `addBus`.

## Modules

| Module | Models |
|---|---|
| `ObusClient` | Client, Bus, bus-event dispatch, the packet handlers, the writer thread and the main looper; the reader as a link; an obus server as the environment |
| `MCObusClient` | Model values and small sets for TLC |
| `ObusTransport` | `Transport`: the owner thread (`start`, its looper, `stop`), the reader thread's socket loop, the writer thread, and the peer |
| `ObusDecoder` | The framing `Decoder` of `protocol.py`, fed by the reader loop's `recv`/`decode` calls; a whole-stream reference parse |
| `MCObusDecoder` | Frames and garbage prefixes for TLC |
| `ObusCodec` | `Buffer`, the sparse `ObusStruct` encoding, objects, events, calls and bus events, `TxPacketConnReq`/`TxPacketCall` and every Rx packet class with `RxRawPacket.decode` |
| `MCObusCodec` | A bus descriptor, objects of three server versions and every packet kind, for TLC |
| `ObusIdl` | The readers of a bus description: the generators' parser (`obusgen/obusparser.py`) with the descriptor tables the C generator (`c/obus_c*.py`) and the Java generator (`java/obus_java.py`) write from it, and the client's `xmlbus.loadBus` with the `add*` checks of `descriptors.py` |
| `ObusHmi` | `MainFrame`'s bus list and handlers, `BusItf`'s status with its client's connection callbacks, `INotifyLinux` and its thread, the wx event queue; transport readers and an editor writing the xml files as the environment |
| `MCObusHmi` | Two buses with files in one directory, and three buses of which one has a directory of its own, for TLC |
| `MCObusIdl` | About 1,440 small bus descriptions: zero, repeated and dangling uids and names; scalar, handle, array and enum types, well- and ill-formed; well- and ill-formed enums |

### ObusClient: state and actions

Client state, as in the code:
- `state`;
- `bus` (`Bus.objects`);
- `objVal`, the struct of every decoded object;
- `handleCall`;
- `pending` (`pendingCalls`);
- `calls`, every call object, with its `ack` and two ghost fields. `ackOf` records which call the server's ACK answered. `cbs` counts `onObjectCallAck` callbacks.

A decoded `ObusObject` is a fresh Python object. It is identified by `<<emission, handle>>`, so an object of an earlier connection is never equal to one of the current one.

The main thread's position inside a handler is `pc`, with these scratch variables:
- `cur`, the bus event being processed;
- `after`, the state `_disconnect` sets at the end;
- `cbObj`/`cbEvt`/`cbCall`, the callback's argument;
- `abortSet`, the copy `_removePendingCalls` iterates over.

Each `pc` value other than `idle`, `dispatch` and `abort` is a user callback. Its `...Return` action runs the code that follows the callback. While `pc` is in `CallPoints`, the user may call `sendMethodCall` (`UserCall`).

The environment:
- `tgen` identifies the live Transport. Messages carry it, and those of a stopped transport are dropped (`recvStale`).
- `running` is `Transport.running`.
- `link` is whether the reader's socket is connected.
- `mq` is the main looper queue; `wq` is the writer's queue.
- `up`/`down` are the bytes in flight in each direction; a dropped connection loses them.
- The server model (`srv`, `sess`) owns the real objects. It accepts or refuses the first CONREQ of a connection and answers a repeated one again. It ignores CALLs before accepting, then sends an ACK carrying the ghost id of the call. It adds, removes and changes objects, alone or in one BUS_EVENT. There is no server code in this repository, so these actions come from the spec's protocol section and are marked `spec_modelled` in the map.

Each handler is one action from its guard to its return, or one action per stretch between user callbacks. The map names the lines of each.

## ObusClient runs

| Run | Result | What it shows |
|---|---|---|
| `client_calls` | pass | Whenever the client is CONNECTED and has processed all of its connection's traffic, its bus equals the server's objects and values (`MirrorConsistent`). Objects are on the bus only while CONNECTED or dispatching DISCONNECTED (`RegistryOnlyWhenConnected`). Every REMOVE or EVENT the client decodes finds its object (`PacketsResolve`), so the DecodeError path is needed only against a non-conforming server. A call gets at most one ack callback, and an ACKED call received the answer to itself (`AckMatchesCall`). Every call is eventually ACKED or ABORTED (`CallEventuallyResolved`). |
| `client_stale_call` | violation | Calls that are never ACKED nor ABORTED (`CallEventuallyResolved`). (1) A call on an object of an earlier connection, made while reconnecting, or while IDLE, where `writePacket` raises `AttributeError` on the `None` transport after the call was stored in `pendingCalls` (`client.py:167`). (2) A call issued from `onObjectCallAck(ABORTED)` on the object being removed: `_removePendingCalls` iterates over a copy (`client.py:248`), so the new call stays pending after its object is unregistered, which the spec contradicts. Each of the two breaks the property on its own: (1) with `UserCallsStale = TRUE` and no retry, (2) with the retry and `UserCallsStale = FALSE`. The run's cfg enables both. |

Each property of a passing run has a mutant in `PROJECT.json`: a plausible bug in the mapped code that TLC catches. The mutants are: no `commit` after `onObjectEvent`; `_disconnect` not notifying DISCONNECTED; `_onRxMessage` not dropping a stopped transport's messages; the handle wrapping one step late; the `del pendingCalls[...]` missing after an ACK; and an ACK lookup that misses.

### Bounds

- Two object handles and two values.
- A call-handle space of 2 (`CallHandleLimit = 3`), so the wrap at `client.py:155` is taken. With at most two calls in flight the wrap never hits a pending call. With three, TLC shows the new call overwriting a pending one in `pendingCalls` and receiving the older call's ACK. That needs 65,535 calls in flight in the real client, and it is the spec's open question, so it is listed as a hazard and not kept as a run.
- Two connections, so a reconnection happens with a stale writer queue and stale messages.
- `client_calls`: two start/stop cycles, one server change and two calls (about 720,000 states, under a minute). Two server changes together with two calls do not finish in five minutes.
- `client_stale_call`: one start, calls from every callback point including the abort one, and user calls on objects of earlier connections.

These bounds reach every handler, both dispatch orders, the duplicate CONREQ (`recvConnRespIgnored`), ACKs after aborts (`recvAckUnknown`) and stale messages after a stop. Each run finishes in under a minute. Behaviours end when the bounds are spent, so deadlock checking is off (`CHECK_DEADLOCK FALSE`). The real program then waits in its loopers.

### Fairness

Weak fairness is assumed for three things:
- the main thread's handler steps: the main looper runs while there are messages;
- the reader forwarding what it read;
- the writer sending what was posted, and the server answering CONREQ and CALL.

The code runs each of them in a thread that loops while there is work. No fairness is assumed for the user, for the network dropping or restoring the link, or for server-side changes.

## ObusTransport

One `Transport` from `start()` to `stop()`.
- `mainPc` is the owner thread: in `start()`, running the main looper (`onRxMessage`), or in `stop()` (`stop`, then `joined` once both threads have exited).
- `rdPc` is the reader thread. `readerOpen` creates a socket under the lock. `readerConnect` is `connect()` outside the lock. `readerConnected` posts CONNECTED. `readerRecvData`/`readerRecvEnd` is the `recv` loop. `readerCleanup` closes the socket under the lock and leaves if reconnection is off.
- `wrPc` is the writer thread. `writerSend` takes the socket the reader holds *at send time*.
- `sockSt` is `Transport.sock`: none, new, connected or closed. `stop` runs `shutdown()`, which raises on a socket that is not connected, so `close()` is skipped.
- The client is reduced to what the transport sees of it: it answers CONNECTED with a CONREQ. The peer is an obus server. It sends nothing before it has read a CONREQ; then it sends its CONRESP and at most `MaxPush` packets, and may close the connection.

| Run | Result | What it shows |
|---|---|---|
| `transport` | pass | The client sees CONNECTED and DISCONNECTED alternate, with packets only in between (`ConnEventsAlternate`, an action property). Whether `stop()` returns is the question of `transport_stop_hang`: it does not hold against an obus server. |
| `transport_stop_hang` | violation | Against an obus server, `stop()` between the reader's `socket()` and `connect()` never returns. `shutdown()` raises ENOTCONN, `close()` is skipped, `connect()` succeeds, and the reader blocks in `recv()`. Its CONNECTED message waits in the main looper behind `readThread.join()`, so no CONREQ is sent and the server never speaks (`transport.py:116`). |

- **Bounds.** `MaxSocks = 3` sockets, so there are two reconnections. `MaxPush = 1` packet after the CONRESP.
- **Fairness.** Weak fairness covers the owner thread's looper, `startDone` and `joined`, the reader thread and the writer thread: each is a thread that runs while it has a step. The peer has no fairness: whether it pushes or closes is left open, because nothing in the client makes it act. So `StopReturns` is checked only against the real obus server, in `transport_stop_hang`.
- **Not modelled.** The 1 s sleep before a reconnection is left out. The 1 s connect timeout is one of the outcomes of `connect()`'s nondeterministic failure.

## ObusDecoder

The state is the one of `Decoder`:
- `dec.st`: IDLE, MAGIC_0..MAGIC_3, HEADER or PAYLOAD;
- the header and payload buffers;
- the decoded header.

The reader loop's `buf` and `off` are `chunk` and `off`. `recv` returns the next 1..`MaxChunk` bytes of the peer's stream, once the previous chunk is consumed. `decode` is one call of `Decoder.decode(buf, off)`: the whole loop, written as the RECURSIVE `Loop`, up to the return of `(off, packet)`, with the packet posted. The stream is one garbage prefix followed by two frames written by `TxPacket.finalizeHeader`. `Scan` is the reference: the framing rule applied to the whole stream at once.

| Run | Result | What it shows |
|---|---|---|
| `decoder` | pass | For every way the stream is split into chunks, the packets posted, plus the one the decoder holds, are exactly what `Scan` yields from the bytes received so far (`StreamingMatchesScan`). Garbage that does not end in a prefix of the magic is discarded, and both frames are recovered (`CleanGarbageDiscarded`). |
| `decoder_resync` | violation | Garbage ending in "o" or "ob" loses the first frame. On a mismatch, `_checkMagic` goes to MAGIC_0 without re-examining the mismatching byte, and that byte is the frame's own "o" (`protocol.py:384`). The spec's resync test expects the frames to be recovered. |

- **Bounds.** Bytes are below 128, so a size read from any four of them fits TLC's integers. Frames are of types 2 and 7, with an empty or a two-byte payload, so a chunk boundary can fall inside a payload. The garbage prefixes are: none; bytes that are no magic; "o"; "ob"; and headers with a bad size and with a bad type. Chunks have any length up to 29, which is the whole stream.
- These bounds reach every decoder state at a chunk boundary.

## ObusCodec

A buffer is a sequence of bytes. Every read gives `[err, v, p]`, with `err` one of:
- none;
- `struct.error`, when the data runs out;
- `DecodeError`;
- `TypeError`.

`AndThen(r, LAMBDA x : ...)` is the next statement. It hands an exception on unchanged until a `try` catches it: the size-marker seek of object, event and call decode (`SkipRecord`), and `RxRawPacket.decode`, which catches `DecodeError` and `struct.error`.

Each packet is written by the sender's encoder (`Payload`): the client's `TxPacketConnReq`/`TxPacketCall`, or a server built from another version of the bus description. The client then decodes it with `RxRawPacketDecode` against a registry `bus`. The `Expected` reference states the spec's decode rules:
- a field is kept when the client knows its uid with that type;
- a record of an unknown type, on an unregistered object, or with an unknown enum item is left out;
- a packet whose single record is left out is dropped.

| Run | Result | What it shows |
|---|---|---|
| `codec` | pass | For every packet kind, and for objects of the client's version, of a newer version (unknown U64 and string-array fields, a string retyped as U32) and of an unknown type, decoding gives exactly the expected packet (`DecodeMatchesSpec`). This covers the sparse skip, array skipping, two's-complement edge values, None and empty strings, and the seek after a record that fails. |
| `codec_future_type` | violation | A field of a type this client does not know makes `_skipField` raise `TypeError`, not `DecodeError`. Python binds `%` and `+` before `&` in its message (`obus_struct.py:296`). Nothing catches `TypeError`: not `RxRawPacket.decode`, not `Client.recvPacket`, and not the main looper. One such field from a newer server stops the client's main loop, against the spec's "never crashes on malformed input". |

- **Bounds.** There is one object type with a U8, a string, an enum and an I16 array. There are one event, one method, one bus event and packets with up to two records.
- **Abstractions.**
  - F32 and F64 values are 4- and 8-byte integer patterns, since no property is about float conversion.
  - Integers stay within TLC's 31 bits. The largest U32 sent is 2147483647.
  - Corrupt counts and truncated payloads are not generated. They are framing-level corruption, and `struct.error` drops the packet.

## ObusIdl

The same XML description is read three ways:
- `ObusBus` of the generators' parser, from which the C generator writes a server's descriptor tables (`CMain`), and the Java generator a client binding (`JMain`);
- `loadBus`, which the Python client (through the HMI's `BusItf`) uses to build its descriptors (`LoadBus`).

A description is reduced to what the checks and the descriptors depend on: names and uids, enums with their labels, values and default, and each type as the sequence of its `:`-separated parts.
- **Parser.** `GenBusOk` and the operators below it are every check of `ObusBus`, `ObusObject` (with `__isUidUsed`), `ObusEnum`, `ObusMethod`, `ObusMethodArg`, `ObusProperty`, `ObusEvent` and its `<update>` children, and `ObusBusEvent` (uid ≥ 10). `GenTypeOk` is `ObusType`: `array` takes its base from the second part; an `enum` base needs the next part to name one of the object's enums; later parts are ignored.
- **C tables.** `CBusDesc` holds what `genObjectStruct`, `writeEventsDesc`, `writeMethodsDesc`/`writeMethodArgsDesc` and `genBus` write. Each field is `[role, type, array, driver]`: `getLibobusType` gives the type, with a handle as U16. The driver of an enum field gives its label values and default. A method state is an ENUM with the method-state driver. The bus events include the internal ones, 1..3, which `ObusBus` adds.
- **Java binding.** `JBusDesc` holds the `FieldDesc`, `StructDesc`, `EventDesc`, `MethodDesc` and `BusEventDesc` objects that `genObj`, `genObjCallClass` and `genBus` write, with `_typeMap` for the types. `JEnumCompiles` is the one compile error modelled: `genObjEnum`'s `fromInt` switch has one `case` per label value.
- **Loader.** `LoadBusOk` is where `loadBus` raises:
  - `_ObusType`: `Unknown type` for a raw type that is no base type and has no `enum:` prefix;
  - the enum loop: `AttributeError` for a default that is no label;
  - `_genStructDesc`: `AttributeError` when no enum of that name is on the class;
  - `StructDesc.addField` on a repeated uid, for the object struct (properties, then one `method_state_<name>` field per method) and for each method's arguments;
  - `addUpdateDesc`, `addEvent`, `addMethod`, `addObject` and `BusDesc.addEvent`;
  - the `TypeError` of an `<update>` naming neither a property nor a method.

  `_ObusType` strips `array:` and then `enum:`, and its if-chain tests the base names before `isEnum`. `findField` resolves an update by name. Python 2 iterates an int-keyed dict in ascending uid order, so the first match is the lowest uid. The last label of a name and the last enum of a name win.

`generate`, `generateJava` and `loadBus` each run their reader once. The result is the descriptor the reader built or the exception it raised. `CoreDesc` removes the internal bus events, which the Python client synthesizes locally.

| Run | Result | What it shows |
|---|---|---|
| `idl` | pass | Whenever the C generator and the loader both accept a description, they build the same descriptors (`DescriptorsAgree`): objects; struct fields by uid, each with role, wire type, array flag, enum values and default; event update sets; method arguments; and bus events. An update naming a method resolves to that method's state field on both sides. The Java binding, when it compiles, carries the C tables. The descriptions exclude enums named after a base type; the next run shows why. |
| `idl_generated_loads` | violation | Descriptions the generator accepts that fail in a client (`GeneratedBusUsable`). (1) A method with two arguments of the same uid: the parser checks only argument names (`obusparser.py:391`), and `loadBus` raises `KeyError` (`descriptors.py:105`), which `BusItf` does not catch, since it catches only `DecodeError`. (2) `uint8:junk`: the parser ignores the extra part, and `_ObusType` raises a bare `Exception` (`xmlbus.py:93`). (3) `enum:uint8` with an enum named `uint8`: the C table says ENUM and the loader says U8 (`xmlbus.py:65`), so the client skips the field as a type mismatch. (4) An enum with two labels of one value: the Java `fromInt` switch has a duplicate case label and does not compile (`obus_java.py:740`). spec.md says which reader builds the descriptors is irrelevant to the core. |

- **Bounds.** Descriptions have:
  - one object, plus a pair of objects sharing a uid;
  - at most two properties;
  - one method with up to two arguments;
  - up to two events with up to two updates;
  - up to one bus event.

  Each type is tried on a property and on an argument, against each enum variant:
  - no enum;
  - a valid enum;
  - a repeated label;
  - no labels;
  - a default that is no label;
  - two enums of one name;
  - two labels of one value;
  - an enum named `uint8`, in the violation run only.

  Each set lists the valid case and each kind of bad uid, name or type the checks look for.
- **Abstraction.** Names are model values, or one-word lower-case strings where a type names them, taken to stay distinct under `to_underscored` and `title()`/`upper()`. XML parsing itself, descriptions, non-numeric label values, and the text of the generated sources (offsets, accessors, API functions) are not modelled.

## ObusHmi

### State and actions

- A BusItf is a number (its object identity). `itf[i]` holds what the HMI reads of it and of its client: `bus` (its `BusInfo`), `loaded` (a client exists), `status` (`_status`), `cstate` (`Client.state`), `tgen` (the current Transport, 0 for `None`), `tree` (`treeIdBus` is not `None`), and the reader thread's socket (`up`) and connection request (`req`).
- `busItfList` is `MainFrame.busItfList`. `enabled` is `BusInfo.enabled`, shared by the successive BusItfs of one BusInfo.
- The inotify registry: `dirWd` is `regTableByDirPath`, `ents[w]` the `fileEntries` list of the DirEntry of watch `w`. A DirEntry dropped by `remove` keeps its emptied list, which the thread may still hold. `LiveWds` is `regTableByWd`.
- `kq` is what the kernel has queued on the inotify fd. An editor's write (`Edit`) queues an event for a watched directory, merged with an identical last event as the kernel does, and leaves the file loadable or broken.
- The inotify thread has one action per access to the shared tables: `ThreadPoll` (poll and `_readEvt`), `ThreadCheck` (`wd not in regTableByWd`), `ThreadLookup` (`regTableByWd[wd]`, a KeyError ends the thread), and `ThreadIter`, one step per index of the `for` over the live list.
- The main thread runs `onBusModified` and `HandleRx` (`Transport._onRxMessage` and the client callbacks) for the head of `mq`, plus the menu commands and `Destroy`. Each handler is one step: the calls it makes compose in code order through the record `S`. A handler that raises stops there and keeps what it changed before.
- `owed` is a history variable and constrains no action. It holds the files written since the thread last posted one of their FileEntries, or since a reload of their bus loaded them. A post after the write leads to a reload after it, because `mq` is FIFO and each reload reads the file anew.
- `Reader(i)` is the transport reader of BusItf i's current Transport: connected, the server's answer to a request that was sent, disconnected. `Transport.stop` joins it, so it acts only while the client has a transport, and its queued messages carry the Transport they belong to.

### Run

| Run | Result | What it shows |
|---|---|---|
| `hmi_write_lost` | violation | A write of a watched xml file is eventually posted or reloaded (`WriteEventuallyNoticed`). This fails. The instance has three buses: b1 and b2 share d1, b3 is alone in d2, and there are three writes. TLC's trace: f3 is written and its event posted, then f3 and f2 are written again and the thread reads both events. It checks wd 2 (d2) for the second write of f3. The main thread then runs the reload of b3 posted for the first write: `removeBus` removes the only FileEntry of d2, which drops wd 2, and `addBus` watches d2 again as wd 3. The thread's `regTableByWd[2]` raises KeyError and the thread is gone (`inotify.py:250`), so the write of f2, read in the same buffer, is never noticed, nor is any later write. The second race fails the property alone, on the two-bus instance of `hmi`: the thread is at index 2 of d1's list looking for f2, a reload of b1 removes entry 1 and appends its new entry, and f2's entry, shifted to index 1, is never visited (`inotify.py:252`). |
| `hmi` | pass | While the frame runs, each BusInfo has exactly one BusItf and the registry exactly one FileEntry for it (`BusesMatchRegistry`). This holds even when the same FileEntry is posted twice: the second `onBusModified` raises at `treeCtrl.Delete(None)` before `addBus`. A loaded BusItf shows "connected" exactly while its client is CONNECTED, and "disconnected" exactly while it has no transport (`StatusShowsConnection`). No handler writes a tree item after `removeBus` deleted it (`NoDeadTreeItem`). A reload whose file loads gives a started bus for a started one and a stopped bus for a stopped one (`ReloadKeepsConnection`). `Destroy` returns from joining the inotify thread (`DestroyReturns`). |

The mutants are: `BusItf.stop` setting its status before `Client.stop`; a `removeBus` that quietly skips a BusItf no longer listed; `removeBus` deleting the tree item before stopping; `onBusModified` not saving the started state; and `close()` not writing the pipe.

### Bounds

- Two buses, b1 enabled at start and b2 not, both auto-reloaded. Their files are in one directory, so one DirEntry holds two FileEntries.
- Both files may load or not at start. There are two writes, which is enough for the duplicate posting of a FileEntry (write, poll, write, poll), for a reload through a broken file, and for a reload of each bus.
- Four BusItfs (two reloads), three watch descriptors, two Transports and two reader messages: enough to reach CONNECTED or REFUSED (a connection, then the answer) or a lost connection, and then a reload or a disconnect.
- `hmi_write_lost` has three buses (b1 enabled), b3's file alone in its directory, three writes, six BusItfs, four watch descriptors and no reader messages: the client's connection plays no part in the races. Three writes are the fewest that reach the KeyError (two writes of f3 for the reload and the event it overtakes, one of another file to lose). It finds the violation in about a minute.
- `hmi` has about 755,000 states and takes under a minute. `CHECK_DEADLOCK FALSE` is set: behaviours end when the bounds are spent, and after `Destroy` the application exits.

### Fairness

Weak fairness is assumed for the inotify thread and for the join that ends `Destroy`: both are OS threads that run once they can. No fairness is assumed for the main thread's other handlers, the editor, the user or the servers.

### Fairness of `hmi_write_lost`

The same as `hmi`: weak fairness of the inotify thread and of the join. The property needs no fairness of the main thread, because a post clears `owed`, and a post is a thread step.

## Not modelled

- Per-uid callback registration is not modelled; every object is assumed to have a callback. Exceptions escaping a user callback are not modelled either.
- `ObusStruct.merge` is modelled in `ObusClient` at the level of values; `clone`, `checkComplete` and the accessors are not modelled.
- The code generators' source text is left out: C and Java API functions, accessors, mock classes, headers, and the Vala binding, which refers to the C tables (`<bus>_bus_desc`) and adds none of its own. Only the descriptor values they emit are modelled, in `ObusIdl`.
- In the HMI, the object tree (`onObjectAdd`, `onObjectRemove`, `onObjectEvent`, primary fields), the info panels, the log and the window layout are left out. They display the client's mirror, which `ObusClient` checks; `ObusHmi` keeps only the bus item of each BusItf. The nested event loop of the popup menu is not modelled: Connect and Disconnect act on the selected BusItf, guarded by `canStart`/`canStop`. `INotifyWin32` does nothing and is not modelled.
- `wxpyobus.py` declares `-m/--monitor` with `action="store_false", default=False`, so buses given on the command line are never auto-reloaded; only buses from the configuration file are. The model takes `autoReload` as a constant.
- The checked server model never sends a BUS_EVENT with an event on an object it adds, or one that removes a handle and adds a new object with it. The client mishandles both. The event list is resolved at decode, before the adds are registered, so such an event is dropped (`obus_busevent.py:140`). `dispatchBusEvent` registers adds before it removes, so the re-add fails with a logged KeyError and the old object is then unregistered. With `srvBusEvent` widened to send such batches, TLC finds `MirrorConsistent` violated: remove handle 1 and add a new object 1 in one bus event, and the client ends with no object 1. The spec does not forbid these batches. Whether a server sends them depends on the C server library, which is not in this repository. This result has no run of its own.
