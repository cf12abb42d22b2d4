# A TLA+ development for the chat app and the programs inside it

The repository is an Android messenger (`com.ucas.chat`) in which two phones talk
to each other directly through Tor onion services; a server takes texts and files
for contacts that are off line. It brings with it the sources of the native programs it
runs. Four of them have logic of their own, and are part of this development:

* the messenger, `app/src/main/java/com/ucas/chat/tor/`, and in it one class,
  `ServerMessageHandler` (2300 lines): connections, key handshake, send, receive and
  failure queues, files in pieces, reconnection, with a dozen kinds of threads and almost no lock;
* pdnsd, `orbotservice/src/main/jni/pdnsd/src/`, the caching name server through
  which the phone resolves names over Tor: a cache shared by threads, name servers that are
  tested, resolution by parallel queries, DNS messages;
* LAME, `mp3recorder/src/main/jni/lame-3.98.4_libmp3lame/`, the encoder of voice messages:
  the buffers and the bit reservoir, the quantiser's loops, settings, tags;
* SoundTouch, `sounchtouch/src/main/jni/SoundTouch/`, which changes the voice.

Below, `SMH` is `ServerMessageHandler.java` and `FT` is `FileTask.java`.

## Inventory

| Component | Where | State it keeps | Operations |
|---|---|---|---|
| Connection table | `SMH` 174-348, `ConnectionItems`, `ConnectionStatusItem` | for each contact a `CopyOnWriteArrayList` of sockets with purpose, status (0 handshake, 1 established), key | `addNewConnection`, `createConnectionAsyc`, `deleteConnection`, `getConnByPurpose`, `updateStatus` |
| Connecting | `SMH` 350-402, 1826-1917 | one thread per connection being opened | `CreateConnectionThread.connect`, `createConnection` |
| Reading threads | `SMH` 1618-1820, 1928-2061 | `RequestHandler` per accepted socket (pool of 10), `ClientTransport` per handshake started | read 2048-byte cells, choose a parser, fill `recieveQueue`, delete the connection when the stream ends |
| Handshake | `SMH` 724-878, 518-548, `HandShakeMessage` | none of its own: status and key of the item | REQUEST, AUTH, EXCHANGE, DONE; `updateSocketStatus` |
| Reader, Writer | `SMH` 405-517 | `recieveQueue`, `sendQueue`, `failedQueue`, `failedSocket` | handle a cell; write a cell, `reput` |
| Text delivery | `SMH` 551-608, 880-971, 1175-1221, 1507-1610 | message ids, `recieved acks`, `failedQueue` shared by the contacts | `handleTextMessageSend`, `tryResend`, `receiveTextAck`, `processOfflineMessage` |
| File transfer | `SMH` 609-684, 973-1117, 1227-1560, `FileTask`, `FileMessage` | sender and receiver tasks keyed by file name, pieces acknowledged | META, READY, DATA, DONE, ok/ck acknowledgements, resending |
| Key pointer | `XORutil`, `RecordXOR`, handshake | a global pair of indices into the key files | advanced by each message, agreed in REQUEST and AUTH |
| Status checker | `SMH` 2093-2296 | network state, an attempt counter, a thread of the pool for ever | probe, restart Tor, reconnect all, resend all |
| Chat and contact screens | `P2PChatActivity`, `ContactListFragment`, `TorBroadCastReceiver` | on-line state of the contact, registered on EventBus or not | start the handshake on "success", go off line on "fail", send on line or through the server |
| pdnsd: lock of the cache | `cache.c` 109-560 | readers, writers, waiting readers and writers, suspension | lock and unlock to read or write, with a time limit, yielding, "soft" at the end of the process |
| pdnsd: cache | `cache.c`, `hash.c` | entries and their record sets, the list by age, the size, the file on disk | add, merge, look up, purge by age and size, commands, save and load |
| pdnsd: name servers | `servers.c`, `conff.c` | the table of servers, who uses it, who tests it, requests to test | passes of tests, tests on query, marking, changing and reloading under exclusive access |
| pdnsd: resolving | `dns_query.c` | activations with their queries, sockets and saved answer | `p_recursive_query`, `p_exec_query`, `auth_ok`, `p_dns_cached_resolve` |
| pdnsd: threads that answer | `dns_answer.c`, `main.c` | `procs`, `qprocs`, two servers and a thread per query | accept, refuse, answer, end |
| pdnsd: messages, composing | `dns.c`, `dns_answer.c`, `dns_query.c` | the message, the list of names to compress against | `compress_name`, `add_rr`, `compose_answer`, `decompress_name`, `rrs2cent` |
| pdnsd: configuration and control socket | `conf-parser.c`, `status.c` | the global options | parse, reload, one command at a time |
| LAME: buffering, reservoir, bitstream | `lame.c`, `bitstream.c`, `reservoir.c` | samples waiting, reservoir, ring of headers, bytes not yet copied | `lame_encode_buffer`, `lame_encode_flush`, `format_bitstream` |
| LAME: quantisation, division of bits | `quantize.c`, `takehiro.c`, `vbrquantize.c`, `quantize_pvt.c` | a granule's step, scale factors, bits; the reservoir | the iteration loops, `outer_loop`, `bin_search_StepSize`, `best_scalefac_store`, `VBR_encode_frame` |
| LAME: settings and presets | `set_get.c`, `presets.c`, `lame.c` | thirty options | setters, `lame_set_preset`, `lame_init_params` |
| LAME: tags | `id3tag.c`, `VbrTag.c` | texts and frames; the bag of seek points | set, size, write; `PutVbrTag` |
| LAME: psychoacoustics, transforms | `psymodel.c`, `newmdct.c`, `fft.c`, `gain_analysis.c` | filter states | floating-point signal processing |
| SoundTouch | `SoundTouch.cpp`, `TDStretch.cpp`, `RateTransposer.cpp`, `FIFOSampleBuffer.cpp` | two stages, their order, their buffers | set rate, tempo, pitch; put, receive, flush, clear |
| Recording and change of voice | `RecordingThread`, `SoundTouchThread` | one thread, one global processor | record, change, encode |
| Offline server client | `ui/home/InterfaceOffline` | upload and download threads | HTTP to a server that is not in the repository |
| Cryptography, layout of messages | `tor/util/AESCrypto`, `RSACrypto`, `tor/message` | none | pure functions |
| Native key library | `jni` | key files | shipped as a binary |
| Local database | `db` | SQLite tables | single statements |
| Login, settings, utilities | `utils`, `httpclient`, `base`, `bean`, `progressdisplay` | preferences | Android plumbing |
| Orbot service | `orbotservice` (Java), tun2socks | the Tor process | taken over from Orbot: start and stop of processes |
| Widgets and samples | `susindexbar`, `playcompute` | | third-party |

How they interact. In the messenger the threads share memory without a protocol: the
table, the queues and the maps are concurrent collections, so single calls are atomic and
sequences of them are not. The network threads reach the screens by EventBus events,
which only a registered screen receives; the screens call back into `SMH` on the main
thread, and it is the chat screen, not the network layer, that starts the
handshake. The devices exchange only cells over Tor sockets. In pdnsd the query threads
share the cache under its own read-write lock and the table of servers under a mutex and
a count of users; the control thread and the status thread change both. LAME and
SoundTouch run in the thread that records: their difficulty is in counters that must
agree, over any sequence of calls.

What is hard, and what correctness means for each component:

* *Connections.* Four kinds of threads may delete the connection of a socket that
  broke, each then deciding whether to open another. A deleted connection must stay
  deleted, a device that loses its last connection must be opening one, and an answer
  that arrives late must not touch a newer connection.
* *Handshake.* Both users may open the chat at once, handshakes may cross on one socket or
  be repeated, and the outcome is recorded after the reply has been sent. An
  established connection must have a key, a key must stay on the socket it was made
  for, both ends of a handshake must agree, and a handshake must end.
* *Queues.* A text moves between the send queue, the wire and the failure queue while
  connections come and go; it may be lost (nothing in the code prevents it) but must not
  be duplicated.
* *Files.* A transfer must end with each piece once, whatever is resent after a
  reconnection.
* *Key pointer.* Both ends must decrypt with the index the other encrypted with.
* *Status checker.* A reconnection must happen once per loss of the network.
* *Lock and cache.* A writer is alone, no wake-up is lost, a lookup that purges in between
  returns what was fresh, the books of sizes and ages agree, a restart keeps what was saved.
* *Name servers.* Nobody changes the table under a reader; no test asked for is forgotten.
* *Resolving.* The best of several answers in any order wins; the whole ends and leaves no socket.
* *Answering.* Never more threads than the limits; every client that speaks is served; the last server ends the process.
* *Messages.* What is written reads back, whatever was compressed or cut; a damaged message is read inside its bounds and to an end.
* *Encoder.* Headers, data and reservoir agree at every bit; what was put in comes out; settings, tags and seek table hold together.
* *Quantiser.* The decoder's steps are the encoder's; no granule or frame takes more than there is; the searches end.
* *Sound.* No sample is stranded when the stages change places.

`PROJECT.json` lists the components with their status and the hazards line by line.

## Modules

| Module | What it is |
|---|---|
| `ConnectionItems` | the list of one contact's connections as pure operators; `SessionProofs` and `FileTransferProofs` each prove the lemmas they need about them and about sequences |
| `Session`, `MCSession`, `SessionProofs` | two devices, their threads, queues, sockets and chat screens; everything between opening a connection and the first cells of a text or a file |
| `FileTransfer`, `MCFileTransfer`, `FileTransferProofs` | the file tasks of two devices, the cells of a transfer and the resending after a reconnection, over connections reduced to established, marked, broken, deleted |
| `FileTransferAbs` | what a transfer promises: pieces stored, acknowledged, put together, done |
| `CacheLock` | the read-write lock of pdnsd's cache |
| `DnsCache` | the cache under that lock: each operation is one step, a lookup two |
| `CacheProofs` | theorems about both |
| `MCCacheLock` | an instance of both, run together; `MCDnsInputs` has the records, configurations and commands |
| `NameServers`, `MCNameServers`, `NameServersProofs` | the table of name servers, the threads that test, read and change it |
| `DnsQuery`, `DnsQueryProofs` | one thread resolving a name: nested activations and their queries |
| `DnsReply` | `compose_answer`, with a cache that changes between any two looks |
| `DnsMessage` | the same answer as bytes: writing, cutting, reading |
| `MCDnsQuery` | an instance of `DnsQuery`, `DnsReply` and `DnsMessage`; a behaviour is of one of them |
| `DnsAnswer`, `MCDnsAnswer`, `DnsAnswerProofs` | the threads that take and answer queries, and their limits |
| `Mp3Encoder`, `Mp3EncoderProofs` | samples to frames, the reservoir and the bitstream |
| `Mp3Settings`, `Mp3Tables` | options, presets, `lame_init_params`; the rate tables of the format |
| `Id3Tag`, `VbrTag` | the two ID3 tags; the Xing tag and its seek points |
| `SoundTouch`, `SoundTouchProofs` | the two stages and their buffers, as counts of samples |
| `MCMp3Encoder` | an instance of these; `which` chooses the one that runs |
| `ScaleFactors`, `NoiseShaping` | how scale factors are stored; the loops that quantise a granule |
| `VbrScalefacs`, `BitAllocation` | scale factors of the new variable bit rate; the division of a frame's bits |
| `MCQuantise` | an instance of these; `part` chooses the one that runs |

The components that never meet (the tags and the quantiser, say) share a run where each is small;
the selector is fixed in the initial state and the state of the others does not change, so a
property of one is checked in exactly the behaviours of that one.

### Session and the code

State. `table[p]` is the order of the sockets in the `ConnectionItems` of `p`,
`item[p][s]` the `ConnectionStatusItem` object (it survives its removal, since threads
hold references), `known[p]` the sockets an item was ever made for. `creating` counts the
`CreateConnectionThread`s by purpose, `handler` and `transports` say which sockets a
`RequestHandler` and how many `ClientTransport`s read. `rq`, `sq`, `failed`, `tried` are
`recieveQueue`, `sendQueue`, `failedQueue`, `failedSocket`. `rd` is the Reader between
sending a handshake reply and recording its outcome, where other threads run.
`receiving` says which device has a task for a file announced to it.
`chat`, `events`, `online`, `label` are the chat screen: registered, events pending, what
it will do with a text, what it shows. `wire`, `open`, `cut`, `client` are
the sockets: cells in flight, each end open, circuit broken, who opened it. `started` and
`made` are history: the sockets START_COMMUNICATION_SUCCESS was broadcast for, and the
socket each key was chosen for. A cell is its type and the key it carries or is encrypted with.

Actions, each a whole handler of the code:

| Action | Code |
|---|---|
| `OpenChat`, `CloseChat`, `ContactReported` | `P2PChatActivity.onCreate`/`onDestroy`; the contact list, when the server reports a contact on line |
| `CreateConnectionOk`, `CreateConnectionFails` | `CreateConnectionThread`: "success" and then "fail", or "fail" |
| `HandleSuccess`, `HandleFail`, `HandleOnline` | the main thread: start a handshake on the picked connection if it has no key; go off line and give the failed texts to the offline server; go on line |
| `HandlerAccept`, `ReadCell`, `HandlerStops`, `TransportStops` | `RequestHandler.run`, `ClientTransport.handle`: the parser is chosen by the status at the moment of reading; a data cell at status 0 makes it throw, a cell that does not decrypt at status 1 is skipped; a cell in more than ten parts ends a `RequestHandler`; two threads that read one socket (`TwoReaders`) may tear a cell, which then reaches nobody, and at status 0 its halves make them throw; at the end the connection is deleted and the socket closed |
| `HandleRequest`, `HandleAuth`, `HandleExchange`, `HandleDone` | `handShakeMessageHandle`: the reply, which may fail and delete the connection |
| `RecordStatus` | `updateSocketStatus`: status and key, then `tryResend` and the START broadcast, which an exception in `tryResend` may skip (`ResendThrows`) |
| `HandleData` | `dataMessageHandle` for texts, META and READY |
| `WriteCell`, `WriteFails` | the Writer; `reput` |
| `NetworkUpOk`, `NetworkUpFails`, `TryResendAll` | the status checker when the network comes back |
| `SendText`, `SendFile` | `handleTextMessageSend`, `handleFileMessageSend`, `handleByteMessageSend` |
| `CutCircuit` | a circuit breaks at any moment |

Where a step of the model is several statements of the code, no other thread can tell the
difference, with three exceptions: `addNewConnection` and the
index loops of `ConnectionItems` are single steps here (their races are the next
module, `ConnectionTable`), as is the body of `deleteConnection`; the lost cells of a dead
circuit are gone at once instead of after a TCP timeout, during which a write also
succeeds (`Wrote` lets a write on a dead socket succeed for as long as its own end is open).

### FileTransfer and the code

State. `sent` numbers the files announced (history). `task[p]` is `senderFileMap`: the tasks of
`p` by file name, for both directions, each with its status, `fileTransferStatusMap` (`done`)
and `filePieceContentMap` (`content`; the content of a piece is the number of the transfer it
belongs to, so equality of hashes is equality of contents). `pending[p]` is the task between the
queueing of META and its registration. `disk` is the directory of received files. `table`,
`ever`, `filed`, `reading`, `closed`, `cut` are what a transfer sees of connections: the list,
those ever established, those marked for files, those a thread reads, ends closed, circuits broken.
`Crossed` are the sockets with a handshake from each end: an end of them may be at status 0 again, and two threads may read it.
`wire[p][s]` holds the cells on their way to the Reader of `p`, the part of `recieveQueue` for that
socket included: once the connection is deleted the Reader drops them, so the deletion empties it.
A run of pieces queued together is one entry of `sq` with the set of its pieces.
`walk[p]` is `tryResend` in progress, in the Reader or the status checker, one task per step.

| Action | Code |
|---|---|
| `Announce`, `Register` | `handleFileMessageSend`, `handleByteMessageSend`: META is queued, then the task put in the map |
| `Establish`, `RecordAgain` | the end of a handshake (`updateSocketStatus`); `tryResend` begins, also for a connection deleted meanwhile and after a second handshake |
| `WalkStep` (`Resend`) | `tryResend` for one task: META again, the pieces not acknowledged, or the exception for a file being received at status 0 |
| `StatusResend` | `tryResendAll` |
| `Write`, `WriteFails` | the Writer; `reput` discards file cells and deletes the connection |
| `CutCircuit`, `ReaderStops` | a circuit breaks; a reading thread ends and, on a connection marked for files, stops every task |
| `ReadsTooSoon` | a cell is read, or the end of the stream found, while the end is at status 0: the handshake parser throws and the thread ends, although nobody broke the connection |
| `ReadsTorn` | two reading threads of one socket each take a part of a cell |
| `HandleMeta`, `HandleReady`, `HandlePiece`, `HandleDone`, `HandleAck` | `prepareReceiveFile`, `sendFileShards`, `receiveFileShards` with `receiveAllFileShards`, `receiveFileDone`, `receiveFileAck` |

What is left out: connections without key (with one, announcing throws and nothing happens; `Session`
has it), the position of a last, shorter piece in a longer file (sizes
are whole pieces), more than 199 pieces (the 2048 zeros after an acknowledgement become rarer then). The
`ck` cell is absent because it can never be built.

`FileTransferAbs` has, for each file, the pieces stored and the pieces acknowledged; a piece is acknowledged
only if stored, a file put together when all are there, and done only if put together. The refinement
mapping (`Stored`, `Acked`) reads the receiver's and the sender's task while they exist, and the
histories `merged` and `finished` afterwards.

### The modules of pdnsd and the code

The configuration considered is the one `OrbotVpnManager.java` writes (perm_cache 0, udp_only, no
uptest, a timeout of 10 s, times to live between a minute and a week) and the ones a user may set, for the build for
Linux with NPTL, without IPv6, with `poll`.

**`CacheLock`** (`cache.c`). `cache_r_lock`, `cache_w_lock`, `r_pend`, `rw_pend`, `r_susp` are the
variables of these names; `pc[t]` says where a thread is, and is *asleep* on a condition variable or *awake*
and about to take the mutex again; `exit` is the main thread at the end. `LockR`, `LockRW`, `TimeOut`, `UnlockR`,
`UnlockRW`, `Yield`, `GiveUp` are the functions of `cache.c` between taking and releasing the mutex;
`Broadcast` and `SignalWriter` are the signals they send; `Spurious` is a wake-up POSIX
allows; `Purge`, `Save`, `Destroy` are the soft locks of `destroy_cache` and `write_disk_cache`. One waiting writer
never reaches `SUSP_THRESH`, so readers that overlap may keep it out for ever; `WaitingEnds` is
therefore about threads that use the lock a bounded number of times. Only the control thread
uses `empty_cache`. Left out: a mutex that cannot be taken at the end (`softlock_mutex` gives up).

**`DnsCache`** (`cache.c`, `hash.c`, `rr_types.h`). `ent` maps a name to its entry (record sets with time
stamp, lifetime, flags, size; negative and local marks), `rrset_l` is the list by age, `cache_size`, `ent_num` the
books, `purging` the names between the two passes of `lookup_cache`, `ctl` what a command of `pdnsd-ctl` has
yet to do, `now` the clock. `Add` is `add_cache` with `cr_check_add`, merging, `adjust_ttl` and `purge_cache`;
`Lookup` and `LookupAgain` are the two passes; `Control` the commands (add local, wildcard, delete,
invalidate, negate, empty by bucket); `Restart`, `Crash`, `CrashWriting` the end of the process, with the file.
Sizes are units; the memory is never exhausted; one lookup at a time is between its passes.

**`NameServers`** (`servers.c`, `conff.c`, `status.c`). `servers` is `servers_table` with each section's addresses,
time stamps and states; the other variables have the code's names. `StatStep` is
`servstat_thread` (a pass of tests with the mutex given back during a test, the sleep, `signal_interrupt`), `QueryStep` a
query that reads the table, tests on query, marks servers down; `CtlStep`
is `mark_servers`, `change_servers`, `reload_config_file`, `report_conf_stat` under `exclusive_lock_server_data`.
Left out: discovery of root servers, schemes, threads that cannot be created.

**`DnsQuery`** (`dns_query.c`). `stack` holds the activations of `p_recursive_query`, each with its queries (state, socket,
method), the batch under way, the best answer saved and the call it waits for. `SendNext`, `HandleNext`,
`RetryUdp` are `p_exec_query` and `p_query_sm` for one query; `PollEvents`, `PollFails`,
`PollTimesOut`, `Timed` the loop around `poll`; `Judge` what is made of an answer (`auth_ok`,
`save_query_result`); `LookUpServer`, `Followed`, `Finish` the nested calls. What the cache holds and which servers are up are inputs.

**`DnsReply`** (`compose_answer`). `Ask` resolves a question and follows a CNAME, `FindOwner`, `Authority`, `Additional`
fill the sections, `Composed` adds OPT, `Send` cuts. The cache may change before each. **`DnsMessage`** is the same at the level of bytes: `compress_name`,
`add_rr`, `RepeatQuestions`, then `decompress_name`, `rrs2cent`, `decode_query` on the message as sent, cut anywhere, or with
a byte changed. Sizes are scaled: 48 for the largest offset 0x3fff, 16 for a name buffer of 256, 4 for 255 hops.

**`DnsAnswer`** (`dns_answer.c`, `main.c`). `query[q]` is *sent*, *counted* by the server, *waiting* for a place, reads
its *length* and *body* (TCP), is *working*, *done*, *ended*, or was *dropped*; `procs`, `qprocs`, `spawned`, `dropped` are the counters under `proc_lock`; `server`, `open`, `thrid` the two server
threads; `main`, `term` the main thread and its signal.

### The modules of LAME and SoundTouch and the code

**`Mp3Encoder`** (`lame.c`, `bitstream.c`, `reservoir.c`, `encoder.c`). The variables are those of `lame_internal_flags` and
`Bit_stream_struc`. A call is a sequence of steps: `Fill`, `BeginFrame`, `Granule`, `ResvFrameEnd`, `EncodeSideInfo`, `PutBits`,
`FinishFrame`, `CopyBuffer`; `Flush` pushes zeros in bunches. The quantiser may use any length up to its target. A
buffer of size 0 means no check; a call that fails leaves its frame behind. The app encodes 16 kHz mono at 32 kbit/s, where
a frame has one granule, is never padded and is too short for the Xing tag; the run uses two granules, padding and a tag, so that
the harder paths are taken.

**`Mp3Settings`** (`set_get.c`, `presets.c`, `lame_init_params`): `gfp` maps an option to its value; options that only tune the
psychoacoustics keep who chose them. **`Id3Tag`**: `v1` and `nodes`, `values`, `art` are the fields of `id3tag_spec` and its lists of
frames; `WriteV2`, `WriteV1` write the tags. **`VbrTag`**: `bag`, `pos`, `seen`, `want`, `sum` are `VBR_seek_info_t`; `Begin` is
`InitVbrTag`, `EncodeFrame` `AddVbrFrame`, `PutVbrTag` the overwriting.

**`NoiseShaping`** (`quantize.c`): `Search` is `bin_search_StepSize` one step at a time, `Amplify`, `Measure`, `Accept`, `Refuse` are `outer_loop`,
`EndVariable` and `NextTry` are `VBR_encode_granule`, `Store`, `Halve`, `Preemphasise`, `Write` are `best_scalefac_store`.
**`ScaleFactors`** (`takehiro.c`) counts and packs scale factors. **`VbrScalefacs`** (`vbrquantize.c`): the steps a band needs, scale
factors and window gains from them, and `outOfBitsStrategy`. **`BitAllocation`**: the four iteration loops, `on_pe`,
`reduce_side`, `ResvMaxBits`. Levels and noise are whole quantiser steps.

**`SoundTouch`**: the samples in each FIFO buffer as counts, in the order the stages are in; `SetControl` is `calcEffectiveRateAndTempo` with the
swap of the stages, `PutSamples` the transposer, `Stretch` one round of `processSamples`, `StartFlush` and `FlushMore` the zeros of a flush,
whose count is `drain`; `at` is where a call stands. Rates and tempos are quarters. Names that `Mp3Encoder` has as well are different here, because `MCMp3Encoder` extends both.

## What the runs check

Each counter bounds what the environment does, never what the threads do. Deadlock is not
checked: every system here rests when the users, the clients or the network have done what their bounds allow.

| Run | Question | Bounds |
|---|---|---|
| `session_teardown_reconnect` | a text while a circuit breaks at any moment, and under fairness the handshake's end: `EstablishedHasKey`, `TextsNeverMultiply`, `DeletedStaysDeleted`, `LastConnectionReopens`, `HandshakeEnds` | two devices, two sockets, one user, 1 chat, 1 text, 1 break |
| `session_crossed` | both users open the chat, a file is announced, the status checker reconnects, the server reports the contact: `KeysStayOnTheirSocket`, `OneHandshakeOneKey` | two users, one of whom opens a chat or hears of the contact, 1 file, 1 network change; the second handshake is started by the other user's "success" or the reconnection |
| `session_agreed_key` | a comment: violated, see below | two users, 2 chats |
| `file_resume` | a file on two connections, one of which breaks; cells read too soon or torn, resending by the Reader: `AckedIsStored`, `DoneMeansReceived`, and `KeepsPromise`, the refinement of `FileTransferAbs` | 1 file of 2 pieces, both sockets crossed, 1 break, none by the status checker |
| `file_waiting` | under fairness, a file that waited for a connection and is resent on two: `FileArrives` | 1 file of 2 pieces, one handshake a socket, no break, 1 resending by the status checker |
| `dns_cache` | the lock: `Exclusion`, `NoLostWakeup`, `WaitingEnds`; the cache: `BooksAgree`, `NoConflicts`, `ServedFresh`, `RestartKeeps` | four threads that lock once each, one with a time limit; four names, four answers, five commands, one restart |
| `name_servers` | tests, queries, commands: `NoTestForgotten`, `ReadersKeepData`, `TestsHappen` | one query thread, two commands, three configurations |
| `dns_query` | resolving: `BestAnswerWins`, `ActivationsNest`, `ResolveEnds`; composing: `AnswerCoherent`; bytes: `ReadsBack`, `ReadsInside`, `ReadingEnds` | two configurations, four servers, two hops; one or two questions; two records, two additional ones |
| `dns_query_kept` | a comment: violated, see below | one server |
| `dns_answer` | `LimitsKept`, `LastServerEnds`, `QueriesServed` | a silent TCP client, a TCP and a UDP client; limits 1+1 and 2+0; one reload |
| `mp3_encoder` | `StreamAgrees`, `FlushSendsAll`, `CallsReturn`; `SettingsHold`; `SoundKept`; `TagsHold` | 2400 samples, one failing call; two calls before `lame_init_params`; four changes of a setting; two calls that set a text, a picture or a field of the tags, any number of those that set flags; a bag of 4, nine frames, two streams |
| `mp3_quantiser` | `DecoderAgrees`, `BitsKept`, `SearchingEnds` | blocks of four long bands or six short ones, two granules; three entropies, among them that of a channel that is silent beside one that is not |

The properties say:

* `EstablishedHasKey`: status 1 implies a key. DONE carries no key: it is right only because
  the key of the EXCHANGE it answers is recorded before, which takes the order of the
  receive queue, of the wire and of the Reader together.
* `KeysStayOnTheirSocket`: a late answer or a repeated handshake never puts a key on
  another connection, nor a cell encrypted with it on another wire.
* `OneHandshakeOneKey`: if one key only was chosen for a socket, two established ends hold the same.
* `TextsNeverMultiply`: send queue, wire, receive queue and failure queue together never
  hold more texts than were sent.
* `DeletedStaysDeleted`, `LastConnectionReopens`: what no step may do.
* `AckedIsStored`: a piece the sender will not send again is at the receiver, whatever was lost or repeated.
* `DoneMeansReceived`: a transfer that ended at the sender was received whole.
* `KeepsPromise`: both, and that nothing stored is lost, as a refinement.
* `FileArrives`: a transfer that has begun (READY found the task) ends at both ends, or a connection goes. One may go
  without a break, by a cell that was read too soon: then what was on its way is lost and nothing sends it again before another handshake.
* `HandshakeEnds`: a handshake that one end started is completed at both ends, or an end closes the socket.
* `NoLostWakeup`: the lock is never free with threads asleep and none on its way to it.
* `BooksAgree`: the size is the sum, the list by age holds each purgeable set once, the cache fits. `ServedFresh`: neither pass of a lookup hands out what has expired.
* `NoTestForgotten`: there is a thread for tests that are due, and it does not sleep over those that were asked for. `ReadersKeepData`: the table keeps its shape under readers.
* `BestAnswerWins`: the answer settled on is no worse than any received. `AnswerCoherent`: the sections of an answer follow from each other although the cache changes.
* `ReadsBack`: a message reads back as the records it was made of. `ReadsInside`: a damaged one is read inside its bounds.
* `StreamAgrees`: each header is at its place, the reservoir is what the pointers say. `FlushSendsAll`: after a flush nothing is left inside.
* `DecoderAgrees`: the scale factors stored give the decoder the amplitudes the quantiser worked with. `BitsKept`: no granule or frame takes more than it has, except where the assertion of an average bit rate fails (below), and there because a silent channel's target was replaced.
* `TagsHold`: a text last given for a field is whole in one of the tags, unless `id3tag_v1_only` is in force or gave it up. That call
  takes back what asked for the new tag before, so that a long text is lost even after `id3tag_v2_only` and `id3tag_space_v1` (`HeldBy`
  says what the old tag holds). A year over 9999 counts as kept as the 9999 it is limited to. The tags are as long as they say.
* `SoundKept`: no sample stranded, no sequence longer than its input, the stages keep pace.

Why the bounds are enough. Two pieces are the fewest that let a transfer be partly stored, partly acknowledged; two sockets let it be
resent on another connection while the first is dying, and are a connection with its replacement or the two crossed connections of
two users. The status checker's resending while connections are crossed, torn and broken is more than a run can hold: the theorems about files cover it. In the lock, suspension needs three writers that wait
while a reader is inside, and a signal can be swallowed by a thread with a time limit: four threads. In the cache, merging needs two answers for one name, and
purging a third; the reverse name and the wildcard take the special paths. Two configurations take
UDP first and TCP first, one query at a time and two. The encoder
sees the reservoir full and empty, a header ring that wraps and a counter that starts again, because these are scaled down with the frame.

The cache's crash, the lock's time limit and the encoder's failing call happen at any moment of the run; the counts
only say how often.

### Where the code does not do what its comments say

Two runs end in a counterexample, each against a comment:

| Run | The comment | What happens |
|---|---|---|
| `session_agreed_key` | START means the protocol part is complete (`TorBroadCastReceiver` 62-63) | two crossed handshakes on one socket, each end keeping the other's key; all START broadcasts done, no cell decrypts |
| `dns_query_kept` | a record kept although it timed out is used when no new one is available (`dns_query.c` 3528-3533) | the only server refuses: the resolution ends in a server's failure with the old record in hand |

Others can be reproduced with the configurations beside the modules that no run of `PROJECT.json` uses
(`tlc -config X.cfg M`):

| Configuration | Property violated | What happens |
|---|---|---|
| `Session_teardown` (`MCSession`) | `NoTeardownOnData` | a text overtakes the recording of DONE; read as a handshake cell it tears the connection down |
| `Session_orphan` (`MCSession`) | `ConnectionGetsHandshake` | the screen is left before "success"; nobody handshakes, and the keyless connection prevents another (`P2PChatActivity` 1110) |
| `FileTransfer_reuse` (`MCFileTransfer`) | `DoneMeansReceived` | tasks go by file name: the DONE of one file ends the transfer of a second of that name |
| `FileTransfer_stale_pick` (`MCFileTransfer`) | `ResentFilesArrive` | files are queued on the older connection, dead but not yet deleted; nothing sends them again (`SMH` 533-535) |
| `FileTransfer_stopped` (`MCFileTransfer`) | `NoFileIsLeftOut` | a file being received at status 0 makes `tryResend` throw before it reaches the others |
| `DnsCache_negated` (`MCCacheLock`) | `NegatedStays` | an answer replaces a domain the operator negated (`cache.c` 1937: "Local records have precedence") |
| `NameServers_asked` (`MCNameServers`) | `AskedIsTested` | a server asked to be tested in a section that needs no testing is not (`servers.c` 564, 620) |
| `DnsAnswer`, with this property in place of its own (`MCDnsAnswer`) | `AnyThreadExits` | `pdnsd_exit`, called by the main thread, ends only that thread (`helpers.c` 45) |
| `Quantise_average` (`MCQuantise`) | `AverageFits` | in ABR the targets are scaled to the largest frame, then that of a silent channel is replaced by a larger one (`quantize.c` 1930): no bit rate refills the reservoir (1938), which 1945 asserts |

More came up while modelling and is in the models without a configuration of its own. In the messenger: a text may go out on a connection in the
middle of its handshake because START came from another (`SendText`); `tryResendAll` queues texts on a
connection without key, which the Writer then deletes (`TryResend`); READY may come before the task is
registered (`Register`), after which nothing is sent; `mergeFile` does not truncate a longer file of the
same name, whose tail then spoils the hash (`MergedInto`); a file that waited for a connection may be announced
twice, by the two threads that resend, and the second META replaces the receiver's task and what it has (`HandleMeta`).

In pdnsd: `add_reverse_cache` does not count the NS and SOA sets it adds to an entry; `invalidate_record` leaves the list by age unsorted (against `cache.c` 60-70);
record sets that must not be cached get the least time to live after a restart; local entries come back from the disk as ordinary ones; an interrupted ping marks
its server down; a concurrent test overwrites the operator's mark; `sched_server_test` may signal a thread that no longer exists (`servers.c` 528);
after a TCP query used up the global timeout, its retry over UDP is cancelled at once (`dns_query.c` 2337-2354); NAMEERR or a poll error
discards an answer saved before (2453-2462); threads that wait for a place poll every 50 ms without order, so one may starve while queries keep arriving;
with proc_limit 0 nobody is served; the name of an additional record taken back stays in the compression list, but is always found
earlier in the message, so it is never pointed to.

In LAME: the app never calls flush, so the last samples and an unfilled reservoir are lost; a second stream after a flush starts with 752
zeros left over instead of 528; a bit rate above 320 disables the reservoir and lowering it later does not enable it; 410 and 420..500 kbit/s of
a free format are taken for the presets V9..V0; `lame_set_preset(V2)` leaves the variable bit rate off; an ABR preset overrides the program's
choice of scale factors; the JNI ignores what `lame_init_params` returns; `nMusicCRC` is not reset for a second stream; a comment with an empty
descriptor matches any of its language; a year above 9999 is cut without bringing the new tag.

In SoundTouch: crossing rate 1 appends older samples behind newer ones; a flush with rate above 1 clears what it flushed (against `SoundTouch.cpp` 383);
`ST_THROW_RT_ERROR` never fails, so samples put before rate and channels are set are dropped silently; the app never flushes its one global processor.

`AverageFits` fails for largest frames of 104 and of 208 bytes, and not for the two larger ones of `mp3_quantiser`, whose targets need no
scaling. A release of LAME has its assertions unless it is built with `NDEBUG`; without them the frame gets an index above the largest, whose bit rate is of
another row of the table or none. `BitAllocation` ends a behaviour at the assertion (`AssertAverage`).

`HandshakeEnds` is about handshakes that one end starts, and is checked for one opening user without a network change. Crossed ones
may stay half-way: a handshake cell read after the other handshake has set status 1 is discarded, two threads may tear one, and nobody
asks again. No comment promises otherwise, so this is a limit of the property and not a finding.

## Fairness

`Session` asks of each thread only what a running thread does: the Reader and the Writer
take from their queues, the main thread handles its events, the reading threads read what
has arrived, and a `RequestHandler` ends at the end of its stream. A `ClientTransport` is
asked less: its `readExactly` spins for ever at the end of a stream, so it must end only when its
parser throws or its own end is closed. Weak fairness is enough because no thread disables
another's step: the queues are FIFO and each has one consumer. Nothing is assumed of the users,
of Tor, or of connecting. `FileTransfer` assumes as little: its threads do what they can, and a thread that reads an end which has not
yet recorded its handshake reads what arrives, and ends the connection. Neither the end of a handshake nor that a reading
thread notices a broken circuit is assumed.

`CacheLock` asks that each thread goes on with its own step; a lock is granted by the code's own rules, and the threads' uses are bounded.
`NameServers` asks strong fairness of the threads, because they compete for one mutex whose owner is not modelled as a queue (a scheduler
that let one of two competitors win for ever would starve the other on any system), and weak fairness of the clock. `DnsQuery`
is one thread: it goes on, and a poll that is renewed with the time left ends in its timeout some day (strong, since replies
interrupt it). `DnsAnswer` asks weak fairness of every thread; clients are finitely many, so that a waiting thread gets its place. `Mp3Encoder`, `NoiseShaping` and the reader
of `DnsMessage` are functions: they go on while they can.

## What is proved

Everything below holds for every value of the constants that satisfies the named assumptions, not only for the instances
the runs check. Each module ends with the theorems `PROJECT.json` lists; the lemmas before them are one per action and idea.

### Session

`SessionProofs` proves, for every set of sockets, every set of users and all bounds, with the
assumptions named in the modules (`PurposesDiffer`, `PeersDiffer`, `UsersArePeers`,
`BoundsAreNat`):

| Theorem | Property |
|---|---|
| `TypeCorrect` | `TypeOK` |
| `EstablishedConnectionsHaveKeys` | `EstablishedHasKey` |
| `KeysNeverCross` | `KeysStayOnTheirSocket` |
| `OneHandshakeAgrees` | `OneHandshakeOneKey` |
| `StartedConnectionsHaveKeys` | `StartedHasKey` |
| `KeysAreNeverLost` | `KeysAreKept` |
| `DeletionIsFinal` | `DeletedStaysDeleted` |
| `LastConnectionIsReopened` | `LastConnectionReopens` |
| `NoTextTwice` | `TextsNeverMultiply` |

The argument. None of these is inductive. `Inv` strengthens them with what is true of the places a
key or an outcome travels through: `KnownInv` (tables, readers and cells speak only of sockets
an item was made for), `KeyInv` (each key in a cell, a queue, the pending update or an item
was made for that socket) and `HandshakeInv` (an EXCHANGE on a wire carries a key its sender
records or has recorded; a DONE says the same of its sender, so its receiver has the key of that handshake
or lost the connection). The steps of sixteen
handlers would each have to be taken through each conjunct; instead each handler is shown *calm*:
it only shrinks tables, adds keys that are new, keeps keyed items keyed, and adds to wires and queues
only cells that satisfy the invariant (`Calm`, `WiresCalm`, `QueuesCalm`). `CalmStep` proves once
that a calm step keeps `Inv`, `EveryStepIsCalm` goes through the actions. The action properties `KeysAreKept` and
`DeletedStaysDeleted` follow from calmness alone; `LastConnectionReopens` needs only the types, and that a
lookup in an empty list finds nothing, so that the deletion of the last connection always opens another.
`TextsNeverMultiply` is inductive beside the types, with one more conjunct: the texts on the wires are finitely many
(`FiniteWires`; `Sock` need not be finite, and a cardinality says nothing of an infinite set). Its proof is an account: `Moves` and
`WireMoves` say what a step of one device adds, at most, to what waits there and to the wires in both directions, and
`BothCount` closes the account, which a user's `SendText` alone may raise, by the one it takes from `MaxText`. The lemmas under it say how many texts a queue has
after an append, a tail and a concatenation (`TextsAppend`, `TextsTail`, `TextsAgain`), and how many the wires have when one
of them changes (`OneWireCounts`).

### File transfer

`FileTransferProofs` proves, for every set of sockets and names, all sizes and all bounds (`DevicesDiffer`,
`CrossedAreSock`, `SizesAreNat`, `ChoicesAreBool`, `LimitsAreNat`):

| Theorem | Property | Assumption of the theorem |
|---|---|---|
| `TypeCorrect` | `TypeOK` | none |
| `FinishedFilesAreReceived` | `DoneMeansReceived` | `~ReuseNames`: no file name is announced twice |
| `AcknowledgedIsStored` | `AckedIsStored` | `~ReuseNames`, and `~Offline`: files are announced over a connection |
| `ImplementsPromise` | `KeepsPromise`, the refinement of `FileTransferAbs` | `~ReuseNames`, `~Offline` |

The argument. Everything in the code that speaks of a transfer does so by file name: the tasks in
`senderFileMap`, the entries of the send queue, READY, DATA, DONE and the acknowledgements. With each name used
once (`NamesDiffer`) a name stands for one transfer, and `FileInv` says what follows at each place a name
travels through: a task, registered or pending, is of the transfer of its name, sending at the
device that announced it and receiving at the other (`TasksOk`, `PendingOk`); a META on a wire or in a queue
comes from the announcer and names its transfer, DATA goes away from the announcer, READY goes to it, and a
DONE on a wire means that its transfer was put together (`WiresOk`, `QueuesOk`). `DoneMeansReceived` alone is not
inductive: that a DONE ends only its own file depends on all of these. Each
action has a lemma of its effect (what it may put on a wire, in a queue, in a map: `WriteEffect`,
`HandlePieceEffect`, ...), proved with its part of the type invariant, and a lemma that it keeps `FileInv` (`WriteKeeps`,
`HandlePieceKeeps`, ...) from the effect alone. The assumption is not for convenience: without it `FileTransfer_reuse.cfg`
shows the property false.

`PromiseInv` adds to `FileInv` what is in the tasks, and not only whose they are. A sending task has its own file whole, and
counts as sent only pieces its receiver stores; a receiving task has exactly the pieces it says, each its own, and if it
has all of them the file was put together (`TasksRight`). The pieces named in queues, cells and on disk are pieces of the file
they name, and an acknowledgement on a wire is of a piece that is stored (`QueuesRight`, `WiresRight`, `DisksRight`).
The part that makes it inductive is `AnnouncedOnce`: the META of a transfer is in one place at most, and in none once its receiver
has the task or put the file together. A META replaces the receiver's task by an empty one, so
that a second one would take back pieces that were acknowledged. Most actions only move or lose cells: one lemma shows that a step that leaves what is
stored, acknowledged and merged alone is a stutter of the promise (`UnseenStutters`), and one per action that it
keeps `PromiseInv`. Four are seen: announcing a file, `HandlePiece` (`Store`), `HandleAck` (`Acknowledge`) and
`HandleDone` (`Finish`); `PromiseStep` puts them together and both theorems follow from it.

`~Offline` is needed as well, and TLC showed why before the proof was begun: a file announced without a connection waits, every walk over the
waiting tasks that starts before its META was acted on sends another META, and the second one makes the receiver begin
anew while its sender counts the pieces as acknowledged. With `Offline = TRUE` `AckedIsStored` fails in that way; `file_waiting`,
the run that lets files wait, checks `FileArrives`.

### The lock of the cache

`CacheProofs` proves, for every finite set of threads, of which at most one locks with a time limit (`OneTimed`: the
control thread), and any number of uses:

| Theorem | Property |
|---|---|
| `CacheLockType` | `TypeOK` |
| `CacheLockCounts` | `CountersCount`: the four counters count the threads that hold and that wait |
| `CacheLockExcludes` | `Exclusion` |
| `CacheLockWakes` | `NoLostWakeup` |
| `CacheLockSuspends` | `SuspensionEnds` |

The argument. `LockInv` is the types, the counters, who holds the lock and `Exclusion`: the counters
are what the code looks at, so that exclusion is inductive only with the fact that they count. A change of one thread's place
changes each counter by at most one, which is a lemma about the cardinality of the threads in a set of places. `NoLostWakeup` needs more:
`WInv` says that only threads with a time limit leave their sleep by themselves (`TimedWait`), that a suspension
and readers that sleep while nobody writes are there for a writer that will not give up (`Suspended`, `ReadersWait`), and that whenever somebody sleeps on a free
lock a writer is awake or readers that are awake may enter (`SomeoneComes`). The last is what each signal of `unlock_cache_r` and `unlock_cache_rw` has to re-establish.

### The cache

`CacheProofs` also proves, for any finite set of names, any types and classes, times to live, limits, answers, configuration, commands
and files:

| Theorem | Property |
|---|---|
| `CacheInvHolds` | the inductive invariant |
| `NoConflictsHolds` | `NoConflicts` |
| `ServedFreshHolds` | `ServedFresh` |
| `ListIsRightHolds` | `ListIsRight`: the list holds what may be purged and nothing else, each once (a part of `BooksAgree`) |
| `BooksInvHolds` | the inductive invariant of the ledger |
| `SizeIsRightHolds` | `SizeIsRight`: `cache_size` and `ent_num` are what the entries claim, and these claim what they hold (a part of `BooksAgree`) |
| `BooksAgreeHolds` | `BooksAgree`, if the configuration adds nothing that is not counted |

The assumptions say what the inputs are: `NamesFinite`, `UpGiven` (the suffixes of a name are names), `TypesOnce`, `ClassesApart` (a type is in one class of
`rr_info` at most), `WholeApart`; and `AnswersFit`, `ConfigFits`, `FileFits`, `CommandsFit`: what is added is a cent (`IsCent`), a name that
does not exist has no records, and no cent contradicts itself. The last is asked because `add_cache` examines a cent only if it
knows something of the name already: what a server says of a new name is stored as it is, also if it contradicts itself. What the theorem adds is
that merging any number of answers, local records and the file never makes a contradiction of what was none.
For the ledger, `AnswersCount`, `ConfigCounts`, `CommandsCount`, `FileCounts` and `BoundsGiven` say that what is added counts its sets and what they take
(`CountsItself`). The exception is what `add_reverse_cache` makes of a local name (`Reversed`): local sets that come with it are not counted, so
that such an entry claims too little for as long as it stays. `SizeIsRight` holds with it, since it is about the sum of the claims. `SizeBounded` is proved only
without: when a set that is not counted is replaced, the claim of the entry loses what was never added to it, and nothing keeps it from falling below zero, where deleting the
entry would make `cache_size` larger. `SizeBounded` is checked with one such entry in `dns_cache`.

The argument. `CacheInv` says that the cache is `Good`: each entry has the shape of a cent, and an element is in the list exactly if the entry says
that it may be purged (`Listed`), at one place. Every operation is a function of a record of the whole cache, so each has a lemma that
it takes a `Good` record to a `Good` one, from `del_cent_rrset_by_index` (`DelRRsetsLesser`) to `read_disk_cache` (`LoadGood`), and a step only
puts them together. `NoConflicts` rests on `OneMore`, the step of `cr_check_add`: once the sets that conflict with a new one are out, what is left does not exclude
it. `PutRRsetGood` is where an element has to leave the list that no set stands for: that of a domain that was negative as a whole. `ServedFresh` follows
from what `purge_cent` leaves (`PurgedFresh`): it would take nothing more from what it has purged, and with a domain that
is negative as a whole there are no records that could keep it. The walks over the list, the types, the file and the configuration are recursive functions: a
lemma for each (`FirstWalkWalk`, ...) shows that they are defined and go on from one element to the next, and `UpTo`
is the induction over the places. They are alike, but an operator cannot be the parameter of a lemma.

The ledger. `BooksInv` adds to `Good` that `cache_size` is the sum of what the entries claim (`Booked`), that each claims what it holds, and that the cache is
within its size or has nothing to purge (`Within`). It has to say more of an entry than `SizeIsRight` does: `num_rrs` of any entry, also one that
is not counted in full, is at least the number of sets that are sure to be counted (`Surely`), because `purge_cache` deletes an entry when `num_rrs` is zero and
must not delete one with a set that the list still names (`NothingCounted`). The sums are those of the library, which picks one member after the other: `SumWalk` shows
that this is defined for every finite set, `SumOf` and `SumSplit` that any member may be taken first, by induction on the number of members; from these follow what taking away, adding
and changing one entry does to the sum. `Merge` takes the claim of an entry from `cache_size`, lets the entry be worked on and adds its new claim: `MergedBy` is what the
steps between keep, when the ledger does not agree. `SecondWalkBooked` is the bound: an element that the walk has met is out of the list, so that a walk
which never gets below the limit leaves nothing.

### Name servers

`NameServersProofs` proves, for any finite set of query threads, all servers, configurations and bounds (`ThreadsDiffer`, `QueriesFinite`, `BoundsNat`):

| Theorem | Property |
|---|---|
| `TypeCorrect` | `TypeOK` |
| `UsersAreCounted` | `UsersCounted`: `server_data_users` counts the threads that read the table without the mutex |
| `TestsStayInTable` | `ScansInTable`: a thread that tests names a server and an address the table has |
| `TableStaysForReaders` | `ReadersKeepData` |
| `TestsAreRemembered` | `NoTestForgotten` |

The argument. `Invariant` holds together who has the mutex between two steps (`LockPlace`), the count of users, the
places of the testers in the table, the ping the status thread is in (`PingCounted`), what main knows of it (`MainKnows`) and the command
the control thread carries out (`CommandKept`). A change of the table's shape is only made by a thread that has exclusive access, and that is
granted only at a count of zero; hence `ReadersKeepData` follows from the count, and `ScansInTable` from both. The steps fall into
three kinds: ordinary ones, which leave the table and the testers; those of a test; and those that replace
the table. Each action has a lemma that says which kind it is and that it is sound. `NoTestForgotten` is carried along: each step that sets a time
stamp to zero wakes the status thread or finds it awake, and the pass that ends looks again before it sleeps.

### Threads that answer

`DnsAnswerProofs` proves, for every finite set of queries, any limits with a positive proc_limit, and any number of reloads:

| Theorem | Property |
|---|---|
| `TypeCorrect` | `TypeOK` |
| `CountersAreRight` | `CountersCount`: `procs`, `qprocs`, `spawned`, `dropped` count the queries in their states |
| `LimitsAreKept` | `LimitsKept` |
| `LastServerTellsMain` | `EndIsNear`: once both sockets are closed, main was told to end or a server is about to look |

The counters are inductive with the types alone; the limits follow from them, because a server counts a query before its thread exists and
a thread takes a place under the mutex that guards the count. `LastServerTellsMain` is the safety half of `LastServerEnds`:
each server closes its socket before it looks at the other's, so that of two that end at once one sees both closed.

### Resolving a name

`DnsQueryProofs` proves, for any servers, any replies they send, any sets of addresses that are up and any number of
hops (`BoundsNat`, `ConfigsTyped`, `RepliesTyped`, `NamesTyped`):

| Theorem | Property |
|---|---|
| `TypeCorrect` | `TypeOK`, with no more activations than hops |
| `BestIsTaken` | `BestAnswerWins` |
| `NothingLeftOpen` | `ActivationsNest`: the open sockets are those of queries under way, and no lookup is made inside itself |

The argument. `IInv` says that the stack is a `Chain`: every activation satisfies `FrameInv`, all but the last await
the one above them (`Awaits`: a lookup of a server's name is above an activation that judges an answer with names left, one that
asks the servers of a referral above an activation that has cancelled its queries), and no two look up the same. None of the
three properties is inductive. `BestAnswerWins` speaks of activations that are ending; `Best` says what makes it true on the way: an
answer that does not end the activation has a quality of at most 14, as much as a truncated one that satisfies, and one that
ends it has at least that, so it may replace whatever was saved. The count of sockets needs `Begun`: the queries after
those of the current batches have not been sent, which is why `cancel_queries` may stop at the last batch. That the hops never
run out below zero is `HopsLeft`: no names of servers or addresses are kept where none are left.

Two lemmas of the module are of use elsewhere. `LeastNatural` and `InductionOnSets` derive induction over the natural numbers
from the library's `WFMin`: as they speak of a set, not of a predicate, the provers can instantiate them. With them `ChoicesExist`
and `ThoseType` show that the recursive function `Those` is defined for every sequence and gives a sequence of the members of the same set.

### The MP3 encoder

`Mp3EncoderProofs` proves, for all sizes of frames, headers, reservoir and ring, any delays and lengths of calls, and any
number of calls that fail (`BitsNat`, `SamplesNat`, `InputsNat`, `FormatHolds`, `RingHolds`, `DelaysHold`, `ErrorsFit`):

| Theorem | Property |
|---|---|
| `TypeCorrect` | `TypeOK`: no count becomes negative, `h_ptr` and `w_ptr` stay in the ring |
| `StreamCorrect` | `StreamAgrees`: headers come to their places, reservoir, `main_data_begin` and stream agree after each frame |
| `FlushCorrect` | `FlushSendsAll`: a flush that succeeds leaves no sample, header or bit behind |

The assumptions are relations between constants of the code. `FormatHolds`: a frame is one or two granules of 576 samples, and `resvLimit` and
`maxmp3buf` are whole bytes. `RingHolds`: the ring of 256 headers holds every frame that begins within the reservoir. It is true of each
bit rate and sample rate of the format but one, 8 kbit/s at 24 kHz in stereo with a checksum, where the reservoir is exactly as long as the
frames in the ring and the proof asks for less. `DelaysHold` relates `calcNeeded`, `ENCDELAY`, `POSTDELAY` and the 576 samples a flush pads by at
least. `ErrorsFit` bounds the calls that fail for lack of room by what `mfbuf` holds: each leaves a frame of
samples behind, and `MFSIZE` (3984) is reached after two or three, where the assumption allows hundreds.

The argument. Neither property is inductive: putbits2 looks only at the next header, and a flush at what it counted when it began. `Gap` is the
number of bits of data that can be put before the stream reaches the place of the next header to be filled in: the distance to that
place less the headers on the way. Between frames `Gap`, `ResvSize` and `main_data_begin` are the same number (`Resting`); within a frame they differ by what has
been divided and not yet put (`Dividing`, `Formatting`), and each step moves bits from one account to another. Pending headers are a frame apart at least (`Spaced`), so
that a stream not further behind than the reservoir reaches leaves a slot of the ring free (`RingNotFull`, with `RingHolds`), and a header is reached
only by the bit that belongs before it (`PutBitsRing`). `FlushGap` shows that the loop of `compute_flushbits` over the pending headers finds `Gap`, no more and
no less; `ShiftRing` that nothing changes when `totbit` starts again. For the samples, `DelayInv` relates those in `mfbuf` to
`mf_samples_to_encode`; `FramesLeftFits` shows from it that the frames `lame_encode_flush` computes at its start hold all samples and the delay, and no more than can be
completed; `FlushInv` carries both bounds from frame to frame, until the last one leaves nothing of the caller's in `mfbuf`. `ErrorsInv` bounds
how much waits after calls that failed, without which a flush might compute too few. The inductive invariant was checked with TLC on two instances before it was proved.

### The sound processor

`SoundTouchProofs` proves, for any values of the controls, sample rates, lengths, limits of the overlap, filter, blocks and bounds (`UnitsNat`,
`InputsTyped`, `LengthsFall`, `OverlapBits`, `RatesGiven`, `ChannelsSetOnce`):

| Theorem | Property |
|---|---|
| `IInvHolds` | the inductive invariant |
| `SoundIsKept` | `SoundKept`: `NothingStranded`, `SequenceFits`, `KeepsPace` and `RoomKept` |

`LengthsFall` and `OverlapBits` are facts about the code's constants: the automatic lengths fall from the slowest to the fastest tempo, the limits of the overlap
are in order; that `2^p` is at least 1 is a fact about numbers that the provers do not have. `RatesGiven` says that the rates and tempos which the controls give are
positive, and that `Unit <= (Slack - 1) * rate` for each rate: with the 16 samples that `upsample` and `downsample` add to their estimate
this asks for a rate of at least 1/15, and the ranges the setters document (rate -50 to +100 %, pitch -12 to +12 semitones) go down to
1/4; a pitch of -48 semitones, which nothing refuses, is outside it. `ChannelsSetOnce`: the recorder's threads set the number of channels once; after a change the
store of the filter would be counted in other units.

The argument. `SequenceFits` and the tempo half of `KeepsPace` rest on `Fits`, a relation between four lengths that are set in several
steps: the input waited for reaches behind a sequence wherever the full search puts it, and holds the nominal skip with its rounding, so that `Received` never returns less than
was asked. `SetParametersFits` shows that each way of setting them ends with `Fits`, although `SetParameters` calculates the sequence from the overlap of before
and only its last call of `SetTempo` with the new one. For the transposer, `WithinRight` says where a walk in steps of the rate through so many intervals stops,
`TransposeRight` adds the two walks of a call up to exactly what was read, and `RoomEnough` compares the samples written with the room. The last needs
`storeBuffer <= FilterTaps`: `downsample` asks for room from the samples put and writes what the filter gives, which is no more than those only if it never holds back more than its
taps. `NothingStranded` is inductive with `Places`, which says for each point inside a call which stage is last and what may wait.

### Only model-checked, and why

* `HandshakeEnds`, `FileArrives`, `WaitingEnds`, `TestsHappen`, `ResolveEnds`, `ReadingEnds`, `LastServerEnds`, `QueriesServed`, `CallsReturn`, `SearchingEnds`: liveness under fairness is out of the prover's reach.
* `BitsKept` is a sum over granules: each law it needs is an induction over the data, as those of the ledger of the cache are (`CacheProofs`), and not done. `SizeBounded`, a part of `BooksAgree`, is proved for a configuration that adds nothing uncounted; the run adds such a cent.
* `ReadsBack`, `ReadsInside`, `DecoderAgrees`, `TagsHold`, `SettingsHold`, `AnswerCoherent` speak of what recursive or folded functions compute from the data.
* `RestartKeeps` compares the cache before the end of the process with what is left after the file was read back entry by entry, while the cache is purged to its size.

## Plan

Done: the modules above. Next, most important first:

1. The sums of the bit reservoir as theorems (`BitsKept`).
2. `ConnectionTable`: `addNewConnection`, the index loops and `deleteConnection` statement by
   statement with two or three threads. Abstract specification: the atomic table of `Session`; the
   runs show with how many threads it is implemented.
3. `TextDelivery`: message ids, acknowledgements, one `failedQueue` for several contacts, the
   hand-over to the offline server, the null pointer that loses a text. Refines a specification of a
   text as sent, delivered, or handed over.
4. `KeyPointer`: the global pointer with two contacts, wrap at 255, the reset by a text.
5. `StatusChecker`: its loop, the attempts, restarting Tor, the pool of ten threads.

## What is not modelled, and why

* The bytes of the messenger's cells: padding, headers, RSA, AES and hashing are pure functions; the model
  keeps which parser accepts a cell and which key decrypts it.
* Acknowledgements of texts are sent and dropped; message ids wait for `TextDelivery`.
* More than one contact per device. The handlers of different contacts share the Reader, the
  Writer and `failedQueue`; the last is the subject of `TextDelivery`, the others only delay.
* The eleventh accepted socket, which no thread of the pool reads (`StatusChecker`).
* A crash of the app: nothing of the connection state is stored, so a restart is `Init` for this
  device and a broken circuit for the other; the second half is `CutCircuit`.
* pdnsd: exhausted memory in most places, IPv6, the discovery of root servers, delegation-only zones, the parser of the configuration, the protocol of the control socket, MAILA, MAILB, IPSECKEY, RRSIG and NSEC records, `decode_query_additional`.
* LAME: the psychoacoustic model, transforms and filters (floating point without control state), the choice of Huffman tables, resampling, decoding.
* SoundTouch: the filter and which offset a sequence is best joined at; the wrapper and the threads that record.
* Screens, database, settings, HTTP to the offline server, the Orbot service in Java, tun2socks, vendored widgets: see the
  inventory and `PROJECT.json`.
