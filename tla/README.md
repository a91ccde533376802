# Modbus gateway: a verification project

TLA+ models of the gateway firmware in `src/`, TLC configurations that check
them on small instances, and TLAPS proofs about them for every value of the
constants. Module names follow the C files; line numbers below are those of the
sources, and `PROJECT.json` maps every definition to its lines.

## 1. The system

A single main loop (`user.c`, `User_Loop`) calls five modules in turn, forever:
Modbus RTU master, RTU slave, Modbus TCP server, camera client, web server. The
only other thread of control is the UART receive interrupt. The modules share
the data pool and the configuration, both static data without locks.

```
 devices -- UART4 --> rs485 ring --> modbus_master --SetValue--> data_pool
 client <-- USART1 -> rs485 ring --> modbus_slave --WriteReg/ReadReg--^
 client <-- CH395 --> modbus_tcp ----------------WriteReg/ReadReg-----^
 cameras <- CH395 --- isapi_client --------------GetValue-------------^
 browser <- CH395 --- web_server --Save--> config_storage --> EEPROM / Flash
```

### Inventory

| Component | State | Operations | What makes it hard | What makes it correct |
|---|---|---|---|---|
| `rs485.c` | per port: ring buffer, head, tail | `ring_put` (interrupt), `Rs485_ReadData`, `Rs485_FlushRx`, `Rs485_SendData` | the interrupt falls between any two accesses of the main loop; full ring; flush during reception | a lossy FIFO: nothing reordered, repeated or invented; reads return |
| `data_pool.c` | every value twice (`s_values`, `s_regs`), register map | `SetValue`, `WriteReg`, `ReadReg`, `GetValue`, `RebuildMap` | two copies to keep equal; counts larger than the arrays | one store behind a dense register space |
| `modbus_master.c` | `s_state`, cursor, retry counter, ticks, `s_rx_buf` | the five cases of `ModbusMaster_Process` | silent, late, wrong devices; frames cut by the polling; timeouts and retries | indices valid, retries bounded, values under the point they belong to, no point starves |
| `modbus_slave.c` | `s_rx_buf` | `ModbusSlave_Process`: FC 3, FC 6, exceptions, broadcast | frames cut by the polling; client timeouts; bytes flushed | writes once and in order, no acknowledged write lost, no collision on the bus, requests answered |
| `config_storage.c`, `config.c` | RAM copy, EEPROM, Flash page, `s_eeprom_ok` | `Init`, `Load`, `Save` | power failure in a save; a part that fails; two stores with copies of different age | a start finds what was saved last; a torn copy is never used |
| `isapi_client.c` | `s_state`, `s_cur_cam`, `s_prev_values`, ticks | the five cases of `IsapiClient_Process` | values change between check and request; cameras refuse or stay silent; rate limits | cameras show the values; no change lost |
| `modbus_tcp.c` | `s_initialized`, `s_tcp_rx` | poll, receive, MBAP checks, FC 3 and FC 6, exceptions | a stream without boundaries; a buffer never cleared; which socket is served; length arithmetic | writes never mixed up, answers to their requests, what can be answered is |
| `ch395_drv.c` | the chip | `TcpListen/Connect/Send/Recv` | blocking; a UART that is also armed for interrupts; lost bytes | no more is received than there is room for |
| `web_server.c`, `web_resources.c` | `s_rx_buf`, `s_tx_buf` | routing, status, configuration, save | one buffer for body and response, overlapping copy; size limits | a response is sent, whole, with nothing of an earlier one |
| `utils.c` | none | CRCs, elapsed time, text | wrap of the tick; rounding of floats; widths | as their names say |
| `user.c`, `tasks.c` | none | set-up and main loop | order of calls, blocking | each module gets its turns |
| `log_uart.c`, `main.c`, `stm32f1xx_it.c`, start-up, linker, project file | -- | output, set-up | -- | -- |

The hazards each component is exposed to are listed, with the properties that
would notice them, under `hazards` in `PROJECT.json`.

## 2. Plan

Order, most important behaviour first; all of it exists.

1. `RxFifo` (abstract), `Rs485Ring`: the interrupt against the main loop.
2. `PointStore` (abstract), `DataPool`.
3. `ModbusMaster` with its bus.
4. `ModbusSlave` with its client.
5. `ConfigCopies` (abstract), `ConfigStorage` with power failures.
6. `IsapiClient` with its cameras.
7. `Ch395`, the driver and the chip; on it `ModbusTcp` with its client and `WebServer` with
   its browser.
8. `Gateway`: the two servers composed with the rest of `User_Loop`.
9. `Utils`, `ModbusCrc` and, on `Utils` and `IsapiClient`, `IsapiRequest`: the algorithms on numbers and text.

What could be added: the bus ports going deaf for good when the re-arming of their reception
fails; the modules of the buses inside `Gateway` with their own state instead of what they
store, which multiplies the state space by theirs; `Utils_Crc32` over small structures.

No module that is proved about reaches a recursive operator; what recurses is a recursive function.

## 3. Modules

Faulty variants of an action or operator stand before it and are named in its
comment ("Faulty variant of ..."); nothing but the mutation runs uses them. They
show that each property can be violated by a plausible slip in the code.

**`Rs485Ring`** (`rs485.c`). One step per access of the main loop to `head`,
`tail` and `buf`; `UartRx`/`UartRxDropped` is one interrupt and may occur between
any two. `ReadCall`, `ReadNonEmpty`, `ReadCopy`, `ReadAdvance`, `ReadReturn` are
`Rs485_ReadData` with `ring_get`; `FlushHead`, `FlushTail` are `ring_init`.
Program order is taken as given, although `buf` is not volatile.
**`RxFifo`** is what the port promises: a bounded queue that loses bytes only when
full or while it is being flushed. In both, every arrival flips `arrived`, a history variable, so that
a lost byte is a step of its own with that guard and not a step nobody sees.

**`DataPool`** (`data_pool.c`). A value is a record of two words, so that "high" and
"low" are fields and no arithmetic on 32 bits is needed; `RebuildMap`, `MapPoint`,
`MapNextSensor`, `MapDone` are the two loops of `DataPool_RebuildMap`, whose map and
registers are shared with nothing that could run in between. `ReadReg` keeps its
answer in `reply`. `Counts` are the values `sensor_count` and `dp_count` may take,
ones larger than the arrays included. **`PointStore`** holds every value once and
computes the address of a register from the set of configured points alone.

**`ModbusMaster`** (`modbus_master.c`). `StartCycle`, `SendNothing`/`SendRequest`,
`Receive`/`TimedOut`, `ProcessResponse`, `Advance` are the five cases of the switch.
A frame is two pieces, as the ring may be read while it arrives; `Complete` says
when the length and CRC checks pass. Devices answer well, badly or not at all, in
any order. Four constants of a behaviour, chosen at the start, say what is
assumed: `late` (answers may come after the timeout), `split` (frames may be read
in two parts), `noisy` (a device babbles: `Noise` puts frames nobody has asked for, or garbage, into
the ring at any time), `healthy` (the points whose device answers every request, on a bus with none of the
others). `Buses` are the combinations of the first three that are considered. `sent`
counts requests for the properties only. Elapsed times saturate. `TimedOut` takes the read that finds nothing and the
look at the clock behind it as one step; what arrives between the two is taken to arrive after both.

**`ModbusSlave`** (`modbus_slave.c`). `Poll` is `Rs485_ReadData` and the checks on length,
CRC and address, `Handle` the switch and the transmission, which waits until the
last bit is out, `Flush` the `Rs485_FlushRx` at the end; between them the client may
act. The client sends requests of each kind to this slave, to all or to others, takes a
reply of the right function for the answer to what it waits for (an RTU reply names
no request), and gives up at any time. `prompt` says that the main loop comes back before
the client sends again, `whole` that no frame is read in two parts.

**`ConfigStorage`** (`config_storage.c`). A configuration is a version; a stored copy is
valid when every byte is of one version, which is what magic and CRC check. `Load` is
one step, the saves are one step per page (`WritePage`) and per word (`ProgramWord`). `Crash`
may come anywhere, spoils what was being written and starts over with `Probe`.
`mode` chooses a working EEPROM, none, or parts that fail at any access. `saved` is the
version that a load or a completed save left, `None` while a save is under way (either
version may then be found). `SetConfig` has no caller in the program; without it a save
could only repeat the version that is there.

What it promises, with parts that fail as well, is **`ConfigCopies`**: two copies without bytes and
pages, of which a start takes the first that is whole and within reach. A save writes the
configuration in use into one of them, and into the other only if a part fails; the one being written
is not whole meanwhile, and that is the worst a power failure makes of it. The start then takes the
other copy, however old, or `Default`, which it saves.

**`IsapiClient`** (`isapi_client.c`). `Wake`, `Check`, `Skip`/`Push`, `Response`/`TimedOut`, `Done` are
the five cases. A sensor's readings are one value, since they are compared and shown
together; `shown` is what the camera displays. `Change` is any client of the pool,
`reliable` says that cameras take what is sent, `calm` that no value changes between the
check and the building of the text.
**`IsapiRequest`** extends it by what a push carries. `OsdText` is `build_osd_text`, `Osd` the text after each
round of its loop, a text being a sequence of characters and a name one of them; `Base64Encode` is `base64_encode`. What a
reader makes of the text is below that: `Shown` finds the number behind a name, `Tenths` reads it, `Says` compares it
with the reading and its divisor, and `Tellable` are the numbers for which that can be asked (integers that the
cast to 16 bits leaves alone and, where there is a divisor, raw readings below 2^20). `RequestAssumption` is what the configuration and
the C types give: readings have 32 bits, divisors 16, the names of a sensor differ.

**`Utils`** (`utils.c`). A float is a mantissa of 24 bits and an exponent; the conversion of an integer of 32 bits
(`Float`), the quotient and the multiplication by ten round to the nearest, ties to even, as the compiler's arithmetic
does, and the digit is cut off. Only one decimal is modelled, as no caller asks for another. **`ModbusCrc`** is
`Utils_Crc16Modbus`, apart from it as it needs operators on bits that nothing is proved about. A few single values are
recorded as `ASSUME`s (`GarbledFails`, `KnownCrc`, `TenthLost`, `TenthGained`), which TLC evaluates with the
runs `isapi` and `isapi_lost`; no proof uses them.

**`Ch395`** (`ch395_drv.c`). A peer's request is one or two *pieces*: the head (MBAP header,
function and register, 10 bytes) and the rest (2 bytes); lengths count pieces. `RecvLen` is
`CH395_TcpRecv` up to `to_read`, `RecvData` the rest of it. While USART3 receives by interrupt,
which `Rs485_Init` starts and nothing stops on purpose, `HAL_UART_Receive` refuses: `len_buf` is then
what was on the stack, any number, and nothing gets into the buffer. `Disarm` ends that reception
(an overrun does, and `Rs485_UartRxCpltCallback` does not look whether re-arming worked). Where `to_read` ends
inside a piece, what stays in the chip begins with the rest of it, a `Cut` piece (`Left`). `Worlds` are the
choices, made at the start, of three constants of a behaviour: `flaky`, the sockets whose receptions by polling may
lose bytes; `child`, the chip serves a connection on the socket after the one that listens (the servers need
different answers to that); `calm`, peers send a request in one part, and only when the chip holds no other.

A reception is *good* when `len_buf` was read, all the bytes came and they begin with a piece that is not cut;
`sure` says so, to the properties only. What any other leaves at the front of a buffer
depends on the data, byte by byte: a rest alone over an old write is that write under another id, which
`modbus_tcp.c:119-143` makes and echoes again. So a server finds there what it held, while the UART is armed, or else
anything of a set (`BadFronts`, `BadPages`), and acts on it as the code does. Nothing calls
`CH395_Init`; the chip is taken to be configured.

**`ModbusTcp`** (`modbus_tcp.c`). `TcpStart`, `TcpPoll`, `TcpRead`, `TcpHandle` are a call of
`ModbusTcp_Process`; `Drop`, `WriteRegister`, `ReadRegister`, `Refuse` are the checks and
`process_modbus_pdu`. `tcpRx` is what the front of `s_tcp_rx` says, which is never cleared: the transaction id (bytes 0-1),
the kind of request (2-9) and the value (10-11). `Laid` puts the pieces of a good reception over an old front,
a piece at its own length: a rest alone replaces the id and nothing else, and a request behind a rest has its id where the
protocol should be. `Complete` compares the MBAP
length with what came, `Zeros` is the case of a length 0, whose `pdu_len` is 65535. One register is
modelled by the id of the write it is from; `applied` and `answers` record, for the properties, the writes and the replies of good
receptions. Ids are not 0. The client sends whole requests, requests in two parts, several at once, and ones that are too short.

**`WebServer`** (`web_server.c`). `WebStart`, `WebPoll`, `WebRead`, `WebHandle` are a call of
`WebServer_Process`, `Respond` is `send_http_response`. Of `s_tx_buf` every cell is followed: the JSON body
is built at its front (`Built`), the header printed over that (`Printed`), and the body copied from where
it no longer is (`Copied`); as source and target overlap, `memcpy` may give either of two contents
(`Sources`). Cells stand for equal numbers of bytes. A browser's requests come in one piece, and it gives
up only when nothing of its request is left. `Garbled` is what a reception that is not good may leave at the front of `s_rx_buf`. `POST /api/config` saves and rebuilds the map, which
`ConfigStorage` and `DataPool` model.

**`Gateway`** (`user.c`, `User_Loop`). `turn` is the module called; between any two steps peers may send and
the interrupt reception of USART3 may end. Master and slave take their turn by what they do to the
register (`Store`), the camera client by reading what has come for the socket it shares.

## 4. Runs

| Run | Shows | Bounds |
|---|---|---|
| `ring` | the ring implements `RxFifo`, which tells lost bytes from steps nobody sees, under every interleaving; reads return though the interrupt never stops | 4 slots, two byte values, buffers smaller and larger than the ring: it wraps and fills |
| `pool` | the two copies agree, the map is complete, the pool implements `PointStore` | 2 x 2 points, two words, counts of 0, 1 and 3, the last more than the arrays hold |
| `master` | cursor, retries, no stale answer under timely devices, every point polled whatever the devices do, good ones read | a sensor without points and one with two, 2 attempts, timeout 2, interval 1; late and split answers in every combination, or noise whenever the ring is empty |
| `master_late` | *violated*: a late answer is stored under another point | as above |
| `slave` | writes in order, acknowledged ones applied, no collision, whole requests answered | 3 frames of every kind; 3 let one be applied, one be lost and one be waiting |
| `slave_split` | *violated*: a request read in two parts is not answered | 1 frame |
| `storage` | what was saved is found, with a power failure at any step; with failing parts too, EEPROM and Flash implement `ConfigCopies`; starts and saves end | 7 bytes in pages of 3 (two full pages and a part), 2 words of Flash, 2 versions, 2 failures |
| `storage_flaky` | *violated*: one failed access to the EEPROM makes the defaults replace what it holds | 1 byte, Flash unused |
| `isapi` | no change dropped by the rate limit, cameras show what was noted and their text says it, all changes noticed | 3 cameras, one without address, two values of two points (a negative integer, tenths), interval 1, timeout 2 |
| `isapi_lost` | *violated*: an update that was not taken is never repeated | 2 cameras |
| `gateway` | after good receptions: writes of port 502 not mixed up, answers to their requests; after any: nothing stale in a response; what can be answered is | 2 requests of 8 kinds, each in one part or two; 3 pieces fit into `s_tcp_rx`, so a request and a half; a response buffer of 7 cells, which a page does not fit into and a JSON body overlaps; five worlds, three bad fronts: a write under the id of another request, a read, nothing of use |
| `web_page` | *violated*: a page is not answered, or JSON arrives spoilt | as `gateway`, page and status only |

Bounds in the models: `MaxRequests` frames (slave), `MaxCrashes` power failures (storage), `NoiseBound` (master: the
pieces on top of which noise may come; with 0 noise finds the ring empty, and one stray frame is enough to be taken for the
response, to be read instead of it, or to have it run into), `MaxMessages` requests and `MaxPieces` as the value of an
unread `len_buf` (gateway). Two requests are the
fewest of which one can leave something that the other finds, in every buffer of the servers; the invariants of
`gateway` hold with three writes, reads and short requests as well (481396 states). `slave` and `slave_split` disable the deadlock check because the client stops after its last
request. Everything else is finite in itself.

The five violations are disagreements with what the sources say of themselves; the lines
and the sentences are under `findings`:

* `process_response` compares neither address nor function with the request
  (`modbus_master.c:98`);
* a frame read while it arrives is dropped (`modbus_slave.c:98`; the master does the
  same at `modbus_master.c:144` and goes on without a retry);
* a valid EEPROM is ignored after one failed access (`config_storage.c:116`);
* `s_prev_values` is updated before the push (`isapi_client.c:142`);
* a response that does not fit is dropped, as the main page is, and the JSON body is copied from where
  the header has been printed over it (`web_server.c:44`, `:36`).

Two more deviations are on record beside the runs: 395 of the first 1000 tenths are printed one too low
(`TenthLost`: 23.3 becomes 23.2), never lower as long as the reading is below 2^20 (`ReadingSays`; above that one
may even be too high, `TenthGained`); and Base64 is never padded, so that credentials of a length that is no multiple
of 3, the default ones among them, decode with zero bytes behind them (the theorem `CredentialsDecoded`).

### Fairness

* `Process` of every module is weakly fair: `User_Loop` calls all five without end, none of
  them waits without bound (`HAL_UART_Transmit` and `HAL_UART_Receive` have timeouts, and the flag
  `Rs485_SendData` waits for comes with the last bit sent).
* In `Gateway` that is weak fairness of `UserLoop`, the steps of all five; none is assumed of peers, and none
  of `Disarm`: `TcpAnswered` and `WebAnswered` are about rounds that begin with the UART left to the driver.
* `Tick`: SysTick counts on.
* `ring`: a call that has begun goes on, since the interrupt returns to it each time; nothing
  makes anyone call it.
* `Device` in the master: a device answers within some time or never will, which is a step
  as well (`StaySilent`). `Noise` is not fair: it may come at any time, and need not. `FinishFrame` and `GiveUp` in the slave: a frame begun ends, and a client
  has a timeout.
* Not assumed: that a camera answers, that a value changes, that a client saves or sends, that
  the power fails or stays.

## 5. Proofs

All hold for every value of the constants the `ASSUME`s admit. Each proof module ends with the
theorems `PROJECT.json` lists; the rest are lemmas, one step per action.

* `Rs485RingProofs`: `TypeOK` is inductive alone. `InFlight` is what the interrupt cannot undo: while
  `ring_get` is under way the ring stays non-empty and the slot under `tail` keeps its byte, because
  `ring_put` never passes `tail`; during a flush `head` stays behind the old `tail`. With it each
  step maps to a step of `RxFifo` or a stutter: the interrupt appends to `Unread`, `ReadAdvance`
  removes its head, all else leaves it alone. A byte dropped flips `arrived` and has to be a `Lose`, so that the
  theorem says of every drop that the ring was full or a flush under way.
* `DataPoolProofs`: `MapCorrect` is the loop invariant (the registers below `s_total_regs` are the
  points passed, in order, which needs the count of a set of pairs); from it `RegsMirrorValues`,
  and from both the refinement of `PointStore`.
* `ModbusMasterProofs`: `CursorValid` and `RetriesBounded` strengthen `TypeOK` and each other.
  `TimelyBus` says why answers match under timely devices, with whole frames and no noise: no request is open when the master
  moves on, as `Tick` does not reach the timeout while one is.
* `ModbusSlaveProofs`: `StreamOrdered` orders what was applied, what is being handled and what is
  unread by the time it was sent, and keeps a frame without its end from being complete;
  `AppliedInOrder` follows. `OneFrame`, for a prompt main loop, gives `SpeaksInTurn`, and that
  gives `AckedApplied`.
* `ConfigStorageProofs`: `LoopsOnTrack` is the invariant of the write loops (`addr` and `written` agree
  and all pages before are written; the Flash is programmed up to `word` and blank beyond), from
  which `SavedIsFound`, and from that the action property `SteadyLoadsLastSaved`; it is a theorem itself. `StorageImplementsCopies` needs of it only that a
  finished save has left the copy of its version, and that `eepromOk` says which copy is within reach. For
  parts that fail, `LoopsTogether` (`addr` and `written` agree) puts every transfer into the
  structure, so that it leaves a copy whole with what it wrote or in pieces (`TransferLeaves`, `WordLeaves`).
* `GatewayProofs`: `TypeOK` needs the lengths of receptions (`Least` bounds `len_buf` by the buffer) and every cell
  of a response. `ResponseCells` follows a response through the buffer, overlap included, which gives
  `NothingStale` and `LiteralsWhole`, whatever was received. `InboxAsked`: every piece in the chip that is not cut is of a request that was
  made, and of its kind. `WriteInv` is about port 502. What was written by good receptions is before what is in hand, and that before what
  the chip still holds; requests there are in order, their parts together, and only the last may lack its rest
  (`StreamOrdered`, kept by whatever a reception leaves, cut pieces included). So a good reception that begins with a head has that
  request's own rest behind it, and one that begins with a rest is either too short or has an id where the protocol should be:
  what it leaves to be handled is of the request in hand alone (`InHand`). `WritesIntact` follows, and with `InboxAsked`
  also `AnswersMatch`, for any number of requests, any size of buffer and any bad fronts. Both are about good
  receptions; of the others nothing could be said.
* `IsapiClientProofs`: `AgesOrdered` (outside an update every camera's interval is at least as far on
  as the common one) gives `RateNeverBinds`; with it nothing is noted that is not sent, and
  `ShowsWhatWasNoted` is inductive together with `NotedIsCurrent`.

* `IsapiRequestProofs` is about algorithms. A recursive function is a `CHOOSE` of one that satisfies its equation, so
  that such a one has to be shown to exist before anything can be said of it; the library's theorems for that, and for
  induction, take operators, which the provers cannot instantiate. `Least` (a set of numbers has a least one, from the
  well-foundedness of the numbers), `Induction` and `Recursion` say the same of sets and functions: a recursion is
  given by its base, a step, and the smaller argument it goes to, all of them functions. From them come the equations of
  `Digits`, `Number`, `Two`, `LongDivision` and `Osd`, and by induction what they compute.
  * `DigitsReadBack`: the digits of any number read as that number.
  * `ReadingSays`: the quotient in single precision differs from the true one by half a unit in 2^23
    (`QuotientNear`), the fraction times ten by half of what is shifted out (`TimesTenNear`). Neither can carry a reading
    below 2^20 past the next tenth, as the distance of a quotient that is no multiple of a tenth is at least 1 / 10 d
    (`TenthsNear`); downwards one tenth can be lost, at a quotient that is one.
  * `CamerasTellAlways`: entries start with names, which are nowhere else (`EntryShape`), so that the loop of
    `build_osd_text` leaves each where `Shown` looks for it (`PlacedNext`, one round; `ShownIs`); with
    `ShowsWhatWasNoted` that is the invariant `CamerasTell`.
  * `ElapsedAcrossWrap` and `CredentialsDecoded` are what they say, for every width of the tick and all credentials.

Every safety invariant and action property that the passing runs check is a theorem. Only model-checked is everything
under fairness (`ReadReturns`, `EveryPointPolled`, `HealthyPointsRead`, `WholeRequestAnswered`, `SavesEnd`, `ChangesNoticed`,
`TcpAnswered`, `WebAnswered`), which needs `ENABLED`. Evaluated on single values are the `ASSUME`s named in section 3.

## 6. Not modelled

* Formats: the layout of frames, HTTP, XML and JSON; a CRC is right or wrong. That a frame with one garbled byte
  fails its CRC is checked on two frames (`GarbledFails`), otherwise assumed. `Utils_Crc32` needs more bits than
  TLC's integers have.
* What the text says of readings of 2^20 and more behind a divisor, which a float cannot hold to a tenth, and of integers of more
  than 16 bits, which the cast changes: their text is modelled, and `CamerasTell` leaves them out.
* `data_type`, which no code reads. `scale_divisor` and the arithmetic of display are in `IsapiRequest`; the web server
  uses the same functions, but the numbers in its JSON are not followed.
* The wrap of the 32-bit tick in the state machines: ages saturate at the interval they are compared with. That is exact
  for the master; a camera not updated for 49.7 days may look recently updated. The subtraction itself is
  proved right across a wrap (`ElapsedAcrossWrap`).
* The chip: what it does unconfigured (nothing calls `CH395_Init`), what becomes of connections (status, closing), and where
  it serves them, which `child` leaves open. `CH395_TcpConnect` sends the text of an address where its four bytes should be; the
  camera client is modelled as if that reached the camera, since the function returns 0.
* Which bytes a bad reception brings: what it leaves at the front of a buffer is one of `BadFronts` or `BadPages`, sets of any fronts in
  the proofs, of a few in the runs. Requests split at other places than after 10 bytes, several registers on port 502.
* The driver functions nobody calls (`CH395_Init`, `SetIP` and the like, `GetSocketStatus`, `CH395_Process`, `CH395_OnInterrupt`), and
  `Tasks_Process`, which nobody calls either.
* The DE line, `Rs485_SendData`'s wait for the transmitter, the HAL's locks and, on the bus ports, the failure to re-arm
  the reception (`rs485.c:175`): they depend on the HAL, which is not in the repository.
* Log output, board set-up, start-up code, linker script and project file.

### Hazards that no property covers

The code gives in to some of the hazards in `PROJECT.json`; what holds of it is conditional there, and no passing property
speaks of the case itself. The notes beside them say more.

* A port whose reception does not start again stays deaf (`rs485.c:175`).
* Frames read in two parts are lost (`modbus_master.c:144`; for the slave, `slave_split` shows it): `TimelyAnswersMatch`,
  `HealthyPointsRead` and `WholeRequestAnswered` are about whole ones. Of writes, `AppliedInOrder` holds with them as well.
* A late main loop makes the slave speak out of turn (`modbus_slave.c:139`), and the client may then take an older reply for its own:
  `SpeaksInTurn` and `AckedApplied` need a prompt one.
* A value that changes between the check and the push and then changes back leaves the camera wrong until it changes again
  (`isapi_client.c:172`): `ShowsWhatWasNoted` and `CamerasTell` need `calm`. While one value goes on changing, those behind it get no turn
  (`isapi_client.c:151`): `ChangesNoticed` is about values that come to rest.
* After a reception that is not good, port 502 may make an old write again and answer it under any id (`ch395_drv.c:233`); `WritesIntact` and
  `AnswersMatch` leave such receptions out. Requests of 8 bytes are never answered (`modbus_tcp.c:116`), and whichever side the chip
  serves connections on, one of the servers hears nothing (`modbus_tcp.c:112`): `TcpAnswered` needs the one side, `WebAnswered` the other,
  and both the UART free.
* The chip unconfigured (`ch395_drv.c:67`), the address sent as text (`isapi_client.c:201`), credentials without padding
  (`isapi_client.c:57`): what comes of these is outside the repository.
