# Verification of the smart environment (SenPhy, SenPi)

TLA+ models of the programs in this repository, checked with TLC, and theorems
about them, proved with TLAPS. Every definition that stands for code is listed
with its lines in `PROJECT.json` under `map`.

## 1. The system

Boards in a 6LoWPAN network run **SenPhy** (C, RIOT). They announce themselves
by multicast and answer CoAP requests for sensor values with SenML documents.
A Raspberry Pi runs **SenPi** (Go): it listens for announcements, enters boards
into a MySQL table, asks all of them for their values at regular intervals and
stores what they answer. A **web dashboard** (PHP, JavaScript) reads that
table. The **server emulator** (C, RIOT) stands in for SenPi in tests.

| Component | State | Operations | Interacts with | Correct if |
|---|---|---|---|---|
| Device table (`SenPi/db/db_device.go`, `db.go`) | rows (ID, Address, FailedAttempts) | register, update, list (unregister: tests only) | listener, polls | one row per board, only boards, rows are never lost or renamed |
| Listener (`SenPi/riot/riot_server.go`) | receive buffer | receive, match, register | network, table | only who sends the id is registered |
| Polling (`riot_server.go`, `riot_client.go`) | device list, messages of each poll | list, discover, fetch, save, count failures | ticker, table, boards | no value twice, no silent loss, failures counted, every poll ends |
| Process (`SenPi/main.go`, init script) | flags, goroutines, channels | start, cancel, exit, restart | all of SenPi | a failed listener ends it, otherwise it keeps polling, and it does not end in silence |
| Database (`SenPi/db/db.go`) | database, tables, pooled connection | initialise, clear | process | complete behind a successful `--initdb`, dropped on demand only, always repairable |
| Datapoint table (`db_datapoint.go`) | rows | insert (list, delete: tests only) | polls, dashboard | see polling |
| Ping thread (`SenPhy/coap.c`) | where it stands | send, sleep | network | the board is registered some day |
| SenML encoder (`SenPhy/senml.c`) | output, position, room | encode | CoAP handlers | stays in the buffer, well-formed, complete |
| SenML decoder (`SenPhy/senml.c`) | tokens, records | decode (no caller) | – | terminates, stays inside of its tokens |
| Number conversion (`SenPhy/floatint.c`) | – | to text, to integer | CoAP handlers | the text is the reading |
| CoAP resources (`SenPhy/coap.c`) | one heap block per request | one handler per sensor | SAUL, gcoap, encoder | the answer tells the reading and fits every buffer on its way |
| LED driver (`SenPhy/ws2812b_driver.c`, `testbed/`; not integrated) | colour buffer | initialise, set, show | GPIO, interrupts | the stripe shows what was set, all at once |
| Server emulator (`server-emulator/main.c`) | board array | receive, button | network, gcoap | one slot per board, requests go to boards |
| Dashboard (`WebDashboard/`) | answer of one page | query, draw | datapoint table | no reading is missing or there twice, each is drawn at its time |
| Configuration (`SenPi/config/`) | one file | read, write a sample | process | what the administrator wrote stays |

What is hard here: SenPi runs its listener and any number of polls as
goroutines over one table, every access is a separate auto-committed
statement, rows are read, kept and written back as a whole, each request and
each statement can fail, and the process is killed and restarted by the init
script. On the boards, announcements are unacknowledged datagrams, receive
buffers are reused, and the emulator's button interrupt reads an array that a
thread is writing. The encoder counts positions and room in two variables that
must agree to the byte, and on its way to the packet a reading passes five
fixed buffers and a format string. A killed `--initdb` leaves half of a
database, and the dashboard asks many queries while rows come in.
`PROJECT.json` lists these hazards one by one.

## 2. Modules

| Module | Models | Notes |
|---|---|---|
| `DeviceTable` | the table and its four statements | one statement is one step |
| `Listener` | `listenToLinkLocalMulticast`, `handleRequest`, `RegisterDevice` | extends `DeviceTable` |
| `Poller` | `pollRegisteredDevices`, `GetDataPointsFromDevice`, `GetDataPoints`, `InsertDataPoint`, `Device.Update` | extends `DeviceTable`; one process per poll |
| `SenPi` | listener and polls over one table, death and restart | the properties of the server are here |
| `Registry` | abstract: a register of boards | `SenPi` implements it |
| `SenPiProofs` | – | theorems about `SenPi`: the table, then the polls |
| `Discovery` | SenPhy's ping thread, the link, SenPi's listener | extends `Listener` |
| `Startup` | flags, configuration file, `InitDatabase`, `ClearDatabase` | no process runs in it by itself |
| `Lifecycle`, `LifecycleProofs` | the goroutines and channels of `main.go`, kills, new processes | extends `Startup` |
| `Emulator`, `EmulatorProofs` | `connect_thread_handler` and `button_handler` | |
| `SenMLEncode`, `SenMLEncodeProofs` | `senml_encode_json_s` | |
| `SenMLDecode`, `SenMLDecodeProofs` | `senml_decode_json_s` | |
| `FloatInt` | `int_to_floatstring`, `int_from_float` | operators only |
| `Response`, `ResponseProofs` | a CoAP request from the handler to the packet | extends `FloatInt`, an instance of `SenMLEncode` |
| `Stripe` | abstract: a stripe whose colours change in one step | `WS2812B` implements it |
| `WS2812B`, `WS2812BProofs` | the LED driver, pulse by pulse, the stripe and interrupts | |
| `Dashboard`, `DashboardProofs` | `db_connection_datapoints.php`, `chart.js` | |
| `MC*.tla`, `MC*.cfg` | finite instances | |

Correspondence of state and code:

* **Table.** `devices` maps the ids given so far to rows; `lastId` is the
  AUTO_INCREMENT counter. Rows are never deleted, since `Unregister` has no
  caller outside of the tests. A result set may break off while it is read
  (`ReadFaults`): `rows.Next()` then returns false and the code does not ask
  `rows.Err()`.
* **Listener.** A datagram is the sequence of answers to "is byte k that of the
  application id?"; `buffer` is the first part of the receive buffer in the
  same form, so that bytes behind a short datagram stay what they were. The
  variable `listener` stands between the SELECT and the INSERT of
  `RegisterDevice`.
* **Poll.** `pc[p]` names the call that comes next: `list`
  (`GetRegisteredDevices`), `discover` (`/.well-known/core`), `update` (after a
  failed discovery), `fetch` (one resource after the other), `save` (one record
  after the other). `device[p]` is the loop variable with its own copy of the
  counter. The order of rows, resources and records is left open; a record
  belongs to one resource. `data` holds each kind of row (poll, device, record)
  with the number of rows of it. A CoAP
  exchange is one step with an answer or an error: each request dials its own
  socket, and no table access is inside of an exchange.
* **Restart** forgets all that is not in the database and marks the polls it
  interrupted as killed. Statements are atomic, so it falls between two of
  them.
* `updates`, `overlapped`, `announced` and the fields `poll` and `id` of a
  datapoint are history: properties read them, the program does not. Of the
  entries of `log` only that there is a line is code; which poll, device and
  resource it was about is history, too: `riot_client.go:79,84` and
  `riot_server.go:90,99` log the error and name neither.
* **Startup.** `schema` is what exists of the database and its two tables,
  `conf` what the configuration file holds; both outlive the process.
  `configuration` is what the process has read of the file. The administrator
  edits or removes the file at any time, also while a process runs and between
  its `os.Stat`, `os.Create` and `Write` (`EditConfig`); `found` is what the
  process found when it looked, and whether somebody has changed the file since.
  `os.Stat` may fail on a file that is there, and the code goes on then, too.
  `selected` says whether
  the next statement of `InitDatabase` runs on a connection that has executed
  `USE`; the pool may replace that connection between two statements.
* **Lifecycle.** An unbuffered send and its receive are one step; `tick` is the
  one place in the ticker's channel. `polls` is the set of goroutines
  `pollRegisteredDevices` in flight, of which the code has no bound and an
  instance as many as it has names. `Starting` is the start of `main`, up to
  its first goroutine.
* **Emulator.** A slot is stored in two steps (`SetInit`, `Memcpy`), as the code
  writes it; the button can come before, between and after them. It writes to
  the array itself, the port of every slot in use (`main.c:106`, `port`).
  Datagrams may be shorter than the id, or empty: `res` is compared with 0
  only, so what `conn_buf` held before counts (`Overwritten`). `heard`,
  `announced` and `prefixed` are history.
* **Decoder.** A string is the key it is, a value the position of its token.
  An input `jsmn` rejects and one it finds no tokens in (an empty or blank one)
  are different: the second is no error to `senml.c:34,45`, and `tokens[0]` is
  then whatever the stack holds (`FirstTypes`).
* **Encoder.** A field is the length of what its `snprintf` writes; the output
  is a sequence of tokens. The mutants and properties that look at commas and
  braces look at tokens, those about the buffer at positions.
* **Response.** `dev`, `res` and `values` are the handler's locals; `Encoding`
  is any step of `SenMLEncode`, on the pack the handler has made of them. The
  name of a device only counts by its length, the unit and the values by their
  characters. `crashed` is the end of what the C code leaves undefined, `cause`
  says why; where the program may survive (`valstring`, `curr_value`), it goes
  on with a text nobody knows (`Texts`), too. A scale is any `int8_t`: `Defined`
  says which calls of `int_to_floatstring` are defined (at most five characters,
  no fewer than the scale moves, no more zeros than `curr_value[10]` takes) and
  `PowerFits` which of `int_from_float`.
* **LED driver.** The time high of a pulse is that of its NOPs (`NopNs` each),
  the time low that of its NOPs and of the code up to the next pulse (`RestNs`,
  for each of the 24 bits: the test of a colour's bit, the loop, the stores to
  the port). What a stripe takes for a 0 and a 1 is a parameter as well
  (`Timing`); `Quoted` is the timing of the driver's own comments. `irq_state`
  is what `irq_disable` returned. An interrupt is at least as long as a pause of
  the stripe. `testbed/ws2812b_driver.c` is the same file, byte by byte, and
  `testbed/main.c` is one of the callers the model allows.
* **Dashboard.** `groups` is `$resultArray`, flattened; the order of rows of
  the same time, of names and of units is left open. `Chart` is what
  `createChart` hands to the drawing library.

## 3. Runs

| Run | Instance | Shows |
|---|---|---|
| `register` | 2 hosts, 2 polls, 2 ids, restarts | `TypeOK`, `UniqueAddress`, `OnlyAnnounced`, `NeverOvercounted`, `ExactCount` hold; `SenPi` implements `Registry` (`IsRegister`); `EveryPollEnds` |
| `polling` | a board with 2 resources and 3 records, a host without CoAP, 2 polls | `OnePointPerPoll`, `NothingAfterRequestError`, `Accounted` |
| `discovery` | 2 boards, send errors, loss, 1 restart | `AnnouncersGetRegistered` |
| `process` | 7 command lines, 4 states of the file, edits, failures and kills anywhere, up to 2 polls in flight | `TypeOK`, `InitMakesDatabase`, `EndIsExplained`, `NothingElseLost`, `FailureEndsServer`, `ServerKeepsPolling`, `RecoverableDatabase`, `NoPollAfterCancel` |
| `emulator` | 4 hosts for 3 slots; pings, foreign, too long, too short and empty datagrams; receive errors | `TypeOK`, `OneSlotPerBoard`, `RequestsReachBoards`, `SlotsAreKept` |
| `encode` | base info and up to 3 records of up to 2 fields, buffers of 0 to 45 bytes | `TypeOK`, `InBuffer`, `WellFormed`, `NothingLost`, `RoomSuffices` |
| `decode` | documents of up to 3 elements with up to 2 fields, a blank input, an error of the parser, packs of 0 to 3 records | `TypeOK`, `InBounds`, `PackIsDocument` |
| `response` | readings of either sign around 10, 15, 100 and 9999 and at the ends of an `int16_t`, scales -6 to 6, 8, 9 and the ends of an `int8_t`, names of 0, 20 and 32 characters, 4 units, tokens of 0 and 8 bytes | `TypeOK`, `AnswerTellsReading`, `PacketFits`, `OnlyKnownCrashes`, `RoundsNonNegative` |
| `leds` | a stripe of 2 LEDs with the quoted timing, room for 3, 3 colours, 48 MHz, 147 ns between two pulses and 294 ns between two LEDs, interrupts | `WS2812B` implements `Stripe` (`IsStripe`); `InterruptsComeBack` |
| `dashboard` | up to 3 rows of 12 kinds, inserted at any time, failing queries | `EveryReadingOnce`, `DrawnAtItsTime` |

Why the bounds are enough to meet the interesting cases: two polls are the
fewest that overlap; two hosts let one register between the statements of the
other and fill both ids; an INSERT that fails, for a full table as for any other
reason, is possible at every attempt. A board with a resource of one record and
one of two can lose one record, one resource or all. Three records of a pack are
a first, a middle and a last one, each with or without fields, and every buffer
size up to one that holds everything makes each check of the encoder fail once.
The application id is two positions long, so that a datagram can agree with all
or only the beginning of it. The polls and the records of one resource are
interchangeable in `polling` (SYMMETRY, safety only). The command lines are
those that take different ways through `main`; with two polls in flight one can
end while the other goes on or is started. Names around `dev_name[21]`, the
percent sign, and readings around each carry and each buffer's end are where a
conversion changes its course. A stripe shorter and longer than the frame takes
every branch of `Latch`, and the three colours tell all bytes and both ends of a
byte apart; what a pulse means depends on the clock, on the code between the
pulses and on the stripe, of which the run takes one each: the times 147 and 294
ns are seven and fourteen cycles, nothing in the repository measures them. With
scales from 5 on `curr_value[10]` overflows for readings of five digits, with 9
for all; 4 and 5 are on both sides of what `int_from_float` can do. Three rows
are a first, a middle and a last one of a chart, or two charts of which one
grows while the other is asked for.

Runs that find a disagreement between the code and what is said about it
(`findings` in `PROJECT.json` quotes the text):

| Run | What the code does |
|---|---|
| `duplicate` | a result set that breaks off counts as "not in database": second row for a board |
| `short_datagram` | an empty datagram behind an announcement registers its sender |

`register` and `polling` therefore run without read faults and with datagrams
at least as long as the id; the theorems name the same conditions as
assumptions. Other weak points that the models contain and the properties leave
out by a named condition:

* a result set that breaks off also gives a poll a part of the boards
  (`Poller!List`), so the properties of a poll speak of the boards on its list;
* of two failures that overlapping polls count for one board, one may be lost
  (`riot_client.go:98` counts on a copy): `ExactCount` speaks of polls that do
  not overlap, `NeverOvercounted` of all;
* the emulator's button may send to an endpoint that is not written yet, when
  its interrupt falls into the store of a slot, and it sends to hosts that
  never announced themselves: an empty datagram behind a ping, or one that ends
  where it still agrees with the id, is taken for the ping whose rest is left in
  `conn_buf` (`main.c:161-177`). `RequestsReachBoards` names both and says that
  there is no third way;
* `--sampleconfig` without `--config` always fails (`Startup!Stat`), although
  `readme.md` starts with it, and a sample that was interrupted has to be
  removed by hand. Between `os.Stat` and `os.Create` (`config.go:85,98`) a file
  that somebody else writes is truncated, and so is one that `os.Stat` fails on;
  `NothingElseLost` says that this is the only way a file is lost;
* a `PollingInterval` that is 0, negative or missing ends the process with
  status 0 and no message (`EndIsExplained`);
* `restart` of the init script says that it clears the database and does not;
  a server started without `--initdb` does not look whether the tables exist;
* one error of `sock_udp_send` ends a board's announcements
  (`Discovery!SendFails`), so `AnnouncersGetRegistered` speaks of boards that
  get to send again and again;
* behind base info without fields an empty first record leaves `[` without `{`
  (`SenMLEncode!Mistreated`), base info with fields and only empty records
  gives `[{...]` and success, although the code means it to be an error
  (`senml.c:444`), and an empty last record behind one that ends at
  the last byte is an error although everything fits (`RoomSuffices`);
* a last key without a value takes the decoder's `j` below zero
  (`SenMLDecode!IsDocument` excludes it), and a document with more records than
  the pack gives -1, not the excess `senml.h` promises. Of an empty or blank
  input `tokens[0]` is read although there are no tokens (`senml.c:50`,
  `InBounds` names it as the exception);
* scale 0 loses the last digit, readings with fewer digits than their scale,
  readings of five digits with a sign and readings with more than nine
  characters after their zeros are undefined (`FloatInt!Defined`). Negative
  readings are cut off instead of rounded, and the power of ten of a scale
  beyond 4 does not fit the `int16_t` it is cast to (`PowerFits`;
  `RoundsNonNegative` is about the rest; `int_from_float` has no caller in the
  program);
* a missing sensor, a read that fails and a `malloc` that fails crash a board
  (`OnlyKnownCrashes`); the handlers that are there but not offered could
  overflow `values[25]` with three values of eight characters;
* `ws2812b_init` compares `led_count` with nothing, `MAX_LED_NUM` included
  (`WS2812BAssumption`);
* the LED driver never worked. The report (`doc/main.tex:70-75`) says that two
  data sheets contradict each other, that both timings were implemented, that
  neither worked, and that the driver was not integrated. The comments at
  `SEND_ZERO` and `SEND_ONE` quote one of the timings; the comment in
  `ws2812b_show` (`ws2812b_driver.c:230-232`) says that the LOW times need no NOPs
  at all, and the code has 33 and 8. By the quoted timing 8 NOPs are too short
  (`QuotedTiming`). So `IsStripe` does not say that a stripe at hand works: it
  says that one that takes the pulses as they come out (`TimingAssumption`) is
  driven correctly by the rest of the driver, its bit order, its frames and its
  handling of interrupts;
* on the dashboard rows without a name or unit vanish, and with them those with
  an empty one come twice (`Labelled`); a chart of readings of several kinds is
  shifted in time, and the characters of a `DataValue` become columns
  (`AllOf`); boards are not told apart.

## 4. Fairness

* `SenPi!FairSpec`: weak fairness of each poll's step. The Go scheduler runs
  every goroutine that can run, and a request or statement returns with an
  answer or an error. Ticks, datagrams and restarts are not fair.
* `Discovery!Spec`: threads and goroutines run (weak). Strong fairness of
  arrival, of delivery and of the two statements of a registration says that
  none of them fails for one board every time, forever; without that nobody
  could promise a registration. That the board gets to send again and again is
  a premise of the property, not an assumption.
* `Lifecycle!Spec`: weak fairness of the goroutines, of the ticker and of the
  end of polls; strong fairness of the two cases of `select`, which picks at
  random among those that are ready. Strong fairness of the SQL statements of
  `InitDatabase` and `ClearDatabase` says that none of them fails forever; that
  somebody gives the commands again and again is the premise of
  `RecoverableDatabase`, and starting, editing and killing are not fair.
* `WS2812B!Spec`: weak fairness of the driver's own steps; the thread runs on
  while interrupts are disabled, and a sleep ends.

The encoder, the decoder, the emulator, the CoAP resources and the dashboard
are checked for safety only.

## 5. Proofs

Every theorem below is for all values of the constants. Each rests on an
inductive invariant that is a definition of the component's module. The
invariant was checked with TLC on the instances of section 3 before it was
proved.

`SenPiProofs` (any sets of hosts, polls and resources):

1. `TypeCorrect`: `TypeOK` is inductive by itself.
2. `SnapshotsCurrent`: `SnapshotInv`, the link between the copies polls hold
   and the table. A copy names an existing row with the same address, and its
   counter is at most the number of failures written (one more between
   `FailedAttempts++` and the UPDATE). It is inductive because rows are never
   removed or renamed and the history only grows (`Grows`); without it an
   UPDATE could write any address into any row.
   `NeverOvercountedHolds` is a part of it.
3. `UniqueAddressHolds` (assuming `ReadFaults = FALSE`) by `UniqueInv`: what the
   SELECT found missing is still missing at the INSERT, because there is one
   listening goroutine and polls do not add or change addresses (by 2).
4. `OnlyAnnouncedHolds` (assuming that no datagram is shorter than the id) by
   `AnnouncedInv`.
5. `ExactCountHolds` by `ExactInv`: as long as no poll was started over another
   one, the copies are current and of distinct rows.
6. `ImplementsRegister`: under the assumptions of 3 and 4, `Spec => IsRegister`.
   Every step is `Announce`, `Enter` or leaves the register unchanged.
7. `PollsKeepAccount`: `PollInv`, what a poll has not settled it still holds.
   Each device of its list is still to come, in hand, or has every record
   stored or its loss logged (`ListCovered`). Of what is still to come it has
   stored and logged nothing (`ListOK`), and of the device in hand nothing is
   stored before all resources were asked, no request failed, and each record
   is in hand or settled (`CurrentOK`). `NothingAfterRequestErrorHolds`,
   `AccountedHolds` and `OnePointPerPollHolds` are read off it. The last one
   also needs `ReadFaults = FALSE`, for otherwise two rows may have the same
   address (by 3). A step of one poll does not disturb the others because a
   stored record and an entry of the log carry the poll that made them.

`EmulatorProofs` (any number of slots and boards): `TypeCorrect`,
`OneSlotPerBoardHolds`, `SlotsAreKeptHolds`, `RequestsReachBoardsHolds`, by
`SlotsInv` (a slot with a board is in use, each board has one, and only the slot
being entered is in use without a board), `EnteringInv` (the slot the thread is
about to fill is the first free one, and its board is in none) and `HeardInv`
(who has a slot, or is about to get one, sent the id or completed what earlier
datagrams had left of it; and every byte of the id in `conn_buf` came with some
datagram). None assumes anything about the length of datagrams. That the scan of
the slots finds the first free one is an argument by the least element of a set
of naturals.

`LifecycleProofs`: `TypeCorrect`, `InitMakesDatabaseHolds`,
`EndIsExplainedHolds`, `NothingElseLostHolds` and `NoPollAfterCancelHolds` by
`StartupInv`, which ties the position of `main` to the configuration it has read,
to the part of the schema it has made and, inside of `WriteSampleConfig`, to what
the file can be by then, edited by others or not; and by `SchedulerInv`: the
scheduler is started last, and `main` ends only behind it.

`SenMLEncodeProofs` (every pack, every size of the buffer):

* `InBufferHolds` and `RoomNeverWraps` by `RoomInv`: position and room add up to
  the size of the buffer (less the byte reserved for the NUL inside of the
  loop), and wherever the code writes a brace without asking there is a byte for
  it, or the brace it wrote before is taken back.
* `TypeCorrect` by `PosInv`: whether anything stands behind the bracket is the
  same in `ins_pos` and in the output, so that what the code steps back over is
  there.
* `WellFormedHolds` by `FlagInv` (what the flag `insert_opening_brace` says of
  the records read so far) and `FormInv` (the output is the beginning of an
  array of objects, inside of an object or between two).
* `NothingLostHolds` by `TallyInv`: the tokens in the output are those of the
  part of the pack in front of the loop, one `field` for each field passed, one
  `rbrace` for each record closed and one `lbrace` more while an object is open.
  Of a mistreated pack one `lbrace` may be missing.
* `RoomSufficesHolds` by `PlaceInv`: the position is that of the bracket, the
  braces and the characters of the fields in front of the loop, so a call that
  fails tells how many characters the whole pack needs at least. Two places need
  more than arithmetic: the test for four bytes behind base info asks for no more
  than a document needs because a field has two characters at least
  (`WidthAssumption`), and the test for records that were all empty fails no
  pack with a record that has fields, since the position is past that of the end
  of the base info.

`SenMLDecodeProofs` (every document of flat objects, every pack):

* `DecodeInBounds` (with the first token of a blank input as its exception) and
  `CountersNeverWrap` by `CountInv`: `i` and `j` add up to
  the number of tokens, the loop never stands at a value, it stands at a key
  only when it knows that it is inside of an object, and then there is a record
  to write to. Without them the loop could take a value for a key and look for
  its value behind the last token.
* `PackIsDocumentHolds` by `PartInv`: at every step the pack is what a reading
  of the document gives for its part in front of the loop. It uses the
  assumption that no key of a field is also a key of a value.

`ResponseProofs`: `TypeCorrect`, `PacketFitsHolds`, `OnlyKnownCrashesHolds` and
`RoundsNonNegativeHolds` by `HandlerInv` (where the handler stands determines
what it has allocated, read and answered) and `DocumentInv` (a sensor that is
offered has one value, of which `strncat` takes ten characters at most, whatever
an undefined conversion has left in `curr_value`; so the encoder stands at a
known place of a document whose length is bounded). `AnswerTellsReadingHolds` by
`AnswerInv` (the texts are those of the reading at hand, and an answer carries
them and the unit) and the lemma `TextReads`: what `int_to_floatstring` writes of
a regular reading stands for it, for every `int16_t` and every `int8_t` scale
(regular: the call is defined, the scale is not 0, and there are as many digits as
it moves). `RoundsNonNegativeHolds` is for the scales of `PowerFits`. The proof of
`TextReads`
follows the characters: `"%d"` writes the sign and the figures of the number,
the function leaves them in their order and puts the point or the zeros where
the scale says, and whoever adds the digits up again, from the left, gets the
number or the number times a power of ten. A text has nine characters at most,
so the induction over its characters is spelled out (`Upwards`).

`WS2812BProofs` (any number of LEDs, any colours): `ImplementsStripe` by
`FrameInv`. The pulses on the line since the last pause are the first ones of the
frame of the colours set and between frames the line is empty. The colours do
not change while they are sent, and interrupts being off no gap cuts a frame in
two; so every step is a step of `Stripe` or leaves it unchanged. It rests on
`TimingAssumption` alone for what a pulse means, not on a clock or a data sheet.
`QuotedTiming` says what that assumption comes to for the timing of the comments
and a core of 40 to 55 MHz: the code behind bit k must take between 300 ns less 8
NOPs and 1000 ns less 33 NOPs, for each k.

`DashboardProofs` (any rows, names and units, any INSERTs between the queries):
`EveryReadingOnceHolds` by `AskedInv` (no two groups have the same name and unit,
and what is still to be asked for has no group), `GroupsInv` (a group's readings
are of its name and unit) and `CoveredInv` (a reading that was there when the page
began is in a group or still to be asked for). `DrawnAtItsTimeHolds` by `OrderInv`
(the readings of a group stay in the order of their times, since no row changes)
and lemmas about the operators of `chart.js`: the series of readings of one kind
is that of the rows, `createChart` finds that series and no other, and `_.zip`
turns columns into rows, whatever their lengths. That there is a longest column
is an argument by the least element of a set of naturals.

Assumptions. Those of the modules are on the types of the constants
(`TableAssumption`, `ListenerAssumption`, `PollerAssumption`,
`EncodeAssumption`, `ResponseAssumption`, `DashboardAssumption` and the like)
and, in `DecodeAssumption`, on what the JSON parser returns and on the names of
the fields; `WidthAssumption` says that what `snprintf` makes of a field has the
quotes of its name. `UnitAssumption`, which `AnswerTellsReadingHolds` alone
uses, is what `coap.c` takes for granted of RIOT's units: four characters at
most, and no percent sign but `"%"` itself. `TimingAssumption` is the one on
hardware: the stripe takes the pulses of `SEND_ZERO` for a 0 and those of
`SEND_ONE` for a 1, low times included, and does not take one for both. TLC
evaluates each on the instances. Those of single theorems about SenPi
(`ReadFaults = FALSE`, no short datagram) are hypotheses in their statements;
the runs `MCDuplicate` and `MCShortDatagram` show that they are needed.

Every invariant and action property that a passing run checks is a theorem.
Model-checked only are the liveness properties (`EveryPollEnds`,
`AnnouncersGetRegistered`, `FailureEndsServer`, `ServerKeepsPolling`,
`RecoverableDatabase`, `InterruptsComeBack`): under weak fairness they need
ENABLED, which is out of the prover's reach.

## 6. Not modelled

* `Unregister`, `Delete` and `GetDataPoints` of SenPi: called by the tests only.
* The CoAP and MySQL libraries: a request or a statement is answered or fails.
  Message ids, tokens and ports are in the plan (`Exchange`).
* Connections and their exhaustion: each function opens its own. The CoAP
  connection (`coap.Dial`, `riot_client.go:16`) and the rows of the SELECT in
  `RegisterDevice` (`db_device.go:26`) are never closed, so a long-lived server
  may run out of sockets or database connections; in the models that is one more
  way a request or a statement fails. Only `InitDatabase` depends on which
  connection of the pool it gets.
* Two SenPi processes at once: `restart` of the init script kills the old one
  first; `start` does not, and neither does a second call of the program by hand.
* What only prints: SenPhy's sensor test, the emulator's response handler, debug
  output, the drawing of charts, the dashboard's static pages.
* Documents, stylesheets, minified libraries, tests.

## 7. Plan

Done, in this order: `DeviceTable`, `Listener`, `Poller`, `SenPi`, `Registry`;
`Discovery`; `Emulator`; `SenMLEncode`; `SenMLDecode`; `FloatInt` and `Response`;
`Startup` and `Lifecycle`; `Stripe` and `WS2812B`; `Dashboard`; the proofs of
section 5.

Next, in this order:

1. `Exchange`: SenPi's requests and boards' answers as datagrams, with message
   id 0, no token, ports that are used again, and late or repeated answers.
