# Verification of the ESP8266 relay board firmware

This directory holds TLA+ models of the firmware in `src/firmware`, the TLC
runs that check them on small instances, and TLAPS proofs of some of their
properties for every instance. Paths below are relative to `src/firmware/`.

## The system

The firmware runs on the ESP8266 SDK: one thread, no preemption between
callbacks (timers, network callbacks, posted tasks), and interrupts that may
come at any instruction of them. The only interrupt handler of the project that
touches shared state is that of the serial port. Everything a handler does runs
to the end before another handler starts; what is concurrent is (1) the serial
interrupt, (2) the order in which the network stack, the timers and the task
queue call back, (3) the power supply.

| Component | Code | State | Operations | Talks to |
|---|---|---|---|---|
| Configuration store | `user/config.c` | `sysCfg`, `saveFlag`, three flash sectors | `CFG_Load`, `CFG_Save` | called by every settings page, by the relay switches (latching), by the serial interrupt |
| Byte ring | `user/ringbuf.c` | storage, `p_r`, `p_w`, `fill_cnt` | `RINGBUF_Put`, `RINGBUF_Get` | under the message queue |
| Message queue | `user/mqueue.c`, `user/proto.c`, loops of `user/mqtt.c` | frames in the ring | `QUEUE_Puts`, `QUEUE_Gets`, the loop that makes room | MQTT client |
| MQTT client | `user/mqtt.c`, `user/wifi.c`, callbacks in `user/user_main.c`, `user/broadcastd.c` | `connState`, connection block, ticks, `sendTimeout`, `pending_msg_type` | timer, task, six network callbacks, connect, publish | network stack, relays, deep sleep |
| MQTT codec | `user/mqtt_msg.c` | a buffer | build and take apart packets | MQTT client |
| Relays | `user/io.c`, `user/cgi.c`, `user/stdout.c`, `user/user_main.c`, `user/thermostat.c`, `user/cgithermostat.c` | `currGPIO..State`, pins, relay fields of `sysCfg` | six ways to switch a relay, start-up | store, thermostat |
| Thermostat | `user/thermostat.c` | relay 1, thermostat fields of `sysCfg` | `pollThermostatCb` | sensors, clock, relays |
| Calendar | `user/time_utils.c`, `wd` | none | year, month, weekday, time of day | thermostat |
| Time client | `user/sntp.c` | clock, retry timers | request, response, retry | thermostat |
| Serial console | `user/stdout.c` | receive buffer | interrupt handler | relays, store |
| HTTP server | `user/httpd.c` | pool of connections | connect, receive, sent, disconnect callbacks | every page |
| Web files | `user/httpdespfs.c`, `user/espfs.c`, heatshrink decoder | open file, decoder | open, read, close, templates | HTTP server |
| HTTP client, broadcast | `user/httpclient.c`, `user/broadcastd.c` | request buffers, timers | lookup, connect, receive, disconnect | network stack |
| Wi-Fi set-up, reset button | `user/cgiwifi.c`, `user/wifi.c`, `user/io.c` | scan, attempt, timers | scan, connect, status, reset | SDK |
| PWM, LED string, sensors | `user/pwm.c`, `driver/*`, `user/ds18b20.c`, `user/dht22.c` | buffers, timers, levels of a bus | set, poll, convert | thermostat, pages |
| Login and the table of addresses | `user/auth.c`, `user/base64.c`, `builtInUrls` of `user/user_main.c` | who logged in last | match, check a password | HTTP server, settings |
| Name server | `user/captdns.c` | none | take apart a packet, answer it | network stack |
| Image of the pages (host) | `mkespfsimage/main.c`, `lib/heatshrink` | an image, an encoder | compress, write, find a file | web files |

`PROJECT.json` lists every component with its status, and the hazards: what is
hard to test in this code, each at its line with the properties aimed at it.
In short, what is hard here:

* **Power failures** between any two flash calls of a save, with a load that
  looks at the first word of the record only; and settings of the pattern, the
  Wi-Fi and the relays that must survive a restart.
* **Interrupts**: the serial one, which switches relays and saves the
  configuration in the middle of a handler that does the same; that of the PWM,
  which reads a table that `pwm_start` writes.
* **Callback order** in the clients and the server: lookups that are answered at
  once, late confirmations, Wi-Fi that comes back while a connection is up, a
  timeout that wakes nobody, answers that come twice, a connection that breaks
  off without a disconnect callback, two timers of which the first belongs to an
  earlier request.
* **Pieces**: packets, bodies, files, templates and answers that arrive or are
  sent in pieces cut anywhere.
* **Limits**: a ring that is full in the middle of a message; unsigned
  comparisons; midnight; an unset clock; a pool of connections; a table of
  tokens; a line that is longer than its buffer.

## The modules

| Module | Models | What it promises is stated as |
|---|---|---|
| `ConfigStore` | `CFG_Save`, `CFG_Load`, flash call by flash call, power failures, the interrupt's save | abstract store `AtomicConfig` |
| `RingBuf` | `RINGBUF_*` | abstract queue `ByteFifo` |
| `MsgQueue` | framing, escaping, parsing, the loop of `MQTT_Publish` | abstract queue `LossyQueue` |
| `Relays` | everything that switches a relay or latches its level | invariants |
| `WallClock` | time as the thermostat computes it | the calendar in `MCHeating` |
| `Thermostat` | one poll of the thermostat, with a room as its plant | action properties, stability |
| `Jsmn`, `SchedulePage` | the tokenizer as it is built, and the page that posts and reads a schedule through it | what is read back is what was posted |
| `MqttClient` | connection, timer, task, all callbacks | invariants, leads-to |
| `MqttReceive` | packets as bytes (`mqtt_msg.c`); the receiver's loop over what a segment holds | what is delivered and answered, against the list of packets sent |
| `Sntp` | the time client: lookup, request, retry, answers | one chain of requests |
| `HttpClient` | one request, from lookup to the caller's callback | what the caller gets, what memory is left |
| `Httpd` | pool of connections, receive, sent, disconnect and reconnect callbacks | slots against the connections of the stack |
| `Login` | the walk through the table of addresses, the login before two parts of it | who is let in, and which handler answers |
| `HeatshrinkTokens` | what is in a compressed file | |
| `HeatshrinkEncoder` | the encoder, as `mkespfsimage` drives it | the tokens expand to the file |
| `EspFsImage` | the image that `mkespfsimage` writes, `espFsOpen` | each name and where its bytes are |
| `EspFs` | `espFsRead` with the heatshrink decoder | the file as a sequence |
| `EspFsTemplate` | expansion of templates | the page with its tokens replaced |
| `SettingsForms`, `SettingsPages` | all inputs of seven pages; page, browser, handler | a save stores what the form shows |
| `Wifi` | joining a network with its two timers, watching the link, scanning, the reset button | reachability of the board |
| `SerialLine` | the receive buffer of the serial interrupt | the line as a sequence |
| `Pwm` | `pwm_start` and the timer interrupt with two tables | length and share of a period |
| `LedString` | the pattern timer, the page, published colours, restarts | action properties |
| `Ds18b20` | the search for addresses and the poll | the set of devices on the wire |
| `Dht22` | a poll, pulse by pulse, with interrupts locked | the bytes the sensor sent |
| `I2cMaster` | the two lines of the bus, level by level, and the SI7020 on it | the bytes the sensor took for this reading |
| `CaptDns` | names in the questions and the answers of the name server | the names that were asked |
| `..._proofs` | theorems about `ConfigStore`, `Wifi` (`Settings_proofs`), `RingBuf`, `MsgQueue` (`Queue_proofs`), `Relays`, `MqttClient`, `Sntp`, `HttpClient` (`Network_proofs`), `SerialLine`, `Ds18b20`, `LedString`, `Pwm`, `Dht22`, `I2cMaster` (`Devices_proofs`), `Httpd`, `Login` (`Web_proofs`), `WallClock`, `Thermostat` (`Heating_proofs`) | |

They build on each other by refinement: `RingBuf` implements the queue of bytes
that `MsgQueue` uses as a sequence, `MsgQueue` implements the queue of messages
that `MqttClient` uses, and `ConfigStore` implements the store that `Relays`,
`LedString` and `SettingsPages` use as one variable. `Httpd` knows of a file how
much each read gives, which `EspFs` computes. `Thermostat` and `WallClock` are put
together by EXTENDS; in `Relays` the thermostat is any switch of relay 1 while it
is on. `SchedulePage` uses the operators of `Jsmn`, `SettingsPages` the tables of
`SettingsForms`, and `EspFs` reads the tokens of `HeatshrinkTokens` that
`HeatshrinkEncoder` makes.

`MCSettings`, `MCQueue`, `MCHeating`, `MCDevices`, `MCNetwork` and `MCWeb` each put
several components side by side that share no state at this level of detail. A
variable `part`, chosen in the first state, says which of them moves; the
variables of the others have the value `None` or stay as they are. A property of
a component is stated in its own module and taken over under the guard
`part = ...`, several of them together where they answer one question.

The `MC...` modules hold the sets and definitions of the TLC instances, `MCHeating`
also the calendar that `WallClock` is compared with; `Relays` and `MqttClient` are
run as they are, with the constants of their `.cfg`.
Operators whose comment calls them faulty (`Advance_Late`, `Latch_Forgotten`,
...) are not part of any specification. Each is a plausible error in the
operator after it; putting it in that operator's place makes the property named
for it in `PROJECT.json` fail, which shows that the property depends on the code.

### How state and actions correspond to the code

**ConfigStore.** `slot[0]`, `slot[1]`, `flag` are the sectors `CFG_LOCATION+0`,
`+1`, `+3`; a configuration is one value, `Blank` is contents without the
`CFG_HOLDER` word and `Torn` contents that have it and are damaged. `pc[c]` is
how far context `c` (the handlers, or the interrupt) is in `CFG_Save`: reading
the flag and changing `sysCfg` happen in the step before (`ModifyAndSave`,
`Interrupt`, `LoadCheck`), then `Branch`, `EraseSlot`, `WriteSlot`, `Mark`
(`saveFlag.flag = ...`), `EraseFlag`, `WriteFlag`. `saveFlag` is one global for both contexts, as in
the code. Flash is modelled by what it does: an erase sets all bits, a write
clears some, a call cut short leaves old, new or damaged contents. History
variables: `raced` (the interrupt has saved while the handlers' save was inside
`Window`), `nested` (how many such saves, up to 2).

**RingBuf.** Fields as in the struct, pointers as offsets. `ret` and `got` are
the results of the last call.

**MsgQueue.** `ring` is the bytes between the pointers. `Publish`, `Puts`,
`Evict` are the loop of `MQTT_Publish`; `PROTO_AddRb` leaves the head of a frame
that did not fit, in `Puts` and in `Answer`, the `QUEUE_Puts` of
`mqtt_tcpclient_recv`, which evicts nothing. `cutOff` is history: an answer was
cut off and the ring was not empty since. `Parsed` starts with `isBegin` either way, as `PROTO_Init`
does not set it.

**Relays.** A handler is a sequence of steps (`Store`, `Drive`, `Copy`, `Latch`,
`Save`), the serial command is one step (`SerialSwitch`) and may come between
any two. `todo` holds the switches the handler has still to do, `seen` the
levels it has read. `Drive` passes the level just stored or the variable read
again, as a compiler may choose. `Restart` loses RAM. A level is 0 or 1: `ioGPIO`
tells only zero from the rest.

**WallClock.** Seconds are pairs of days and seconds of the day, so that the 32
bits of `unsigned long` fit TLC's integers; the wrap at 2^32 is kept. The
subtracting loops of `get_year` and `get_month` are the unique year and month
that pass their test, including its `>` at midnight.

**Thermostat.** `Poll` is `pollThermostatCb`: its early returns, the manual
mode, the loop over the slots up to the first inactive one (`AfterSlot` is one
turn of it). `Unsigned` is the
conversion the comparison makes. `Modulus` is 2^32 in the code and 2^20 in the
runs, above every value the comparison can tell apart.

**MqttClient.** Variables have the names of the fields. A connection block is a
value of `Conns`; `stack[c]` is what the network stack is doing with it, whether
or not the client still refers to it. Network callbacks are actions with a block
as parameter; `Called` notes one that comes for a block that was freed. Bodies
of `connectedCb` and `publishedCb` are part of the callback that runs them. `posted`
merges the events of the task's queue: each makes the task look at the state
once. `nowhere` is history: the last lookup found 0.0.0.0, which is not connected to.
`mqtt_use_ssl` is off: with it on, the client connects to nothing and sends nothing,
as its calls for that are comments. Here the queue counts messages, not bytes.

**Sntp.** `timeouts` counts what is armed of the two functions, `lookups` what is
asked of the resolver: lwIP may hold several, and the code cancels by function.
`late` counts answers that came during a lookup (up to `MaxLate`). Fields of an
answer that the code does not compare are left out; whether it is of the right
mode and size is part of `Recv`.

**HttpClient.** `buffer` is the growing answer, in words of which `Version`,
status and the empty line are told apart; `blocks` the memory that is allocated.
`receive_callback` takes any piece, `disconnect_callback` may come at any time.

**MqttReceive.** A packet is built and read byte by byte. `Half` is 128
in the code and 8 in the run, so that a length of two bytes is short. `Segment`
delivers any number of bytes; `ReadConnack` and `ReadPacket` are one turn of
the loop from `READPACKET`. `cut` is history: a segment ended inside a packet;
`skipped`: a packet stood behind one that is not a PUBLISH.

**Httpd.** A slot has the fields of `HttpdConnData` and its private data that a
decision depends on. `stack` is what the network stack does with a connection's
memory, and `Discon` reads it as the code does: the callback is not told which
connection is gone. A byte of the head or the body is a step, as where segments
end makes no difference. A handler is known by what it does: answers at once
("cgi", "none"), sends a file by reads, does nothing more ("mute"). A body of more
than `MAX_POST` calls the handler once for each part, with `cgiData` cleared: a
file is then opened again, and `forgotten` counts (up to `MaxForgotten`) those that
nobody can close any more.

**EspFs, EspFsTemplate.** The actions are the states of the decoder
(`PollTag`, `PollIndex`, ...) and the loop of `espFsRead` around them. A file is a
sequence of tokens; its bits are counted, not stored. A call of the template's
handler comes from the sent callback of the one before (`called`): a chunk of which
nothing is sent ends the page.

**HeatshrinkEncoder, EspFsImage.** The actions are the states of the encoder, with
its buffer byte by byte; bits are counted. The index that speeds up the search is
taken to find what it is an index of. `handleFile` keeps what the encoder gave only
if it is no longer than the file. In the image a header is one value at its
position, and a position at which there is none is a broken image.

**Login.** `builtInUrls` is the table with every option of the build, in its order.
A walk goes on from the entry after the last one (`GoOn`); a step is the next
entry that matches. What a browser sends as user and password is put into base 64 and
taken out of it bit by bit, as `base64_decode2` does. Addresses are compared as they
came, and files are looked for without the slashes in front of them (`Stripped`), as
`espFsOpen` strips them.

**CaptDns.** `packet` is the bytes after the header, `p` is `labelPtr`. A turn of the
loop of `labelToStr` is a step; `strToLabel` is one operator.

**I2cMaster.** A call of `i2c_master_setDC` is a step, and the routines above it are
sequences of such steps (`todo`). The sensor is the chip: it counts clocks,
shifts bits, acknowledges, and either holds the clock or refuses its address
until it has a reading. The board restarts at any step, the sensor does not.

**SettingsForms, SettingsPages.** `AllInputs` is read off the templates and the
handlers: name, kind, which check box disables it, which boards show it, how it
is taken. `Open` shows, `Edit` and `Submit` are the browser, `Handle` is the
handler with `httpdFindArg` and `httpdUrlDecode` on the characters of the body.
One browser posts at a time.

**Wifi.** Timers are flags: each is armed or not and fires at any time after.
`link` is the SDK's; `lastWifiStatus` the firmware's idea of it. `proved` and
`doubt` are history. The button is polled every half a second (`ButtonDown`,
`ButtonUp`), and somebody presses it or lets it go at any time between two polls
(`Press`); `held` counts the polls that have seen the last press, and `forced` is
`held` when the button restarted the board.

**SerialLine.** `Receive` and `Newline` are the interrupt for one byte. The
pointer goes up to `RX_BUFF_SIZE`, one past the last byte, as in the code, and
the buffer of the model has that byte too.

**Pwm.** `pwm_start` is `Fill`, then `Start` with the timer down or `Check` and
`Toggle` with it running; the interrupt, `Switch` or `EndOfPeriod`, may come between
them. `Ticks` keeps times as the 16 bits of `h_time` do (`user/pwm.h:21`, `Modulus`);
`End` is that of the period. `high` and `ran` are history, the ticks of this period.
**LedString**: a frame is a step.
**Ds18b20**: a bit of the search is a step, `selected` are the devices that still
answer. Addresses come as they were sent, so that the check of their `crc8` in
`ds_init` always succeeds and is left out. **Dht22**: a pulse is a step; `inbyte` takes the bits of a byte, as in the code, and
which of them is misread is any.

**Jsmn, SchedulePage.** A text is a sequence of characters that the tokenizer
tells apart. The page's handler steps over the tokens as the code does.

## Runs

| Run | Checks | Shows |
|---|---|---|
| `config` | `PartsTypeOK`, `NoTornLoad`, `StaysInReach`, `Atomic`, `SavedOnReturn`, `FormsSaved`, `StationLives` | the store is one record replaced at an instant, through every power failure and every save of the interrupt outside `Window`; what a page shows is what its handler stores; a board gives up its access point only for a network it has been in |
| `queue` | `PartsTypeOK`, `FramesRight`, `IsFifo`, `PublishEnds`, `IsLossyQueue` | the ring is a bounded queue of bytes however often the pointers wrap; unfinished frames never run into others, the loop ends, whole messages are dropped oldest first and nothing else is ever sent |
| `relays_board` | `ShownIsDriven`, `LatchedHolds`, `ManualLatched` | on the relay board shown and driven levels agree, latched levels survive restarts and interrupts, a manual switch with latching keeps the thermostat off |
| `heating` | `PartsTypeOK`, `CalendarRight`, `ScheduleRight`, `SwitchingRight`, `LoopRegulates` | the calendar of every day from 2015 to 2037; the relay changes only for a setpoint in force; the room comes into the band and never leaves it; a posted schedule is read back as it was posted |
| `devices` | `PartsTypeOK`, `LineRight`, `PulsesRight`, `ThermometersRight`, `HumidityRight`, `PulsesReached`, `LedsRight`, `SensorsAnswer` | commands are read from their own line; each period of the PWM lasts as long as its table, with the share of each output, also where the ticks of a period do not fit `h_time`; the search finds every thermometer once; a frame that was misread is no reading; what was published on the LEDs stays; a reading over I2C is the one the sensor took for it, also after a restart in the middle of one |
| `mqtt_callbacks` | `NoDangling`, `SendsOnlyWhenUp` | every order of callbacks, with cached names, Wi-Fi coming back, sleep and waking |
| `network` | `PartsTypeOK`, `OneChain`, `HttpRight`, `DeliveryRight`, `RequestsEnd`, `MqttMoves` | one question about the time at a time, and always a next one; a caller learns once how its request ended; publishes are delivered in order; the name server answers with the names it was asked, also where a name points into another; attempts to connect end and queued messages are sent |
| `web` | `PartsTypeOK`, `ConnectionsRight`, `FilesRight`, `WebAnswers` | slots match connections, each file is closed once but for those a long body opens again, and each request is answered once; no handler of a protected address is called without the password, and who knows it does; a packed file expands to the file, and is found under its name; files and templates come out whole wherever they are cut |
| `relays_forcedoff` | `OffMeansOff` (violated) | with latching, relay 1 that was forced off comes back on after a restart |
| `thermostat_cold` | `SwitchedForReason` (violated) | a reading below zero is compared as a huge number |
| `mqtt_cached` | `ConnectingEnds` (violated) | a name the resolver knows leaves the client in `TCP_CONNECTING` |
| `button_presses` | `ShortPressesIgnored` (violated) | with six polls in the code, six short presses that a poll sees each are taken for one of three seconds |

Exceptions the properties name are part of the result:

* `NoTornLoad` and `Atomic` stop where the interrupt saves between the first erase
  and the erasing of the flag (`raced`); `SavedOnReturn` allows one save by the
  interrupt, not two.
* The second half of `FramesRight` (a ring that is not empty has a message) stops
  from an answer to the broker that was cut off until the ring is empty
  (`cutOff`).
* `NoDangling` and `SendsOnlyWhenUp` stop when Wi-Fi comes back while the client
  is connecting or connected (`cut`), because `MQTT_Connect` then frees a block
  the stack still uses.
* `CalendarRight` leaves the date out in the first second of a day, in which the
  loops still name the month before (not the weekday, which comes out right).
* `FormsSaved`: a text is not made empty; a quote cuts what the page shows of it;
  a percent sign in a setting of MQTT is taken for a format; a box that is
  disabled is not sent and so cleared; a body of more than `MAX_POST` characters
  is handled in parts, of which the later ones clear the boxes they lack. The two
  boxes of the sensor page are always shown empty, as its template asks for other
  tokens than `tplSensorSettings` fills in (`user/cgi.c:1018`), and so cleared by a
  save.
* `StaysInReach` stops when another request was waiting as the timer of an earlier
  one fired, or the network was not saved (`doubt`).
* `OneChain` allows a second chain for every answer that came during a lookup.
* `HttpRight`: after a lookup that failed three blocks are not freed, and the body
  of a POST that was not sent is not either.
* `DeliveryRight` speaks of segments that end where packets do, and of a PUBLISH
  with no other kind of packet before it in its segment.
* `ConnectionsRight` exempts connections that broke off, whose slots
  `httpdReconCb` does not free, and stops when a new connection comes in the
  memory of one (`mixed`); a body longer than the buffer is answered once per
  part, and a file that such a body is posted to is opened once per part, of which
  only the last is closed (`forgotten`; `user/httpd.c:521-526`, `:370`). `WebAnswers` exempts handlers that send nothing, and heads longer than
  `MAX_HEAD_LEN`.
* `FilesRight` exempts a compressed file whose last full read took the last of
  the input (`cut`), and a chunk whose replacements do not fit the send buffer.
* `MqttMoves` stops from a lookup that found 0.0.0.0 until the next one (`nowhere`):
  `mqtt_dns_found` (`user/mqtt.c:82`) then connects to nothing, and the client stays
  in `TCP_CONNECTING`.
* `PulsesRight` and `PulsesReached` exempt a second request in one period
  (`hurried`), and the shares of `PulsesRight` the period in which the timer starts.
  Where the ticks of a period do not fit the 16 bits of `h_time`, `PulsesRight` says
  what comes out instead of what was asked for. That is so at 50 Hz, the only
  frequency that is asked for (`user/user_main.c:561`): of 100000 ticks 34464 are
  kept, so that a period lasts 6.9 ms. Up to a duty of 87 an output is high for the
  right time of a period that is too short; from 88 to 167 it falls after `End`, as
  the last, and step 5 of `pwm_start` takes that away, so that it is high for good;
  from 168 on its own time has lost its high bit too, and it is high for little.
  Periods fit from 77 Hz on.
* `ThermometersRight`: a shorted wire reads as a good zero; with four sensors the
  poll reads one place past the table.
* `LedsRight`: the last pattern is not restored by a restart.
* `HumidityRight` and the I2C bus: nothing is promised after a reading that used up
  most of its tries, or an initialisation while the sensor held the clock or was
  at work, until a later call has found the sensor at rest (`spoilt`).
* `DeliveryRight` and the name server: packets are those that a resolver makes. Names
  have a label at least, no label has a dot in it, and pointers go into the
  first name, which is written out; of a question for the root the footer is read one
  byte too late.
* `ConnectionsRight` and the login: the table is as it is built with every option;
  `WelcomeWhenKnown` lets the board forget a client when another one logs in, as
  only one address is kept. An address with two slashes in front is not one of the
  table: it gets the file of that name, as it is in the image, and never the
  handler of the address (`OwnHandlerAnswers`).

Properties that are stated in the modules, are known not to hold, and have no
run of their own:

* `RefusedIfTooLong` (`MsgQueue`): the head of a message that did not fit stays
  in the ring, and after everything before it was evicted it may take the room
  the whole message needs: `MQTT_Publish` then refuses a message that would fit
  an empty ring.
* `ManualMeansOff` (`Relays`): without latching a manual switch turns the
  thermostat off in RAM only, and it is back after a restart.
* `ScheduleNeedsClock` (`Thermostat`): with a negative time zone a clock that
  was never set reads 2106, which passes the test `year<2015`.
* `SleepsAfterPublish` (`MqttClient`, `DeepSleep = TRUE`): the confirmation of an
  earlier message that comes after its timeout is taken for that of the reading,
  and the board goes to sleep with the reading still on its way.
* `ShownIsDriven` with `Board = "dual"`: the serial line, MQTT and the thermostat
  name pins 12 and 13, which are not that board's relays.
* `ResponseHasId` (`MqttReceive`): an answer to a PUBLISH carries the identifier
  of the last message this client made (`user/mqtt.c:184`).
* `ReadToEnd` (`EspFs`, `user/espfs.c:197`): see `FilesRight` above.

Disagreements of the code with itself that need no exploration: the "2's
complement" of a negative thermocouple reading is that of another word, and is
overwritten by bits that were not shifted (`driver/spi_max31855.c:123-128`);
`broadcastd_init` arms `MQTTbroadcastTimer` where it has set up `broadcastTimer`
(`user/broadcastd.c:209`); `mqtt_msg_unsubscribe` makes a SUBSCRIBE
(`user/mqtt_msg.c:434`); the return code of a CONNACK is not looked at
(`user/mqtt.c:155`); the fraction of a negative DS18B20 reading is added instead
of subtracted (`user/thermostat.c:96`); two errors of a DHT22 poll leave the
interrupts locked (`user/dht22.c:164`, `:175`), which `LockedMeansFailed` bounds;
`i2c_master_readBytes` counts tries of the address and bytes that were read with
one counter, and `i2c_master_init` does not wait for a clock that is held
(`spoilt` in `I2cMaster`, `driver/i2c_master.c:98`, `:402`); a poll of the
encoder goes from `FLUSH_BITS` on into `DONE` although the byte did not fit
(`lib/heatshrink/heatshrink_encoder.c`), which only a file of one byte meets, and
that is stored as it is; `argv[x=1]` in the options of `mkespfsimage`
(`mkespfsimage/main.c:159`, `:162`); the 32 bits `ttl` of the answers for `NS` and
`URI` are set with `setn16`, and two bytes of them are whatever was in the buffer
(`user/captdns.c:229`, `:246`); a question with additional records, as EDNS adds
one, is not answered.

### Bounds and why they are enough

* `config`: three configurations (the defaults, an old and a new one) tell apart
  everything the protocol can mix up; there is no bound on saves, failures or
  interrupts. Initial flash is any mixture of valid and blank sectors and any
  flag. Pages: seven inputs of three pages, one of every kind that is handled in
  its own way (a gate, boxes and texts it disables, an input of some boards, a
  number, a box of its own), texts that are empty, plain, or have a quote and a
  percent sign; bodies longer and shorter than `MAX_POST`. Wi-Fi: two networks,
  so that an earlier request can be for another network, and a long press of one
  poll. `button_presses`: a long press of six polls, as in the code.
* `queue`: five slots and two bytes for the ring; full, empty and every offset of
  both pointers occur. Messages: ring of 8, buffer of 3, seven messages of one to
  three bytes of {0x5E, 0x7E}, the byte to be escaped and the byte its escape
  uses: frames of 3 to 8 bytes. The ring holds exactly one longest message with
  all its bytes escaped, the relation 512 = 2 + 2 * 255 of the firmware's sizes.
  No bound on calls.
* `relays_*`: relay 1, which has the thermostat, and relay 2 for the other two,
  which the code treats alike. No bound on switches or restarts.
* `heating`: four seconds of each day, among them the first, the second and the
  last; all days from 2015 to 2037 (2100, which the code takes for a leap year,
  is outside). Readings at and around each threshold and each limit of validity,
  times at the seams of slots, days, months and years, time zones on both sides
  of UTC; `Step` is less than the band, as a room is slower than its thermostat.
  `Modulus` is 2^32 in the code and 2^20 here, above every value the comparison
  can tell apart. Texts of up to five characters with four tokens: every nesting
  of two brackets and every way to run out of tokens; days with up to one entry
  too many for their places, and 17 tokens, which a full day just needs.
* `devices`: a line of up to 6 bytes in a buffer of 4, so that it goes round
  once and a half; two PWM channels with shares of none, one and two thirds, all
  and more than all, and a period of 50 ticks with `Modulus` 32: it is kept as
  18, a third fits as it is, two thirds fall behind the end; with a period that
  fits, `FittingPeriod` proves the shares. Two LEDs, of which a page uses one or
  both and a message lights none, one or both, with white for what is more, and
  patterns of one, one and three colours, as the table of the code begins with
  two of one colour (sizes 1, 1, 8, 4, 22, 2); seven addresses of four bits, of
  which up to five are present: a code of every family that is treated in its
  own way; DHT22 bytes of two bits. I2C: bytes of three bits (`ByteBits`), so
  that every place of a byte is reached by a restart, four tries (`Tries`), a
  sensor of each kind and two commands; the clocks of the initialisation are
  those of three bytes with their acknowledgements and one more, as in the code.
* `mqtt_*`: two blocks (one freed, one in use), timeouts of 1 or 2 ticks, two
  queued messages, two unconfirmed sends, and up to two times that Wi-Fi comes
  up (`MaxQueue`, `MaxInFlight`, `MaxWifi`); a timeout of 2 distinguishes
  "running", "about to expire" and "expired".
* `network`: for the MQTT client Wi-Fi comes up once, because after a second time
  `cut` suspends the property; the timeout of the time client is doubled up to
  three times, as in the code, and two answers come late (`MaxDoublings`,
  `MaxLate`); eight answers of an HTTP server of up to six words with a buffer of
  four; a CONNACK and up to three packets, cut into segments anywhere; up to two
  questions with four names, one the end of another, in every form they can be
  written.
* `web`: two slots, two blocks of the stack, which are given away again, and a
  request of every kind, with heads and bodies below, at and above their limits;
  files of up to four tokens of one to two bytes, read three bytes at a time
  with an input buffer of two; pages of up to nine characters. Files to be packed:
  every one with a period of up to three bytes of two values and up to 18 bytes,
  over two windows, also with one byte changed. Images of up to two files with names of three lengths and
  contents of three, on both sides of a word. Login: two clients, two users and two
  passwords, one of each with a colon, every address of the table and four others.

### Fairness

Fairness is given only to what the board or its surroundings do by themselves.

* `MsgQueue`: the loop of `MQTT_Publish` goes on (`Puts`, `Evict`).
* `Thermostat` (part "loop"): the periodic timer fires, the room moves.
* `MqttClient`: the timer is periodic; a posted event is handled; the stack
  answers a lookup, ends an attempt to connect, confirms what it sent or drops
  the connection; the broker answers CONNECT or closes. The one strong fairness,
  of the task's sending, says that the timer does not always come just before
  the task and set `sendTimeout` again: it fires once a second and an event waits
  only for the callbacks before it.
* `Sntp`: timeouts run out and the resolver calls back. `HttpClient`: the resolver
  calls back, and a connection ends at some time, as TCP has it.
* `Wifi`: the SDK joins a network that is in reach, the timer of the watch fires, a
  scan calls back. The two timers of a request and the user have no fairness.
* `Httpd`: what the stack sent is confirmed, what was sent to it is received, and a
  connection that is to be closed closes. `EspFs`: a loop goes on.
* `Pwm`: `pwm_start` goes on, and its timer fires. `Ds18b20`: the search is a loop,
  the poll a periodic timer. `I2cMaster`: the routines go on, and the sensor
  finishes its reading. `HeatshrinkEncoder`: a loop goes on.

Wi-Fi, publishes, requests of users, answers of servers, power failures and
interrupts have no fairness.

## Proofs

TLAPS proves, for every value of the constants, eight modules of theorems. In
each `IInv` (or the invariant named below) is shown to hold first, to be kept by
every action, and to give the properties.

* **RingBuf** (`Size >= 2`, any set of bytes): `IInv` is `TypeOK` and
  `PointersAgree`, inductive as it stands. From it `TypeCorrect`,
  `PointersAlwaysAgree`, and `ImplementsFifo`: a put appends to the abstract
  contents and a get takes its head. The lemmas on `Ahead` (injective below
  `Size`) carry the wrap; `PutAppends` and `GetTakesFirst` compare the sequences
  element by element.
* **ConfigStore** (any set of configurations; `Blank`, `Torn` distinct and no
  configurations): `NoTornLoad` is not inductive, since nothing in it says that
  the sector being erased is not the current one. `ProtocolInv` says so: the
  context that saves works on the other sector until it erases the flag, and by
  then that sector holds `sysCfg`. One lemma for each group of actions
  (`SaveStepProtocol`, `OtherStepsProtocol`, `CrashProtocol`) shows that it is
  kept; `Protocol`, `NoTornLoadHolds` and, by `ActiveStep` (what a restart would
  load only ever changes to the `sysCfg` of that moment), `NeverLostHolds` and
  `ImplementsAtomicConfig` follow. `SavedOnReturnHolds` needs more: `ReturnInv`
  says what is in the flash at each point of a save by the handlers, alone and
  after the interrupt has saved once in the middle of it.
* **Relays** (any set of relays with relay 1, any settings): `IInv` adds to the
  three properties what is true in the middle of a handler: which relays a switch
  under way has still to do (`AgreeInv`), which levels it has read (`CopyInv`),
  what a start has latched so far (`StartInv`), and what is stored (`LatchInv`,
  `ManualInv`). `ShownIsDrivenHolds` and `LatchedHoldsAlways` are for the boards
  whose relays are at the pins that all switches name (`Board # "dual"`);
  `ManualLatchedHolds` is for all.
* **MqttClient** (any number of blocks, any timeouts): `InStep` says for which
  states of the client which state of the stack belongs to them, and that no
  block but the current one is in use. `NoDanglingHolds`, `SendsOnlyWhenUpHolds`.
* **Sntp** (any bounds): `OneChain` is inductive with the types once the timeouts are
  counted. `TypeCorrect`, `OneChainHolds`.
* **HttpClient** (part of `MCNetwork`; any answers, any sizes of segments and of the
  buffer): `HttpInv` says for each state of the request what was sent and which
  blocks are allocated (`HttpProgress`), that the buffer has all that arrived or
  the mark of an answer that was too long (`HttpBuffered`), and what the caller
  was told (`HttpTold`). `HttpIsRight`; `NetworkKeepsAsking` carries `OneChain`
  over to the network.
* **SerialLine** (any buffer of three bytes or more): `Wrapped` gives the write
  pointer as the length of the line modulo the size of the buffer, which the
  lemmas on `%` carry over a step; `Held` says what the buffer then holds.
  `TypeCorrect`, `LineRightHolds`.
* **Ds18b20** (addresses of any length, any set of devices, `WireAssumption`):
  between searches what was found are the first devices in the order of the bits,
  and `LastDiscrepancy` is the last place where a device branched off to one
  (`Branches`); in the middle of a search the bits so far are those of the first
  device behind the last one found (`MidSearch`). `PollInv` counts the devices and
  the turns of the poll. `ThermometersAreRight`.
* **Pwm** (any outputs, any depth, any period of at least a microsecond a step and any
  `Modulus`, whether the period fits it or not, with different ticks for different
  times as 5 and 2^16 have no common factor, `PwmAssumption`): `Points` counts the
  times of a duty, so that the k-th point is
  the k-th smallest of them (`RankFacts`, `TimeFacts`); `Ranked` finds one for each,
  by induction, and `PointsFacts` says what a table holds. `PulsesRight` does not say
  that a table is made of the duties it is for, nor what has gone by in the middle
  of a period. `PwmInv` does: each of the two tables is `Points` of `meant`, the one
  that is next has the newest duties (`Tables`), with the timer down there is one
  point and it was driven (`Resting`), and between two points `ran` is the time of
  the one before and each output was high for the lesser of it and its own, with
  what it is high for after `End` (`Running`). `PulsesAreRight`; `OneRequestAPeriod`,
  the half of `PulsesReached` that is an action property, needs that a request that
  has not ended keeps `pwm_toggle` where the interrupt finds it. `FittingPeriod` says
  that with a period of less than `Modulus` ticks nothing wraps.
* **Dht22** (bytes of any width, whatever the sensor measures, `DhtAssumption`):
  `SentSoFar` says that the bytes and bits that were read are those that were sent, but
  for one at most; with one, the bit is wrong or the byte differs from the sent one by a
  power of two (`OneBitChanges`), of which the checksum modulo 2^`Width` then tells
  (`SumTells`). Powers of two are counted as the sizes of sets of subsets
  (`PowerFacts`). `DhtIsRight` is the half of `HumidityRight` on this sensor.
* **I2cMaster** (bytes of any width, any number of tries, any commands and readings,
  `BusAssumption`): `HumidityRight` speaks of the bus between two readings only. `Course`
  says, of every place in every sequence of levels, where both lines are and what the
  sensor has made of the clocks so far: in the n-th step of a byte that is written it has
  shifted in the bits before (`WriteState`, `First`), of one that is read it offers the
  next bit and `heard` is those before (`ReadState`), and so on for a start, a stop, the
  two acknowledgements and the initialisation (`StopState`, `AckState`, `SetupState`). It holds unless `spoilt`; `BusInv` adds the types. One lemma for each
  sequence carries its state from a step to the next, whatever edge the sensor makes of it;
  `SetupState` has, after each clock, that the sensor is at rest or how many clocks it can
  still need (`Needs`), so that after two bytes of clocks and a stop nothing is left of a transfer
  that a restart broke off. `HumidityIsRight` puts it and `DhtIsRight` together.
* **LedString** (a string of any length, any patterns of one colour or more, `LedAssumption`): `LedInv`
  says what a frame shows (`FrameShown`) and that a restart would return to the
  pattern (`PatternSaved`). `LedsAreRight` is an action property.
* The types of the devices follow from these invariants but for the rest of the
  LED string (`LedRest`: the place in a pattern is before its end, or the second, where
  it starts) and the points of a table (`PointsTyped`).
  `DevicesTypeCorrect`.
* **Wifi** (any set of networks, any length of a long press, `NetworksAssumption`):
  `InStep` says that until its timer has run out a request is the one the pages last
  named, that the station has it from then on, and that a link with an address is in
  the station's network. `StationOnlyWorksHolds`, and as
  `StaysInReachHolds` of the run.
* **SettingsPages** (the pages of the run and any lines that are posted,
  `TextAssumption`): `StoredTexts` goes through what the handlers store of each
  kind of input, and `PagesTyped` carries over any order of pages and posts that
  no text of the settings is ever empty. With the types of the sectors, of the
  radio and of the button (`RadioRest`) this is `SettingsTypeCorrect`.
* **MsgQueue** (a ring of any size, any messages that fit the buffer they are parsed
  into, `MessagesAssumption`): `FramesRight` is not inductive, since it does not say
  which message a frame is of once something was cut off before it. `QueueInv` has
  a list of messages, one for each end in the ring, each of which is whole behind
  what stands before it (`Listed`), and that between calls the last byte is an end
  (`EndsLast`). Lemmas on the escapes show that a frame has no end inside it and
  that the parser starts anew at its beginning. `QueueTypeCorrect`,
  `FramesAreRight`. `ImplementsLossyQueue`: `Queued` reads that list off the ends
  (`EndOf` is the i-th), so that a put appends a message, a get or an eviction takes
  the first, and everything else stutters.
* **Httpd** (a pool of any size, any limits, any requests, also with a body for a file,
  `HttpdAssumption`: the read that ends a file is its first short one):
  `SlotsMatch` and `AnsweredOnce` do not say how far a request is, nor that a
  slot from which a file is sent has a read to come. `Shape` and `InCourse` do;
  `LostGone` keeps the connections that broke off apart. One lemma for the change
  of one slot (`SlotStep`) serves every callback of an open connection, another
  (`GoneStep`) every way a connection goes; files are counted by the library's
  lemmas on cardinality. `SlotsMatchHolds`, `AnsweredOnceHolds`, `NoFileLostHolds`.
* **EspFsImage** (any files, names and contents of any length, `ImageAssumption`):
  `FilesFound` says nothing of an image before it is searched. `ImageInv` does:
  each header is followed by the next one at the place that `espFsOpen` steps to,
  up to the end (`Chain`), the content of a file is behind its own header
  (`Listed`), and the search stands on a header with those of other files behind
  it (`Searched`). `FilesAreFound` is the part of `FilesRight` on the image.
* **Login** (any names and passwords, `LoginAssumption`): of the entries that the
  walk has passed and that match, only barriers and files that are not there let it
  go on (`Passed`), and a barrier only lets through who is known (`LetIn`).
  `ConnectionsAreRight` puts it and `Httpd` together. That `base64_decode2` gives
  back what a browser encodes is part of the assumption, which TLC evaluates for
  the names of the run: it is a fold over bits.
* **WallClock**: for every second up to the end of 28 February 2100. `LeapsCounted`,
  `YearStartIs` and `MonthStartIs` give the tables that the subtracting loops run
  through in closed form, by induction over the years and the months (`Counting`);
  `YearChosen` and `MonthChosen` say where the loops end, `WeekdayIsRight` and
  `DateFound` what comes out. `CalendarIsRight` needs in addition that the calendar
  of `MCHeating` is so many days from 1970 as its date says (`CalendarInv`), which
  `CalendarStep` carries from day to day.
* **Thermostat** (any settings, schedules, times and time zones that are `Foreseen`):
  `Compared` removes the unsigned arithmetic, `ThermostatReason` is one call of
  `thermostat`, `LoopReason` the loop over the slots by induction over their number,
  `InForce` compares the hundredths of an hour of the code with seconds.
  `PollJustified` puts them together. `SwitchedForReasonHolds` is for the thermostat
  alone, as long as no reading below zero is compared; `SwitchingIsRight` is the
  property of the run. For the room, `LoopRight` says that after a poll the relay
  works against the temperature outside the band; a `Step` must not take the
  reading below zero (`RoomAssumption`).

`Foreseen` is a hypothesis of these two theorems, as the code does not test it:
no setpoint is below its hysteresis (the unsigned difference wraps), slots end on
whole minutes (every minute is not a whole number of hundredths of an hour), the
clock is between 2 January 1970 and February 2100, and the time zone is less than
a day. The settings of `heating` satisfy it. In the run `thermostat_cold`, readings
below zero show what happens without the other hypothesis.

Only model-checked:

* Liveness, which needs fairness and so ENABLED: `PublishEnds`, `StationLives`,
  `RequestsEnd`, `MqttMoves`, `WebAnswers`, `SensorsAnswer`, the first half of `PulsesReached`,
  `LoopRegulates`.
* `FormsSaved`, `ScheduleRight`, `FilesRight` (but for the image), `DeliveryRight`: each compares
  a text that was folded together with what a loop takes out of it again
  (`FlattenSeq`, `FoldLeft`, `Decode`, the tokens of `Jsmn`), which is an induction over
  data for every one of these functions.
* `PartsTypeOK` of `heating`, `network` and `web`, where the theorems above need only the part
  of it that their own invariants contain.

## Not modelled

* **Stateless code**: `user/netbios.c` (an answer to each packet, from that alone);
  `user/oled.c`, `user/adc.c`, `driver/pin_map.c` (output and tables);
  `driver/spi_max31855.c` (one conversion); `driver/i2c.c`, `driver/i2c_tsl2561.c` and
  `driver/taos_lux.c` (a sensor whose reading is always zero).
* **Timing on wires**: the drivers of the buses toggle pins with delays counted in
  instructions; what a wrong delay does is not in the code.
* **Parts of modelled components**, each named in `PROJECT.json`: the request line
  and headers of HTTP, taking a URL apart, names that do not fit the
  buffers of the name server, the values of its answers, the bytes of a file name, CONNECT and
  SUBSCRIBE packets, pages that only show something, switching MQTT off and on
  without a restart.
* **Other people's code**: `include/` (headers of the SDK and of lwIP, about half of
  all lines of the repository), the command line and the tests of `lib/heatshrink`, the options
  of `mkespfsimage`. What the firmware uses of the SDK is the environment of the
  models. Because of these the share of all lines that the
  modules stand for stays small: the code that has a state of its own is about a
  fifth of the repository.

Builds: the shipped Makefile enables MQTT, DHT22, MAX31855, WS2812B and TSL2561
and leaves THERMOSTAT, DS18B20, SI7020 and MLX91205 commented out; `Thermostat`,
`SchedulePage`, `Ds18b20` and `I2cMaster` model the builds with them, and `Relays` includes the
thermostat as one more switch. The PWM pages are commented out of
`user/user_main.c`; `Pwm` models them as they are.
