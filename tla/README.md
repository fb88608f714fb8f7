# Verification of huhnix

TLA+ models, TLC runs and TLAPS proofs for the slider door controller huhnix
(`src/`): an ATmega128A that drives the door (`src/avr`), and an ESP8266 that
decodes the DCF77 time signal and serves a web page (`src/esp8266`), connected
by a serial line.

## 1. Inventory

### AVR main loop and interrupts (`src/avr/src/main.c`)

* State: `slider_state` (what the program believes of the door),
  `slider_wanted` (where it should be), the two motor relays and the ESP8266
  enable pin (outputs, read back by the program), the 64-bit second counter
  `timestamp` and four remembered values of it, the flags `action_updtime`,
  `action_espreset`, `wakeup_slider`, `wakeup_button`, `force_sleep`,
  `time_correct`, three 16-bit input counters.
* Operations: one endless loop `handle_time`, `handle_shell`,
  `handle_buttons`, `handle_slider`, `handle_esp`, `handle_sleep`; interrupts
  `TIMER0_OVF` (every second) and the two buttons (only while asleep).
* Interactions: the interrupt writes `slider_wanted`, the enable pin and the
  flags between any two instructions of the loop; commands and answers go over
  the UART.
* Hard: no variable is `volatile` or guarded; the loop blocks for seconds while
  it beeps or waits for the ESP8266, the motor keeps running meanwhile; a sleep
  that is only left by an interrupt.
* Correct when: the motor is never thrown from one direction into the other
  without a stop, stops in time and after the door has arrived, no request of a
  person or of the opening time is lost, the controller goes back to sleep, and
  sleeps with motor and ESP8266 off.

### AVR time of day and opening time (`main.c`, `util.c`)

* State: `time` (seven bytes), `time_correct`, two EEPROM bytes.
* Operations: counting in the interrupt, the field-by-field store of a DCF77
  answer in `handle_time`, `opentime_set`, the comparison once a minute.
* Hard: the interrupt runs between the stores; the comparison happens in a
  single second of the day.
* Correct when: the door opens once on every day it is told to, never when it is
  told not to, and the clock always shows a time of day not ahead of the signal.

### UART protocol (`main.c`, `uart.c`, `src/esp8266/user/user_main.c`)

* State: the two receive buffers, a command buffer and an answer buffer on
  each side.
* Operations: `get_answer`, `handle_shell`/`handle_command` on the AVR, `loop` and the HTTP
  commands `cmd_*` on the ESP8266, each with up to four attempts.
* Hard: both sides send commands and both wait for answers on the same line;
  time-outs, late answers, the `\n` that is left over after `\r`, bytes lost
  while the AVR is busy, a restart of the ESP8266 in the middle of it.
* Correct when: an acknowledged command has been carried out, a command is
  carried out no more often than it was sent, and every request ends.

### DCF77 decoder (`user_main.c`)

* State: bit buffer `signal`, `signal_iter`, the high and low counters, `time`,
  `time_valid`, the readjustment flag and three timers.
* Hard: two periodic timers in a changing phase; a minute mark recognised by
  absence; the clock counts on between the minutes.
* Correct when: what is taken over is the time that begins, an undisturbed minute is
  taken over, and the clock keeps it from then on.

### HTTP server (`libesphttpd/core`, `util/cgiflash.c`)

* State: a pool of eight connections (`connData`, `connPrivData`,
  `connPostData`): header buffer, POST buffer, CGI function, CGI data, receive
  handler, send buffer; open files; the flash.
* Operations: callbacks of the TCP stack (connect, receive, sent, disconnect,
  reconnect), which call the CGI functions of the table: `cgiEspFsHook`,
  `cgiEspFsTemplate`, `authBasic`, `cgiReadFlash`, `cgiUploadFirmware`,
  redirects, and the commands of `user_main.c`.
* Hard: callbacks of several connections interleave, a connection may go away in
  the middle of a response, the disconnect callback does not say which connection
  it is for, slots are reused without being cleared, buffers are of fixed size.
* Correct when: a client gets the answer to its own request, whatever opened a
  file closes it exactly once, every slot is freed, an upload that is acknowledged
  is in the flash.

### Websockets (`util/cgiwebsocket.c`)

* State: for each socket the parser (`wsStatus`, length, mask, flags) and the links
  of the list `llStart`; `cgiPrivData` and `recvHdl` of the slot.
* Operations: `cgiWebsocket` (the request, the sent callback, the disconnect),
  `cgiWebSocketRecv`, `cgiWebsockBroadcast`.
* Hard: a frame may be cut anywhere; sockets are unlinked while others are open.
* Correct when: the application gets the data as the client sent it, once, and the
  list has exactly the open sockets.

### File system and compression (`libesphttpd/espfs`, `lib/heatshrink`)

* State: the image; the position of a file in it; encoder and decoder with their
  buffers, window and bit accumulator.
* Operations: `mkespfsimage` packs files on the build host; `espFsInit`,
  `espFsOpen`, `espFsRead`, `espFsClose` read them on the ESP8266.
* Hard: both coders suspend in the middle of a bit field or a repeated section
  whenever their input or output runs out; packer and reader pad and skip with
  arithmetic of their own.
* Correct when: any split of input and output gives the bytes of the file, every
  file is found under its name, and every call returns.

### Outside the models

`cgiwifi.c`, `captdns.c`, `base64.c` and `sha1.c`, which the firmware does not
register or which only compute; the heatshrink command line tool and the test
programs; the web page and the hardware design. Section 5 has the reasons.

## 2. Modules

| Module | Models | Checked by |
|---|---|---|
| `SliderDrive` | abstract: what the controller promises about the motor | as property `DriveSpec` of `AvrController` |
| `AvrController` | the AVR's main loop with every handler, the three interrupts, the door | `avr_*` runs, `AvrControllerProofs` |
| `AvrControllerProofs` | the theorems about its motor, its sleep, times and the places of the door | TLAPS |
| `AlarmClock` | the AVR's time of day, opening time in EEPROM, the interrupt that compares them | `clock_day`, `AlarmClockProofs` |
| `AlarmClockProofs` | the theorems about it | TLAPS |
| `UartLink` | the serial line with the programs at both ends of it | `uart`, `uart_live`, `UartLinkProofs` |
| `UartLinkProofs` | the theorems about it | TLAPS |
| `DcfDecoder` | the DCF77 decoder and the ESP8266's clock | `dcf`, `DcfDecoderProofs` |
| `DcfDecoderProofs` | the theorems about it | TLAPS |
| `Httpd` | the HTTP server: pool, callbacks, table, CGI functions for files, authentication and flash | `httpd`, `httpd_close`, `HttpdProofs`, `HttpdReplyProofs` |
| `HttpdProofs` | the theorems about its pool, its slots' types, open files and uploads | TLAPS |
| `HttpdReplyProofs` | the theorems about its answers | TLAPS |
| `Websocket` | the frame parser and the list of sockets on the slots of the pool | `websocket`, `WebsocketProofs` |
| `WebsocketProofs` | the theorems about the list and about what the parser gives | TLAPS |
| `HeatshrinkEncoder`, `HeatshrinkDecoder` | the two coders as operators: one step of their state machines | through `EspFs` |
| `EspFs` | composes packer, both coders and the reader: `mkespfsimage` and `espfs.c` | `espfs`, `EspFsProofs` |
| `EspFsProofs` | the theorems about finding files and reading stored ones | TLAPS |
| `MC...` | small instances for TLC | |

Each of them covers one part of the shared state in detail and abstracts the
others to what they can do to it: in `AvrController` an alarm may come in any
second and the ESP8266 may or may not answer; `AlarmClock` says when the alarm
comes; `UartLink` takes movements as one or two steps and says what of a command
and its answer gets through; `DcfDecoder` produces the answers that `UartLink`
calls `"time"` or `"x"` and `AlarmClock` calls `args`. On the ESP8266's web side,
`Httpd` takes a command as one answer (`UartLink` says what lies behind it) and a
file as a sequence of units (`EspFs` says how they are read); `Websocket` takes the
pool's connect and disconnect as one step each (`Httpd` has them in detail).

### AvrController

`pc` is where the main program is; a step ends wherever an interrupt can make a
difference, so `slider_down`'s store, the three reads of `slider_wanted` in
`handle_slider`, the test and the flag resets of `handle_sleep` are steps of
their own. The handlers of interrupts are one step each, because they run with
interrupts off. Variables carry the names of the C variables; `relay1` and
`relay2` are the inverted output pins, `esp_enable` the enable pin.

* The 64-bit `timestamp` only occurs in differences. Each remembered timestamp
  is an age in ticks that stops one past the largest limit it is compared with.
* `TornReads`: the timestamp is eight byte loads with interrupts enabled, so a
  comparison may come out either way and a stored copy may be wrong by 256
  seconds. The model allows both outcomes at every comparison, which is more than
  the processor does. The properties about relays, requests and sleep hold all the
  same. `tornUp` and `tornDown` are history variables: has a read that the age of the
  present opening or closing rests on been torn? The properties about the time and
  the place of a movement are claimed until then.
* The sleep loop is two steps, as it is in the code: `SleepTest` looks at the flags,
  `SleepCpu` stops the processor with interrupts enabled in between. An interrupt there
  sets its flag and does not keep the processor from sleeping; the next one
  (`SecondPasses`) takes it back to the test.
* The compiler is taken to read shared variables in every expression that names
  them. None is `volatile`; a compiler that kept `wakeup_slider` in a register
  would produce a program that never wakes up.
* `ticksLeft`/`BlockTicks`: seconds that may pass during a beep, a wait for the
  ESP8266 or its start. Waking up takes at most ten seconds of beeps, less than
  `SLIDER_UP_TIME_MAX` = 25 (`StartupAssumption`); the rest of a pass through the
  loop takes milliseconds, so at most one tick falls into it.
* Button and reed contact are sampled with any reading in each pass; the counters
  are `uint16_t` (`CountMod`). A button interrupt with only one button pressed
  changes nothing and is not a step.

### AlarmClock

The DCF77 answer is stored field by field (`SyncSeconds`, `SyncMinutes`,
`SyncHours`), the opening time in two EEPROM bytes (`SetHours`, `SetMinutes`),
and `Tick`, the interrupt, may come between any two of them. The real time of
day runs beside the clock, and the crystal may lose `MaxLag` seconds against it.

### UartLink

A wire is a sequence of texts and line ends, with both receivers' buffers
included. CR and LF both end a line, so each `"\r\n"` leaves an empty line behind,
which is an answer for a waiting `get_answer`. Text that is not ended remains in
the reader's buffer (`cmd_buf`, `avr_cmd_buf`, `ans_buf`, `avr_ans_buf`) and
damages what follows. A debug line has the effect of an empty line for each
reader and is left out. The ESP8266 is `off`, `boot`ing, in its `loop`, or waiting in
`get_answer` (`answer`), during which it does not serve `time_get` or `hello`; the
AVR is in its loop (`main`), in `get_answer` of `handle_time` (`time`) or
`esp_start_test` (`hello`), or asleep (`sleep`): `GoToSleep` takes the power from the
ESP8266, and only `WakeUp`, for which somebody has to press the buttons or the opening
time has to come, may give it back. Cutting the power (`EspBecomes`) loses the ESP8266's
buffers and the HTTP request. A line that is being sent when the power goes is
taken to be out already.

`copies` counts for each command how often it was sent and not executed, `earned` for
each acknowledgement how often a command that is acknowledged so was executed and
not reported. `opentime_bad` is an `opentime_set` with arguments out of range, which
`handle_command` neither stores nor answers (`RefuseOpentime`).

### DcfDecoder

A second of signal is one pulse of 0, 20 or 40 samples (5 ms each) and the decode
timer fires `phase` samples into it: what it finds counted is the end of one pulse
and the beginning of the next, so the thresholds 10 and 35 of the source work on
the true numbers. After a minute mark the timer is restarted by the next sample
without a pulse, at once or one sample later (`Restarted`), so it wanders from minute
to minute; a timer that wanders past the end of a second (`phase = 200`) is started
behind the first pulse of the minute and fires a second later. It may be started in
any phase (`user_init` arms it whenever it runs). The sixty bits, the
positions of the fields and the parities are those of the source; the transmitter
(`Telegram`) is modelled from the DCF77 coding. The clock's timer may fire before
or after the decode timer in each second. Disturbances are bounded by number and
by place: pulses of the wrong length (`MaxFlips`), lost pulses, which look like a
minute mark (`MaxLost`), pulses in the minute mark (`MaxExtra`).

A timer is `Clear` of the pulses in the phases 41 to 199. What is true of the time that
is decoded depends on that, so the properties name it as a condition of the minute mark they
are about, never of where the timer was started; `bad` remembers a minute decoded
by a timer that was not.

### Httpd

A callback runs to its end before the next one; one that loops takes a step per
round, with `call` saying where it is: `HeadByte`, `HeadEnd`, `PostByte` are rounds
of `httpdRecvCb` over the received units, `NoUrl`, `NotFound`, `AskCgi` rounds of
`httpdProcessRequest` over the table, `DisconSkip`, `DisconSlot` rounds of
`httpdDisconCb` over the pool. Everything else that a callback does is one step, the
CGI function included. A CGI function is an operator on what it works with, its
`World`: the slot, the files, the flash, the send buffer, what has been given to
`espconn_sent()`, its result.

* Units stand for bytes, with `MaxPost` also for the 1024 bytes a file is read in. A client
  receives status codes and positions of file units, so a missing, repeated or
  foreign block shows.
* A connection is its remote address, which is how `httpdFindConnData` finds its
  slot; `state` is `espconn->state` as the client left it: `finished` by the server,
  `left`, `reset` (no disconnect callback follows, `httpdReconCb` does nothing),
  `refused` for want of a slot, `gone` after its callback.
* `sent` callbacks are counted in `pending`: one for each `espconn_sent()`.
* A connection carries one request. The request's body may be longer than the
  buffer (`Post("/a", 3)` runs the table with every block).
* `acceptEncodingBuffer` is read uninitialised without the header: both outcomes.
* A unit of flash remembers who wrote it since it was erased; writing without
  erasing spoils it.

### Websocket

`RecvHead` handles one byte of a frame's head, as the loop of `cgiWebSocketRecv`
does, `RecvPayload` what the packet has of the payload, `RecvEnd` leaves the loop.
Frames are the bytes a client would send, masks and extended lengths included
(`LengthBytes`, high byte first); masking is `Xor` on their eight bits. `data[i]` is
an unsigned byte, as `char` is on the ESP8266. `fr.len` wraps at `LenMod`. Memory
that is not allocated is a socket without a slot. `Request` has the three ways
through `cgiWebsocket` for a new connection: not a websocket, a new socket
(allocated and appended to the list), and a slot whose stale `cgiPrivData` makes it
take the request for a sent callback. `clean` remembers whether a client's packets
held a part of one frame each.

### HeatshrinkEncoder, HeatshrinkDecoder, EspFs

A coder is a record with the fields of the C structure; `EncoderStep` and
`DecoderStep` are one round of the `while` loop of the poll functions, and `EspFs`
takes one such round per step. The encoder's bit writer, its backlog, the flags of
`finish`, and the decoder's bit reader with its suspended fields are as in the C
code. The search index (`HEATSHRINK_USE_INDEX`) is a linked list of earlier
positions of a byte, which find the same matches as a search of the window, nearest
first: the model searches the window (`Matches`).

`EspFs` has both programs. The packer's steps are those of `handleFile` and
`compressHeatshrink` (sink, poll, drain, finish), and its image has padded names
and contents, headers by address. The reader's are a round of the search in
`espFsOpen` each, and a round of the feed-and-poll loop of `espFsRead`. `short`
says that a read returned less than it was asked for, the only sign of the end
that the callers look at. The format `[byte, window, lookahead]` has the width of a
byte as a parameter, so that windows fill after a few bytes. While no file is open `fh` is
`NoFile`, for the NULL pointer.

## 3. Runs

| Run | Shows | Bounds |
|---|---|---|
| `avr_safety` | types, the inductive invariant of the proofs, the promise of `SliderDrive`, quiet sleep, no raising turned into lowering, with alarms, both buttons and torn timestamps | limits of one second but for 5 of an opening; an input is valid after one sample, counters wrap at 2, two time requests, three hellos |
| `avr_manual` | without alarms: sleeps only idle, no reversal either way, motor starts with the ESP8266 off; until a timestamp of the movement is torn, lowering lasts no longer than the limit and one `esp_start_test()`, and `slider_state` changes with the door at the end | inputs as in `avr_safety`, door of two seconds, all commands and buttons, torn timestamps; the intervals of synchronisation and of sleep at one second |
| `avr_live` | movements end, sleep is reached, a flag set at any point of the sleep loop ends the sleep | everything at its minimum; the reed contact need not close nor the ESP8266 answer |
| `clock_day` | one alarm a day, none when disabled, an update never puts the clock ahead | days of 12 seconds (3 x 2 x 2), two updates, one interrupt inside each, one lost second |
| `uart` | nothing executed or reported too often, "ok" means the door is wanted up | two requests of two attempts, one of the commands refused by the AVR, one time request per round, three hellos with a restart before the third, one press or alarm, time rounds while at most two tokens are under way |
| `uart_live` | the ESP8266 comes back while the AVR is awake | one request |
| `dcf` | a timer clear of the pulses takes no wrong times and takes good ones, the clock follows | four minutes from 23:57 on a Sunday and 9:57 on a Thursday, one disturbance of each kind in eight of the seconds, timers started in the shorter pulse, in the longer one, right behind it and at the end of the second |
| `httpd` | every client gets its own answer, files and slots are neither lost nor shared, uploads arrive whole, the server closes what it has answered and frees its slots | three connections on two slots, blocks of two units, segments of one or two, files of one to seven units, sectors of four, every request alone, those that last beside another, three at once, two uploads at once; clients leave or reset at any time |
| `espfs` | what is read is what was packed, files are found, calls return | every file of up to five bytes over two values, five files of 40 to 52 bytes (up to three times the window), three formats, an image with four files at two addresses, reads of 1, 4 and 64 bytes in any mixture, the decoder fed with 3 bytes |
| `websocket` | data delivered once and unmasked, PINGs answered once, the list of sockets whole | frames of six bytes and fewer of each kind, packets of up to nine bytes, three connections and sockets, one broadcast |
| `avr_morning` | violated: an alarm in the second before sleep is lost | as `avr_safety` without torn reads |
| `httpd_close` | violated: a file that fills its last block (or is empty) leaves its connection open | as `httpd` |

Why small limits are enough: the code compares every limit with one quantity, so
what matters is the order of the limits and how many interrupts may fall between
two steps, and the instances keep both. Wrap-around of the input counters, the
exhaustion of retries and of the time limits all happen within the bounds, and
for the motor the proofs remove the bounds. Two requests on the UART are what it
takes for an answer of the first to be met by the second; two attempts, for an
answer of the first to arrive during the second. Four minutes are two to set the
clock, one to be disturbed and one to see the consequences; the start times put
the hour, the day and the end of the week into them.

In `httpd` two slots are what it takes to find the wrong one, the third connection
finds the pool full or a slot that was used before, and files of one to seven units with
blocks of two end in a full and in a partly filled block, with a token of a template across
two blocks. A head of three units does not fit into `MaxHead` = 2, an upload of five
units ends in its second sector and one of seven is larger than the partition. In `espfs` a window
of 16 with a lookahead of 8 makes the encoder shift its buffer and the decoder wrap its
window several times within 50 bytes; bytes of two or three bits keep the number of
states small while every field still straddles their borders, and the files packed
with eight bits have the real width. In `websocket` nine bytes hold a whole small frame
with the beginning of the next.

Deadlock is checked in all runs of the AVR and the serial line. The behaviours of
`dcf` end with `MaxMinutes`, those of `httpd` and `websocket` when the clients have
gone, those of `espfs` when the files have been read.

### Fairness

* `AvrController`: `WF(Main)`, the processor executes the next instruction;
  `WF(TimerIsr)`, the crystal keeps running. Nothing is assumed of people, the
  ESP8266 or the reed contact.
* `UartLink`: `WF` of the ESP8266's program and of the AVR's `get_answer`, which
  counts its own milliseconds; `SF` for `MoveDone`, the shell, `HelloBegin` and
  `TimeBegin`, because the main loop calls each handler in every pass and what
  enables it (a flag, a position, a character) stays until it does. `TimeBegin`
  recurs because the timer interrupt sets `action_updtime` every ten seconds. Nothing
  ends the sleep of the AVR: `EspComesBack` only speaks of an AVR that is awake.
* `Httpd`: `WF(Serve)`: a callback that runs returns, and as long as sent or
  disconnect callbacks are due the stack delivers one of them. Which one is not
  said, and nothing is assumed of clients: they may never send, never leave.
* `EspFs`: `WF(Host \/ Reading)`: both programs go on with the call they are in;
  nobody has to begin another.

### What the violated runs say

They are listed with their sources under "findings" in `PROJECT.json`:

* `avr_morning`: `handle_sleep` beeps for a second between its look at
  `slider_wanted` and `wakeup_slider = false`. An opening time in that second is
  forgotten, and the next one finds `slider_wanted` already `SLIDER_UP`.
* `httpd_close`: `cgiEspFsHook` takes a read of less than 1024 bytes for the end of
  the file. If the length is a multiple of 1024 the last call sends nothing, no sent
  callback follows, and only that callback closes a connection.

### Deviations without a run

The models show these too; the properties named leave them out, and say so in
their comments.

* AVR: a pending `action_espreset` is carried out while the motor runs, if a button was
  pressed meanwhile. That switches the ESP8266 on (main.c:144-145 has it off when the
  motor is active; `MotorStartsWithEspOff` is about the start), and it blocks the loop
  with the motor on: a lowering motor is released up to 17 seconds after
  `SLIDER_DOWN_TIME` (main.c:154-178, 522: five restarts of 1.5 seconds, twelve answers of
  0.1, eight seconds of error beeps). `LoweringBounded` allows for one such call
  (`EspTicks`). A torn read of the timestamp may end a movement early or late by some
  passes, a torn copy by 256 seconds. A wakeup between the test of the sleep loop
  and `sleep_cpu()` (main.c:487-490) is only seen after the next interrupt, up to a second
  later (`WakesUp` says that it is seen). A request that takes back half a movement leaves
  the door half open (`OpensFully` and `ClosesFully` are about changes of `slider_state`). An update of a slow clock may jump over the opening minute
  (`MorningNotMissed` is about days without an update).
* UART: `slu_ok` is sent after `slider_up` has switched the ESP8266 off, which
  therefore cannot receive it (main.c:183, 263). `cmd_opentime_get` takes any line for
  its answer. An `ots_ok` does not say which opening time was set, so a late one of an earlier
  request is also taken for one that the AVR refuses (`OkEarned` counts acknowledgements).
* DCF77: the decode timer is started at any moment (user_main.c:115-119, 501) and
  moved by nothing but minute marks. Inside the pulses it counts the end of one with the
  beginning of the next, and with an undisturbed signal:
  in 0 to 10 samples it finds the mark a second late, which moves it to the end of that pulse;
  in 11 to 24 it reads each bit a second late and finds a mark only behind a bit 58 that
  is zero, with which the parities of the late bits cannot all be correct (what it
  collected between its start and the first mark may have correct ones by chance);
  in 25 to 35 a one is only read as one if another came before it, and wrong times
  whose parities happen to be correct are taken over, against the comment at
  user_main.c:86 (TLC finds one when `TakenIsPresent` is stated without `Clear`); from 36 on the
  bits are right. The model starts at the beginning of a minute. A minute with a wrong parity clears the seconds
  (`ClockFollows` is claimed until the first such minute or one decoded inside the pulses). A drowned minute mark leaves
  sixty bits that the next mark decodes a minute late (`TakenIsPresent` is claimed
  without).
* HTTP: POST data longer than the buffer runs the whole table again with every block
  and leaves a file open each time (`FilesOwned`, `RepliesRight` except it). Two uploads
  at once mix in the flash, and an upload that is broken off leaves a part
  (`UploadIntact`). `httpdSend` drops what does not fit (`Fits`). Without an Accept-Encoding
  header an uninitialised buffer decides whether a compressed file is sent. After a
  reset the slot is only freed by the disconnect of another connection (`SlotsFreed`).
  `recvHdl` is not reset when a slot is reused: after a websocket, `cgiWebSocketRecv` would be
  called without a socket. The firmware registers no websocket, and the models leave
  it out.
* Websockets: the byte behind a payload in the same packet is skipped, and a frame
  without data is only handled with the next byte (`Delivered` and `DeliveredCorrect` are
  about packets with a part of one frame each). After CLOSE `cgiWebsocket` is done and the disconnect does
  not call it: the socket stays in the list, and the next websocket on the slot
  gets no handshake (`SocketList` allows the former; `RequestStale` is the latter).
* Compression: the decoder goes back to waiting for input when its input buffer is
  empty although bits are left of the last byte; only a format with tokens of less
  than eight bits would lose any (a window of 4 bits with a lookahead of 2 and
  bytes of eight), which no level of `mkespfsimage` uses. A lookahead as large as
  the window is accepted and makes no progress. An empty file is left out of the
  image. The leading dot of a hidden file is stripped with the path.

## 4. Proofs

`AvrControllerProofs` proves, for every value of the constants allowed by
`LimitsAssumption` and `InputsAssumption`:

* `TypeCorrect`: `TypeOK`. By cases over the steps of the main program;
  `SampledRange` needs `CountMod > 0`, `OlderRange` that ages stop at their caps.
* `DriveInvariant`: `DriveInv`, which is `RelaysFollowSlider /\ SleepPhase`.
* `SleepIsQuiet`, `MotorNeverReversedDown`: consequences of it.
* `ImplementsDrive`: every step of the controller is a step of `SliderDrive` or
  leaves motor, request and sleep unchanged.
* `SleepsIdle`, `MotorNeverReversedUp`: `IdleWhenAsleep` and `NoDownUpReversal`
  under `NoAlarms`, that is as long as no opening time comes. With alarms they are
  false: the interrupt may want the door up at any point. `ManualInv` says which
  direction an active relay allows `slider_state` and `slider_wanted` to have at each
  group of program points, for both directions.

None of these uses `StartupAssumption`, the reed contact or the length of anything:
they hold however long the program is blocked, however often the interrupt comes
and whatever the comparisons of timestamps yield.

Why the strengthening is needed: "raising is never turned into lowering" is not
inductive, because it depends on `handle_slider` having seen `slider_wanted`
before the interrupt changed it. `RelaysFollowSlider` says for each group of
program points what an active relay implies: where requests are made
(`Requesting`) a raising motor means `slider_state` is still `SLIDER_DOWN`; between
the stop conditions and the relays (`Deciding`) it may have become `SLIDER_UP`, but
then `slider_wanted` is `SLIDER_UP`, which the interrupt cannot undo; afterwards
(`Settled`) the motor only raises if the door is wanted up. `SleepPhase` carries this
through the beeps, in which an alarm may come, into the sleep loop.

TLC checks `DriveInv` as an invariant in `avr_safety`; the mutants of the
definitions in `PROJECT.json` show that each property depends on the code.

Its second part is about what depends on times and places, for every value of the limits,
the length of the door's way (`DoorTravel`) and of what blocks the program (`BlockTicks`):

* `ClosedIsClosed`: `ClosesFully`, for a door that moves from end to end within
  `SLIDER_DOWN_TIME` (`LowersInTime`), which is what the setting is for. `CloseInv`
  says that a door that is lowered has come down by as many steps as seconds have passed since `slider_down`, less the one
  before the motor starts. It holds whenever alarms come: an alarm ends the lowering.
* `OpenIsOpen`: `OpensFully`, for a door that takes no longer than `SLIDER_UP_TIME_MAX` less
  `2 * BlockTicks` (`RaisesInTime`): the time of the first opening runs while the startup
  beeps. `OpenInv` bounds the age of an opening by what has been raised and that
  `Slack`; `TicksToGo` is what a step before the relays may still wait. Uses
  `StartupAssumption`: the time is not over before the motor starts.
* `LoweringStops`: `LoweringBounded`. `StopInv` follows a pass from the comparison in
  `slider_down_stop` to `handle_esp`, where the motor is off or at most a second beyond the
  limit. `LowerTime` follows it through `esp_start_test`: `Spent(n)` is what `n` attempts may
  have taken, each of them `AttemptTicks` (a restart, a wait, and the second of the step after
  it), so that the call takes no more than `EspTicks` and the next pass ends the lowering.
* `StartsWithEspOff`: `MotorStartsWithEspOff`, for any outcome of the comparisons;
  `EspInv`: who wants the door moved has switched the ESP8266 off, and nobody switches it on
  before relay control.

The first three are claimed until a read of the timestamp that the movement rests on is
torn (`tornUp`, `tornDown`), with torn reads allowed: a torn copy is wrong by 256 seconds, longer
than any movement, and a torn comparison may come out either way. The history variables are
cleared by the next `slider_up` or `slider_down` that stores a whole timestamp. All but
`ClosedIsClosed` need `NoAlarms`: an alarm during a beep or a wait wants the door up long before the
program comes to its relays, so the age of the opening then exceeds every slack; one between `handle_slider` and `handle_sleep` may leave
the lowering relay on through the sleep. TLC finds each of them violated with `Alarms = BOOLEAN`.

`AlarmClockProofs` proves, for every length of minute, hour and day and any number
of updates and interrupts (`ClockAssumption`):

* `TypeCorrect`: a time of day at every point between two stores, and the EEPROM
  holds something an `opentime_set` was given, or nothing. Counting is a matter of
  quotients and remainders, about which the prover is told little more than the
  definition: `QuotientRange`, `RemainderRange`, `UniqueParts`.
* `DisabledStaysClosed`: the EEPROM's hour stays `NoOpen` from the acknowledgement
  on, except between the two bytes of another opening time.
* `OpensOncePerDay`: not inductive as it stands, because nothing in it says where
  the clock is after the alarm. `FiredPast` does: what the clock has gone on since the
  opening time is no more than has passed of the real day, so it cannot come to the
  opening time again before midnight.
* `OpensEveryDay`: needs `Precise`, `MaxLag < SEC`: the crystal loses less than a minute
  in the time considered. A slower clock may have the opening time of the last minute of the
  day behind midnight. `MorningInv` follows an exact update (`SyncExact`) to a clock
  that is behind by no more than was lost (`ClockClose`) and has not reached the
  opening time yet if it has not fired (`NotYet`).
* `UpdateNeverAhead`: needs `Fast`, `TicksInside <= 1`: storing an answer takes less than a
  second. `SyncStored` says of each field whether it is as it came or was
  counted on by the interrupt.

`UartLinkProofs`, for every number of attempts, requests and presses and any set of
commands, whatever is lost, damaged or late:

* `TypeCorrect`: besides `TypeOK`, that `get_answer` is only entered for a command and
  that each loop of attempts stays below its bound.
* `ExecutedCorrect`, `OkCorrect`: a counter that never becomes negative is not inductive.
  The invariants count what may still change it: `Sent`, the copies of a command on the
  wire and in the AVR's buffer, is at most what was sent and not executed
  (`ExecutedInv`); `Acks`, the acknowledgements on the wire and in the ESP8266's two buffers,
  is at most what was executed and not reported (`EarnedInv`). Both are counted for the text,
  which several commands may have in common: `ots_ok` does not say which `opentime_set`
  it answers. The lemmas `Count...` say how
  the number of a text on a wire changes when wires are put together or read; every
  step but a `Send` or an execution adds nothing (`SentLess`, `AcksLess`).
* `OkWanted`: `FreshInv`, as long as a `slu_ok` is under way, the door is wanted up; whoever
  wants it down empties wire and buffers with the power. So even an acknowledgement
  of an earlier request that is taken for a later one tells the truth.

`DcfDecoderProofs`, for any number of minutes, lost pulses and drowned marks, disturbed
in any seconds, a decode timer that is started in any phase and moved by every mark, and
starts that do not let the month end (`DcfAssumption`). Nothing is assumed of the timer: what
needs it clear of the pulses says so of the mark it is about. `Numbers` knows that a clear timer
has nothing left of the pulse before.

* `CleanSets`: `CleanMinuteSets`. `CleanOK` says that since a clean mark the buffer has a bit
  for every second, each the one that was sent; the mark that ends the minute finds
  sixty, whose parities are good (`ParitiesOfTelegram`). Only marks move the timer, so one that
  is clear at the end of the minute was clear in all of it.
* `TakenCorrect`: `TakenIsPresent`, with `Noticeable`: at most one pulse of the wrong length, since two in
  one field leave its parity as it was, and no drowned mark, which leaves sixty bits for the
  next one. `Received` says that the buffer never begins before the minute, so that sixty
  bits are just this minute's (`Whole`), and that a wrong one among them (`Errors`) is the
  flipped pulse. `ErrorNoticed`: a set with one member more or less has the other parity;
  `GoodIsSent`: good parities leave the error to the bits nobody reads, and `DecodesBcd` makes
  of the others what was sent.
* `ClockCorrect`: `ClockFollows`, until `bad`: a minute with a wrong parity sets the seconds
  back, one decoded inside the pulses may be any. `Follows` counts seconds of the day: the
  clock shows the real one plus what it was counted on before the second ended (`Ahead`)
  plus at most one. `CountsOn` is about `time_inc_timer_cb`, `CivilNext` about the real time.
* `TypeCorrect`: `TypeOK`, from the same invariant. Parities alone do not keep a field in its
  range, so the range of the clock is claimed under the conditions of `ClockFollows`; the day
  of the week is counted on beyond Sunday until the next telegram and has none.

`HttpdProofs` proves `OneSlotEach` for every number of connections and slots, every
table and every size of buffers and files. The invariant `PoolInv` adds to
`SlotPerConn` that a connection that was not made has no slot (`Unmade`), that a
callback in a loop works on a slot of the pool (`CallOK`), and which fields a slot
has. The lemmas `Keeps...` say of each CGI function that it leaves the slot to its
connection.

It goes on from there, again for every size and table (`HttpdAssumption`):

* `TypeCorrect`: `TypeOK`, with what it rests on: the number of units a slot has of a
  body, and the position in a file, never behind its end.
* `FilesCorrect`: `FilesOwned`. The lemmas `Effect...` reduce every call of a CGI function
  to four kinds: it touches no file (`NoFile`), opens one for its slot (`OpensFile`), reads
  on (`ReadsFile`), closes it and is done (`ClosesFile`). `Held` and `Kept` say that open files
  and the slots that work on them belong together one to one. Only a call that
  finds no file in its hands opens one, and a second time only when the table is
  searched again with the next block of a body; so `SlotInv` counts the units
  received and says that a body that fits the buffer is handed over once (`Once`).
  Only bodies longer than the buffer leave files behind, as the property has it.

The last theorem of `HttpdProofs` is `UploadsIntact`, `UploadIntact` for every size and table
(`HttpdAssumption`), as long as an erase sector is made of whole blocks
(`FlashAssumption`: 4096 and 1024 bytes in the code). It needs that: `cgiUploadFirmware`
erases when a block begins at a sector, and with `SecSize = 3` and `MaxPost = 2` TLC finds an
upload that is acknowledged and not in the flash. The property only speaks of uploads
that were answered; `UploadInv` follows one through all its blocks:

* Until the answer (`Begun`) what was handed over is in the flash (`Written`), and what
  follows, up to the next sector, is erased (`Ahead`), or `cgiPrivData` says that an error
  was found. It may also be left over from an earlier connection on the slot; the first
  block resets it, so nothing is claimed before that.
* After a 200 (`Stored`) all of it is in the flash, and the slot is `Over`: the CGI function is
  not called with another block.
* `Routes`: a search of the table has not got beyond the upload's entry, so the blocks
  get to `cgiUploadFirmware` of that entry and to nothing else.
* `Others`: a step for another connection leaves the slot and the answer alone, and what
  it does to the flash leaves its trace in `by` (`Traces`), which the property excepts.

`HttpdReplyProofs` proves what a client may expect, `RepliesRight`: for every table, set of files
and templates, every number of clients, size of block, buffer and packets, with whatever runs
in between, a connection receives the answer to its own request, unit by unit, and all of
it before the server closes the connection. As in the code, this is not so when
`espFsOpen` finds no memory: `cgiEspFsHook` and `cgiEspFsTemplate` then answer
`HTTPD_CGI_NOTFOUND`, the search goes on, and a later entry or the 404 answers for a
file that exists. There are two theorems:

* `RepliesCorrect`: `Spec /\ []Memory => []RepliesRight`. `Memory` says that there is room for
  one more file whenever the table is asked, which is what the property needs and all
  it needs. TLC finds that `Memory` holds in the instance of the run `httpd`, which has a
  streamed POST.
* `RepliesAlways`: `Spec => []RepliesRight` when there is memory for a file on every
  connection (`MaxConn <= MaxFiles`) and no body but an upload's is longer than the
  buffer. `NoLeaks` and `FilesInv` then give `Memory`: no two slots have the same file and the
  slot that asks has none, so, counting slots, one handle is free (`RoomForOne`).

A property about prefixes says nothing of what is still to be sent, so it is not inductive.
The invariant `ReplyInv` says where the server is in its answer (`ReplyOK`); TLC agrees on
the instance of `httpd`:

* `Waiting`: nothing has been sent, and the search has not got beyond the entry
  that takes the request (`Expecting`); an upload has got here in whole blocks
  (`Blockwise`).
* `InService`: a part has been sent, and the slot remembers just that part (`Part`): the
  position in the file, in the flash, or in the template along with the token that is
  open there (`TokenAt`).
* `Answered`: all has been sent, and the slot is done, or swallows the rest of an upload
  that was rejected (`Ignored`). A connection the server closed is here.

The lemmas follow the code. `TextsExist`, `TextStep` and `TextConcat` unfold the recursive functions
that say what a template should look like, by induction over the position (`UpTo`); the parser of
`cgiEspFsTemplate` is compared with it unit by unit through a block, tokens that are
longer than `token[64]` or cut by the end of a block included. Each CGI function has a
lemma for its first call, one for those from `httpdSentCb`, and each callback one for the
connection at work; `FilesInv` and `UploadInv` give the rest: that a slot's file
is its own and that an upload which is refused stays refused. `FlashAssumption` is needed for
`cgiReadFlash` too: it sends whole blocks, up to 512 KB.

`WebsocketProofs` proves `ListCorrect`, `SocketList` for any number of connections, slots and
sockets. `List(n, L, ...)` writes the list of memory as a function `L` from 1 to `n`;
`ChainEntries` shows that following the pointers from `llStart` yields it, `ListAppend` and
`ListRemove` what the two loops of `cgiWebsocket` make of it. The invariant `ListInv`
adds to the list which slot knows which socket (`Backward`, `Forward`) and that a
socket whose slot is served no more was told to close (`ToldToClose`), which is why
the next connection on the slot does not use it (`RequestStaleList`).

`DeliveredCorrect` is `Delivered` for any number of connections, any frames with any
data and masks, and packets that cut them anywhere. It assumes of the clients
(`StreamAssumption`) that a frame's length field holds its length: up to 125 in seven
bits, or in two bytes, or in eight of which four are used. `Delivered` speaks of the
moments between two packets; the invariant `FrameInv`, next to `ListInv`, says what is
true in between:

* `Following`: of a client whose packets held a part of one frame each, the application
  has been given what `Expected` says of the bytes handled so far (`GivenSoFar`), and
  the parser agrees with them (`Agrees`). It is between two frames, or inside one
  (`Inside`): in the length, with the bytes read so far as `Shifted` has them, in the
  mask, or in the data, where `fr.len` is what is to come and `maskCtr` what has been
  handled, in one byte.
* `PacketOK`: the packet being handled is the last bytes its client has sent, and they
  lie in one frame. `OneSlot`: a connection has one slot, so no other socket's
  parser is given its bytes.

The lemmas go from bytes to frames. A byte is its eight bits (`ByteOfBits`), so masking
twice does nothing (`XorTwice`); the length field is read back (`LengthField`). `Concats`
writes the folds of `Bytes` and `Expected` as functions of their last index, and
`ConcatsGrow` says what a fold becomes when one part of it grows, which makes the
bytes of one payload those that `Expected` adds. Each step then has a lemma for the parser
and one for what was given; steps that do not touch a socket's parser leave it
`SameParser`.

`EspFsProofs` proves two theorems about the file system, for any list of files and names,
any base address, format and lengths read at once (`EspFsAssumption`: names and file
names are strings without a zero, packed names are not empty).

* `OpensCorrect`: `OpensRight`. An espFsOpen that has returned holds a file exactly if
  one was packed that has the name and is not empty; and packing does not give up.
* `StoredCorrect`: `RoundTrip` for files that are in the image as they are, because they
  are packed without compression or because compressing makes them bigger.

Neither property says where anything is in the image, so neither is inductive. The invariant
`FsInv` (TLC agrees on the instance of `espfs`) describes the image as a chain:
`Layout(at)` says that a function `at` from the files handled so far that are not empty,
and the place behind them, gives addresses that are multiples of four, that the name, its
zero and, if stored as it is, the data of each file are where the lengths in its header say
(`EntryAt`), that each header begins where the one before it ends (`EndOf`), and that the
last one carries `FLAG_LASTFILE` once packing is over (`LastAt`). On it rest

* packing: `EntryNew` is about what `handleFile` writes (`BodyParts`), `EntryStays` about
  what is there already; `Aligned` in the packer, which counts from the beginning of a name,
  and in the reader, which counts from address 0, agree because the base is a multiple of
  four (`Filled`, `SumAligned`), which `espFsInit` sees to;
* the encoder: `EncoderStepMode` says which states and flags a step can lead to, so
  that `sink` is only called when it may be (`Compressing`) and compressing never fails;
  what it writes is any sequence here;
* the reader: it is at a file of the chain, and those it has passed have other names
  (`Walking`, `OpenGoesOn`); `strcmp` at a name in the image compares just the two names
  (`NamesCompared`). An open file is the first that has the name, and of a stored one
  what has been read is the beginning (`Holding`).

Only model-checked: liveness, which the prover does not reach; and the contents of compressed
files (`RoundTrip`), which are what two state machines over bits, the heatshrink
encoder and decoder, make of any input one after the other.

## 5. Not modelled

`PROJECT.json` lists every component with its reason.

* Electrical behaviour (brown-out, the ADC, the sound generator), the wireless side
  of the ESP8266 and its SDK; the overrun of the AVR's `cmd_buf` and the display of
  voltages, which have no effect on the modelled state.
* `httpd.c`: decoding of URLs and arguments, header texts, MIME types, the redirects by
  host name; failures of `malloc` other than for files. `cgiflash.c`: `cgiGetFirmwareNext` and
  `cgiRebootFirmware`, which ask the SDK, and a GET to the upload's address, for which
  the buffer it reads is not there.
* `cgiwebsocket.c`: contents of the frames that are sent; failing `malloc`; frames of 4 GB
  and more.
* `espfs.c`: names longer than the buffer, more than one open file, formats of the
  decoder the packer does not write. `mkespfsimage`: gzip, which is not built by default.
* `cgiwifi.c`, which the firmware does not register and which mostly formats scan
  results; `captdns.c`, a stateless parser of packets; `base64.c`, `sha1.c`, which only
  compute; `heatshrink.c`, its tests and `espfstest`, command line programs around
  the coders; the web pages, one request per button.

## 6. Plan

Done in this order: `AvrController` with `SliderDrive` and its proofs, `AlarmClock`,
`UartLink`, `DcfDecoder`, `Httpd`, `HeatshrinkEncoder`, `HeatshrinkDecoder`, `EspFs`,
`Websocket`, `AlarmClockProofs`, `HttpdProofs`, `UartLinkProofs`, the
second part of `AvrControllerProofs`, `WebsocketProofs`, `DcfDecoderProofs`,
`HttpdReplyProofs`, `EspFsProofs`. What could come next:

1. A composition of `UartLink` and `Httpd`: a command's callback waits for the AVR
   while the stack keeps other connections waiting.
2. Scanning and connecting of `cgiwifi.c`, should the firmware register it.
