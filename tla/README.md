# The ImageInversion target and the labelling scripts in TLA+

The repository is a student's collection of image-processing work: MATLAB
scripts (labelling, filters, edge detection, an image encoder), notes, and one
program, `src/labeling_kanji/ImageInversion_rtt`, that Simulink generated for a
Linux board. It captures video, inverts it, and is run in *external mode*: a
host connects over TCP/IP, selects signals and triggers, starts, pauses, steps
and stops the model, and receives the signals the trigger asks for. That
program has the state, the threads and the protocols, and most of what is
modelled here is part of it. Of the scripts, the labelling of connected
components is the repository's own core algorithm (several copies of it exist); it is
modelled as well and proved correct. Paths below without a directory are in
`ImageInversion_rtt/`.

The build (`defines.txt`): `NUMST=1` (one sample time), `EXT_MODE=1`, `MT=0`,
`ON_TARGET_WAIT_FOR_START=1`, UNIX, no `VXWORKS`, assertions off. Code these
defines exclude is not modelled, with one exception: the video display, which is what a
standalone build of the same model shows its result with.

## Inventory

| Component | Code | State | Operations |
|---|---|---|---|
| Trigger and logging session | `updown.c` | per upInfo: trigger state, counters, mode, flags, tables and their memory | init, term, arm, cancel, check trigger, add point, check end, prepare for final flush |
| Circular upload buffer | `updown.c` | `head`, `tail`, `empty`, the bytes | reserve memory for a piece, copy it, give up the oldest point, list sections, mark as sent |
| Packet and upload server | `ext_svr.c` | `connected`, `commInitialized`, `host_upstatus_is_uploading`, `pktBuf` | receive a header and a payload, clear what there is no memory for, process one packet, answer it; send what is buffered; disconnect, forced or with a flush; shut down |
| Parameters | `updown.c`, `ext_svr.c`, `ImageInversion_dt.h` | the parameters' bytes, by transition | install what a packet holds; report all of them |
| Threads | `ert_main.c`, `ext_work.c` | `modelStatus`, `startModel`, stop flags, `stopSem` | wait for start, pause loop, one step, signal handler, join |
| Generated model | `ImageInversion.c` | error status, one DWork flag, the signals, a parameter | initialize, output, update |
| Transport | `rtiostream_tcpip.c`, `rtiostream_utils.c` | sockets, UDP packet buffers, sequence numbers | open, accept, send, receive, close |
| Video capture | `v4l2_capture*.c` | device table, mapped buffers | init, output, terminate |
| Video display (builds without `EXT_MODE`) | `sdl_video_display.c` | `dispInfo`: flags, the screen, a surface or an overlay | start, output, terminate; events of the window |
| UDP blocks | `linuxUDP.c` | | not called by the model |
| Labelling | `src/area_analysis/label_area.m`, `analyze_area.m`; copies of it in `src/labeling_kanji/` | the image `x`, `Y`, the labels, a loop flag | label from the neighbours, merge labels that touch, renumber, measure and select areas |
| Other scripts | `*.m`, `pycv/` | local variables | filters, edge detection, encoder, capture |

How they interact. `main` installs signal handlers, initializes the model, and
runs the packet and upload servers until the host's start packet; then it
creates `baseRateTask` and waits for `stopSem`. From then on `baseRateTask` alone
runs the servers, once per step or again and again while the model is paused. Each
step calls `rt_UploadCheckTrigger`, `rt_UploadBufAddTimePoint` and
`rt_UploadCheckEndTrigger`, which move every upInfo's trigger and put a point in its
circular buffer; the upload server takes points out and hands them to the
transport. A signal handler writes the model's error status and posts `stopSem`
from whichever thread it interrupts.

What is hard, and what correct means:

* *Logging.* Delays, durations, hold-offs and pre-trigger counts are kept in
  one counter that three functions of a step compare with `==` and `>=`; host
  commands and disconnects arrive in any trigger state; two upInfos share one
  "is uploading" flag. Correct: an event delivers exactly its points, at its
  delay; a cancelled trigger does not come back; without a host nothing is
  armed; every event that is over is closed.
* *Packets.* The line is a stream of bytes without marks: headers come in portions,
  payloads may not fit the memory, clients go in the middle, and the transport
  puts the next client on the same stream. Correct: what is taken for a packet
  is one, and every host is answered in its own order.
* *Memory.* A session's tables are allocated in up to a dozen nested steps, each of which
  may fail, and are freed by counts that were set before. Correct: all or nothing,
  and nothing of one session in the next.
* *Buffer.* `head = tail` means empty or full by a flag that is not updated while
  a point is being assembled. Correct: a queue of whole points.
* *Threads.* Two threads, one set of unlocked servers, flags set by packets and
  by signals, waits for a host in both threads. Correct: one server at a time, no step
  after a stop packet, a paused model steps only when asked, a stop packet ends the
  program, and so does a signal if no host holds it.
* *Transport.* A closed client is not an error; UDP shares one socket for
  listening and receiving; sends wait for a client; datagrams are lost, repeated and
  reordered. Correct: a session delivers without gaps, a message goes out once and
  whole, a client that is gone does not keep the next one out.
* *Capture.* Buffers go back and forth between program and driver while the camera writes;
  every call of an initialization can fail half way, and reads fail before and after the copy. Correct: the
  driver gets every buffer back that it was possible to return, frames come in order, nothing stays open or mapped.
* *Display.* The first output opens what the start prepared; each call may fail, and the user
  closes the window whenever he likes, which is noticed after the next frame. Frames come by
  rows, by columns or interleaved. Correct: nothing is drawn where no window is, a
  closed window stays closed, every pixel is at its place.
* *Colours.* Integer arithmetic with scaled factors, shifts and casts. Correct: it stays near the
  formula, does not wrap by mistake, and keeps grey grey.
* *Labelling.* One component gets several labels, and the order in which conflicts
  are found depends on its shape; the merging loop ends by a flag; renumbering is done
  in place. Correct: equal labels exactly within a component, numbers in order.

## Modules

| Module | Models | EXTENDS / INSTANCE |
|---|---|---|
| `UploadInfo` | the functions of `updown.c` on one upInfo, as operators on a record | |
| `ExtModeUpload` | packet server, upload server, disconnect, shutdown and the step's upload calls, for `NumUpInfos` upInfos and a socket that clients open and lose | `UploadInfo` |
| `MCExtModeUpload` | triggers for TLC | `ExtModeUpload` |
| `ExtModeUploadProofs` | inductive invariant and theorems | `ExtModeUpload`, `TLAPS` |
| `PktServer` | the stream of words between hosts and target, the packet server that cuts it into packets and answers them, and the parameters | |
| `MCPktServer` | packets and a transition table for TLC | `PktServer` |
| `PktServerProofs` | inductive invariant and theorems | `PktServer`, `TLAPS` |
| `UploadMemory` | the blocks of memory of one upInfo, allocation by allocation | |
| `MCUploadMemory` | packets for TLC | `UploadMemory` |
| `UploadMemoryProofs` | inductive invariant and theorems | `UploadMemory`, `TLAPS` |
| `CircBuf` | the words of one circular buffer | `PointQueue` (`INSTANCE ... WITH`) |
| `PointQueue` | abstract specification: a bounded queue of whole points | |
| `MCCircBuf` | points of two sizes, for TLC | `CircBuf` |
| `CircBufProofs` | no overrun; the buffer implements the queue, with and without pre-triggering | `CircBuf`, `TLAPS` |
| `ErtMain` | `main`, `baseRateTask`, the signal handler and the packets about the model's status | |
| `ErtMainProofs` | inductive invariant and theorems | `ErtMain`, `TLAPS` |
| `Rtiostream` | the server side of the transport, clients and a network, over TCP or UDP | |
| `V4l2Capture` | the table of video devices, their buffers, the driver and the camera | |
| `VideoConversion` | what a step does to the bytes of a frame, as operators | |
| `MCV4l2Capture` | bounds and frames for TLC; the conversions are checked in the same run | `V4l2Capture`, `VideoConversion` |
| `SdlDisplay` | the window of the video display, its memory, and the user | |
| `MCSdlDisplay` | pictures for TLC | `SdlDisplay` |
| `RtiostreamProofs` | inductive invariant and theorems | `Rtiostream`, `TLAPS` |
| `VideoProofs` | inductive invariants of capture and display, theorems on the way of a frame from camera to screen | `MCV4l2Capture`, `MCSdlDisplay`, `TLAPS` |
| `LabelArea` | the labelling of a binary image and the selection of areas | |
| `MCLabelArea` | limits of areas for TLC | `LabelArea` |
| `LabelAreaProofs` | inductive invariant and theorems | `LabelArea`, `TLAPS` |

### UploadInfo and ExtModeUpload

A record of `Info` is a `BdUploadInfo` with its `TriggerInfo`; field names follow the
C (`count`, `holdOff`, `preTrig.duration` as `preDur`, `circBuf->empty` as `empty`).
The bytes of a point and the signal values are abstracted: `points` counts whole
points between tail and head, `edge` says whether this sample crosses the trigger
level. `cap = 0` is `bufSize = 0`. The operators `UploadCheckTrigger`, `Detect`,
`MoveTailOneStep`, `Record` and `UploadCheckEndTrigger` are the step's code in its
order.

`ExtModeUpload` adds the server. `pc` is the place in the loop of the base-rate
thread: `packet`, then `upload` for each upInfo, perhaps again (paused), then
`check`, `add`, `end`; `prepare`, `flush`, `term` are the loop of
`DisconnectFromHost` or, by `caller`, of `rt_ExtModeShutdown`. `link` abstracts the
socket: a client that is gone can be noticed as an error (`HeaderError`, failing
sends) or be closed without one (`NoPacket`), as `serverStreamRecv` does. `log` is
history: what was handed to the socket for the current event, and why it ended.

The host's protocol, which the target does not check, is in the guards: a
trigger is selected once after signals were selected, is armed after that
and while unarmed, asks for at least one point, and for fewer pre-trigger
points than its duration. Cancel, select signals and disconnect come at any
time. Whether `rt_ExtModeShutdown` is reached, or the step, or another poll,
is a free choice after the upload server; `ErtMain` has the flags that decide.

### PktServer

A word on its way is named by its client, packet and position (`<<c, n, i>>`): that
is all that tells a packet that was received from words that happen to stand where
a packet should. A header is two words, a payload is as many as its size says.
`HostSend` puts a packet into `stream`, `Take` receives any portion of it; `pc` is the
function that polls: `GetPktHdr` (which gives up only if it has nothing),
`GetPkt` and `ClearPkt` (which never do). `Accept` may happen within each of
them and within an answer, as `rtIOStreamRecv` and `rtIOStreamBlockingSend` accept by themselves.
`HostClosed` is the end of a client that the transport hides, `HeaderError` and `PayloadError` one that
it reports, at the two places that treat it differently. `UploadFails` is an upload to a client that is
gone: a forced disconnect between two packets (`ext_svr.c:930`). `Grow` is
`GrowRecvBufIfNeeded` with a `malloc` that may fail. A header whose first word belongs
elsewhere can have any type and size (`HdrTypes`, `HdrSizes`), and foreign words that
are installed set `garbage`. Answers are sent in parts, in between which a send may
fail; `out` keeps what each host was answered.

The hosts are `external`: they connect in an order, send a text that starts the handshake, then
well-formed packets once they were answered, and may go at any moment, which
cuts off what was on its way anywhere. The branches of `rt_PktServerWork` that differ only in
what they do to triggers and flags are one: `"select"` and `"control"`; their effects
are in `ExtModeUpload` and `ErtMain`. `EXT_MODEL_STOP` and the disconnect without upload
are not answered, as in the code. The history `orderly` is what the properties
assume: no client was lost in the middle of a packet or of a session. It comes back
when a connection error is noticed in a header, since that ends the session.

Parameters are bytes, by transition. `SetParam` doubles the element size of a complex
transition, `NBytes` relies on the table having done so; `view` is what the hosts set, by
element. The model has one transition of one real byte; the module takes any table.

### UploadMemory

A block is named by the place its pointer is in; `ptr` is the set of places that are not
NULL, `todo` the set of places that the handler has still to allocate; `Precedes` is the
order in which it does, and that in which the blocks lie within each other (`Inside`). An allocation that fails
leaves NULL and goes to the handler's exit point; that of `circBufs` is not tested, and
crashes in `UploadBufInit` unless the first size is the one the host refused.
`UploadLogInfoTerm` returns at once if `nSys` is 0 and otherwise follows the tables of
`nSys` systems, whether or not they were set up: `FollowsNull`. `lost` counts blocks that no
pointer leads to any more, bounded by `MaxLost`. `careless` remembers that a host
selected no system, or a trigger without signals or a second time: `ext_svr.c:117-123` calls
that an error, and nothing but assertions, which are off, looks for it.

### CircBuf and PointQueue

Offsets instead of pointers, in words of an `int32_T`. A point has a header of 5
words, a time of 2 and one section per active system; `Cuts` lists where its pieces
end. `AddPiece` is one `UploadBufAssignMem` and one `CIRCBUF_COPY_DATA`; the header
gets its place first and is written by `EndTimePoint`. Between two points of the
buffer the upload server and the trigger functions may run; all in one
thread, so never in the middle of one. `Unread` maps the buffer to the words of the
queue of `PointQueue`, whose actions each take or give whole points.

### ErtMain

`mainPc` and `base` are the two threads' places; a packet is processed by whichever of them
is in a loop that calls `rt_PktServerWork`. The upload server is a place of its own behind each of
these calls, and `shutdownUpload` and `shutdown` are the two in `rt_ExtModeShutdown`: there the code sends
with `rtIOStreamBlockingSend`, which goes on only when a client is there, or gone without
having been noticed. `link` and `packet` are the socket and what is on it. `HostClosed` is the
close that the transport reports to nobody, so that `session` (`commInitialized`) outlives its client;
`HeaderError` and `PayloadError` are failures that it reports. A packet that has begun holds its thread until the
rest comes. `HostComes`, `HostGoes` and `HostSends` are external and happen at any time, the
first wherever a thread accepts.

`ExitHandler` may interrupt at any place and is bounded by `MaxSignals`. The history variable
`asked` remembers a start or step packet that no pass has used yet, `stopAsked` a stop packet. `-tf` is
not an option this `main` parses, so there is no final time. Failing system calls (`CHECK_STATUS`) end the
process at once and are left out.

### Rtiostream

`pc` is the call the target is in: it accepts on behalf of a receive or of a
blocking send, receives, sends, closes. `listen` and `sock` are `listenSock` and
`connection->sock`. Over UDP the code keeps one socket number in both and closes it
through either, so `listen` can be `"closed"`: the variable still holds the number of
a socket that is no more. `buf` is what is left of the one datagram in
`recvBuffer`; `socketDataPending` answers from it without asking the socket.
Clients connect, send and go at any time; `Deliver` puts any datagram that a client
ever sent into the queue, so it arrives late, again, out of order or not at
all. A connected UDP socket gets datagrams of its client only, but what another
client sent before `connect` stays in the queue, and the sequence number alone
decides whether it is taken (this is why `InOrder` names the client over TCP only).
Every system call the code checks may fail.

`ExtModeUpload` and `ErtMain` use a coarser transport: a `link` that clients open and
lose, with or without an error.

### V4l2Capture

`hVideoDev` is the table; a slot's `fd` is 0, -1 or 1 for unused, not yet open, open. `driver`
and `mapped` are the kernel's side, which survives a slot that is cleared. `pc` is the
next system call, so that the camera, which fills the buffers it has been given in
order, goes on between any two calls: while a frame is copied, above all. Every call of an
initialization may fail, and so may `VIDIOC_DQBUF`, `VIDIOC_QBUF` and `VIDIOC_STREAMOFF`, for any reason
and at any time; `munmap` and `close` are taken to succeed. A buffer whose
`VIDIOC_QBUF` failed is in the history `lost` until some read returns it. `MW_ERROR_EXIT`,
whose header is not in the repository, is
taken to do what the comment on `videoCaptureCleanup` says: clean up all devices and exit.
The generated model has one capture block; the module has as many as `Blocks`, with any
names, since the table and its checks are made for several.

### VideoConversion

Where `V4l2Capture` copies a frame, `readV4L2Frame` converts it, and the step inverts it; neither keeps
any state, so these are operators. A frame is a sequence of groups `<<Y0, Cb, Y1, Cr>>`, the four bytes of two
pixels; no conversion looks at lines. Arithmetic is that of `int`: products of a byte and a
factor fit, and `int16_T`, in which the sum is handed to `clamp`, holds it. `\div` rounds like `>>`. The parameter is any
that the host may have set (how it gets there is in `PktServer`). The generated model has planar RGB.
`NegativeOfScene` compares what the step computes with the formula itself, so it also says when the subtraction
wraps: by 256, and never with the parameter as loaded. It mentions no state. `NegativeOfFrame` puts it
in the place where a step has copied a frame, which is what makes it an invariant that TLC checks in a run, and says no more.

### SdlDisplay

`dispInfo` is `win` (the window's parameters), `enabled`, `isVideoModeSet`, `screen`, `image` and `ovl`;
`video` is the state of SDL's video system, which the functions ask for with `SDL_WasInit`. SDL frees the
screen when the system is quit, the pointer stays: `"stale"`. `displayPc` is the place within an output (names have
`display` in them where `V4l2Capture` has the same, since `VideoProofs` extends both), so that the
user may ask for the end between opening, drawing and polling. `Signals` are the arguments of the start, one of
which is chosen anew for each session.

The memory of a surface is a function on addresses whose values name the element of the frame that was written
there (`<<f, a>>`), so a frame that is shown can be compared with the frame that was given, place by place. A
line of an overlay has `Padding` behind it, as SDL's pitch may demand. `ColumnStart` is where the code sets the pointer
for a column of RGB, which is one less than it should be; `Max(columns)` is the last one to write in a place.
`ShowsTheFrame` says of such a frame (`Shifts`) what the code makes of it, and of all others that each pixel is at its place.

### LabelArea

`x` and `Y` of the code are one variable, the step of the algorithm is `pc`, and the
loops whose body depends on what it changes go pixel by pixel (`at`); loops
that treat all pixels alike are one step. `Largest` is the set of pixels with the
value `max(W(:))`. The scan of step 2 leaves at the end of a row when the flag is set,
conflict or not, as the code does. `Limits` is the sequence of limits with which `analyze_area`
calls `isolateArea`, one after another on the same labels, and `calls` says how many of them have returned. `new_lab` is the set of labels that are still
to be numbered, in ascending order because the code collects them by index. Scaling an
image of one value divides by zero: one initial state (`Blank`) has `NaN` inside the border. It is
not 0, so it belongs to `image`; it differs from itself, so no scan agrees with it (`Agrees`).
Reachability is stated twice: by closed sets (`Closed`: no other pixel of
the image touches one of the set) in `ComponentsLabelled`, and by a recursive function (`Component`) where sizes and first pixels
matter.

## Runs

| Run | Question | Bounds |
|---|---|---|
| `Upload` | Does one upInfo deliver exactly its points at the right delay, and end for good, through every trigger, buffer size, command, link failure and shutdown? | 7 triggers: manual and signal, one-shot, re-arming at once and after a hold-off, delayed by one and two steps, two pre-trigger points; buffers of 0 to 3 points |
| `UploadTwo` | Does shutdown empty the buffers of both upInfos before it frees them, and is every event closed? | two triggers, buffers of 2 points |
| `UploadPreTriggerOne` | Does the host get recorded data only? Not with one pre-trigger point. | one trigger |
| `CircBuf` | Is the buffer a queue of whole points of two sizes, also when it gives up the oldest ones before the trigger fires? | 27 words, points of 9 and 18, pre-triggers of 0, 2 and 3 |
| `PktServer` | Are packets told apart, answered in order and finished, and are parameters reported as they were set? | two hosts with up to three and two packets, four in total, payloads of one and two words, a real and a complex transition |
| `PktServerReconnect` | Does a host's first packet shake hands? Not if its predecessor just closed the connection. | as `PktServer` |
| `UploadMemory` | What is left when an allocation fails, and what does one session leave to the next? | two sample times, no, one or two systems, buffers for one, both or refused, three lost blocks |
| `ErtMain` | Is there one server at a time, no step after a stop packet, a paused step only when asked, an end after a stop packet, and after a signal unless a host holds the program? | two signals |
| `Rtiostream` | Gap-free delivery, whole messages, service of the next client over TCP, and none over UDP after a failed receive? | two clients, two pieces each, a queue and a backlog of two, a message of three units in datagrams of two |
| `V4l2Capture` | Does the driver keep its buffers, do frames come in order, does a read return while a buffer is left, and is everything given back however the program ends? Does a step make the negative of a frame? | two blocks with equal or different names, two slots, two buffers, three frames of one camera and two of the other; all 65536 pairs of chrominances with a dark and a bright pixel, greys, the parameter as loaded (255) and as tuned (100) |
| `LabelArea` | Are components told apart, numbered and selected by each call with its own limits, and does it end? | all 4096 images with four rows of three pixels inside the border, three calls |
| `SdlDisplay` | Does the display draw only in its window, stay closed, close in time, and show each pixel at its place, or, of RGB by columns, one place to the left? | three columns and two rows of RGB (by columns two and three), four columns and three rows of YCbCr, by rows, by columns, interleaved; two waiting events |

The type invariants (`TypeOK`) are proved, for every module that has theorems, and are not repeated in the runs; so is
`LateFailureSurvived`.

Why the bounds are enough. *Upload*: counters are compared with the trigger's numbers, so
triggers of 0, 1, 2 and more steps in each role meet every comparison at, before and after its
boundary; capacities go from no buffer to one that is never full. `NumUpInfos` is 2 in the
build. The theorems remove the bounds from the safety properties. *CircBuf*: the buffer is a
multiple of the points (in others a header can straddle the end, see below), as the theorems on
pre-triggering assume; without pre-triggering they cover every size; a point of 18 words has its first
section cut by the end, so that pieces and uploads in two sections happen. *ErtMain* has no bound but the signals: a second signal differs from the first only
in the semaphore's count, and a third one from the second in nothing. *PktServer*: a second host is what can be confused with
the first, and a third packet what follows one that failed; four in total let either host have its longest
session while the other has a short one; payloads of one and of two words make
the buffer grow, and every portion of a header or a payload occurs; the second transition's elements
are four bytes, and an offset in the first is not zero. *UploadMemory*: two systems, so that one is set up
when the next fails, two sample times, so that a map is there and another is not. *Rtiostream*: gaps,
repetitions and a change of order need two datagrams, a foreign one needs a second
client, and a message in several packets with a short last one needs three units.
*V4l2Capture*: two buffers are the least the code accepts and enough for one to be filled
while the other is copied; three frames use each of them again, and the second camera, which must not be
disturbed, needs none of that. *VideoConversion*: colours depend
on one group only, the run has every pair of chrominances, and luminance enters by addition and `clamp`, which a dark and a
bright one push to both ends. *SdlDisplay*: numbers of rows and columns differ, so that a mix-up shows, and there are at
least two pairs of columns and two rows, so that each pointer is advanced in both loops; a second waiting event
is one that must not outlive the first. *LabelArea*: four rows of three
pixels hold up to four components, shapes whose parts get different labels and
merge later, a component that gets a label before and one after another component's
(so that it matters which label a merge keeps), and rings; the theorems cover every size.

## Findings

* With a pre-trigger of one point the buffer that gave its point up looks full, and
  its stale memory is sent (`UploadPreTriggerOne`; `updown.c:1664`).
* A client that closes its connection without a request to disconnect leaves a session behind,
  and the first packet of the next host, which should shake hands, is passed over
  as invalid (`PktServerReconnect`; `rtiostream_tcpip.c:1003`, `ext_svr.c:1060`).

Seen while modelling, and not a run that expects a violation:

* A signal while the model is paused makes main join a thread that polls until a host lets it go, though it has
  said that it stops (`ert_main.c:237`): the pause loop does not look at the error status.
* A client that closes its connection unnoticed leaves `commInitialized` set (`rtiostream_tcpip.c:1014`). From
  then on every send waits for another client (`rtiostream_utils.c:53`): a signal leads main to
  `rt_ExtModeShutdown`, whose `EXT_MODEL_SHUTDOWN` (`ext_svr.c:1368`) nobody receives, or finds the thread in an upload, and the
  program does not end until somebody connects. `SignalEnds` has this wait, the pause and a packet that
  never gets complete (`WaitsForHost`) as the alternative to the program's end; after a stop packet it does not occur (`StopEnds`).
* A signal between the installation of the handlers and `ImageInversion_initialize` is
  forgotten by everybody but the semaphore: the model starts and runs on, and main goes on to join its thread at once.
* An RGB frame that is stored by columns is shown one column to the left, and its first column not at all
  (`sdl_video_display.c:441` sets the pointer to column `i` for the pass `i + 1`). `ColumnStart` models it, the run has such a
  signal, and `ShowsTheFrame` says what is shown instead. The generated model draws by rows.
* A `VIDIOC_QBUF` that fails in `readV4L2Frame` is printed and nothing else (`v4l2_capture_linux.c:666-669`): the buffer
  is not tried again. Each time one less is left to the driver, and when all are lost `VIDIOC_DQBUF` waits for ever. `BuffersConserved` and
  `OutputReturns` speak of `lost` for this.
* The titles of `analyze_area` call its pictures "greater than 201", "1001" and "51"
  (`analyze_area.m:102`, `115`, `128`) where the lower limits of the calls are these numbers and line 145 compares with `>=`: areas of exactly
  201, 1001 and 51 pixels are in the pictures. `AreasIsolated` follows the code.
* Of a frame that is put out without conversion only the first half is copied (`v4l2_capture_linux.c:662` counts
  pixels, the frame has two bytes to each).
* A disconnect request frees an event whose terminator (and points) were never sent, if
  `host_upstatus_is_uploading` is false at that moment (`ext_svr.c:301`), as it is before the first
  data of the event went out.
* Over UDP a failed receive closes the listening socket and leaves its number in `listenSock`: no
  client is ever accepted again (`rtiostream_tcpip.c:1021`). `DeafForEver` states it as an action
  property that holds.
* An allocation that fails in `UploadLogInfoInit` before every system has its `uploadMap` makes
  `UploadLogInfoTerm` follow NULL, and the `calloc` of `circBufs` (`updown.c:1074`) is not
  tested. `LateFailureSurvived` bounds the damage. A selection of no system is never freed, and a
  trigger selected again, or without signals having been selected, loses its memory and adds its bytes to the old
  ones: `SessionsApart` and `AllOrNothing` exclude it by `careless`.
* A client that goes in the middle of a packet has its packet completed with the next
  client's words, whatever they are, which may end up in the parameters (`InstallGarbage`). `InStep` and
  `AnswersInOrder` say what the damage is limited to.
* A request to disconnect whose answer cannot be sent is forgotten: the session goes on.
* `MOVE_TAIL_ONESTEP` (`updown.c:1399`) reads the size of the oldest point without regard
  to wrapping: in a buffer that is not a multiple of the point (20 words and points of 9
  violate `OldestSizeInside`) it is read behind the allocation.
* An error while a device is being stopped (the camera is unplugged, `VIDIOC_STREAMOFF`
  fails) makes `videoCaptureCleanup` call itself: the error exit in `stopCapture` starts the cleanup
  again, which meets the same device. In `V4l2Capture` that is `StopFails`, again and again.
* After a failed `VIDIOC_DQBUF` the code goes on with buffer 0, which the driver may be
  filling: an old or torn frame is put out. The driver may grant more buffers than
  `frm[]` has places. A device with descriptor 0 counts as unused, and reading from
  it follows NULL.

* An image whose first inner row has no background pixel makes `label_area` loop for
  ever (`FullTopRowNeverEnds`, checked and proved). So does an image of one value, all of
  whose pixels are NaN, e.g. a page on which nothing is darker than the threshold. For an image without components `analyze_area` has no `area` to plot.
* A pause and a step packet let a model start that was waiting for its start packet.
  A forced disconnect leaves the model paused.
* A point longer than the buffer overwrites itself (the theorems assume `Fits`).
* A datagram that holds nothing but its sequence number is reported as four received
  bytes.

## Fairness

* `ExtModeUpload`, `FairSpec`: the base-rate thread goes on (its timer ticks), and where it
  waits for a client to send to, clients keep coming. Without the second assumption
  `rtIOStreamBlockingSend` polls for ever inside the thread; that is the code's behaviour and
  not hidden: `WF(LinkUp)` is stated, and needed for `EventsEnd` only.
* `PktServer`, `FairSpec`: the thread that polls goes on (`WF(Target)`), and what a client sent, or its
  end, is eventually read. Nothing is assumed of hosts: one that stops sending in the middle of a
  packet and stays would hold the thread for ever, but hosts of the model send a packet at once or go
  in the middle, and then `orderly` is false or the next client's words end the packet.
* `UploadMemory` and the runs with `Spec` have safety properties only.
* `ErtMain`, `FairSpec`: both threads are scheduled. Nothing is assumed of hosts: a polling
  loop may find no packet for ever, a packet may never get complete, a send may never find a client.
* `Rtiostream`, `FairSpec`: the target goes on; it polls again and again
  (`SF(StreamRecv)`: both loops of the program call the packet server in every pass), and
  `socket`, `bind` or `listen` does not fail for ever (`SF(Reopen)`). Nothing is
  assumed of clients or network.
* `V4l2Capture`, `FairSpec`: the program goes on, and a camera that is there and has a buffer
  takes its next frame (`OutputReturns` speaks of a camera that has frames left under the
  bound, and a buffer to put them in). `VIDIOC_DQBUF` is not enabled without a frame or a fault: it blocks.
  That `VIDIOC_QBUF` succeeds is not assumed.
* `SdlDisplay`, `DisplayFairSpec`: the model goes on calling its display until it has terminated
  (`WF(Display)`). Nothing is assumed of the user. `CloseIsFollowed` needs no more, since a call of
  `SDL_PollEvent` returns every event that waits.
* `LabelArea`: a script runs until it ends.

Deadlock is not checked where the system stops by design: the script returns, the
program exits, a closed connection is done.

## Proofs

All theorems hold for all values of the constants under the modules' own
assumptions, which say only what types and orders the constants have. Where a theorem needs more, it is
a named hypothesis of its statement, and explained here.

* **`ExtModeUploadProofs`.** `IInv` says of each upInfo, with its history: which
  counters are zero in which state; that in `FIRED` the points handed over and
  the points in the buffer together are the counter, plus one between the call that records
  a point and the call that counts it (`Extra`); that in `DELAYED` the counter
  is one ahead of the steps since the crossing; that an event that ended by its
  duration has what was wanted. `DurationExact` is not inductive without the first,
  nor `DelayExact` without the second. `UnarmedWithoutHost` needs `FlushOK`: the
  final flush has freed the upInfos before the current one. One theorem follows for each
  safety property of the runs `Upload` and `UploadTwo`.
* **`CircBufProofs`**, for `Fits` (no point is longer than the buffer). `AddingOK`: the
  point being added has taken free places from `head` on, and `tmpHead` is right
  behind them, wrapped. This with `PointersOK` (an empty buffer has head = tail) makes
  the ambiguous case head = tail decidable and gives `NoOverrun`, pre-triggering included.
  The refinement, for `Fits` and `NoPreTrigger`: every step of the buffer is a step
  or a stutter of `PointQueue` under `Unread`. `PiecesOK` says that the pieces placed
  so far hold the words of the point, so that the step that writes the header adds a
  whole point to the queue. With pre-triggering (`PreTriggerIsQueue`) a step may also give up the oldest point, which must be
  whole, not the only one, and have two words before the end of the buffer (`OldestOK`). `PreInv` gives that: while the trigger
  is armed the buffer is divided into `preCount` whole points (`Divides`), and the pointers are multiples of a number that
  divides buffer and points. Both hypotheses of `PreTrigger` are needed: TLC refutes the first's negation
  in `UploadPreTriggerOne`, that of the second with a buffer of 20 words (see Findings).
* **`PktServerProofs`.** The words of a packet are in three places: some with the client's `stream`, some in
  `got`, and those that were dealt with. `StreamInv`: what is on its way from a client is a run of its words, whole as long as
  the client is there; it is stated by distances between places (`IsRun`), since words arrive in any portions.
  `ConnectionInv` (a client is in the backlog or at the socket, and was not read before) tells whose words `got` holds.
  `PlaceInv` relates what was taken to the place in the packet server, and `PacketInv`, while `orderly`, says that `got` is the
  beginning of one packet and `stream` goes on right behind it, so that `left` is what is missing of it: `PacketsInStep`.
  `SessionInv` is what `AnswersInOrder` needs to be inductive: `commInitialized` is true exactly for a client that was answered
  its handshake and not its bye, so a packet that is passed over was never owed an answer. `MemInv` says it of
  every byte of a parameter that it is that of its element, and `AnswerInv` what was sent of
  them (`ParametersReadBack`). The only assumption is `PktServerAssumption`, on packets and table.
* **`ErtMainProofs`.** `ThreadsInv` (the thread exists exactly between its creation
  and the join) gives mutual exclusion, `AskedInv` (a raised `startModel` comes from a packet that no pass
  has used) `PausedStepsAsked`. `StopInv` follows a stop packet from the flag of whichever thread processed it,
  over the step's own packet server, into `stopRequested`: it is never in none of these places, so no
  later test lets a step begin (`StopStopsSteps`).
* **`UploadMemoryProofs`.** While signals are initialized, what is allocated precedes what is still
  to do (`SignalsInv`), and a block precedes what lies in it (`InsideComesLater`); so no
  allocation overwrites one of the same packet, and nothing is lost. `FailedInv` keeps of this
  what the exit point needs: if there are circBufs, the tables are complete, and can be
  followed. `BoundedInv`: tables belong to the systems that `UploadLogInfoTerm` counts, so it
  frees them all. `TriggerInv` adds that a trigger starts from zero bytes. The order of
  the host's selections enters as `~careless` only.
* **`RtiostreamProofs`.** `SessionInv` counts what a session has delivered: over TCP what was taken
  from the client, over UDP all units from the first datagram to the last but what is left of that one in the
  buffer. So the next unit has the next number and place (`NextUnits`), whether it comes from the
  buffer or from a new datagram, which is why a datagram left by an earlier session or
  repeated by the network does no harm (`NoGaps`). `ConnectedInv` (a client is at most once in the
  backlog, and nothing was read from it there) starts the count over TCP at zero. `MessageInv`
  relates `msg` and `out` while a send waits or goes on (`WholeMessage`). `SocketInv`
  (a closed listening socket is the one that the session had over UDP) gives
  `NeverConnectedAgain`. Clients, queues, messages and datagrams may have any size.
* **`VideoProofs`**, of the capture. `ConservedInv`: the driver's two queues, the program's hand (`HandSet`, the
  buffer between `VIDIOC_DQBUF` and `VIDIOC_QBUF`) and the buffers that are lost partition the buffers of a started
  device; it is what excludes the failed read that would queue buffer 0 twice, and
  that the camera fills the buffer in the hand. `StartInv` says what is queued before, buffer by buffer;
  `FrameInv` that frames wait in their order, and behind the one in the hand. `OwnedInv`
  and `BlocksInv` (what is mapped belongs to a slot, a slot to a block that will be terminated
  or to the cleanup) give `CleanEnd`. `SlotsInv` (one slot to a name) makes the steps of one device
  leave the others alone; `DriverStep` is that argument, once for all of them. A camera
  may be unplugged at any point, and the calls named above may fail at any point.
* **`VideoProofs`**, of the conversions. Each quotient by 256 is bounded by its product, once for each channel
  (`RedNear`, `GreenNear`, `BlueNear`), so that `clamp` ends less than two levels from the formula; and subtracting from
  the parameter wraps by 256 if the pixel is the brighter one, and never from 255. `StepInverts` puts this together, for
  frames of any size and bytes and any parameter.
* **`VideoProofs`**, of the display. `WindowInv`: a window is enabled exactly as long as it has a screen and a surface, once its
  mode is set, and only then shows anything. `SurfaceInv` gives the memories the size of the current window, and `ClosedInv` says what
  a closed window waits for. `NoneApart` says only that the
  value for "no memory" is not a memory. `ShownAsItIs` has a hypothesis of its own, `WholePictures`: overlays have an even
  width, as they have groups of two pixels. With it, the element that the loops leave at each address is computed
  for pictures of any size and lines of any padding (`ColumnInPlace` for RGB by columns, where of two columns
  that are drawn in one place the last stays, and `BlankEdge` for the place that none is drawn in).
* **`LabelAreaProofs`.** `Apart`: two pixels of one label are never on two sides of a closed
  set's edge. `MergeInv`: the two labels of a merge touch, and the merged label is
  gone; so `Apart` survives merging. `ScanInv`: the pixels a scan has passed have the
  largest label around them, so that a scan which ends without a conflict leaves
  touching pixels with one label (`Agree`). `NumberInv`: the next number is below
  all labels that wait, since they start at 20 and are numbered in ascending order;
  so renumbering in place joins nothing. Together: `ComponentsCorrect`, for
  images of every size. `Component` is a recursive function; that it is the smallest closed set around a pixel
  (`ComponentLeast`) follows by taking a least number of rounds that fails (`Least`), so that no induction over data
  is needed. `OrderInv`: a component's first pixel in the order of the scan gets the component's smallest label, and
  labels of first pixels ascend; merging keeps the smaller label (`LabelsInv`), and the numbers given so far are
  the ranks of their components (`UsedInv`). When no label is left, ranks and numbers are the same set from 1 on, so
  each component has its rank: `NumbersAscend`. `KeepsByArea` follows with `ComponentsCorrect`. `BlankInv` says that nothing happens to a page of one
  value. `Stuck` is an invariant of its own for images with a full first row: the scan never gets past that row, hence `FullTopRowHangs`.

Model-checked only:

* Liveness (`EventsEnd`, `AskedStepRuns`, `StopEnds`, `SignalEnds`, `PollsAgain`,
  `WaitingIsServed`, `OutputReturns`, `CloseIsFollowed`, `Ends`): the prover does no liveness under fairness and no `ENABLED`.
* `OldestSizeInside`, which the code does not promise for buffers that are no multiple of their points (see Findings).
* `NegativeOfFrame`, as such; what it wraps is proved (`StepInverts`).

No module declares a `RECURSIVE` operator (tlapm loses its SMT backend with one).

## Not modelled

* Header sizes that a host's well-formed packets do not have: negative or huge ones come from
  foreign words only, which `InstallGarbage` answers with any outcome.
* Packet values that the host's dialog rules out, such as a section outside of the model's
  signals or an `upInfo` outside of the two: the code checks none of them.
* The option parsers, the client side of the transport, blocking receives: not used
  by the target, or before there is any state.
* Failing calls that end the process at once (`CHECK_STATUS`).
* Frames that are put out without conversion (interleaved): the generated model has none.
* `munmap` and `close` that fail (a warning is all they cause); the negotiation of the frame rate, on which nothing
  depends, and of the format, beyond that it may fail; `rgb242rgb`, which nobody calls.
* The display inside MATLAB (`MATLAB_MEX_FILE`), its events other than the end, and overlays of an odd width.
* `linuxUDP.c`: not called by the model.
* Floating-point filters, the encoder, the Fourier scripts: numerics out of TLC's reach.
* Capture scripts for phones and mbed, the OpenCV script, lecture notes: pure I/O or text.

## Plan

1. `UploadInfo` and `ExtModeUpload`: done, safety proved.
2. `PointQueue` and `CircBuf`: done, refinement proved.
3. `ErtMain`: done, safety proved. Left: its composition with `ExtModeUpload`, so that
   the free choices of `Goto` become those of the flags, and a refinement between them.
4. `Rtiostream`: done, safety proved. Left: the client side of the connection.
5. `LabelArea`: done, proved.
6. `V4l2Capture`: done, safety proved.
7. `PktServer`: done, safety proved. Left: as a refinement, the coarse `link` of `ExtModeUpload`.
8. `UploadMemory`: done, proved.
9. `VideoConversion`, `SdlDisplay`: done, proved.
10. `EdgeDetector`: `computeN8N4.m` and the two passes of `detector.m`, against
   component counts over the 256 windows.
