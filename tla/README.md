# Specification and proofs for the PIM670 Zabbix display

The firmware in this repository runs on a Raspberry Pi Pico W. It polls a
Zabbix server over HTTP every ten seconds or so and draws the list of current
alerts on a 32 x 32 LED matrix. It has no operating system: one endless loop
(`main.cpp`) and the callbacks that lwIP runs from an interrupt.

This directory holds TLA+ models of it, what TLC checks on small instances of
them, and theorems about them that TLAPS proves for every value of their
constants. `PROJECT.json` maps each definition to the source lines it models
and lists the runs, the hazards of the code and the findings.

Definitions named `X_Something` directly before a definition `X` are mutated
forms of `X`: plausible mistakes, used to see that the properties notice them.
No specification uses them.

## The system's parts

| part | state it keeps | operations | talks to |
|---|---|---|---|
| main loop (`main.cpp`) | `app_state`, `http_request`, `http_state`, `wait_until`, `http_status`, `http_response`, `alerts`, `last_update` | one case of the switch per turn, drawing, buttons, `watchdog_update` | calls the HTTP client, the configuration and usbfs; reads the clock |
| HTTP client (`opt/httpclient.c`) | the request structure (status, buffers, pcb, lengths, retry time) on the heap | `open2`, `check`, `get_response`, `close`; the DNS, connect, recv, poll and err callbacks | lwIP (calls and callbacks), the WiFi driver |
| lwIP, cyw43 driver (external) | pcbs with their callback argument, poll timer and stream; the DNS table; the pool of 24 receive buffers; the link | callbacks from an interrupt | the network |
| configuration (`opt/config.c`) | the table of settings, the file's timestamp, the time of the next check | `load`, `check` (reload on change), `get`, `set`, `save` | the file system |
| FatFs (`usbfs/ff.c`) | the window on a sector, the open file's buffer, the last cluster taken | mount, format, open, read, write, close, stat | `diskio.c`, `storage.c` |
| usbfs (`usbfs/usbfs.c`, `usb.c`, `storage.c`, `diskio.c`) | `m_mounted`, `m_fs_changed`, flash sectors | file calls of the firmware; TinyUSB's mass-storage callbacks | the USB host, which writes the same sectors |
| rows and grid (`main.cpp:54-71`, `410-446`, `483-561`) | `alerts`, `age`, `lifetime` | splitting CSV into rows, laying out up to 15 x 15 cells | the frame buffer |
| boot and watchdog (`main.cpp:161-291`, `568`) | `boot_delay`, `watchdog_timer` | defaults, boot delay, blinks, feeding | the hardware watchdog |
| Zabbix JSON client (`zabbix/zabbix.cpp`) | vectors of problems, alerts | `getAlerts`: two requests, a join | tiny-json, the server; compiled (`CMakeLists.txt:28`), but the loop uses the CSV service |
| tiny-json (`zabbix/tiny-json.c`) | the pool of nodes, the open node | `json_create`, `json_getProperty` | its caller's buffer |
| CSV service (`zabbix-server/api_csv.php`) | none beyond a request | three questions to Zabbix, a join, a sort, one reply | Zabbix; the display |

### What is hard about it

* The callbacks come between any two statements of the main loop, and they
  write the very structure it is reading.
* `httpclient_close` frees that structure without closing its connection
  (`httpclient.c:728-750`). What keeps lwIP from writing into the next request
  is a coincidence of two ten-second timers: the poll timer
  (`httpclient.c:431`) and the loop's sleep (`main.cpp:452, 460`).
* A timeout in the main loop (`main.cpp:352`) reports 408 and leaves the
  request running.
* TCP cuts a response where it likes, and each stage of
  `httpclient_recv_callback` looks at the newest segment only.
* Memory, pcbs and receive buffers run out; the watchdog is fed all the while.
* Lengths are `uint16_t`, times are 32-bit milliseconds.
* The firmware and the USB host write one FAT volume, each through caches of its
  own, on flash whose sectors are erased before they are written.
* The server changes between the questions that a list of alerts is made of.

### What makes each part correct

* Main loop: one request on the heap at most, the one it points to; it never
  stays in a state nothing leads away from; it asks again for ever; it shows
  what the server sent.
* HTTP client: what is copied fits the buffer and is what was received; a
  request in progress has a callback coming; an ended one stays ended; a
  connection calls back to its own request only.
* Configuration: every change of the file is seen; one entry per name; the
  count fits its byte and its memory.
* usbfs and FatFs: the two writers do not undo each other's writes; a file changes
  as a whole, and no loss of power hands its clusters to another.
* Clock, grid, rows: right across the wrap, no index past an edge.
* Boot: the watchdog is not left unfed by a delay of the program's own, and ends
  a hang.
* Rows and alerts, by either interface: each problem of Zabbix once, none made up,
  the most urgent first, and no failure that looks like an empty list.

## The modules

```
HttpResponse      what recv_callback does with one segment   (pure operators)
  |-- ResponseStream     one request, one response, any cuts
  `-- HttpClient         the client's calls and callbacks, lwIP, the heap
        `-- Display      the main loop, the clock, the watchdog: the system
              `-- DisplayInv    its inductive invariant, named part by part
                    `-- DisplayLife    the mapping to RequestLife
RequestLife       abstract: the stages a request goes through, and only forward
AlertGrid         from the rows of a response to blocks on the panel
Settings          config.txt between the firmware, the USB host and resets
ConfigText        the lines of config.txt, to settings and back  (pure operators)
  `-- SettingsText       Settings with the text that its lines stand for
FileStore         abstract: files, each of which changes as a whole
FatFs             ff.c as the firmware reaches it                (pure operators)
  `-- Volume      FatFs, usbfs, flash, the host, resets: implements FileStore
Clock             milliseconds in a word, is_after               (pure operators)
  `-- Boot        boot delays, the watchdog, the main loop's use of the clock
TinyJson          the parser and its pool
  |-- JsonGrammar        what it should make of a document; recursive, for TLC
  `-- ZabbixClient       getAlerts, and the server it asks
CsvService        from Zabbix through api_csv.php to the alerts on display
MCDisplay, MCResponseStream, MCSettings, MCVolume, MCBoot, MCZabbix, MCCsv
                  constants for TLC
DisplayProofs                    the client; the invariant's first half; callbacks, the main
                                 loop and the second; that Display implements
                                 RequestLife; 12 theorems
ResponseProofs                   a response, wherever it is cut; 4 theorems
AlertGridProofs                  the layout; 2 theorems
SettingsProofs                   config.txt, its lines and its settings; 7 theorems
BootProofs                       the clock, the watchdog; 4 theorems
CsvProofs                        from Zabbix to the alerts on display; 5 theorems
VolumeProofs                     the volume between firmware, host and resets; 3 theorems
ZabbixProofs                     the parser, as getAlerts uses it; 3 theorems
```

**HttpResponse.** A response is a stream of units: two halves of the status
line, the header lines, the CRLF of the last header, the blank line, and the
body. A segment is an interval of them. `StatusStage`, `HeaderStage` and
`DataStage` are the three `if` blocks of the callback in their order, and
`RecvOutcomes` is the set of what the call may do: the request it leaves,
whether the pcb is closed, and whether `p_buf` is returned without being freed.
What `atoi` makes of a torn line is a set of values. `U16` is the modulus of
`content_length`, with `Unset = U16 - 1` its marker for "none". `RomLen` is what
`p_buf->tot_len` reads through the NULL pointer that `pbuf_free_header` returns
when the headers fill their segment exactly (`httpclient.c:285, 296`): the
device reads its boot ROM there, so it is a constant of unknown value.

**HttpClient.** `mem` maps each heap address to the structure it holds, `live`
is the set allocated, `scribbled` the freed addresses that later allocations
have overwritten. `pcb` holds for each control block its state, the argument
of its callbacks, the poll timer and the position in the response. A callback
with a freed but intact argument writes to the freed structure, as the code
does. One whose argument has been overwritten (`CallbackOnOverwritten`) may
fault or do anything, and sets `tainted`. Each call and each callback is one
action; `Close`, `Fail`, `Connect`, `Lookup` and `StartRequest` are the static
functions they share. A TLS request without a pcb faults in
`mbedtls_ssl_set_hostname` (`halted`); an `http://` one without a pcb fails in
`altcp_connect`, as lwIP refuses NULL.

**Display.** One action per case of the switch. The case `ST_WAIT_RESPONSE` is
split where it looks at the request again (`pc`): `WaitResponse` calls `check`
and takes the status; `FetchResponse` reads the response; `FreeRequest` closes
it. Callbacks come between. `Tick` is five seconds; it waits for due poll
timers, because lwIP's timer interrupt does not wait for the main loop, and it
happens only at the head of a turn, because a turn takes milliseconds. `wait`
counts down to `wait_until` and below zero means `is_after`. `ShowAlerts` and
`ReloadConfig` allocate, so they may overwrite what is freed (`Scribble`).
`Reboot` is the watchdog's: it comes when the program has halted.

**RequestLife** and **DisplayLife.** What the client and the loop promise
together of a request: it joins the network, is looked up, connects, reads the
status line, the headers and the body, ends, and only then is given up; stages
may be skipped and are never gone back to. `DisplayLife` maps
`httpclient_status_t` of the open request to those stages (the two WiFi
statuses, between which the client does go back and forth, to one).

**AlertGrid.** `HandleResponse` makes alerts of the rows of a response, which
the loop reads no further than `MaxRows` beyond the header; blank rows make none.
`NextTurn` is a turn in any other state. Each begins the two nested loops of
`main.cpp:531-561`, whose rounds are `DrawBlock` and `NextLine`, with `x`, `y`
and `idx` the code's `x`, `y` and `alert_idx`. `std::stoul` throws on a field
that is no number (`RejectResponse`). `Root` is `std::ceil(sqrt(n))`, which is
exact for such `n`. The alerts themselves are not in the model, as no
property tells them apart.

**Settings.** `settings` is `m_config_settings`, a sequence of entries; `used` is
what `update_from_config` last made of it. The flash holds `dir`, the directory
entry of `config.txt` (its timestamp and its size, in lines), and `data`, its one
sector. A boot goes through `config_load` (defaults, timestamp, `config_fetch`
line by line), `config_save` and `update_from_config`; then the program sleeps,
and a `config_check` that is due and finds another timestamp fetches again. A
check that finds the same one does nothing and is no step. The host runs only
while the program sleeps (`tud_task`), and writes the data in two chunks and the
entry, in any order or, if `Orderly`, the entry last and with a new stamp. `Reset`
may come anywhere; what FatFs has written by then stays (`OpenToSave` empties the
entry, `usbfs_close` writes the data and then the entry). The file keeps its
cluster, and the allocation table is not in the model. `Stored` is what a name
is cut to. Memory may run out wherever the code asks for it: `usbfs_open` gives NULL, and
the file stays as it is (`SaveFails`) or unread (`FetchFails`); `realloc`, which
`config_set` calls once in `Block` entries, fails and the entry is left out (`Set`).
`starved` remembers that since the boot or the last change seen, `spoiled` that
the firmware, starved, has since written the file anew; neither is in the code, which
goes on as if nothing had been.

**ConfigText.** What `Settings` takes for granted of a line. `Turn` is one turn of the
loop over `usbfs_gets`, `Split` the trimming in `config_fetch`, `Printed` the `snprintf` of
`config_save`, `Saving` its loop. Both have a line buffer of 127 characters (`Size`).
`Rereads` says that a save is read again; `SettingsText` sets it beside `Settings`, which
takes it for granted where it saves (`SavedIsReread`).

**FatFs.** Each function of `ff.c` that the firmware reaches is an operator on a
drive: the fields of `FATFS`, the sectors as the program sees them, and the writes
it has asked for, in order. The window (`win`, `winsect`, `wflag`) is there, as
is its write-back, since they decide that order. One sector is one cluster and
one allocation table, as `f_mkfs` makes them on this flash. Text is a unit to a
sector. Erased flash reads as a directory of labels and a table of taken
clusters. What is compiled out (`ffconf.h`) is left out, `ffunicode.c` as a whole: its
15,000 lines are inside `#if FF_USE_LFN != 0`, and `FF_USE_LFN` is 0 (`ffconf.h:116`).

**Volume** and **FileStore.** A call of FatFs is one step that computes its writes
(`out`); the flash is then erased and programmed sector by sector (`EraseSector`,
`ProgramSector`) before the next call, and `Reset` may come between any two. `pc`
follows `usbfs_init`, `config_load` and `config_save` through the boot; in "sleep" the
loop runs, and with it TinyUSB: `Enumerate`, `TestUnitReady`, `Eject`, `Load` and
`Unplug` are the callbacks of `usb.c` with what the host does upon them. The host keeps the
tables it read when it mounted, and writes a change of a file as a list of sectors,
each in 512-byte chunks of which the first erases it (`HostWrites`). `config_fetch` reads
the file or, for want of memory, does not, which `unread` remembers. FileStore is
what both users may rely on: the firmware changes its file and no other, the host
changes one file at a time, and a loss of power leaves a beginning of what was there.

**Clock** and **Boot.** A tick is the length of the shortest sleep; `Half` is 2^31.
`due` and `age` are what the code does not have, the true distance to the deadline
and the true age of the list, and the properties compare the code's answers with
them. `dog` counts down to a bite. `Hang` stops the loop for good, as an exception,
a fault or a stall in mbedtls does. `Turn` is one round of the switch, in which
`WaitResponse` may see the request in any state.

**TinyJson** and **ZabbixClient.** The parser takes one token a step. `sibling` of an
open node points to its parent, as in the code, and `add` writes it first. The
server's two replies are documents, whole or cut off at any token, or something
else (`Noise`); the second is about what the server has by then. A text that is no number
where `std::stoi` is to read one, or an element that has no children, which
`json_getProperty` does not notice as `child` shares its place with the text, ends in the
step "lost" (`LostInProblems`, `LostInTriggers`). What the tree should
be is in **JsonGrammar**, apart, as the proofs cannot go by a recursive operator.

**CsvService.** The three questions are three steps, with a Zabbix that may have
dropped, disabled or acknowledged things between them, and any may fail (`Exception`).
`Joined` is what the three loops make rows of, `Sorted` the rows in the order of `usort`, by
the places that each has; rows that it does not order are equal, so the order of the
triggers does not show. `output` puts a header before them; `HandleResponse` is the display's end, with what its buffer
holds and the limit on rows. A row is its fields; one that is no number is `Word`. The
connection may end early (`closed`), by the peer or lwIP's poll timer, and the client then
takes what there is for the response: nothing, some rows, or rows and a cut one (`Early`).
An error's row may be cut as well, as messages are of any length. `DoRequest` asks again;
`Restart` follows a throw that nobody catches.

**ResponseStream.** The callback alone, on responses of up to twelve units of
body, longer than `Display` can afford.

## What TLC checks

| run | shows |
|---|---|
| `display_safety` | over `http://`: types; the request is neither leaked nor freed twice (`RequestNotLeaked`); every request in progress has a callback coming (`InProgressIsDriven`); connections do not reach another request (`NoCrossTalk`); buffers hold (`ResponseFits`) |
| `display_tls` | over `https://`, with `open2` failing at will and two acknowledged flights in the handshake: the inductive invariant `IInv`; no stale deadline (`FreshDeadline`); requests are freed only when ended (`FreedWhenEnded`); `Display` implements `RequestLife`, so that no callback revives an ended request (`LivesForward`) |
| `display_live` | with a link that finally stays up, requests are started (`LoopLives`) and ended and freed (`RequestEnds`) for ever, whatever the server does, lost receive buffers and reboots included |
| `response_stream` | any cut: the body copied is the body received (`NothingLost`), completion means all of it (`CompleteIsWhole`), and a header block that comes in one segment with some body is enough to read the response in full (`UncutIsRead`) |
| `grid_blocks` | every number of alerts from 0 to 225: blocks lie on the panel (`BlocksInPanel`) and have pixels (`BlocksVisible`) |
| `settings_file` | with an orderly host and resets at any point but inside the save: one entry for each name (`UniqueNames`), no name missing when it is needed (`NeverHalted`), a recorded timestamp means a file read and used (`StampMeansRead`), what the user wrote stays in the file (`UserKept`) and is used in the end (`UserFollowed`), but for what memory that ran out did; what a save writes of any text is what the next boot reads (`SavedIsReread`) |
| `volume_files` | with an orderly host and resets anywhere: no cluster belongs to two files or to none (`Intact`); a save is on the flash as meant (`SavedIsOnFlash`), and always fits where it fitted before (`SaveFits`); the host's cache is never stale (`Cached`); `Volume` implements `FileStore` (`KeepsFiles`); an edit reaches the program, if there was memory to read it (`EditArrives`); a host that polls gets to mount (`HostMounts`) |
| `boot_clock` | the watchdog bites only what hangs (`BitesOnlyHung`), and what hangs it brings back (`HangEnds`); deadlines (`DeadlineIsRight`) and the age of the list (`RecentIsRight`) are right across the wrap |
| `zabbix_alerts` | the borrowed pointers lead back through the open brackets (`WayBack`); the tree is the document's, or the pool is too small (`ReadsDocument`); the alerts are those of enabled triggers and hosts, or none of a reply cut off (`AlertsRight`) |
| `csv_list` | wherever the buffer, the limit or an early close cuts it, the list shown is Zabbix's, no row twice or made up, nor missing but for these three (`ListRight`); what is cut off is the least urgent (`MostUrgentShown`); an empty display means no problem, unless the connection ended early (`ClearMeansNone`); no list makes `std::stoul` throw, only an error's message can (`OnlyErrorsThrow`) |

Two more runs each refute one statement of the repository about itself; see
the findings below.

### Bounds

* Two addresses and two pcbs: a request, and one left over from the last. More
  left-over connections would need a second one before the first is gone, which
  `NoCrossTalk` excludes (and the proof has no bound). Symmetric in both.
* `PollTicks = SleepTicks = 2`, `StateTicks = 3`, `RetryTicks = 1`: the code's
  10 s, 10 s, 15 s and 5 s in ticks of 5 s.
* `display_safety` has `MaxSize = 1` and a body of two units (exceeds the limit),
  the others `MaxSize = 2` and a body of one (fits). `U16 = 8`, so no length wraps
  in Display. `response_stream` has `MaxSize = 4`, lengths 0 to 12 at `U16 = 8`:
  empty, fitting, exceeding, taken for "none", and wrapped around.
* `PoolSize = 2` (24 on the device): a response may lose one buffer to a cut and
  still be read, and the pool may run dry. With 1 the first cut in a status line
  would already have ended all receiving, and some paths through
  `IgnoreResponse` would never have been taken. `fetch_null` has 1.
* `Flights`: 1 or 2 acknowledgements before the handshake is done, each of
  which restarts the poll timer.
* `RomLen = 2` (6 in `response_stream`): above the limit, which is an assumption about the
  boot ROM; the theorems hold for any value.
* `CONSTRAINT Defined` in the safety runs stops at states in which a callback
  has used overwritten memory; nothing is claimed of what follows, and
  the properties have `~tainted` as a hypothesis. The liveness run has no constraint.
* `display_live` has one address and one pcb.
* `grid_blocks` has the sizes of the device: a panel of 32, 225 rows; responses
  of one row (a header), of 60 and of more than the limit.
* `settings_file` has two defaults, of which one is needed, a third name, files of
  up to three lines with repeated names, chunks of one line, three edits, and memory for
  the table in blocks of two entries (five in the code), so that the last default needs
  none and a third name does. Names
  fit (`Stored` is the identity), the table stays below `CountMod`, and `CutSave` is
  FALSE: each of these is needed, see below. `SavedIsReread` takes each first line of up to
  six characters of five kinds, and four continuations, with a buffer of six: lines
  that just fit, are cut, are split in pieces, are comments.
* `volume_files` has eight sectors, one of them the directory with room for a label and two
  files, so that directory and clusters both run full; texts of one and two sectors,
  one chunk of an entry, two edits, two resets. With `Orderly = FALSE` TLC refutes
  `Intact`, `KeepsFiles` and `EditArrives`: a host that writes an entry before the
  table is not protected against resets by anything in this code.
* `boot_clock` has a clock of ten ticks, which wraps within two or three requests, and
  three settings: watchdog off, all missing, and beyond the maximum.
* `zabbix_alerts` has up to three problems, five kinds of trigger, every document of up
  to four tokens, and 32 nodes: the largest real reply just fits, and arrays of
  31 and 32 numbers just do and just do not. The client comes to an end, so deadlock is
  not checked.
* `csv_list` has up to four problems of two triggers on two hosts; three rows are looked at,
  and the buffer holds three or six of up to six. Messages of errors have no semicolon, one,
  or two, which a cut may leave with one.

TLC's symmetry is used with invariants and step properties only.

### Fairness

`FairSpec` assumes that the loop keeps turning (nothing in a turn blocks), that
time passes, that lwIP's due poll timers fire, that each DNS lookup ends in
an address or a timeout (lwIP's resolver gives up after its retries), and that
the watchdog reboots a halted device. Nothing is assumed of the server, which
may stay silent, close, or reset at any time, or of the link, whose staying up
is the hypothesis of the liveness properties. In `Settings` the program's own
steps are weakly fair, the checks included, which come due every ten seconds;
the host and the power owe nothing. With `Watchdog = FALSE`, or with
`OpenMayFail = TRUE`, `LoopLives` does not hold.

In `Volume` the firmware goes on whenever it can, since nothing in it blocks, and looks
at the file again and again, since `config_check` comes due every ten seconds. That
is weak fairness with the states in which it can act written out, as TLC would
otherwise evaluate all of FatFs for ENABLED. A host that has enumerated goes on
polling, as TinyUSB answers in every sleep; it need not do anything else. In `Boot`
the program's steps, time and the watchdog's bite are weakly fair, `Hang` and the power are
not.

## What is proved

All theorems hold for every value of the constants that satisfies the
named assumptions. The one that matters in `Display` is `PollTicks <= SleepTicks` in
`DisplayAssumption`: the main loop sleeps no less than lwIP's poll timer runs.

* `TypeCorrect`, `ResponseAlwaysFits`, `RequestNeverLeaked`, `DeadlineIsFresh`
  follow from `HeapInv`, the first half of the invariant. That half
  needs two facts besides the types: every structure is `Bounded` (a body in
  progress is no longer than announced, or `content_length - response_length`
  would go below zero) and every open one `Fits` its buffer. `RecvLemma` proves
  them of the whole receive callback for any segment.
* `InvariantHolds` adds `Connections`, the life of the open request and of its
  pcb, status by status (`OpenRequest`), and of a pcb left over from a freed
  request (`Leftover`): connected, with nothing to be acknowledged, so that
  nothing restarts its poll timer; only in the states between a response and
  the next request; and with no more time on its timer than the sleep has left.
  The last conjunct is what `NoCrossTalk` needs and what it is not inductive
  without. `Connections` is claimed while the program is `Sane`: neither halted
  nor tainted.
* `ConnectionsDontCross`, `ProgressIsDriven`, `FailedHasNoCallback` follow from
  it state by state; `FreedOnlyWhenEnded` and `EndedForGood` are step
  properties, proved from it action by action. `FailedIsClosed` and `EndedStaysEnded`,
  which two of them state, have no run of their own: the first follows from `IInv`, the
  second follows from `LivesForward`.
* `RequestLivesForward` is the refinement: each initial state of `Display` is
  one of `RequestLife` and each step one of its steps or a stutter. It needs the
  whole invariant, `CallbackForward` from the part of `OpenRequest` that ties the
  state of the pcb to the status (a pcb still connecting belongs to a request
  that has received nothing), and `RecvForward` on any segment.

* `BlocksStayInPanel` and `BlocksStayVisible` hold for every size of panel, and
  every limit on rows up to the square of half of it. The invariant
  (`GridInv`) says that `x` and `y` are corners: the offset plus a whole number of
  blocks. `LayoutFacts` bounds what the divisions give, `CornerFits` says that a
  corner before the edge leaves room for its block. `RootBound` bounds the root
  by the limit, through the cardinality of an interval.
* In `SettingsProofs`, memory may run out at any time, and the theorems except exactly what
  follows from that (`starved`, `spoiled`). `SetOutcome` has the two outcomes of
  `config_set`, one of which may leave the table as it is. `TypeCorrect` and `NamesStayUnique` need no bound on files,
  names or edits; the latter assumes that names fit (`NamesFit`), as without it
  the property is false. `RecordedIsRead` assumes also an orderly host, and
  fewer names than the modulus of the count (`FewNames`; 256 in the code). Its
  invariant, `ReadInv`, says how far the reading and the writing of the
  file have come (`FileInv`), and that an edit in progress has a stamp newer than
  any the firmware has seen and its entry still to write (`HostInv`). Unique names are
  part of it: the table then has room for one more by the pigeonhole
  principle (`Room`), so that the count does not wrap and lose what was read.
  `NeededAreSet` assumes that each needed name has a default
  (`NeededHaveDefaults`, as `config.c` has it); `DefaultsInv` says that the defaults set
  so far have entries, and `SetKeepsNames` that `config_set` takes none away.
  `EditsAreKept` assumes that power does not fail during the save (`CutSave` refutes
  it), and needs no orderly host. Its invariant follows the user's lines: into the
  flash part by part (`EditInv`), from there into the table (`BootInv`, the same
  reading as in `FileInv`), and back (`WhereInv`): while the file is being written they
  are in the table only, and `ReadKeeps` says that they are all there.
  `TextIsReread`, and with it `RereadsAlways`, is about the text: any that the user writes,
  and a buffer of any size.
  What `config_fetch` sets has no end of a line in it, and a name no divider and no spaces
  around it (`Entry`), as a piece has its newline at its end, where it is trimmed
  (`SplitEntry`, `TrimmedEnd`). The line that is printed of such an entry (`IsLine`) ends in
  a newline or is as long as a piece can be, so `f_gets` takes it and no more
  (`LineIsRead`), and it is split into the same name and what is kept of the value
  (`LineIsSet`). `IsAt` then follows the file: after n turns n entries are set, and the
  text left is what follows their lines (`TurnGoesOn`). Both loops are recursive functions;
  `Recursion` gives an equation for each of their steps, and inductions are on the least
  number that is an exception (`LeastOf`).
* In `ResponseProofs`, `StreamInv` ties the request to the position in the response:
  a body in progress ends at the position, is announced with the length modulo that
  of a `uint16_t`, and has reached neither limit, or it would be complete. The
  lemmas `StatusFacts`, `HeaderFacts`, `DataFacts` follow the three stages of the
  callback, `ReceiveFacts` the whole, `CopyKeeps` what both ways into the
  last stage have in common. `UncutInv`, for headers that came whole with some of the
  body, is inductive only with the rest.

* `NeverWaitsForNothing` rests on `HeapInv` and on the one place where the state and the
  request are changed apart, `FreeRequest`; its hypothesis is `~OpenMayFail`.
* In `BootProofs`, `WatchdogBitesOnlyHung` assumes `BootFits`: boot delay and blinks together
  are shorter than the timer. `DogInv` says what the timer has left in each part of the
  boot, enough for the parts to come. `DeadlinesStayYoung` assumes that `Sleep` and
  `Patience` are less than half the clock; `AgeInv` ties `due` to the signed
  difference while it is above `-Half`, and `YoungInv` bounds it from below in the
  states that consult it: the loop turns once a tick, so it has left them by the
  first turn after the deadline. `RecentAcrossTheWrap` needs `SeenInv`, that the unsigned
  difference is the true age until that reaches the modulus. The lemmas on the clock
  (`AheadOfPlus`, `AheadTick`, `MinusTick`) hold for every width.
* In `CsvProofs` the invariant (`CsvInv`) is small: the reply is a function of what Zabbix
  answered (`Reply`), and what is on display was read of a beginning of it. The work is in
  that function. A row's places are those after the rows before it (`Under`), as many as
  have the same (`UpTo`); rows are ordered totally (`BeforeIsOrder`), so places of
  different rows are apart (`PlacesApart`), and every place has a row (`PlaceHasRow`, by the
  least number of which a finite set of them consists). Makers of rows are one to one with
  what is due (`AsMany`), as event ids and a trigger's host ids are not repeated, so a
  row has as many places as it is due times (`DueIsEquals`). `ListIsRight` and
  `UrgentIsShown` count places in what was read, which an early close may cut in any
  field of any row. `ClearIsNone` and the lower bound in `ListIsRight` except such
  connections (`closed`), as they are false of them. `ListsNeverThrow` needs no
  assumption: a row of a list has six fields of which four are numbers, so a cut one
  has fewer than six or its numbers, and an error's row has five and the semicolons of its message.

* In `VolumeProofs`, `FilesIntact` and `HostCached` hold on a volume of any number of
  sectors that 12 bits can name, with one table or two, any directory, files and
  texts, and any number of edits and resets. Both assume `Orderly`, without which TLC
  refutes `Intact`: the order in which a host writes is not up to this code.
  Chains are not followed. `Chain` is the least set that begins with a cluster and that
  the table does not lead out of, so it lies in any such set (`ChainInside`). Each
  slot of the directory, and the file that is being saved, can be given such a set, of
  allocated clusters, apart from all others (`Owns`); an erased
  table, on which every chain ends at once, leaves a file its set. `Kept` says that
  there are such sets, `Sound(n, f)` that the flash `f` with `n` tables has them. An
  operator of FatFs then changes the sets and not chains: `create_chain` adds a free
  cluster to one, `remove_chain` empties one.
  `Pending(n, f, w)` says that each beginning of the writes `w`, done to `f`, leaves it
  sound. That is needed twice over, as a reset may come after any of them, and the next
  call of FatFs adds its own to what the last one's leave (`PendingMore`). A sector
  that has been erased and not yet written, or of which the host has sent one chunk, is sound as
  well: erased tables have every cluster taken, and erased directories refer to none.
  `Ready` is a mounted drive whose window, clean or dirty, and writes are such; `Calm` one
  with nothing to write; `Saving` says that the file in `fp` owns its clusters and
  that its last is the end of its chain, so that `f_write` appends and does not fork.
  The invariant, `VInv`, is of three parts: `Written`, what is to be written loses no
  file; `Firmly`, what `fs` and `fp` say is so where `pc` says they are used;
  `Hostly`, a host is there only while the firmware has nothing to write, and its cache
  is the flash after its own writes (`HostKnows`). `EditStep` has the order of an orderly
  host's writes as its parts: new clusters, both tables, the entry, both tables (`Leads`).

* In `ZabbixProofs`, `WayBackKept` and `TreeIsWhole` hold for every document that any
  server sends and every size of the pool, `AddProperty` being refused when it is full.
  `WayBack` is said with recursive functions (`Opens`, `Back`), of which the
  proofs need an equation for each step: `Recursion` gives it, from the approximations
  up to a number (`UpTo`), the least at which two differ and the least that
  does not exist. The invariant, `Growing`, has the path back as a sequence `w`, an open
  bracket each (`Way`), which `AddProperty` may lengthen and `Close` shortens by its head. It is not
  inductive without the rest of the tree: `add` overwrites the sibling pointer of what
  `last` says is the end of the list, which must not be one that is on loan or in use
  (`EndKnown`), and when a node closes, the end of the outer list is the node itself
  (`StepsBack`). `Linked` says that pointers not on loan lead to later nodes and that each node
  but the root has exactly one; `LinkedGrows` is the step that matters, for a leaf and a
  bracket alike. `WholeTree`, which has no run of its own, is what is left at the end:
  `json_getChild` and `json_getSibling` walk a tree of exactly the allocated nodes.

The proofs go one lemma per action. `EndingKeeps` and `ProgressKeeps` in
`DisplayProofs` carry what all callbacks that end a request, or move it on,
have in common; `StartOpens` what the two ways of starting one have.

Only model-checked: the liveness properties (fairness and ENABLED are outside
the prover's reach); of `Volume`, what depends on the text of files (`SavedIsOnFlash`,
`KeepsFiles`), which a reader collects cluster by cluster, and on their number
(`SaveFits`); and what recursive operators compute, which is induction over a document: what
the parser's tree says and what `getAlerts` makes of it (`ReadsDocument`, `AlertsRight`).

## Findings

Each is a run in which TLC refutes a sentence of the repository.

| run | the repository says | the code does |
|---|---|---|
| `fetch_null` | `httpclient.c:705`: the buffer, "if the request has completed" | an error in between makes it NULL, and `std::string(NULL, n)` throws |
| `settings_unseen` | `config.c:214`: looks "to see if the configuration file has changed since the last time it was read" | looks at the timestamp in the entry; new data under an entry it has seen are never read |

More follows from the models and has no run of its own:

* When `httpclient_open2` returns NULL, nothing leads out of `ST_WAIT_RESPONSE` again: the
  branch that `main.cpp:401` calls a BUG is taken on every turn, and the watchdog is
  fed (`OpenMayFail = TRUE` refutes `LoopLives`, and is the hypothesis of `WaitsForRequest`, which is proved).
* A connection that ends early counts as COMPLETE (`httpclient.c:179`), and the list shown
  is what came before. If that was no more than the header, or nothing, the display is cleared,
  although there are problems or the service has failed: `ClearMeansNone` is false
  without its `~closed`.
* When `usbfs_open` gives NULL or `realloc` fails while `config.txt` is read, the timestamp
  has been recorded and the file is not looked at again until its date changes
  (`config.c:57, 244, 311`). At boot the save that follows then replaces what the user wrote
  with the defaults, and a needed default that did not get its entry halts
  the program. `StampMeansRead`, `UserKept`, `NeverHalted` and `EditArrives` are false
  without their exceptions.
* In `getAlerts` a text that is no number makes `std::stoi` throw, which nobody catches, and an
  element that is neither object nor array has its text taken for its first child
  (`tiny-json.h:58-64`, `zabbix.cpp:214, 283`).
* A header block cut in two is never recognised: `httpclient.c:229` looks at the newest segment
  only. A request then ends by timeout.
* Each such segment keeps its buffer (`httpclient.c:333`). When the pool is used up nothing is
  received again; the watchdog, which `main.cpp:220` has for flaky HTTP code, is fed.
* A boot delay that is not shorter than the watchdog's timer makes a loop of reboots, and a
  delay within two seconds of it makes one after the first bite, because of the blinks:
  `BootFits` has to be assumed. So does a timer of 10 ms or less, the length of a turn.
* A list older than 2^32 ms looks recent again for 30 seconds.
* `m_fs_changed` is only ever set by the save at boot, before any host has enumerated; the
  first poll is always told that the medium is not ready.
* After an eject and a load the medium stays absent until it is plugged in again.
* A reset between the boot sector and the table of `f_mkfs` leaves a volume that mounts and
  has no free cluster, and whose directory, erased, is full: `config.txt` cannot be created,
  and the boot goes on with the defaults.
* A reset between the entry and the table of a save loses clusters for good; they are
  nobody's, which `Intact` allows.
* A name that begins with `#` (written " #x: v" by the user) is saved as a comment, and gone
  at the next boot.
* An error message with exactly one semicolon makes a row of six fields, of which
  `std::stoul` throws; so does one with more semicolons if the row is cut to six fields
  by the end of the buffer or of the connection. An error reply of any other kind shows as
  one alert without data.
* `getAlerts` makes one alert of several problems of one trigger, where the CSV service
  makes one of each.

* A 408 timeout leaves the request open (`main.cpp:352`), so `ST_DO_REQUEST` meets
  it and takes the branch that `main.cpp:316` calls a BUG; the old request then goes
  on instead of a new one.
* When the headers fill their segment exactly, and the length read through NULL exceeds
  the limit, a response is `TRUNCATED` before any of its body has come,
  although `httpclient.c:318` says that means "we would have exceed it".
* `httpclient_close` leaves the connection of a completed request open, with its
  callbacks, although `httpclient.c:724` says it frees "any resources associated
  with the request". `Leftover` in `DisplayInv` says what becomes of it.
* `main.cpp:529` says "Write static rectangles for all alerts", but the end of the
  loops does not count the offset: of 50 alerts 49 are drawn. So many do not
  come in a response of 1024 bytes, which holds some forty rows.
* Power failing while the file is saved at boot loses what the user wrote
  (`CutSave = TRUE` refutes `UserKept`). A name of more than 31 characters gets another
  entry at each reload (a `Stored` that cuts refutes `UniqueNames`), although
  `config.c:280` says that an existing value is overwritten; and when so many
  reloads, or so long a file, take the count to 256, all settings are forgotten and
  the program halts (a small `CountMod` refutes `NeverHalted`).

## What is not modelled, and the plan

Left out, and why:

* Colours and animation, buttons, brightness: drawing without state that anything else reads.
* The text of requests and the WiFi credentials: strings that are put together and passed on.
* lwIP's lists and lock, mbedtls and its heap: external, and what happens when they are
  changed under an interrupt cannot be said from this repository.
* FatFs beyond what the firmware calls (seeking, directories, renaming, exFAT, long names), and
  clusters of several sectors, which an uninitialised `au_size` may give.
* `ffunicode.c`, more than half of the lines of this repository, and the greater part of `ff.c`:
  the preprocessor leaves nothing of the former, and the options in `ffconf.h` (no long names,
  no exFAT, one volume) or the linker little of the latter. There is no behaviour
  of this firmware in them.
* What is undefined in C and depends on the device: `strlen` of the NULL that `main.cpp:313`
  passes (`httpclient.c:576`), and `std::equal` in `main.cpp:433`, which reads past a list that
  was shorter and then decides on a message only. `RomLen` is such a value too, and
  has not been looked up on a device.
* The CR that `f_puts` writes before each newline and `f_gets` drops wherever it meets one
  (`FF_USE_STRFUNC` is 2, `ffconf.h:59`; `ff.c:6501, 6590`): together they give a text without CR back.
  That a CR of the user's is dropped before `config_fetch` sees it is not in the model.
* What follows when memory has been overwritten: `LoopLives` and `RequestEnds` go on past such
  a state with what the model has for it, any outcome of the callback, and say no more than that.
* Characters within tokens in TinyJson; the PHP prelude; USB descriptors; build options.

Next, in this order:

1. A volume with two edits in progress at a reset, and larger tables.
2. `SaveFits` as a theorem: the clusters that the emptied file gives back are as many as
   it had sectors.
