# A TLA+ model of eldentracker

`eldentracker` is a DLL that is loaded into a running game. It finds the game's
functions and data by scanning memory, redirects two of the game's functions to
its own, and reports what happens (hits, deaths, spawns, player data) as JSON
text to every program that connects to its websocket port. The modules here
model the parts whose correctness depends on the order in which things happen:
several threads of the game call into the tracker while one thread of the
tracker serves the websocket connections, whose peers send, stall and leave as
they like, and while the user edits the settings.

Paths below are relative to `src/`; `functionality.cpp`, `mem.cpp` and so on are
in `src/src/`.

## 1. Inventory

### The parts

| part | code | state it keeps | operations | calls |
|---|---|---|---|---|
| start-up | `main.cpp` | one thread | `DllMain`, `run_main` | settings, memory, then `Net_StartListening`, which does not return |
| settings | `settings.cpp` | one `Settings` object, one file | `Settings::Get`, `LoadSettings`, `SaveToFile` | json |
| log | `logger.cpp` | one static stream, the level | `Log`, `SetLogLevel`, `WriteToOutputFile` (never called) | - |
| memory | `mem.cpp` | nine pointers into the game, two hooks | `Mem_Initialize`, `FindPattern`, `ExtractPtrFromInstruction`, `Hook::Set`, the `Game_...` readers | the game |
| callbacks | `functionality.cpp` | `cur_player_anim_id` | `ApplyDmgCallbackFunction`, `SetAnimationCallbackFunction`, `GetLocalPlayerData` | the readers, `Net_SendData` |
| registry and broadcast | `networking.cpp` | `connection_mutex`, `server`, `server_hdls` | `Net_SendData`, `Net_StartListening` and its handlers | websocketpp, log |
| client side | `networking.cpp` | `connections` | `Net_ConnectToWebsocket` (its only call is commented out, `main.cpp:29`, `31`) | websocketpp |
| connection | `websocketpp/impl/connection_impl.hpp`, `transport/asio/connection.hpp` (vendored) | session state, send queue, the write under way, timers | handshake, read and write loops, closing handshake, termination | the frame reader, the handlers |
| frame reader | `websocketpp/processors/hybi13.hpp`, `frame.hpp`, `utf8_validator.hpp` (vendored) | the field being read, the bytes it needs, two messages under way | `consume`, `get_message` | - |
| endpoint | `websocketpp/endpoint.hpp`, `roles/server_endpoint.hpp` (vendored) | - | accepting, `get_con_from_hdl` | connection |
| rest of websocketpp | HTTP, digests, old protocols, compression (vendored) | - | parse, format | - |
| JSON | `json.hpp` (vendored) | - | parse, dump | - |
| example client | `example/` | a page | shows the messages | - |

### Who runs what

* **The tracker's thread** (`run_main`) loads the settings, runs
  `Mem_Initialize`, and then serves the websocket connections for good: it runs
  every handler of every connection, among them `on_message_server`, which
  answers an "info" request with `GetLocalPlayerData`.
* **The threads of the game** run the game. Once a function is hooked they run
  its callback, which reads the game's memory and calls `Net_SendData`.

They share the bytes of the two hooked functions, the `...Continue` pointers,
`WORLD_TO_MAP_FUNC_PTR`, `cur_player_anim_id`, `server`, `server_hdls`, the
connections, the log stream, and all the game's memory. Each connection has its
own two locks (session state, write queue); its handlers run one at a time, on a
strand. One mutex,
`connection_mutex`, guards the registry during a broadcast and a handshake.
Nothing else of the tracker is guarded.

### What is hard, and what correct means

| part | hard behaviours | what makes it correct |
|---|---|---|
| registry and broadcast | game threads and the io thread meet in `server_hdls`; handles of sessions in every state; the mutex is locked and unlocked by hand; listen may fail after `server` was set | the vector never changes under a loop; a broadcast reaches every listener open throughout; every listener gets a gapless segment of one order of events; a mutex taken is given back; one thread at a time in `Log` |
| hooks | the game runs through the bytes while they are overwritten; three stores that must come in order; each of several steps may fail; two hooks, one of them may be missing | calls that do not overlap the patch run every displaced instruction once, and are reported exactly if the function was hooked; the continue pointer is there first; after `Mem_Initialize` nothing goes wrong |
| animation callback | one unguarded variable for all threads and all players; two animations that make one spawn | each spawn and each death is reported once; no message is about something else; however threads race, no death is lost |
| damage callback, player information | a message is put together from several reads while the game goes on | a message shows values its character had during the call, and does not mix two characters |
| readers of the game's memory | chains of pointers, each null at some time; static pointers that are tested and then read again | null in gives the default out; no dereference of null |
| pattern scan | wildcards, the last place where a pattern fits, a game that writes meanwhile, widths of displacements | the first match, if there is one |
| settings, start-up | first start, edit by hand, a file another program holds, a game that ends while saving, a broken file, port width | the settings are those of one whole file or the defaults, never a mixture; what the tracker writes is what it runs with; a file of the user's is kept |
| connection | game threads push while the io thread writes; the write flag and the queue are tested in two places; timers that expire as they are cancelled; terminate called from everywhere; a peer that stalls or leaves | the program hears of one end; no frame waits without a write to come; frames in order, none after a close frame; every stage ends; a closed connection is let go |
| frame reader | reads that end anywhere in a field; control frames between the frames of a message; a key for each frame, a validator for each message | the messages are those of the frames taken whole; a faulty frame is the last; the reader never waits over bytes it has |

`PROJECT.json` lists each hazard at its line, with the properties that would
catch it going wrong, or with the reason why none does. Where the hazard is what the
code really does (a read after the last place, a window before a store, a late timer)
its note says which part of it a property still bounds.

## 2. Plan

The order is by importance: first the path every message takes and the hooks
that change the game's code, then what is reported, then how it is read.

| | modules | what | state |
|---|---|---|---|
| 1 | `Feed`, `Networking`, proofs | registry and broadcast, implementing an abstract feed | done |
| 2 | `Hooking`, proofs | `Mem_Initialize` and `Hook::Set` against running threads | done |
| 3 | `Lives`, `Animations`, proofs | the animation callback against an abstract account of lives | done |
| 4 | `Messages`, proofs | the damage message and the answer to "info" | done |
| 5 | `PatternScan`, proofs | `FindPattern` as a loop, against a game that writes to its data | done |
| 6 | `Session`, `ServerConnection`, proofs | what websocketpp does with one connection, implementing an abstract session | done |
| 7 | `MessageStream`, `FrameReader`, proofs | how bytes become messages, implementing an abstract stream | done |
| 8 | `Startup`, proofs | a start of the tracker and its settings: first start, edits, a game that ends between emptying and writing, a broken file, the width of the port | done |

Abstract specifications: `Feed` (what a listener is promised), `Lives` (what is
to be reported of a player), `Session` (what a sender is promised of one
session), `MessageStream` (what the frames of a peer mean).

The modules meet at their boundaries rather than in one product, which would be
out of TLC's reach: `Networking` takes of a connection what `ServerConnection`
shows it to be (a state that moves forward, a queue that keeps its order, an
object that is let go), `ServerConnection` takes of the reader that it hands over
one message or error after another, which `FrameReader` shows, and `Startup` takes
`Mem_Initialize` and the server as one step each.

## 3. The modules and the code

### Networking (`networking.cpp`, and `websocketpp` as far as it is used)

`connection_mutex`, `server` and `server_hdls` are the static variables of
`networking.cpp:25-29`. `m_state` and `m_send_queue` belong to the connection
objects of websocketpp; "unborn" and "expired" say that there is no object yet
or no more. `pc`, `pos`, `msg` and `conn_ptr` are the locals of `Net_SendData`
of each game thread.

* `Call`, `Lock`, `SkipExpired`, `FindAlive`, `Upgrade`/`UpgradeThrows`,
  `SendChecks`/`SendRefused`, `SendPushes`, `SendLogs`, `Unlock` are
  `Net_SendData` (160-180), cut wherever another thread can see or change
  something: between `expired()` (169) and `get_con_from_hdl` (170), between the
  test of the state in `connection::send` and the push, between the push and `Log`.
* `PublishServer`, `Listen`, `ListenThrows` are `Net_StartListening`: the pointer
  is set first, and stays if `listen` throws.
* `Validate`, `ValidateLock`, `ValidateRegister` are the validate handler, which
  waits for the mutex on the io thread. Meanwhile no other handler runs (`Ready`).
* `Accept`, `Open`, `Fail`, `StartClose`, `Close`, `Expire` are what the handlers
  and websocketpp do to a session. `Expire` needs no `Ready`: the last reference
  may go at the end of any handler or of a `conn_ptr`.
* `AnswerInfo` is `on_message_server`, without the mutex.

An event is its number in the order in which broadcasts take the mutex. The
outgoing queue is never emptied in the model; what goes on the wire is a prefix
of it (`Session`, which `ServerConnection` implements).

### Feed

The promise to the listeners. `published` is `Networking`'s `entered`, `log` its
`m_send_queue`. A listener's first event may be any published one, and then none
is left out. `Segments` spells out what this means for one log; `NetworkingProofs`
proves it of `Feed` alone (`FeedSegments`).

### Hooking (`mem.cpp:105-277`, and the callbacks' ends)

`code[f]` has the state of each of the first five bytes of function f: "old",
"nop" (after the `memset` of line 192), "jmp" (after the `memcpy` of line 193).
`WriteNops` and `WriteJump` change any non-empty subset of the bytes in one step,
as the compiler may store them one by one, together, or in any order. `Initialize`
has one action per step of `Mem_Initialize`: the search for each signature, the
allocation, the protection and its failure, the trampoline, `*out_func`, the
bytes, and at last `WORLD_TO_MAP_FUNC_PTR`. `found` is chosen at the start: which
signatures this game has.

A thread's call executes whatever stands at its place: an old instruction if all
its bytes are old and it is at its first byte, a nop, the complete jump, or
something that is none of these (`ExecuteTorn`), which ends in "torn": nothing
can be said of what follows. The callbacks are here only as far as control goes:
whether a position is converted (`Convert`) and the call of the continue pointer.
What they report is in `Animations` and `Messages`.

The model takes an instruction's five bytes as read at once. Threads are not
stopped, so a call may still stand in the middle of the prologue when the bytes
change; such calls are marked `overlapped`.

### Lives and Animations (`functionality.cpp:102-159`)

`cur_player_anim_id` is the code's variable. Each access to it is a step of its
own; line 131 may use the value compared or read it again (the variable is
neither atomic nor volatile), so `SavePrev` allows both. A call that is not about
a player goes straight to `Continue`. `Kind` has the conditions of lines 133 and
141-145; the ten dying animations are the constant `Deaths`.

`Lives` says of each player on its own what is a spawn and what a death. With one
thread, `Merged` shows that the code reports what `Lives` reports if all players
are the one player `Party`: that is what one variable for all of them amounts to.

Under a race two threads may both report one death, or two deaths of the same kind may
be taken for one. What must not happen is that nobody reports it: `DeathsNotLost` says that
a call which line 130 passes on as the repetition of a death has had its death reported
since it was stored (the history `answered`), or some thread is between the store and the
message (`Pending`). It rests on the order of lines 131 and 132 and on what `Kind` makes
of the animation before.

### Messages (`functionality.cpp:9-20`, `107-124`, `160-169`, `networking.cpp:107-118`)

`hp`, `alive` and `local` are the game's memory. Each fill of a message is a step;
between any two of them the game may change the hp of a character, change the
local player, or release a character. It keeps the two characters of a running
call, but not the one `GetLocalPlayerData` has a pointer to: a read of it after
`GameReleases` gives any value. Only the handle and the hp of an `EntityMessage`
are kept; the other fields are read in the same way.

### PatternScan (`mem.cpp:54-102`)

`pattern` is the code's `pattern` and `mask` in one: a sequence of bytes and
wildcards. `i`, `j` and `found` are the variables of the two loops; each byte
compared is a step, and between any two of them the game may write to its data
(the addresses outside `Code`), which are in the image that is scanned. The
comparison goes on when `found` is false already, as `&=` does. `Limit` is the
unsigned `size - pattern.size()`, so that a signature longer than the image makes
the search leave it (`ReadOutside`): it may fault, or compare with whatever is there.

`MatchFound` says what `i < Limit` makes of it: the last place where the pattern
fits is not tried. The signatures of the game are all within its code and far from
the end of its image, so that this is no finding, but it is the bound of what
`FindPattern` promises.

### ServerConnection and Session (`connection_impl.hpp`, `transport/asio/connection.hpp`)

The configuration is the tracker's: `debug_asio`, a server without TLS, with a
strand, timeouts of five seconds, neither `silent_close` nor
`drop_on_protocol_error`. `m_state`, `m_internal_state`, `m_was_clean`,
`m_send_queue`, `m_current_msgs` and `m_write_flag` are the members of that name;
`m_handshake_timer` says which timer the pointer holds. What asio keeps for the
connection are the outstanding read (`reading`) and write (`writing`), the timers
that wait (`waiting`) or whose handler is queued (`expired`: it will come with
success, cancelled or not), and the posted calls of `write_frame` (`posted`).

A handler on the strand is one action. `handle_read_frame` is one action for each
frame of its bytes, since game threads may see `m_state` change in between
(`consuming`). `send()`, on a game thread, is cut between its two locks and before
it posts: `SendCheck`, `SendPush`, `SendPost`. `Terminate` is the whole of
`terminate`, socket shutdown and `handle_terminate` included, which plain sockets
run at once (`security/none.hpp:253-257`); `told` keeps which handler of the
program was called. The peer's frames are a choice of what the server does with
them: answered or not, ping, a close frame, late or wrong, or an error of
`consume`. A write takes frames up to the first terminal one (`OneWrite`), and
the transport may take any number of them before an error (`Transmit`).

`Session` promises the sender that accepted frames reach the wire in the order they
were accepted in, none after a close frame, and are given up only at the end. Its
`pending` is what is left of the write under way and the queue.

### FrameReader and MessageStream (`hybi13.hpp:382-583`, `744-951`)

A byte is known by its place: the reader is at byte `at` of `frame`, and `avail`
bytes of the last read are left. `m_state`, `m_bytes_needed`, `m_cursor`,
`m_data_msg`, `m_control_msg` and `m_current_msg` are the members of that name; a
message has its opcode, its bytes, the key of its frame with the number of bytes it
was shifted by, and the state of its validator. One action is one round of the loop
of `consume`. What the reader makes of a byte that is not where it takes it to be,
or with another key, is "junk", which is no byte of `TypeOK`: so the types of the
messages say that unmasking is right.

The sizes of a message are numbers of `size_t`: `Announced` is what lines 439 and 457
compare with `max_message_size`, the length of the first frame, or the sum of what there
is and what comes, modulo `SizeSpace`. The code does not test the top bit of a length
(926-951), so that a continuation may announce so much that the sum wraps, and passes.
Its payload is then read and kept like any other, beyond `max_message_size`, until a
byte of it is not UTF-8 or `append` finds no memory (`Room`: `MaxString` bytes, fewer than
`SizeSpace`) and throws; `failed` says that either has happened. So the limit holds
for every message that is handed over, and for what is kept between frames, and not for
what is kept within such a frame. `Kept` says so: the message with all of the frame
being read is within `max_message_size`, or its size has wrapped.

Of UTF-8 characters there are those of one byte and those of two. `MessageStream`
takes one whole frame at a time: accepted, it ends a message, begins one, or adds to
one; refused, it is the last. The mapping takes a frame as read when its last byte
is in the message, or at its first fault. A frame whose size wraps is one that the stream
refuses, for it is too long; the reader gets to that only where memory ends.

The code tests that a text ends with a whole character only if the last frame of
the message is the one with the opcode text (`hybi13.hpp:537`), so that a text in
several frames may end inside one. `Acceptable` of `MessageStream` is the rule of the code.
The comment at line 536, "ensure that text messages end on a valid UTF8 code point", is the
property `TextEndsOnCodePoint`, which the run `frames_text` finds violated.

### Startup (`main.cpp`, `settings.cpp`)

`file` is what is on the disk: absent, empty, one that does not parse, or one that
parses, with or without the two settings anything reads, the port and the log
level. `locked` says that another program has it open for itself. `Attach` is
`DllMain`; `Open`, `Read`, `Truncate`, `Write` are `LoadSettings` and `SaveToFile`
(opening the output stream empties the file, closing it writes the text);
`Initialize` and `Listen` the rest of `run_main`. The game may end at any step
(`Exit`), and the next start meets what is left on the disk.

That an empty file, left by a game that ended between `Truncate` and `Write`, is
never repaired, and that a file another program holds may be overwritten once it
lets go, is what the code does; `OneWholeFile` and `UsersFileKept` bound the harm.

## 4. Runs

All bounds are in the guards of the actions named, or in the constants; a run stops
when they are used up, and this is why most cfgs say `CHECK_DEADLOCK FALSE` (a game
makes calls and a listener connects only so often; the code itself never ends on
its own). `Startup` has no end and is checked with deadlock checking on.

| run | bounds | what it shows |
|---|---|---|
| `net_broadcast` | 2 game threads, 2 connections, one of which asks once (`Askers`), 2 broadcasts | `TypeOK`, `BroadcastReachesOpen`, `LogExclusive`, `RegistryStable`, that `Networking` implements `Feed`, and that a broadcast that has the mutex gives it back (`BroadcastsEnd`) |
| `net_upgrade` | 1 thread, 1 connection | finding: `HandleUpgradeSafe` is violated |
| `hook` | 1 thread, 2 calls, all sets of signatures | `CallsIntact`, `ContinueIsSet`, `SettledCallsSafe`, `TypeOK`, and that every call ends (`CallsEnd`) |
| `anim_party` | 1 thread, 2 players, 1 enemy, 3 calls | `Lives` for the players as one; `MissedForAnother` |
| `anim_race` | 2 threads, 1 player, 1 enemy, 3 calls | `IInv`, and that no death is lost (`DeathsNotLost`), under races |
| `anim_missed` | 1 thread, 2 players | finding: `EntriesReported` is violated |
| `pattern_scan` | 5 bytes of image, one of them data; all signatures of 1 to 3 bytes over 0, 1 and the wildcard, and one of 6; 8 for 2^64 | `ResultAgrees`, `MatchFound`, `ReadsInside`, `TypeOK`, and that the search ends (`ScanEnds`) |
| `msg` | 2 threads, 2 characters, hp 0..1, 2 hits, 1 request | `DamageConsistent`, `InfoConsistent`, `TypeOK` |
| `conn` | 1 game thread, 2 sends, 2 frames of the peer | `EndHeard`, `NoLostWakeup`, `NoAnswerAwaited`, `EndsExplained`, `TypeOK`, that `ServerConnection` implements `Session`, and that it ends: `PhasesEnd`, `PeerGoneEnds`, `ReleasedAtEnd` |
| `frames` | 62 frames with payloads of up to 3 bytes, three of them of 5; messages of up to 3; 6 for 2^64, memory for 4; reads of up to 3 bytes, keys of 2, extra lengths of 1 and 2 | `TypeOK`, `IInv`, that `FrameReader` implements `MessageStream`, and that every read is used up (`ReadsEnd`) |
| `frames_text` | the same | finding: `TextEndsOnCodePoint` is violated |
| `startup` | ports 1, 2 and 6 of which 4 can be told apart, 2 log levels, any number of starts | `OneWholeFile`, `UsersFileKept`, `TypeOK`, and that a start gets to its listening (`StartEnds`) |

The inductive invariants (`IInv`) of the other modules are proved (section 5), and
the properties they imply are what is run.

Why the bounds are enough to mean something:

* Two broadcasts and two connections let a handshake wait for a broadcast, a
  broadcast for another, a session open between two events, close inside a loop
  and expire at each of its lines. `MaxBroadcasts` counts broadcasts that took
  the mutex, so that calls begun before may exceed it by the number of threads.
* In `Hooking` threads do not interact with each other, only with the patch; one
  thread with two calls meets every mixture of bytes, before, during and after it.
* Three animations are the longest history a call depends on: the value before,
  its own, and one between. Two dying animations tell "another" from "the same".
* A reported hp is compared with the set of all the receiver had; two values tell
  right from wrong, zero among them.
* Images of five bytes have signatures at the first place, at the last but one, at
  the last, over the byte of data, more than once and not at all; the one of six
  bytes wraps around.

* Two sends and two frames of the peer are two frames in one write, two writes in a
  row, a frame pushed during a write, and a close frame before, between and after
  other frames. An error of the peer after its close frame needs two frames as well.
* The frames of `frames` have every length of header, payloads that need one, two
  and no read, characters cut by a frame and by a read, control frames everywhere,
  and one frame for each fault; their number is not bounded. A continuation of five
  bytes after one byte makes a sum of 6, which is 0, and after two one of 1; after
  none it is refused by its length. A masking key of two
  bytes is in both positions when a read or a frame ends.
* `startup` bounds nothing but the values: any number of starts, edits and ends.

What section 5 proves holds for every bound.

### Fairness

`Networking!FairSpec`: weak fairness of the steps of a call of `Net_SendData`. A
thread that has begun the call is run by the operating system again and again, and
each of its steps stays possible while it holds the mutex. Nothing is assumed of
the game (it need not call), of the listeners, or of who gets the mutex first;
so nothing is claimed of a call that waits for it (`std::mutex` is not fair).
`BroadcastsEnd` supposes that no upgrade throws, the case of the finding below.

`Hooking!FairSpec`: weak fairness of the processor that executes a call. Nothing
is assumed of `Mem_Initialize`: the loop of `mem.cpp:164` may go on for ever. So
"hooks get installed at last" is not claimed.

`ServerConnection!FairSpec`: weak fairness of what asio and the operating system
owe: queued handlers run, timers expire, a socket that was shut down, here or by
the peer, fails what was asked of it, a thread inside `send()` goes on. Nothing is
assumed of the peer, which need neither send nor take a byte: what a write ends
with is `FramesWritten`, `CloseWritten` or `WriteFails`, each fair on its own, and
`Transmit` is not. A host that vanishes without closing stays "up": nothing in the
code notices it (there is no ping), and `PeerGoneEnds` does not speak of it.

`FrameReader!FairSpec`: weak fairness of the loop over the bytes that are there.
Nothing makes the peer send more.

`Startup!FairSpec`: weak fairness of the tracker's thread; nobody is obliged to
unlock the file. `StartEnds` counts an end of the game as an end.

`PatternScan!FairSpec`: weak fairness of the search itself, a loop of the tracker's
thread that waits for nothing. The game's writes are not constrained.

### Findings

* `net_upgrade`: between `hdl.expired()` (`networking.cpp:169`) and
  `get_con_from_hdl` (170) the io thread may drop the last reference. The
  throwing overload is used, nothing catches, and `connection_mutex` stays locked:
  every later broadcast and every later handshake waits for ever.
  `endpoint.hpp:634-637` warns that handles may be upgraded in handlers only.
* `anim_missed`: `cur_player_anim_id` is one variable for all players, so that the
  second player to enter, or to die in the same way, is not reported.
  `MissedForAnother` says that this is the only way to miss one, with one thread.
* `frames_text`: `finalize_message` looks at the opcode of the last frame
  (`hybi13.hpp:537`), so that a text in several frames may end inside a character,
  although the comment at line 536 says that it ensures the opposite.

Three more disagreements need no run, since one line shows them:

* Without a local player the answer to "info" is the empty string
  (`functionality.cpp:169`), which the page's `JSON.parse` (`script.js:52`), after its
  request (`script.js:76`), does not accept.
* The damage message has the hp from before the hit: `functionality.cpp:115` reads it
  and line 123 lets the game apply the damage; the page calls it `new_hp`
  (`script.js:54`). `DamageConsistent` says what the hp is: one of the call's time.
* `processor.hpp:194-195` calls `max_message_size` the point at which a connection is
  failed with `message_too_big`. The sum of `hybi13.hpp:457` may wrap (section 3,
  FrameReader), and then a message is not failed there. `Kept` is the limit that is left.

## 5. Proofs

`NetworkingProofs` (with what it needs of `Feed`), `HookingProofs`,
`AnimationsProofs`, `MessagesProofs`, `PatternScanProofs`,
`ServerConnectionProofs`, `FrameReaderProofs` and `StartupProofs` prove for every
value of the constants what the runs check on small instances: every invariant,
every action property and every refinement of a passing run has its theorem. Only the
named assumptions of the modules are used: that `Nobody`, `Io` and the threads are
different, that the bounds are natural numbers, that the kinds of animations are
disjoint, that a null instance and an enemy are no players.

* **Networking.** `BroadcastReachesOpen` is not inductive: it says nothing about
  the middle of a loop. `IInv` adds where each party is: `MutexInv` (who holds the
  mutex: the thread that is where it should be held, or that has escaped with it),
  `RegistryInv` (a handle is registered once, while its session is connecting, and
  open sessions are registered), `LoopOK` (the loop's place and event), and the
  heart, `QueueOK`: an open listener has all events up to the last one, or up to
  the one before if the loop of the current broadcast has still to come to it
  (`StillToCome`). `EntryOK` says the same of listeners that were open at the
  start of the running broadcast. `NetworkingImplementsFeed` needs `QueueOK` to
  show that a push is a `Deliver` of `Feed`; `ListenersGetSegments` follows from
  it and `FeedSegments`.
* **Feed.** `FeedSegments` from `FeedTypes`: in a log that is in order and without
  gaps the event appended is larger than all and next to one of them.
* **Hooking.** `IInv` is `PatchInv` (a function is in one piece, all old or all
  jump, unless it is the one being overwritten; the trampoline and the continue
  pointer come first) and `CallInv` (where a call is says which instructions it has
  executed, as long as the patch did not overlap it). From it `CallsAreIntact`,
  `CallsCanContinue` and `CallsAreSafeLater`.
* **Animations.** `IInv` is true under any races. `DeathsNotLost` speaks of one step; its
  invariant is `DeathHasReporter`: a death in the variable that was not reported has a thread
  that is about to (`NoDeathIsLost`). That thread stays until it has sent the message, and
  a store of another death brings a reporter of its own, since `Kind` of an animation
  in `Deaths` depends on no other thread. With
  one thread `AloneInv` adds that nobody comes between the accesses to
  `cur_player_anim_id`; with it every step is a step of `Lives` or a stutter
  (`AloneImplementsLives`). `HeldInv` adds that the animation in the variable is
  one some player is in, from which `AloneMissedForAnother`. A player alone has nobody to hide
  him, so that `EntriesReported`, which `anim_missed` violates, is true of one thread
  and one player (`LonePlayerMissesNone`): the comments of `functionality.cpp:133-145`
  are right about the game they were written for.

* **Messages.** `DamageConsistent` and `InfoConsistent` speak of finished messages.
  `IInv` adds `ThreadInv` (the hp a call has read is among those its receiver has
  had since the call began, and the sender filled in is the call's own) and
  `RequestInv` (the pointer of the io thread is a character that is alive, or one
  that was released during the request, and what was filled in is of that one).
* **PatternScan.** `IInv` is the loop invariant: no place before `i` has the pattern
  (`NoneBefore`), and `found` says whether place `i` agrees as far as `j`. It has to
  hold under the game's writes, so agreeing and matching are about the code only:
  what the game may write to neither counts against a result nor makes a match.

* **ServerConnection.** `IInv` has what each stage of the handshake may have
  outstanding (`StagesInv`, `QuietInv`), that one write is under way at a time, with
  none but its last frame terminal (`WriterInv`), that a terminal frame on the wire
  was the last of its write and of all (`TerminalInv`), and that neither a close
  frame nor its timer is there before the session closes (`ClosingInv`). From it
  `EndIsHeardOnce`, `NoWakeupIsLost`, `NoAnswerIsAwaited`, which are inductive
  together with it, and `EndsAreExplained`. `ConnectionImplementsSession` maps a
  transmitted frame to `Write`, a push to `Accept` or `StartClosing`, and everything
  that gives frames up to `End`: it needs `TerminalInv` to show that `Session` may
  still write. `CloseIsTheLastFrame` follows from it and `Session` alone.
* **FrameReader.** `IInv` is that, until an error, fields begin and end with the frame
  (`Aligned`: the bytes consumed and those needed add up to the end of the field),
  that the payload goes to the message of its kind with the key of this frame, shifted
  by the bytes read so far (`InKey`), and that a message is within its limit between
  its frames, and while one is read will be or has a size that wraps (`Kept`). Types depend on it: a byte unmasked at the wrong place is none.
  That it implements `MessageStream` (`ReaderImplementsStream`) needs in addition
  what the bytes mean (`Meaning`): the message ends with the bytes of the frame that
  were read (`TailInv`), a text is one so far and the validator's state is what its
  last byte made it (`DataInv`, `FrameInv`), and a header that was passed is right.
  A round of the loop then is unseen, hands a message over, or takes a frame whole:
  it is refused as soon as the bytes read cannot be the beginning of an acceptable
  one (`Utf8Longer`, `Utf8Beginning`), and accepted with its last byte. A frame whose
  size wraps never comes to its last byte: it has at least `SizeSpace` bytes with what
  was there (`WrappedSum`), and `MaxString`, of which `ReaderAssumption` says no more than
  that it is at least `MaxMessage` and below `SizeSpace`, is fewer (`WhatFitsIsSized`). What is
  promised of the messages (`TextIsUtf8`, `SizeIsLimited`) follows in
  `MessageStream` alone (`HeardIsSound`).

* **Startup.** `OneWholeFile` compares the settings in force with what was read, and
  with what an earlier start saved. `IInv` adds that a process that has not read yet has
  the settings of new memory (`BeforeReading`), that what is remembered of a save is what
  the file says and are the defaults (`SavedIsKept`: an edit forgets it), that a process
  that could open the file all its life can open it now and does not come to writing
  (`OpenableInv`), and where the server listens (`ListeningInv`). `UsersFileIsKept` is a
  consequence of `OpenableInv`: `Truncate` and `Write` start from states it excludes.

### Steps that go on

That something ends is a liveness property and rests on fairness, which the prover
cannot use. What it rests on besides is an action property and can be proved: a number
of steps still to make, which is a natural number, gets smaller with every step of
the party it is about, and nobody else makes it larger as long as it is about the same
broadcast, call, read or start.

| theorem | measure | what could have broken it | liveness checked by TLC |
|---|---|---|---|
| `BroadcastsAdvance`, `StepsCounted` | five for each handle still to come, and the place in the round | a vector that grows under the loop, a loop that starts again | `BroadcastsEnd` |
| `CallsGoOn` | the bytes of the prologue still to execute, then the callback's steps | a jump back into the prologue, a byte executed twice as the patch comes | `CallsEnd` |
| `ScansAdvance` | the places before `Limit`, each with the whole pattern | a limit that wraps around, a game that writes what is compared | `ScanEnds` |
| `ReadersAdvance` | four for each byte, and the rank of the field | a field of no bytes, which is passed without taking one | `ReadsEnd` |
| `StartsAdvance` | the steps until the server listens | a locked or broken file that is tried again | `StartEnds` |
| `ReleasesAdvance` | first the calls of `send` under way, then the frames of the peer, calls of `write_frame`, timers, the outstanding read and write | a handler that sets up another after the end | `ReleasedAtEnd` |

`SessionsAreAttended` is the other half for a connection: before its end there is always
something outstanding that can end its phase. Each handshake has a timer that waits or
whose handler is queued, whatever became of the pointer to it, and an open session
reads, or is about to, so that it learns when its peer leaves. Hence a connection is not destroyed before the program heard of its end
(`ConnectionsLastToTheirEnd`).

`EscapesAreFinal` is the finding of `net_upgrade` seen from the other side: after an
exception has left `Net_SendData` no step of anybody frees the mutex, changes the
registry or gives a listener an event, for any number of threads and connections.

The properties of these theorems that no run lists (`StepsAreCounted`,
`BroadcastAdvances`, `EscapeIsFinal`, `CallsAdvance`, `ScanAdvances`, `ReadsAdvance`,
`ListensWhereRead`, `StartAdvances`, `Attended`, `DestroyedAtEnd`, `ReleaseAdvances`)
hold in TLC under the constants of the runs of their modules, too: add them
to a cfg to see it. They are not in the cfgs since the proofs say more.

Only model-checked: liveness (`BroadcastsEnd`, `CallsEnd`, `ScanEnds`, `PhasesEnd`,
`PeerGoneEnds`, `ReleasedAtEnd`, `ReadsEnd`, `StartEnds`), since the prover knows
neither `ENABLED` nor induction over the measures above. No module has a recursive
definition.

## 6. What is not modelled, and why

* The client side of `networking.cpp` (`Net_ConnectToWebsocket`, `on_message`,
  `connections`): no execution reaches it, since its call is commented out.
* `Hook::SetV1`, `Hook::Remove`, `WriteToOutputFile`, `WorldPositionToMapPosition`
  and `CharacterMapPosition`: never called. The last two, and the map position of a
  message, are floating-point arithmetic, which TLC does not have.
* Addresses: that the trampoline is within 2 GB of the function, so that the
  casts of `mem.cpp:186` and `191` are right, is assumed by `Hooking`.
* The text of a signature, which `FindPattern` parses first (`mem.cpp:55-84`): the
  signatures are constants of the source, and a model has them parsed.
* The chains of pointers of `mem.cpp:279-443`: the code follows them and changes
  nothing, and whether two reads of `*GAME_DATA_MAN_PTR` (280-281) can differ is a
  question about the game. `Messages` reads every field in one step.
* `ExtractPtrFromInstruction` (`mem.cpp:207-215`): one addition.
* Of the settings: hosts, websocket hosts and the identifier, which nothing reads, and
  the path of the DLL, a constant of a process. A top-level value other than an array
  of objects sets nothing and raises nothing, as an empty list does.
* Of websocketpp: the client's role, TLS, compression (not enabled here), ping and its
  timer, pausing, deferred responses, resolving and connecting, the HTTP parser, digests
  and encodings. Most of the 50,000 lines below `src/` are these and `json.hpp`: library
  code, a large part of which is never instantiated in this program, and another large
  part of which computes without keeping state.
* In `FrameReader`: characters of three and four bytes; the bytes of a close frame's
  code and reason; what becomes of the process when `append` throws.
* In `ServerConnection`: a timer is known by its handler. When a second bad close frame
  overwrites the pointer to the close timer (`connection_impl.hpp:2133`) the code has two
  that wait and the model one; the first would go on after `terminate`, keep the connection
  for the rest of its five seconds, and find it closed.
* A peer that vanishes without closing is noticed only by a write or a timer.
* The example page and the build: a page and a build file.
* That a failure of `CreateThread` is compared with the wrong value (`main.cpp:51`) is in
  `Startup` as a process without a thread; nobody is told.

## 7. Running the checks

    tlc -workers 2 -config MCNetworking.cfg Networking
    tlapm NetworkingProofs.tla

Each run of `PROJECT.json` names its module and cfg. The longest take
two to four minutes. Each property of a passing run has a mutant there: a definition of the
module, changed as a bug might change it (a lock that is not taken, a `break` for
a `continue`, a pointer that is not set), with which the run finds the property
violated.
