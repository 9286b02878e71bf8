# A verification of sumika in TLA+

sumika keeps CLI agents alive in the pseudo-terminals of a daemon; clients list them, attach to one of them
at a time, detach and come back. This directory holds TLA+ models of the parts of that program where
interleavings, queues and failures decide whether it is right, the TLC runs that check them on small
instances, and TLAPS proofs of the properties that matter most for instances of any size.

    tlc -config MCLifecycle.cfg MCLifecycle     # one .cfg per run, PROJECT.json lists them
    tlapm Lifecycle_proofs.tla                  # checks the proofs of one module

`PROJECT.json` maps every definition to the lines it translates, names a mutant for every property (a
plausible bug under which TLC finds the property violated), and lists the hazards and findings.
Paths below are relative to `src/crates`.

## The system

| Component | State | Operations | Hard behaviour |
| --- | --- | --- | --- |
| Session table (`sumika-daemon/src/supervisor.rs`) | `sessions`, and per session `status`, `live`, `pid` | start, kill, report, list, resize, scrollback, the waiter task | every request is a task of its own and lets go of locks between looking and acting; starts race; children exit at any time; pids are reused |
| Attach (`supervisor.rs`, `sumika-daemon/src/lib.rs`) | `attach` (generation, cancel), `dest`, the channels | attach, steal, drop of a slot, the drain and input threads, `proxy_attach` | three parties without a common lock; slow and displaced clients; the pty ending under a client |
| Frame (`sumika-daemon/src/frame.rs`) | the surface and the line ring | feed, resize, replay, snapshot, copy_lines | the ring foretells what termwiz will scroll; wraps are deferred; rows are lost on resize |
| Attached client (`sumika/src/main.rs`, `chord.rs`, `copy.rs`) | the chord matcher, three queues, copy mode, held output | the keyboard thread, the select loop, the fetch for copy mode | chords split over reads; keys and output during a fetch; full queues; leaving in every state |
| Picker (`sumika/src/picker.rs`, `main.rs`) | rows, selection, help, leader | refresh, keys, attach, restart | keys pressed before a refresh and handled after it |
| Daemon boot (`sumika-daemon/src/lib.rs`, `sumika-protocol`, `main.rs`, `service.rs`) | the socket file, its parent directory, the service manager's unit | check, remove, bind, accept; `ensure_daemon` | stale sockets; crashes and restarts between any two looks; clients that install a daemon while another comes up |
| Hook reports, resume hints, last session (`hook_report.rs`, `resume.rs`, `last.rs`, `main.rs`) | a file per session and one for the last attach | hook-report, remember, recall, start, start --all, restart | hooks beside each other and beside a start; files truncated before they are written; names that pass on |
| One name from attach to exit code (`supervisor.rs`, `lib.rs`, `main.rs`) | all of the above for one name | attach, start, report, `map_attach_eof`, the end of a daemon | a session object replaced under its clients; questions asked by name; a focus looked at late |
| Protocol codec, config file, doctor, log, restore | none, or files read once | | pure translation or output |

How they interact: a client sends one request per connection (`sumika-ctl`), the daemon answers from the session
table; an attach turns the connection into a byte stream that `proxy_attach` carries between the client's
tty loop and the session's pty. The waiter task, the drain thread and the input thread of each session run
beside the requests and share the session's locks with them. The picker calls list before every wait for a
key, and attaches or starts.

What makes each part correct: processes and names stay together whatever races (table); one focused client, nobody
left hanging and nothing blocking the child (attach); the frame and the ring say what was on the screen (frame);
every key goes where the operator meant it and every output is shown (client); a key acts on what was seen (picker);
one daemon serves, is found and comes back (boot); a start resumes the chat that was left and no other (hints); exit
codes, focus and notifications tell the truth about the session they are for (one name).

## The modules

**Lifecycle** models the session table and the processes. A step is what a request does between two points
where another thread can get hold of its locks: `StartCheck`, `Spawn`, `Insert` are the three parts of
`Supervisor::start`, `KillCheck`, `KillSignal`, `KillReap` those of `kill`, `ReportCheck` and `ReportSet` those of
`report`. `Reap(S)` is `Session::reap` for the sessions of S and is part of each step whose code calls it. `Spawn`
takes a pid no process holds, so pids are reused as soon as they have been waited for. A process is running, a zombie
or gone; `doomed` says that a SIGKILL is on its way. SIGTERM may be ignored by a child and so changes nothing by itself.
Killing a session also signals the foreground group of its terminal: those are descendants of the child
and are not modelled. *Registry* is the abstract specification: a name passes to another session only after
the process of the session it named has ended.

**Attach** models one session and all its clients. `AttachCheck`, `AttachReplay`, `AttachSteal` are the parts of
`Supervisor::attach`; `DrainFeed`, `DrainClone`, `DrainSend` those of one turn of `drain_pty`; `Proxy...` are the
branches of the select in `proxy_attach`, `SlotDrop` is `AttachSlot::drop`. Output is a sequence of
numbered chunks, and a frame is known by the number of chunks fed to it. *ExclusiveFocus* is the abstract specification: at
most one holder, who loses the focus to a newer client or by leaving only. Clients may leave together, as they do when
their daemon ends.

**Frame** models `feed` action by action over a termwiz surface described as far as `frame.rs` uses it
(`Put`, `NewLine`, `Scroll`, `MoveTo`, `ClearScreen`, `ClearToEndOfLine`, `SetSize`; marked external in the map). The
surface remembers what really scrolled off in `off`; the code cannot see it and keeps `lines` instead, and the
main property says that the two agree. `Replayed(h)` writes a replay to a client's terminal of h rows.

**ClientTty** models the attached client: the keyboard thread with its `Matcher` (`Type`, `TypeEof`; `TypeFails` is a
read error, which drops a prefix held back), the select loop of `proxy_tty` (one action per arm and case), the future
`write_pty`, which makes progress in the select only, and copy mode. `FeedKey` is `CopyMode::feed` as far as it decides
where a key goes: `/` opens the search prompt, Enter, Esc and Ctrl-C close it, and outside it `q` and Ctrl-C leave copy
mode. Keys are known by their position, output by chunk numbers, so that loss, doubling and overtaking show: what the
terminal shows is a screen, known by the chunks it covers (`frame`), and the sequence of chunks written since (`shown`).
`lost` holds the chunks that really overflowed the held buffer. `loop = "stuck"` is the state in which an arm waits for
room in the channel to the daemon. When `proxy_tty` returns its queues are dropped with what they hold (`Exits`).

**Picker** models `Picker` and its loops. A key waits with the row the operator then saw, and is handled
after the list may have been refreshed and sorted anew. A daemon that is started anew lists no session
(`DaemonRestarts`); the selection then falls back to the first row.

**Boot** models the socket path, the directory it is in, the daemons that boot over it (each look and each change in
`run` and `prepare_socket_parent` is a step: `Exists`, `Owned`, `Kind`, `Probe`, `Remove`, `Parent`, `Mode`, `Bind`,
`Chmod`), the service manager that starts its unit again, and the clients in `ensure_daemon` (`Connect`, `Refused`,
`Install`, `Bootout`, `Enable`, `GiveUp`). `owner` is the process whose listener the path leads to: a crash leaves the
file and takes the owner. `raced` remembers that two boots overlapped. The unit is stopped, wanted or failed: launchd
(`KeepAlive`) starts a wanted unit whenever its process has ended; systemd (`Restart=on-failure`, with the default limit on
starts) counts the starts of an interval and leaves a unit as failed that has used them up (`SpawnRefused`), also when all
its process did was to bail beside a daemon started by hand. A daemon that is told to terminate (`Terminated`) has, for
systemd, ended as it should and is not started again; any other end is a `Crash`. `Enable` makes the unit wanted again.

**Launch** models what outlives the daemon: `file` holds the resume hint of each name, and the last-attached name under a
key of its own. Writers are hooks (`Fire`, `Report` or `ReportFails`, then the storing) and attaches; `Truncate` and
`Write` are the two halves of `fs::write`. A line written over another one that is there by then may leave the end of
that: the file holds a mixture (`Torn`), which `Recall` takes for a hint like any other. The start command reads a
hint (`WithResume`) and sends its request (`Spawned`, `NothingSpawned`) as two steps, once or for each configured session.
`Apply` is `resume::apply` with an argument list reduced to a program and the chat it resumes; a hint that cannot be read leaves it as it is (`RecallFails`). `expect`,
`stops` and `muddled` are history: what was said last, which chats have ended a turn under which name, and whether anything
overlapped since. Nothing has been said of the status of a session that was just started, nor after a report that failed:
`expect` is then `none`, whatever the table lists. Files survive a reboot as they were written; the code does not sync them.

**Habitat** composes Lifecycle, Attach and the attach command for one name. It keeps of each what the others can see:
session objects and their reaping, the name's registration, focus (`cancel`), the installed sender (`dest`), the slots of
the connections, the terminals, a report between its check and its look at the focus, and the exit code. Child,
terminal and registration end independently of each other. A connection ends because it is told to, its client or the output
is gone (`Leave`), or something was typed at a terminal that is closed (`InputClosed`); a command that cannot write to its
own terminal asks what has become of the session as one that was cut off does (`OutputFails`). Sessions are alike until
they are spawned and commands until they attach, so the next one is taken (`Fresh`, `Newcomer`). The end of a
daemon takes all of its sessions. Each session of the name implements ExclusiveFocus, under the mapping `Focus(s)`: a client has come to a session once its
attach has gone through (`Came`).

Attach and ClientTty meet at the socket: Attach has clients that read, type and leave as they like, ClientTty a daemon
that reads, writes and closes as it likes. Lifecycle and Attach meet at `live`: Attach lets the child be
reaped at any time; Habitat is where all three meet.

## The runs

| Run | Instance | Shows |
| --- | --- | --- |
| MCLifecycle | 1 name, 2 requests, 2 sessions, 2 pids, fairness | types, `NoStrayChild`, `DeadHasNoProcess`, Registry implemented, `ExitIsNoticed`, `ForcedKillEnds`, `LoserIsReaped` |
| MCAttach | 2 clients of which one reads, channels of 1, 2 chunks, 1 key each, fairness | types, `OneFocus`, `DestIsFocus`, `FrameCoversClients`, ExclusiveFocus implemented, `StolenIsDisconnected`, `DrainNeverStalls`, `EofDisconnects` |
| MCFrame | 2 characters, sizes 2x1, 2x2, 1x3, a ring of 2, a pad of 3 | types, `RingIsWhatScrolledOff`, `ReplayKeepsHistory`, `ReplayShowsScreen` |
| MCClientTty | 5 kinds of key (the prefix, `q`, `y`, `/`, Ctrl-C), 5 keys, 2 chunks, queues of 1 | types, `ChordStaysLocal`, `KeysArrive`, `CopyKeysStayLocal`, `ScreenIsCurrent` |
| MCPicker | 2 sessions, 3 statuses, 7 keys, 2 keys waiting | types, `ActsOnWhatWasSeen`, `JumpFollowsSpace` |
| MCBoot | a unit, a daemon started by hand, 2 clients, 1 poll before the deadline, 2 ends of a daemon, 3 starts in an interval, fairness | types, `OneDaemonServes`, `ClientsSpareTheDaemon`, `EnsureReturns`, `RestartRecovers` |
| MCLaunch | 2 names, both configured, 2 vendors of which one resumes, 2 writers, 2 chats, 4 calls, symmetry of writers | `NeverInvents`, `LastWordCounts`, `ResumesWhereItStopped` |
| MCHabitat | 2 sessions of one name, 2 attach commands, fairness | ExclusiveFocus implemented per session, `GoneIsOver`, `OneWatcher`, `WatchedIsQuiet`, `EveryoneGetsBack` |
| MCDeadStaysDead, MCSignalsOwnChild, MCSeamlessOutput, MCDetachReturns | small | one documented claim each that the code does not keep |

*Why the bounds are enough.* Names do not share state in Lifecycle, and a race for one takes two starts; kills, reports and
lists are requests too, so either start may be followed by one. What a third request or a third session could add to the
safety properties is covered by the proofs, which hold for any number. Two pids let
one be reused while the other is held. In Attach a thief, a displaced client and a late drop are two clients; a third
would repeat the same step. With channels of one place both a full and an empty one are a step apart. The sizes of
MCFrame have one row, several rows and one column, so that every scroll, wrap and loss of rows happens, with
a ring that overflows after three lines. Five keys are a copy chord, a key in copy mode, the way out and a key
after it, or two chords with a key between them; or a copy chord, a prompt opened and closed, and the way out. Of the keys
that close a prompt Ctrl-C is the one that also leaves copy mode, so Enter and Esc add nothing it does not do. Two rows and two waiting keys let a list change its order between
two keys. The ring of 10,000 lines, the pad of 256 rows and the channels of 32 and 64 places are constants of the
modules (`Cap`, `PadRows`, `StdinCap`, `ToPtyCap`, `OutCap`, `InCap`); `MaxChunk`, `MaxKey` and `MaxQueue`
are bounds of the instances and stop the environment only, never the program. The type invariants check the capacities.
In Boot two daemons and two clients are enough for every pair of steps to meet, and two crashes for one over the stale socket
of the other; `Polls` stands for the two seconds of the deadline, and three starts (`Burst`) are used up by two ends of the
unit, or by units that bail. `RestartRecovers` asks for more starts left than daemons are still to end (`StartsLeft`). Four calls in Launch are two hooks, a
start and an attach, or a start, two hooks and a start again; `MaxChat` and `MaxCalls` limit the programs and the operator.
Habitat has no bounds: its two sessions are the one that is there and the one that replaces it.

*Deadlock.* MCAttach, MCSeamlessOutput, MCClientTty, MCDetachReturns, MCPicker, MCBoot, MCLaunch and MCHabitat do not check
for it: their clients leave, their inputs end and their bounded calls are used up. Lifecycle and Frame can always go on.

*Fairness.* Lifecycle: a request that has begun, and the waiter task, are scheduled again (tokio runs
every ready task, and each lock is held for a bounded time), and a process that has been sent SIGKILL exits.
Nothing makes a client send a request or a child exit. Attach: the daemon's own steps, and reading by the clients in
`Reader` only. ClientTty: the ready branches of the select, and a daemon that reads and answers; nothing makes the
operator type, output come or the connection close. Boot: boots and the accept loop go on, a client that has begun
goes on, and the service manager starts a wanted unit or, under systemd and when its starts are used up, leaves it as
failed (`SpawnUnit` or `SpawnRefused`; `KeepAlive` in the plist, `Restart=on-failure` in the unit file, under `contrib`).
The interval after which systemd counts anew need not pass, and nobody has to start a daemon by hand. Habitat: the drain
thread, the proxy tasks and the attach command; it takes the command's select loop to turn, which finding 4 limits. Nothing
makes anybody type at a closed terminal (`InputClosed`) or the operator's own terminal fail (`OutputFails`). There is no strong fairness: no property needs a select to choose
one ready branch over another.

## Findings

1. *A dead session can come back to life in the table* (MCDeadStaysDead). `report` checks the status and
   writes it under two locks. A session reaped in between ends up `idle`, `blocked` or `running` with no process: list
   shows it so, and start answers with it instead of starting it, now and ever after. SECURITY.md says that a dead
   session stays dead until `start`.
2. *A kill can reach a process that is not the session's* (MCSignalsOwnChild). The pid is signalled without the lock that
   keeps the child from being waited for.
3. *An attach can get a chunk of output twice, or not at all* (MCSeamlessOutput). The replay is taken and the channel
   installed under different locks, and the drain thread feeds the frame and sends in two steps as well. The run shows a chunk
   that is fed before the replay and sent after the installation: it is in the replay, and then comes over the channel. A
   chunk fed after the replay and sent before the installation is lost.
4. *A client with a full channel to the daemon waits for itself* (MCDetachReturns): the arm that forwards a key
   awaits a channel that is emptied by a branch of the same select. No chord brings it back.

Smaller disagreements can be read off the models and have no run:

- A session is listed as `running` from its start, before any hook has reported (`Spawned` in Launch, `supervisor.rs:376`), and
  so is one whose hooks never report. README.md:13-14 and 170, VISION.md:17 and CONTEXT.md:31 say that the absence of a
  report is `unknown`; no code gives a session that status. `LastWordCounts` speaks of the list only once there was a report.
- A hint is stored for whatever program's hook brings an id (`HintFrom`), and passed on to a start of another one;
  README.md:220-222 and docs/decisions/0002 speak of three vendors.
- Hooks of one name whose writes overlap can leave a mixture of two ids, which a start passes on (`Write`, `Recall`);
  docs/decisions/0002 says "Sumika never invents chat resume".
- Ctrl-C leaves copy mode as `q` does (`copy.rs:54`); README.md:29 lists `q` only. README.md:27 names a detach chord that is
  not the default of `chord.rs:8-16` (README.md:141 does).
- An erasure of part of the display blanks all of the daemon's frame (`EraseInDisplay` in Frame, `frame.rs:437`).
- Jump keys that are list keys never jump (`HandleLeader` in Picker, `main.rs:539-547`; the sample in the repository's README
  has one, `k`).

What the new models show without a document to contradict: two boots that overlap can leave a daemon nobody can reach
(`raced`); a boot that dies between making a directory and setting its mode makes later boots at a socket that is not
the default one refuse it; `bootout` may end a daemon that came up after the client's first ping; the exit code for
a theft is also given when an ended session has been started again, is not waited for yet, or the daemon is gone;
an attach that installs its channel after the drain thread has ended is never told; output read between asking for the
history and its answer is written twice, in the screen and after it; a read error at the keyboard drops a prefix that was held
back; a key acts on the first row when the session it was meant for is no longer listed; under systemd, units that bail beside a
daemon started by hand use up the limit on starts, and a terminated daemon stays down until a client asks for it again.

## The proofs

The `_proofs` modules of Lifecycle, Attach, Boot, Launch, Habitat, Picker, ClientTty and Frame state every safety
invariant and every action property of the passing runs. They hold for any sets of names, sessions, requests, pids, clients,
daemons and characters, any terminal sizes, channel and ring capacities, jump keys and configurations, and no bound on
chunks, keys, crashes, starts, polls, chats or calls but that it is a number. They assume only what the modules state: `None` is
not one of the values it stands beside, reports carry live statuses, the capacities are positive numbers.

Where code loops over lines or keys, the model has a recursive function, and what the proofs need of it is had by
induction: the library's induction theorems cannot be applied here (they take an operator as a parameter), so
the lemmas `Induction` of Frame_proofs and ClientTty_proofs state it for sets of numbers, from the well-foundedness of
the numbers.

*Lifecycle.* `NoStrayChild` is not inductive: that the loser of a race is killed, and not somebody else's
session, rests on each start holding a session of its own, and that an insertion loses no live session rests on
the one it replaces being dead and so reaped. The invariant `Safe` adds `Tidy` (a live session has a child; a dead one has
been waited for) and `Placed` (a session is registered under one name at most, and an in-flight one is neither
registered nor held twice). `Types` adds to `TypeOK` what a request works on at each label. `ReapStep` and
`KeepStep` deal with the steps that only reap, or change nothing about who holds what; `InsertStep` is the long case. From
`Safe` follow `NoChildIsStray`, `DeadMeansReaped` and `Refinement` (Registry): an insertion replaces a session that is dead,
whose process therefore has ended. Note that this does not need the status to stay dead.

*Attach.* `OneFocus` rests on generations: `FocusInv` adds that they are handed out once, that only a client with a slot has
one, and that nobody without a slot has been told to go. It gives `FocusIsExclusive`, `OutputFollowsFocus` and
`Refinement` (ExclusiveFocus). `FrameIsNeverBehind` needs only that the drain thread feeds what it reads before it sends it.
Type correctness is proved in three parts: the focus, the output side and the input side, which do not need
each other.

*Boot.* `OwnerListens` ties the owner of the socket to a process that has bound it. `Sequential` says what boots that do not
overlap know: there is one of them at most, whoever listens owns the socket, and a boot past `Probe` or one that
found nothing is right that nobody listens (`VacantWhenClaimed`). That last part is what a boot needs to bind without taking the
path from a daemon that serves, and `OneDaemonServes` follows from the second. `EndInv`, `GotoInv` and `ApartInv` deal with the
steps that end a process, move a boot on, or belong to a client. What the service manager does with the unit matters to
none of this: it decides who boots when, and the proof has any boot at any time. `ClientsSpare` adds `Spared`: a client that is about to ask
for the service (and so to boot out what is there) has met no daemon that still serves. It is about a client that found
nobody at the path at one moment and acts at a later one, so it needs `MetServe`, that the daemons a client has met and that
still count do serve, and `ConnListens`, that who is to answer it listens.

*Launch.* Three invariants, each on top of the types. `Honest`: whatever is stored, about to be stored or read by a start
is a chat of which a turn has ended under that name, or a mixture of such. `Loyal`: a key that is not muddled has at
most one writer, and what that writer has left to do is to store the last word; it gives `TheLastWordCounts`.
`Faithful`: between the reading of a hint and the start of a session nobody has touched the name's file without muddling
it, so the arguments that are sent carry what was said last; with `Loyal` it gives `ResumesFaithfully`. `NoChatIsInvented` needs
all three: that a mixture is passed on only where the name is muddled is not to be had from `Honest`, but where it is not,
`Faithful` says what is passed on.

*Habitat.* One invariant for all: a child that is not waited for is that of the registered session, and a session called dead is over
(`SessionInv`); a connection past its check knows a session that was started (`ClientInv`); a oneshot that has been
sent belongs to a slot still there, and whoever has not been told is the focus of its session (`FocusInv`); a report that
counts as watched has somebody attached to its session who has not been told (`ReportInv`). An exit code for an ended session is right
because a session without the name can only be one that is over. `WatchedStaysQuiet` follows from the focus being
somebody's as long as somebody stays attached, which is what the late drop of a displaced client could break.
`Refinement` shows that each session keeps the promise of attach (`ImplementsExclusiveFocus`). It needs `SeatInv`, that who
has a slot is no longer waiting for an answer: otherwise a client could have a focus it never came for. The step in which the daemon ends
maps to all clients of a session leaving at once; `SameFocus` deals with the steps that touch other sessions only.

*Picker.* What a key acts on is the selection at the time it is read, and in between the list may have been refreshed.
`SeenInv` says what makes that safe: what is drawn is the selection, and of the keys that wait only the first one can have
been pressed with the screen up to date. `RowsInv` (each session is listed once, the selection is in the list) is what lets
`replace_rows` find the row again by its name. `LeaderInv` ties the pending leader to the last key. That the sort of a
listing loses and doubles no session is proved, too (`SortFacts`): the number of rows that go before a row is an injection
of the rows into as many places, so every place is taken.

*ClientTty.* Five invariants, the first of which the others rest on.

- `FlowInv`: the keyboard thread holds a prefix back exactly when the last key may begin a chord (`KeyInv`). `Sendable` are then
  the keys of no chord but for one held back, and all that is queued, being written or sent is `Sendable`. The steps of the
  loop only move keys on (`LoopMoves`); the long part is that another key typed puts nothing into a chord that was
  sent before it (`SendableGrows`). It gives `ChordKeysStay`.
- `RoomInv`: the queues have room for what is put into them and the chunk numbers are in order. With the types of the queues it
  gives `TypeCorrect`.
- `ArriveInv`: as long as no copy chord has been typed, what was sent, is being written, waits in the two channels or is
  held back is every key but those of a detach chord, in order (`InFlight`). Each step moves keys from one of these to the next
  or adds the last one typed. At the exit nothing is left in between, which is `KeysArriveInOrder`.
- `LocalInv`: the events that wait hold the keys typed without a gap (`Tiling`), so there is a position before which every
  key has been handled, and `Handled` says what that means: in copy mode there is one copy chord that was not left yet, and
  the mode says whether its prompt is open; while its history is fetched, the pending keys are those from that chord on; and
  outside both every chord was left. What is then forwarded is free of all chords (`FreeKeys`). An event read in copy mode
  is handled key by key: `RunOfKeys` is the induction over `CopyFeed`, and `OneKey` its step, that the mode `FeedKey`
  comes to is borne out by the keys up to there (`Follows`). It gives `CopyKeysStay`. Like the property it says nothing once a fetch has
  failed or a second copy chord has come before copy mode was left, where the code does lose the thread.
- `ScreenInv`: while copy mode is on or its history is fetched, what is held was read after the history was asked for, in
  order (`Rising`, `Within`), and whichever screen may be restored covers all the rest but what overflowed (`Covered`); outside,
  what was written since the last screen is in order and repeats of it only what was read after that screen had been
  asked for (`Fresh`). It gives `ScreenStaysCurrent`.

*Frame.* `FrameInv` is `Grid`, the surface is a grid with the cursor in or just past it, and `Kept`, the ring is the
last `Cap` lines that scrolled off. The second is what the code wants, and is inductive only with the first: each action's
forecast of a scroll is right because the cursor is where the forecast looks for it. `Repeated` carries an
invariant through the recursive functions (`Drop` pushes the rows a resize loses, one by one). A replay is
read by a terminal of another height. `Showing` says what is on that terminal, and above it, after i rows: `Past` of them have
scrolled off, the others are on the screen. `ShowStep` is one row more, `AllShown` the induction over them. `PadScrolls` is the point of
the pad: its blank rows push all history off the screen of any terminal of at most `PadRows` + 1 rows. `ReplayKeeps` and `ReplayShows` follow.

*Model-checked only.* The liveness properties, which rest on fairness and leads-to and are out of the prover's reach here:
`ExitIsNoticed`, `ForcedKillEnds`, `LoserIsReaped`, `StolenIsDisconnected`, `DrainNeverStalls`, `EofDisconnects`,
`EnsureReturns`, `RestartRecovers` and `EveryoneGetsBack`. The properties of the violation runs, which are false.

## Not modelled

Attributes, colours and wide characters of the frame; the cursor, search and yank of copy mode; the
descendants of a child; projects and working directories; the spelling of hook events and of the vendors' arguments;
parsing the configuration, the text of service files, doctor, log and the line codec, which have no behaviour over time or
are output only. PROJECT.json gives the reason for each component, and
each hazard that no property covers has a note.

## Plan

1. The refinement of Lifecycle and Attach by Habitat's steps, which is so far an argument in its comments. Registry needs
   Habitat's start split into its parts, as Lifecycle has it.
2. Copy mode's cursor and search as functions, checked against a reference definition.
3. The safety halves of the liveness properties: that the steps fairness is asked of are enabled until they are taken.
