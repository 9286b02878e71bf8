------------------------------ MODULE ClientTty ------------------------------
(***************************************************************************)
(* The attached client (crates/sumika/src/main.rs, proxy_tty): a thread    *)
(* reads the keyboard, matches the chords (chord.rs) and sends events; one *)
(* select loop carries events to the daemon and output to the terminal,    *)
(* and enters and leaves copy mode (copy.rs), for which it fetches the     *)
(* session's history. `write_pty`, the future that empties the channel to  *)
(* the daemon, is polled by the select only, never inside one of its arms. *)
(*                                                                         *)
(* Keys are known by their position in `keys`, chunks of output by their   *)
(* number. Writing to the terminal takes no time, the view copy mode draws *)
(* is left out, and so are window changes: they only send a request.       *)
(***************************************************************************)
EXTENDS Naturals, Sequences, SequencesExt

CONSTANTS
  Key,       \* what is typed
  StdinCap,  \* capacity of the channel from the keyboard thread
  ToPtyCap,  \* capacity of the channel to write_pty
  WireCap,   \* what the socket takes before the daemon reads it
  HeldCap,   \* output kept while it cannot be shown
  MaxKey,    \* bound: keys typed
  MaxChunk   \* bound: chunks of output

\* Default chord keys, and the keys copy mode distinguishes.
First == "C-b"
ASSUME KeyAssumption == Key \subseteq {First, "q", "y", "/", "esc", "C-c", "enter", "x"}
ASSUME CapAssumption ==
  /\ {StdinCap, ToPtyCap, WireCap, HeldCap} \subseteq Nat \ {0}
  /\ {MaxKey, MaxChunk} \subseteq Nat

VARIABLES
  keys,       \* every key typed
  thread,     \* the keyboard thread: "on", or why it ended: "detached", "eof"
  prefix,     \* Matcher.pending
  stdin,      \* StdinPump.rx: events, a copy or the keys to forward
  loop,       \* "select", "stuck" in an arm, "flush" before leaving, "exited"
  stdinOver,  \* stdin_closed
  toPty,      \* to_pty
  writing,    \* what write_pty has taken from to_pty and not yet written
  sent,       \* every key written to the socket
  unread,     \* writes the daemon has yet to read
  fetch,      \* fetch (and `buffering`): "none", "running", "ok", "failed"
  snap,       \* chunks covered by the screen a finished fetch brings
  pending,    \* pending_keys
  copy,       \* copy_mode: "off", "on", "search" (its prompt is open)
  restore,    \* chunks covered by the screen in `restore`
  held,       \* held
  made,       \* chunks the daemon has sent
  got,        \* chunks the client has read
  frame,      \* chunks covered by the screen last restored to the terminal
  shown,      \* chunks written to the terminal since then
  lost,       \* history: chunks dropped because too much was held
  asked,      \* history: got when the history was last asked for
  since,      \* history: asked, of the screen in frame or in restore
  closed,     \* the daemon has closed the connection
  failed,     \* history: a fetch has failed
  again       \* history: copy mode was asked for again before it was left

keyboard == <<keys, thread, prefix>>
uplink   == <<toPty, writing, sent, unread>>
copying  == <<fetch, snap, pending, copy, restore, failed, again, asked, since>>
screen   == <<held, frame, shown, lost>>
daemon   == <<made, closed>>
vars     == <<keyboard, stdin, loop, stdinOver, uplink, copying, screen, daemon, got>>

Init ==
  /\ keys = << >> /\ thread = "on" /\ prefix = FALSE /\ stdin = << >>
  /\ loop = "select" /\ stdinOver = FALSE
  /\ toPty = << >> /\ writing = << >> /\ sent = << >> /\ unread = 0
  /\ fetch = "none" /\ snap = 0 /\ pending = << >> /\ copy = "off" /\ restore = 0
  /\ failed = FALSE /\ again = FALSE /\ asked = 0 /\ since = 0
  /\ held = << >> /\ frame = 0 /\ shown = << >> /\ lost = {} /\ got = 0
  /\ made = 0 /\ closed = FALSE

-----------------------------------------------------------------------------
(* The keyboard thread: Matcher.feed on each byte, then a blocking send.   *)

Bytes(ks)  == [copy |-> FALSE, keys |-> ks]
CopyEvent  == [copy |-> TRUE, keys |-> << >>]

\* Mutant: the channel from the keyboard is unbounded.
RoomAlways(n) == n <= MaxKey

Room(n) == Len(stdin) + n <= StdinCap

\* Mutant: the prefix is forwarded at once, not held until the next key.
MatchEager(k) ==
  CASE prefix /\ k = "q" -> [does |-> "detach", out |-> << >>]
    [] prefix /\ k = "y" -> [does |-> "copy", out |-> << >>]
    [] OTHER -> [does |-> "forward", out |-> <<Len(keys) + 1>>]

\* Mutant: a prefix that begins no chord is swallowed.
MatchSwallows(k) ==
  [does |-> IF prefix /\ k = "q" THEN "detach" ELSE IF prefix /\ k = "y" THEN "copy" ELSE "forward",
   out  |-> IF k = First \/ (prefix /\ k \in {"q", "y"}) THEN << >> ELSE <<Len(keys) + 1>>]

Match(k) ==
  CASE prefix /\ k = "q" -> [does |-> "detach", out |-> << >>]
    [] prefix /\ k = "y" -> [does |-> "copy", out |-> << >>]
    [] OTHER -> [does |-> "forward",
                 out  |-> (IF prefix THEN <<Len(keys)>> ELSE << >>)
                          \o (IF k = First THEN << >> ELSE <<Len(keys) + 1>>)]

Events(m) ==
  CASE m.does = "copy"                   -> <<CopyEvent>>
    [] m.does # "copy" /\ m.out = << >> -> << >>
    [] OTHER                             -> <<Bytes(m.out)>>

Type(k) ==
  LET m == Match(k) IN
  /\ thread = "on" /\ loop # "exited" /\ Len(keys) < MaxKey
  /\ Room(Len(Events(m)))
  /\ keys'   = Append(keys, k)
  /\ stdin'  = stdin \o Events(m)
  /\ prefix' = (m.does = "forward" /\ k = First)
  /\ thread' = IF m.does = "detach" THEN "detached" ELSE "on"
  /\ UNCHANGED <<loop, stdinOver, uplink, copying, screen, daemon, got>>

\* End of input: flush_pending forwards a lone prefix.
TypeEof ==
  /\ thread = "on" /\ loop # "exited"
  /\ Room(IF prefix THEN 1 ELSE 0)
  /\ stdin'  = IF prefix THEN Append(stdin, Bytes(<<Len(keys)>>)) ELSE stdin
  /\ prefix' = FALSE
  /\ thread' = "eof"
  /\ UNCHANGED <<keys, loop, stdinOver, uplink, copying, screen, daemon, got>>

\* The keyboard cannot be read any more: a prefix still held goes with the thread.
TypeFails ==
  /\ thread = "on" /\ loop # "exited"
  /\ thread' = "eof"
  /\ UNCHANGED <<keys, prefix, stdin, loop, stdinOver, uplink, copying, screen, daemon, got>>

-----------------------------------------------------------------------------
(* write_pty, polled by the select and by the flush before leaving.        *)

Polled == loop \in {"select", "flush"}

WriteTake ==
  /\ Polled /\ writing = << >> /\ toPty # << >>
  /\ writing' = Head(toPty)
  /\ toPty'   = Tail(toPty)
  /\ UNCHANGED <<keyboard, stdin, loop, stdinOver, sent, unread, copying, screen, daemon, got>>

WritePut ==
  /\ Polled /\ writing # << >> /\ ~closed /\ unread < WireCap
  /\ sent'    = sent \o writing
  /\ unread'  = unread + 1
  /\ writing' = << >>
  /\ UNCHANGED <<keyboard, stdin, loop, stdinOver, toPty, copying, screen, daemon, got>>

\* proxy_tty returns: what its queues still hold is dropped with them.
Exits ==
  /\ loop' = "exited"
  /\ stdin' = << >> /\ toPty' = << >> /\ writing' = << >> /\ pending' = << >>

\* A failed write ends the attach; after a detach its result is ignored.
WriteFails ==
  /\ Polled /\ writing # << >> /\ closed
  /\ Exits
  /\ UNCHANGED <<keyboard, stdinOver, sent, unread, fetch, snap, copy, restore, failed, again,
                 asked, since, screen, daemon, got>>

Flushed ==
  /\ loop = "flush" /\ toPty = << >> /\ writing = << >>
  /\ loop' = "exited"
  /\ UNCHANGED <<keyboard, stdin, stdinOver, uplink, copying, screen, daemon, got>>

-----------------------------------------------------------------------------
(* Copy mode. The screen `restore` replaces the live one, then the output  *)
(* held meanwhile is written after it.                                     *)

Closes == {"esc", "C-c", "enter"}   \* what closes the search prompt
Leaves == {"q", "C-c"}              \* what leaves copy mode when no prompt is open

\* Mutant: "q" leaves copy mode from within the search prompt.
FeedLeavesPrompt(mode, key) ==
  CASE mode # "off" /\ key = "q"          -> "off"
    [] mode = "search" /\ key \in Closes -> "on"
    [] mode = "on" /\ key = "/"           -> "search"
    [] mode = "on" /\ key = "C-c"         -> "off"
    [] OTHER                              -> mode

\* CopyMode.feed: the keys that follow the one that leaves, in the same event,
\* are dropped.
FeedKey(mode, key) ==
  CASE mode = "search" /\ key \in Closes -> "on"
    [] mode = "on" /\ key = "/"           -> "search"
    [] mode = "on" /\ key \in Leaves     -> "off"
    [] OTHER                              -> mode

CopyFeed(mode, ks) ==
  LET fed[i \in 0..Len(ks)] == IF i = 0 THEN mode ELSE FeedKey(fed[i - 1], keys[ks[i]])
  IN fed[Len(ks)]

\* write_restore: the screen, then what was held; this is all that is left of
\* what the terminal showed.
Restored(chunks) == frame' = chunks /\ shown' = held

(* The fetch arm.                                                          *)
FetchFailed ==
  /\ loop = "select" /\ fetch = "failed"
  /\ fetch'  = "none"
  /\ shown'  = shown \o held
  /\ held'   = << >>
  /\ failed' = TRUE
  /\ UNCHANGED <<keyboard, stdin, loop, stdinOver, uplink, snap, pending, copy, restore, again,
                 asked, since, frame, lost, daemon, got>>

FetchDone ==
  LET mode == CopyFeed("on", pending) IN
  /\ loop = "select" /\ fetch = "ok"
  /\ fetch'   = "none"
  /\ restore' = snap
  /\ since'   = asked
  /\ pending' = << >>
  /\ IF mode = "off" \/ stdinOver
     THEN /\ Restored(snap)
          /\ held' = << >>
          /\ loop' = IF stdinOver THEN "flush" ELSE loop
          /\ UNCHANGED copy
     ELSE copy' = mode /\ UNCHANGED <<frame, shown, held, loop>>
  /\ UNCHANGED <<keyboard, stdin, stdinOver, uplink, snap, failed, again, asked, lost,
                 daemon, got>>

-----------------------------------------------------------------------------
(* The stdin arm.                                                          *)

Event(kind) == loop = "select" /\ stdin # << >> /\ Head(stdin).copy = (kind = "copy")

OnCopy ==
  /\ Event("copy")
  /\ stdin' = Tail(stdin)
  /\ fetch' = "running"        \* an earlier fetch is forgotten
  /\ again' = (again \/ copy # "off" \/ fetch # "none")
  /\ asked' = got
  /\ UNCHANGED <<keyboard, loop, stdinOver, uplink, snap, pending, copy, restore, failed, since,
                 screen, daemon, got>>

\* Keys typed while the history is fetched wait for it.
OnBytesPending ==
  /\ Event("bytes") /\ fetch # "none" /\ copy = "off"
  /\ stdin'   = Tail(stdin)
  /\ pending' = pending \o Head(stdin).keys
  /\ UNCHANGED <<keyboard, loop, stdinOver, uplink, fetch, snap, copy, restore, failed, again,
                 asked, since, screen, daemon, got>>

OnBytesCopy ==
  LET mode == CopyFeed(copy, Head(stdin).keys) IN
  /\ Event("bytes") /\ copy # "off"
  /\ stdin' = Tail(stdin)
  /\ copy'  = mode
  /\ IF mode = "off" THEN Restored(restore) /\ held' = << >> /\ UNCHANGED lost
                     ELSE UNCHANGED screen
  /\ UNCHANGED <<keyboard, loop, stdinOver, uplink, fetch, snap, pending, restore, failed, again,
                 asked, since, daemon, got>>

Forwards == copy = "off" /\ fetch = "none"

\* The arm waits for room in to_pty. When there is none it waits for ever:
\* only write_pty makes room, and only the select polls it.
OnBytesForward ==
  /\ Event("bytes") /\ Forwards
  /\ stdin' = Tail(stdin)
  /\ IF Len(toPty) < ToPtyCap
     THEN toPty' = Append(toPty, Head(stdin).keys) /\ UNCHANGED loop
     ELSE loop' = "stuck" /\ UNCHANGED toPty
  /\ UNCHANGED <<keyboard, stdinOver, writing, sent, unread, copying, screen, daemon, got>>

\* The thread has ended: leave, at once or when the fetch has been answered.
OnStdinOver ==
  /\ loop = "select" /\ stdin = << >> /\ thread # "on" /\ ~stdinOver
  /\ stdinOver' = TRUE
  /\ IF fetch # "none"
     THEN UNCHANGED <<loop, copy, screen>>
     ELSE /\ loop' = "flush"
          /\ copy' = "off"
          /\ IF copy # "off" THEN Restored(restore) /\ UNCHANGED <<held, lost>>
                             ELSE UNCHANGED screen
  /\ UNCHANGED <<keyboard, stdin, uplink, fetch, snap, pending, restore, failed, again, asked,
                 since, daemon, got>>

-----------------------------------------------------------------------------
(* The reader arm and SIGTERM.                                             *)

\* Mutant: output is held in copy mode only, not while its history is fetched.
HoldsInCopyOnly == copy # "off"

Holds == copy # "off" \/ fetch # "none"

OnOutput ==
  /\ loop = "select" /\ got < made
  /\ got' = got + 1
  /\ IF Holds
     THEN LET all  == Append(held, got')
              full == Len(all) > HeldCap
          IN /\ held' = IF full THEN Tail(all) ELSE all
             /\ lost' = IF full THEN lost \cup {Head(all)} ELSE lost
             /\ UNCHANGED <<frame, shown>>
     ELSE shown' = Append(shown, got') /\ UNCHANGED <<held, frame, lost>>
  /\ UNCHANGED <<keyboard, stdin, loop, stdinOver, uplink, copying, daemon>>

Quit ==
  /\ Exits
  /\ copy' = "off"
  /\ IF copy # "off" THEN Restored(restore) /\ UNCHANGED <<held, lost>>
                     ELSE UNCHANGED screen
  /\ UNCHANGED <<keyboard, stdinOver, sent, unread, fetch, snap, restore, failed, again,
                 asked, since, daemon, got>>

\* A terminal that output cannot be written to ends the client as SIGTERM does.
OnEof  == loop = "select" /\ closed /\ got = made /\ Quit
OnTerm == loop = "select" /\ Quit

-----------------------------------------------------------------------------
(* The daemon, as far as this client sees it and as long as it is there to *)
(* see it (Attach models the daemon itself).                               *)

DaemonWrites ==
  /\ ~closed /\ made < MaxChunk /\ loop # "exited"
  /\ made' = made + 1
  /\ UNCHANGED <<keyboard, stdin, loop, stdinOver, uplink, copying, screen, closed, got>>

DaemonReads ==
  /\ ~closed /\ unread > 0 /\ loop # "exited"
  /\ unread' = unread - 1
  /\ UNCHANGED <<keyboard, stdin, loop, stdinOver, toPty, writing, sent, copying, screen,
                 daemon, got>>

\* What it had not read is dropped with the connection.
DaemonCloses ==
  /\ ~closed /\ loop # "exited"
  /\ closed' = TRUE
  /\ unread' = 0
  /\ UNCHANGED <<keyboard, stdin, loop, stdinOver, toPty, writing, sent, copying, screen, made, got>>

\* The screen fetched covers what has been sent, and maybe the next chunk.
DaemonAnswers ==
  /\ fetch = "running" /\ loop # "exited"
  /\ \/ fetch' = "failed" /\ UNCHANGED snap
     \/ fetch' = "ok" /\ snap' \in {made} \cup ({made + 1} \cap 1..MaxChunk)
  /\ UNCHANGED <<keyboard, stdin, loop, stdinOver, uplink, pending, copy, restore, failed, again,
                 asked, since, screen, daemon, got>>

Write  == WriteTake \/ WritePut \/ WriteFails \/ Flushed
Select == FetchFailed \/ FetchDone \/ OnCopy \/ OnBytesPending \/ OnBytesCopy
          \/ OnBytesForward \/ OnStdinOver \/ OnOutput \/ OnEof
Daemon == DaemonWrites \/ DaemonReads \/ DaemonCloses \/ DaemonAnswers

Next == (\E k \in Key : Type(k)) \/ TypeEof \/ TypeFails \/ Write \/ Select \/ OnTerm \/ Daemon

(* A ready branch of the select is taken in the end, and the daemon reads  *)
(* its end of the socket and answers. Nothing is assumed of the keyboard,  *)
(* of output, or of the connection being closed.                           *)
Fairness ==
  /\ WF_vars(WriteTake) /\ WF_vars(WritePut) /\ WF_vars(WriteFails) /\ WF_vars(Flushed)
  /\ WF_vars(FetchFailed) /\ WF_vars(FetchDone) /\ WF_vars(OnStdinOver) /\ WF_vars(OnEof)
  /\ WF_vars(OnCopy \/ OnBytesPending \/ OnBytesCopy \/ OnBytesForward)
  /\ WF_vars(OnOutput) /\ WF_vars(DaemonReads) /\ WF_vars(DaemonAnswers)

Spec     == Init /\ [][Next]_vars
FairSpec == Spec /\ Fairness

-----------------------------------------------------------------------------
(* Properties.                                                             *)

Positions == 1..Len(keys)

(* Every variable keeps its type, and no queue outgrows its capacity.      *)
TypeOK ==
  /\ keys \in Seq(Key) /\ thread \in {"on", "detached", "eof"} /\ prefix \in BOOLEAN
  /\ loop \in {"select", "stuck", "flush", "exited"} /\ stdinOver \in BOOLEAN
  /\ Len(stdin) <= StdinCap /\ Len(toPty) <= ToPtyCap /\ Len(held) <= HeldCap
  /\ unread \in 0..WireCap
  /\ \A i \in 1..Len(stdin) : ToSet(stdin[i].keys) \subseteq Positions
  /\ ToSet(sent \o writing \o pending) \subseteq Positions
  /\ fetch \in {"none", "running", "ok", "failed"} /\ copy \in {"off", "on", "search"}
  /\ got \in 0..made /\ ToSet(shown) \cup lost \subseteq 1..MaxChunk
  /\ {snap, restore, frame, asked, since} \subseteq 0..MaxChunk

\* The positions of a chord that ends with one of the keys of S.
Chord(S) ==
  LET ends == {i \in Positions \ {1} : keys[i] \in S /\ keys[i - 1] = First}
  IN ends \cup {i - 1 : i \in ends}

(* "Those bytes are not sent to the child": neither byte of a detach or    *)
(* copy chord ever reaches the daemon, however it was split over reads and *)
(* whatever was typed around it.                                           *)
ChordStaysLocal == ToSet(sent) \cap Chord({"q", "y"}) = {}

\* A sequence holds the keys of S, each once and in the order typed.
InOrder(s, S) ==
  /\ ToSet(s) = S
  /\ \A i, j \in DOMAIN s : i < j => s[i] < s[j]

\* The prefix that waits for the key that follows it.
Withheld == IF prefix THEN <<Len(keys)>> ELSE << >>

InFlight ==
  sent \o writing \o FlattenSeq(toPty)
  \o FlattenSeq([i \in DOMAIN stdin |-> stdin[i].keys])
  \o Withheld

(* Until a copy chord is typed, no key is lost, doubled or overtaken on    *)
(* its way through the three queues; a client that leaves on its own       *)
(* account has delivered all of them, unless the connection was closed,    *)
(* but for a prefix withheld when the keyboard could not be read any more. *)
KeysArrive ==
  LET plain == Positions \ Chord({"q"}) IN
  (Chord({"y"}) = {} /\ ~closed) =>
    /\ loop \in {"select", "flush"} => InOrder(InFlight, plain)
    /\ loop = "exited" /\ stdinOver => InOrder(sent \o Withheld, plain)

\* A search prompt opened after position j is still open when i is typed.
PromptOpen(j, i) ==
  \E p \in (j + 1)..(i - 1) :
    keys[p] = "/" /\ \A c \in (p + 1)..(i - 1) : keys[c] \notin Closes

(* A key typed after a copy chord reaches the child only when a "q" or a   *)
(* Ctrl-C typed in between, and not into the search prompt, has left copy  *)
(* mode, or the history could not be fetched: what is typed to move, to    *)
(* search or into the prompt never ends in the child.                      *)
(* (Not so when the chord is typed again before copy mode is left: a "q"   *)
(* typed for the first then leaves the second.)                            *)
CopyKeysStayLocal ==
  ~failed /\ ~again =>
    \A i \in ToSet(sent), j \in Positions :
      (j < i /\ keys[j] = "y" /\ j \in Chord({"y"})) =>
        \E k \in (j + 1)..(i - 1) : keys[k] \in Leaves /\ ~PromptOpen(j, k)

(* Outside copy mode the terminal shows all output read, in order: the     *)
(* screen last restored and what was written after it leave out only what  *)
(* overflowed the held buffer, and write twice only what was read between  *)
(* asking for the history and its screen. Asking for copy mode again       *)
(* before it is left is the exception: the screen fetched then may be an   *)
(* old one by the time it is restored.                                     *)
ScreenIsCurrent ==
  (copy = "off" /\ fetch = "none" /\ ~again) =>
    /\ 1..got \subseteq 1..frame \cup ToSet(shown) \cup lost
    /\ \A i, j \in DOMAIN shown : i < j => shown[i] < shown[j]
    /\ \A i \in DOMAIN shown : shown[i] <= frame => shown[i] > since

(* "A documented chord always gets back to the picker": once the detach    *)
(* chord is typed, the client leaves, or else its connection is closed.    *)
DetachReturns == (thread = "detached") ~> (loop = "exited" \/ closed)
=============================================================================
