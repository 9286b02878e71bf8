-------------------------------- MODULE Attach --------------------------------
(***************************************************************************)
(* Attaching to one session: Supervisor::attach, AttachSlot and its Drop,  *)
(* the drain and input threads of spawn_session, and proxy_attach, the     *)
(* task that carries bytes between one client and the pty.                 *)
(*                                                                         *)
(* Three parties meet here without a common lock: attach requests, which   *)
(* steal under the `attach` lock; the drain thread, which takes the frame  *)
(* lock and then the `dest` lock for each chunk; and the proxies, which    *)
(* notice a theft, a closed socket or the end of output in their own time. *)
(* A step ends where the code lets go of the lock it holds.                *)
(*                                                                         *)
(* Output chunks are numbered in the order the child writes them. A frame  *)
(* is known by the number of chunks fed to it, so a replay of the frame    *)
(* stands for all the chunks up to that number.                            *)
(***************************************************************************)
EXTENDS Naturals, Sequences

CONSTANTS
  Client,    \* attach connections
  Reader,    \* the clients that keep reading what they are sent
  OutCap,    \* capacity of a client's output channel
  InCap,     \* capacity of the session's input channel
  MaxChunk,  \* bound: chunks the child writes
  MaxKey,    \* bound: chunks each client types
  None       \* no client

ASSUME NoneAssumption == None \notin Client
ASSUME BoundsAssumption ==
  /\ Reader \subseteq Client
  /\ {OutCap, InCap} \subseteq Nat \ {0}
  /\ {MaxChunk, MaxKey} \subseteq Nat

VARIABLES
  live,        \* Session.live.is_some()
  hungup,      \* nobody holds the slave side of the pty any more
  generation,  \* AttachState.generation
  cancel,      \* AttachState.cancel: the client whose oneshot it holds
  dest,        \* Session.dest: the client whose output channel it holds
  drain,       \* the drain thread: "read", "clone", "send", "ended"
  to,          \* the sender the drain thread has cloned
  fed,         \* chunks fed to the frame
  read,        \* chunks read from the pty
  input,       \* the session's input channel: who typed each chunk
  writer,      \* the input thread runs
  pc,          \* each attach: "new", "replay", "steal", "proxy", "drop", "gone"
  gen,         \* AttachSlot.generation, 0 before there is a slot
  fired,       \* the clients whose oneshot has been sent
  out,         \* AttachSlot.output
  seen,        \* the last chunk each client has been sent
  typed        \* chunks each client has typed

session == <<live, hungup, writer>>
focus   == <<generation, cancel>>
output  == <<drain, to, fed, read>>
vars    == <<live, hungup, generation, cancel, dest, drain, to, fed, read,
             input, writer, pc, gen, fired, out, seen, typed>>

Init ==
  /\ live = TRUE /\ hungup = FALSE /\ writer = TRUE
  /\ generation = 0 /\ cancel = None /\ dest = None
  /\ drain = "read" /\ to = None /\ fed = 0 /\ read = 0
  /\ input = << >>
  /\ pc    = [c \in Client |-> "new"]
  /\ gen   = [c \in Client |-> 0]
  /\ fired = {}
  /\ out   = [c \in Client |-> << >>]
  /\ seen  = [c \in Client |-> 0]
  /\ typed = [c \in Client |-> 0]

Goto(c, label) == pc' = [pc EXCEPT ![c] = label]

-----------------------------------------------------------------------------
(* Supervisor::attach                                                      *)

\* A dead session is refused; a live one hands out its input sender.
AttachCheck(c) ==
  /\ pc[c] = "new"
  /\ Goto(c, IF live THEN "replay" ELSE "gone")
  /\ UNCHANGED <<session, focus, dest, output, input, gen, fired, out, seen, typed>>

\* The replay is queued before the session knows of the new channel; a frame
\* that is still blank replays nothing.
AttachReplay(c) ==
  /\ pc[c] = "replay"
  /\ out' = [out EXCEPT ![c] = IF fed = 0 THEN << >> ELSE <<fed>>]
  /\ Goto(c, "steal")
  /\ UNCHANGED <<session, focus, dest, output, input, gen, fired, seen, typed>>

\* Mutant: the previous client is not told.
StealQuietly(c) ==
  /\ pc[c] = "steal"
  /\ generation' = generation + 1
  /\ gen'    = [gen EXCEPT ![c] = generation']
  /\ cancel' = c
  /\ dest'   = c
  /\ Goto(c, "proxy")
  /\ UNCHANGED <<session, output, input, fired, out, seen, typed>>

\* Under the attach lock: tell the previous client, install the new one.
AttachSteal(c) ==
  /\ pc[c] = "steal"
  /\ fired' = fired \cup ({cancel} \ {None})
  /\ generation' = generation + 1
  /\ gen'    = [gen EXCEPT ![c] = generation']
  /\ cancel' = c
  /\ dest'   = c
  /\ Goto(c, "proxy")
  /\ UNCHANGED <<session, output, input, out, seen, typed>>

\* Mutant: whoever leaves clears the focus.
SlotDropAnyway(c) ==
  /\ pc[c] = "drop"
  /\ cancel' = None /\ dest' = None
  /\ Goto(c, "gone")
  /\ UNCHANGED <<session, generation, output, input, gen, fired, out, seen, typed>>

\* Mutant: the channel of a client that has left stays installed.
SlotDropHalf(c) ==
  /\ pc[c] = "drop"
  /\ cancel' = IF generation = gen[c] THEN None ELSE cancel
  /\ Goto(c, "gone")
  /\ UNCHANGED <<session, generation, dest, output, input, gen, fired, out, seen, typed>>

\* AttachSlot::drop: only the slot of the current generation clears the focus.
SlotDrop(c) ==
  /\ pc[c] = "drop"
  /\ IF generation = gen[c]
     THEN cancel' = None /\ dest' = None
     ELSE UNCHANGED <<cancel, dest>>
  /\ Goto(c, "gone")
  /\ UNCHANGED <<session, generation, output, input, gen, fired, out, seen, typed>>

-----------------------------------------------------------------------------
(* drain_pty: read a chunk and feed the frame; clone the sender; send.     *)

\* Mutant: the frame is only kept while nobody is attached.
DrainFeedDetached ==
  /\ drain = "read" /\ read < MaxChunk
  /\ read' = read + 1
  /\ fed'  = IF dest = None THEN read' ELSE fed
  /\ drain' = "clone"
  /\ UNCHANGED <<session, focus, dest, to, input, pc, gen, fired, out, seen, typed>>

DrainFeed ==
  /\ drain = "read" /\ read < MaxChunk
  /\ read' = read + 1
  /\ fed'  = read'
  /\ drain' = "clone"
  /\ UNCHANGED <<session, focus, dest, to, input, pc, gen, fired, out, seen, typed>>

DrainClone ==
  /\ drain = "clone"
  /\ to' = dest
  /\ drain' = "send"
  /\ UNCHANGED <<session, focus, dest, fed, read, input, pc, gen, fired, out, seen, typed>>

\* The proxy of c still holds the receiving end of its channel.
Receiving(c) == c \in Client /\ pc[c] = "proxy"

\* Mutant: a full channel is waited for.
DrainSendWaits ==
  /\ drain = "send"
  /\ Receiving(to) => Len(out[to]) < OutCap
  /\ out' = [c \in Client |-> IF c = to /\ Receiving(c) THEN Append(out[c], read) ELSE out[c]]
  /\ to' = None
  /\ drain' = "read"
  /\ UNCHANGED <<session, focus, dest, fed, read, input, pc, gen, fired, seen, typed>>

\* Mutant: the output channel is unbounded.
DrainSendOver ==
  /\ drain = "send"
  /\ out' = [c \in Client |-> IF c = to /\ Receiving(c) THEN Append(out[c], read) ELSE out[c]]
  /\ to' = None
  /\ drain' = "read"
  /\ UNCHANGED <<session, focus, dest, fed, read, input, pc, gen, fired, seen, typed>>

\* try_send: a chunk for a full or closed channel is dropped.
DrainSend ==
  /\ drain = "send"
  /\ out' = [c \in Client |->
               IF c = to /\ Receiving(c) /\ Len(out[c]) < OutCap
               THEN Append(out[c], read) ELSE out[c]]
  /\ to' = None
  /\ drain' = "read"
  /\ UNCHANGED <<session, focus, dest, fed, read, input, pc, gen, fired, seen, typed>>

\* Mutant: the sender is left behind at the end of output.
DrainEndKeeps ==
  /\ drain = "read" /\ hungup
  /\ drain' = "ended"
  /\ UNCHANGED <<session, focus, dest, to, fed, read, input, pc, gen, fired, out, seen, typed>>

\* End of file or an error: the installed sender is dropped.
DrainEnd ==
  /\ drain = "read" /\ hungup
  /\ dest' = None
  /\ drain' = "ended"
  /\ UNCHANGED <<session, focus, to, fed, read, input, pc, gen, fired, out, seen, typed>>

\* The input thread writes to the pty; when that fails it ends, and with it
\* the receiving end of the input channel.
WriteInput ==
  /\ writer /\ input # << >>
  /\ \/ input' = Tail(input) /\ UNCHANGED writer
     \/ hungup /\ writer' = FALSE /\ input' = << >>
  /\ UNCHANGED <<live, hungup, focus, dest, output, pc, gen, fired, out, seen, typed>>

-----------------------------------------------------------------------------
(* proxy_attach: whichever of its three branches is ready first. Leaving   *)
(* closes the socket and the output channel; the slot is dropped after.    *)

Leave(c) ==
  /\ pc[c] = "proxy"
  /\ Goto(c, "drop")
  /\ out' = [out EXCEPT ![c] = << >>]
  /\ UNCHANGED <<session, focus, dest, output, input, gen, fired, seen, typed>>

ProxyStolen(c) == c \in fired /\ Leave(c)

\* The client closes its end, or its reply cannot be written.
ProxyClosed(c) == Leave(c)

\* Every sender of the channel is gone and the channel is empty.
ProxyEof(c) == dest # c /\ to # c /\ out[c] = << >> /\ Leave(c)

ProxyInput(c) ==
  /\ pc[c] = "proxy" /\ typed[c] < MaxKey
  /\ writer /\ Len(input) < InCap
  /\ input' = Append(input, c)
  /\ typed' = [typed EXCEPT ![c] = @ + 1]
  /\ UNCHANGED <<session, focus, dest, output, pc, gen, fired, out, seen>>

ProxyInputClosed(c) == ~writer /\ typed[c] < MaxKey /\ Leave(c)

ProxyOutput(c) ==
  /\ pc[c] = "proxy" /\ out[c] # << >>
  /\ seen' = [seen EXCEPT ![c] = Head(out[c])]
  /\ out'  = [out EXCEPT ![c] = Tail(out[c])]
  /\ UNCHANGED <<session, focus, dest, output, input, pc, gen, fired, typed>>

-----------------------------------------------------------------------------
\* The child is reaped (Lifecycle models how).
Reaped ==
  /\ live /\ live' = FALSE
  /\ UNCHANGED <<hungup, writer, focus, dest, output, input, pc, gen, fired, out, seen, typed>>

\* The slave side closes. The child may have closed it while it runs on, and
\* a process it left behind may keep it open after the child is reaped.
Hangup ==
  /\ ~hungup /\ hungup' = TRUE
  /\ UNCHANGED <<live, writer, focus, dest, output, input, pc, gen, fired, out, seen, typed>>

Attach(c) == AttachCheck(c) \/ AttachReplay(c) \/ AttachSteal(c)
Drain     == DrainFeed \/ DrainClone \/ DrainSend \/ DrainEnd
Proxy(c)  == ProxyStolen(c) \/ ProxyClosed(c) \/ ProxyEof(c) \/ ProxyInput(c)
             \/ ProxyInputClosed(c) \/ ProxyOutput(c) \/ SlotDrop(c)

Next ==
  \/ \E c \in Client : Attach(c) \/ Proxy(c)
  \/ Drain \/ WriteInput \/ Reaped \/ Hangup

(* The daemon's own steps are taken in the end: its threads and tasks are  *)
(* scheduled and a select is polled whenever one of its branches is ready. *)
(* Nothing is assumed of the child, and of the clients only that those in  *)
(* Reader go on reading.                                                   *)
Fairness ==
  /\ WF_vars(DrainClone) /\ WF_vars(DrainSend) /\ WF_vars(DrainEnd)
  /\ \A c \in Client :
       /\ WF_vars(AttachReplay(c)) /\ WF_vars(AttachSteal(c))
       /\ WF_vars(ProxyStolen(c)) /\ WF_vars(ProxyEof(c)) /\ WF_vars(SlotDrop(c))
  /\ \A c \in Reader : WF_vars(ProxyOutput(c))

Spec     == Init /\ [][Next]_vars
FairSpec == Spec /\ Fairness

-----------------------------------------------------------------------------
(* Properties.                                                             *)

(* Every variable keeps its type, and the channels stay within capacity.   *)
FocusTypeOK ==
  /\ generation \in Nat
  /\ cancel \in Client \cup {None}
  /\ dest \in Client \cup {None}
  /\ pc \in [Client -> {"new", "replay", "steal", "proxy", "drop", "gone"}]
  /\ gen \in [Client -> Nat]
  /\ fired \subseteq Client
OutputTypeOK ==
  /\ drain \in {"read", "clone", "send", "ended"}
  /\ to \in Client \cup {None}
  /\ fed \in Nat /\ read \in Nat
  /\ seen \in [Client -> Nat]
  /\ out \in [Client -> Seq(Nat)]
  /\ \A c \in Client : Len(out[c]) <= OutCap
InputTypeOK ==
  /\ live \in BOOLEAN /\ hungup \in BOOLEAN /\ writer \in BOOLEAN
  /\ input \in Seq(Client) /\ Len(input) <= InCap
  /\ typed \in [Client -> Nat]
TypeOK == FocusTypeOK /\ OutputTypeOK /\ InputTypeOK

Attached(c) == pc[c] \in {"proxy", "drop"}

(* One focused client per session: the client that AttachState.cancel can  *)
(* reach is attached, holds the current generation and has not been told   *)
(* to go; every other attached client has been. So a list or a report that *)
(* reads `cancel` under the lock sees exactly the client to be asked.      *)
OneFocus ==
  \A c \in Client :
    /\ cancel = c => Attached(c) /\ gen[c] = generation /\ c \notin fired
    /\ Attached(c) /\ cancel # c => c \in fired

(* Bytes go to the focused client or to nobody: the channel in `dest` is   *)
(* the focused client's, and it is installed as long as the drain runs, so *)
(* neither a theft nor a late drop leaves the focused client deaf.         *)
DestIsFocus ==
  /\ dest # None => dest = cancel
  /\ drain # "ended" => dest = cancel

(* The frame is never behind a client: whatever a client has been sent, or *)
(* will find in its channel, a later attach finds in the frame it replays. *)
FrameCoversClients ==
  \A c \in Client :
    /\ seen[c] <= fed
    /\ \A i \in 1..Len(out[c]) : out[c][i] <= fed

(* Attach implements ExclusiveFocus, `cancel` being the holder's end of    *)
(* the oneshot: the focus is lost to a newer client or by leaving only.    *)
Abstract == INSTANCE ExclusiveFocus WITH
  holder <- cancel,
  came   <- {c \in Client : gen[c] # 0},
  left   <- {c \in Client : pc[c] = "gone" /\ gen[c] # 0}
ImplementsExclusiveFocus == Abstract!Spec

(* "A second attach disconnects the previous client": a displaced client   *)
(* is disconnected, whether or not it reads, types or leaves.              *)
StolenIsDisconnected ==
  \A c \in Client : (Attached(c) /\ cancel # c) ~> (pc[c] = "gone")

(* "Detached output does not block the child": the drain thread comes back *)
(* to the pty whatever the attached client does with its output.           *)
DrainNeverStalls == (drain \in {"clone", "send"}) ~> (drain = "read")

(* When the pty closes, a client that was attached before the drain thread *)
(* saw it and reads its output is disconnected.                            *)
EofDisconnects ==
  \A c \in Reader : (hungup /\ dest = c /\ drain # "ended") ~> (pc[c] = "gone")

(* "Bytes are a raw PTY": a client is sent the frame and then every chunk  *)
(* after it, one by one, as long as its channel has room.                  *)
SeamlessOutput ==
  [][\A c \in Client :
       ProxyOutput(c) => seen[c] = 0 \/ seen'[c] = seen[c] + 1]_vars
=============================================================================
