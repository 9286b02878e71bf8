---------------------------- MODULE Attach_proofs ----------------------------
(***************************************************************************)
(* Proofs about Attach, for any set of clients and any capacities.         *)
(***************************************************************************)
EXTENDS Attach, TLAPS

-----------------------------------------------------------------------------
(* Types, one part of the state at a time.                                 *)

(* The focus variables keep their types.                                   *)
LEMMA FocusTypes == Init /\ [][Next]_vars => []FocusTypeOK
<1>1. Init => FocusTypeOK
  BY DEF Init, FocusTypeOK
<1>2. FocusTypeOK /\ [Next]_vars => FocusTypeOK'
  <2> SUFFICES ASSUME FocusTypeOK, [Next]_vars PROVE FocusTypeOK'
    OBVIOUS
  <2> USE DEF FocusTypeOK, focus, Goto
  <2>1. ASSUME NEW c \in Client, Attach(c) PROVE FocusTypeOK'
    BY <2>1 DEF Attach, AttachCheck, AttachReplay, AttachSteal
  <2>2. ASSUME NEW c \in Client, Proxy(c) PROVE FocusTypeOK'
    <3>1. CASE Leave(c)
      BY <3>1 DEF Leave
    <3>2. CASE ProxyInput(c) \/ ProxyOutput(c)
      BY <3>2 DEF ProxyInput, ProxyOutput
    <3>3. CASE SlotDrop(c)
      BY <3>3 DEF SlotDrop
    <3> QED
      BY <2>2, <3>1, <3>2, <3>3
      DEF Proxy, ProxyStolen, ProxyClosed, ProxyEof, ProxyInputClosed
  <2>3. CASE Drain
    BY <2>3, NoneAssumption DEF Drain, DrainFeed, DrainClone, DrainSend, DrainEnd
  <2>4. CASE WriteInput \/ Reaped \/ Hangup
    BY <2>4 DEF WriteInput, Reaped, Hangup
  <2>5. CASE UNCHANGED vars
    BY <2>5 DEF vars
  <2> QED
    BY <2>1, <2>2, <2>3, <2>4, <2>5 DEF Next
<1> QED
  BY <1>1, <1>2, PTL

(* The output variables keep their types, and try_send keeps every output  *)
(* channel within its capacity.                                            *)
LEMMA OutputTypes == Init /\ [][Next]_vars => []OutputTypeOK
<1>1. Init => OutputTypeOK
  BY BoundsAssumption DEF Init, OutputTypeOK
<1>2. FocusTypeOK /\ OutputTypeOK /\ [Next]_vars => OutputTypeOK'
  <2> SUFFICES ASSUME FocusTypeOK, OutputTypeOK, [Next]_vars PROVE OutputTypeOK'
    OBVIOUS
  <2> USE DEF OutputTypeOK, output
  <2>1. ASSUME NEW c \in Client, Attach(c) PROVE OutputTypeOK'
    <3>1. CASE AttachCheck(c) \/ AttachSteal(c)
      BY <3>1 DEF AttachCheck, AttachSteal
    <3>2. CASE AttachReplay(c)
      BY <3>2, BoundsAssumption DEF AttachReplay
    <3> QED
      BY <2>1, <3>1, <3>2 DEF Attach
  <2>2. ASSUME NEW c \in Client, Proxy(c) PROVE OutputTypeOK'
    <3>1. CASE Leave(c)
      BY <3>1, BoundsAssumption DEF Leave
    <3>2. CASE ProxyInput(c) \/ SlotDrop(c)
      BY <3>2 DEF ProxyInput, SlotDrop
    <3>3. CASE ProxyOutput(c)
      <4>1. out[c] \in Seq(Nat) /\ out[c] # << >>
        BY <3>3 DEF ProxyOutput
      <4>2. Head(out[c]) \in Nat /\ Tail(out[c]) \in Seq(Nat)
            /\ Len(Tail(out[c])) = Len(out[c]) - 1
        BY <4>1
      <4>3. Len(out[c]) \in Nat /\ OutCap \in Nat
        BY <4>1, BoundsAssumption
      <4> QED
        BY <3>3, <4>2, <4>3 DEF ProxyOutput
    <3> QED
      BY <2>2, <3>1, <3>2, <3>3
      DEF Proxy, ProxyStolen, ProxyClosed, ProxyEof, ProxyInputClosed
  <2>3. CASE DrainFeed \/ DrainEnd
    BY <2>3 DEF DrainFeed, DrainEnd
  <2>4. CASE DrainClone
    BY <2>4 DEF DrainClone, FocusTypeOK
  <2>5. CASE DrainSend
    <3>1. ASSUME NEW c \in Client, Len(out[c]) < OutCap
          PROVE  Append(out[c], read) \in Seq(Nat) /\ Len(Append(out[c], read)) <= OutCap
      <4>1. out[c] \in Seq(Nat)
        OBVIOUS
      <4>2. Len(Append(out[c], read)) = Len(out[c]) + 1 /\ Len(out[c]) \in Nat
        BY <4>1
      <4> QED
        BY <4>1, <4>2, <3>1, BoundsAssumption
    <3> QED
      BY <2>5, <3>1 DEF DrainSend
  <2>6. CASE WriteInput \/ Reaped \/ Hangup
    BY <2>6 DEF WriteInput, Reaped, Hangup
  <2>7. CASE UNCHANGED vars
    BY <2>7 DEF vars
  <2> QED
    BY <2>1, <2>2, <2>3, <2>4, <2>5, <2>6, <2>7 DEF Next, Drain
<1> QED
  BY <1>1, <1>2, FocusTypes, PTL

(* The input variables keep their types, and waiting for room keeps the    *)
(* input channel within its capacity.                                      *)
LEMMA InputTypes == Init /\ [][Next]_vars => []InputTypeOK
<1>1. Init => InputTypeOK
  <2>1. << >> \in Seq(Client) /\ Len(<< >>) = 0
    OBVIOUS
  <2>2. InCap \in Nat /\ InCap >= 0
    BY BoundsAssumption
  <2> SUFFICES ASSUME Init PROVE InputTypeOK
    OBVIOUS
  <2>3. input \in Seq(Client) /\ Len(input) <= InCap
    BY <2>1, <2>2 DEF Init
  <2>4. live \in BOOLEAN /\ hungup \in BOOLEAN /\ writer \in BOOLEAN
    BY DEF Init
  <2>5. typed \in [Client -> Nat]
    BY DEF Init
  <2> QED
    BY <2>3, <2>4, <2>5 DEF InputTypeOK
<1>2. InputTypeOK /\ [Next]_vars => InputTypeOK'
  <2> SUFFICES ASSUME InputTypeOK, [Next]_vars PROVE InputTypeOK'
    OBVIOUS
  <2> USE DEF InputTypeOK, session
  <2>1. ASSUME NEW c \in Client, Attach(c) PROVE InputTypeOK'
    BY <2>1 DEF Attach, AttachCheck, AttachReplay, AttachSteal
  <2>2. ASSUME NEW c \in Client, Proxy(c) PROVE InputTypeOK'
    <3>1. CASE Leave(c) \/ ProxyOutput(c) \/ SlotDrop(c)
      BY <3>1 DEF Leave, ProxyOutput, SlotDrop
    <3>2. CASE ProxyInput(c)
      <4>1. Append(input, c) \in Seq(Client) /\ Len(Append(input, c)) = Len(input) + 1
        OBVIOUS
      <4>2. Len(input) \in Nat /\ InCap \in Nat
        BY BoundsAssumption
      <4> QED
        BY <3>2, <4>1, <4>2 DEF ProxyInput
    <3> QED
      BY <2>2, <3>1, <3>2
      DEF Proxy, ProxyStolen, ProxyClosed, ProxyEof, ProxyInputClosed
  <2>3. CASE Drain
    BY <2>3 DEF Drain, DrainFeed, DrainClone, DrainSend, DrainEnd
  <2>4. CASE WriteInput
    <3>1. input # << >> => /\ Tail(input) \in Seq(Client)
                           /\ Len(Tail(input)) = Len(input) - 1
      OBVIOUS
    <3>2. << >> \in Seq(Client) /\ Len(<< >>) = 0
      OBVIOUS
    <3>3. Len(input) \in Nat /\ InCap \in Nat
      BY BoundsAssumption
    <3>4. input' \in Seq(Client) /\ Len(input') <= InCap
      <4>1. input # << >> /\ (input' = Tail(input) \/ input' = << >>)
        BY <2>4 DEF WriteInput
      <4>2. Len(input) <= InCap
        OBVIOUS
      <4>3. CASE input' = Tail(input)
        BY <4>1, <4>2, <4>3, <3>1, <3>3
      <4>4. CASE input' = << >>
        BY <4>4, <3>2, <3>3, <4>2
      <4> QED
        BY <4>1, <4>3, <4>4
    <3>5. writer' \in BOOLEAN
      BY <2>4 DEF WriteInput
    <3> QED
      BY <2>4, <3>4, <3>5 DEF WriteInput
  <2>5. CASE Reaped \/ Hangup
    BY <2>5 DEF Reaped, Hangup
  <2>6. CASE UNCHANGED vars
    BY <2>6 DEF vars
  <2> QED
    BY <2>1, <2>2, <2>3, <2>4, <2>5, <2>6 DEF Next
<1> QED
  BY <1>1, <1>2, PTL

(* Type correctness of the whole module.                                   *)
THEOREM TypeCorrect == Spec => []TypeOK
  BY FocusTypes, OutputTypes, InputTypes, PTL DEF Spec, TypeOK

-----------------------------------------------------------------------------
(* Who holds the focus. OneFocus is not inductive: that a late drop spares *)
(* the thief rests on generations being handed out once, and that a thief  *)
(* is not told to go at once on nobody being told before he has a slot.    *)

Unslotted(c) == pc[c] \in {"new", "replay", "steal"}

Generations ==
  /\ \A c \in Client :
       /\ gen[c] <= generation
       /\ Attached(c) => gen[c] # 0
       /\ Unslotted(c) => gen[c] = 0 /\ c \notin fired
  /\ \A c, d \in Client : gen[c] = gen[d] /\ gen[c] # 0 => c = d

FocusInv == FocusTypeOK /\ Generations /\ OneFocus /\ DestIsFocus

\* Nobody is attached at first.
LEMMA FocusInit == Init => FocusInv
  BY NoneAssumption
  DEF Init, FocusInv, FocusTypeOK, Generations, OneFocus, DestIsFocus, Attached, Unslotted

\* A steal hands the focus over and tells the client that had it.
LEMMA StealKeepsFocus ==
  ASSUME FocusInv, NEW c \in Client, AttachSteal(c), FocusTypeOK'
  PROVE  FocusInv'
<1> USE DEF AttachSteal, Goto, FocusTypeOK, FocusInv
<1>1. generation' = generation + 1 /\ generation' \in Nat /\ generation' # 0
  OBVIOUS
<1>2. /\ gen'[c] = generation + 1 /\ pc'[c] = "proxy"
      /\ \A d \in Client \ {c} : gen'[d] = gen[d] /\ pc'[d] = pc[d]
  OBVIOUS
<1>3. c \notin fired /\ cancel # c
  BY DEF Generations, Unslotted, OneFocus, Attached
<1>4. Generations'
  <2>1. \A d \in Client : gen[d] \in Nat /\ gen[d] <= generation
    BY DEF Generations
  <2>2. \A d \in Client : cancel = d => Attached(d)
    BY DEF OneFocus
  <2>3. fired' = fired \cup ({cancel} \ {None}) /\ pc[c] = "steal"
    OBVIOUS
  <2>4. ASSUME NEW d \in Client
        PROVE  /\ gen'[d] <= generation'
               /\ Attached(d)' => gen'[d] # 0
               /\ Unslotted(d)' => gen'[d] = 0 /\ d \notin fired'
    BY <1>1, <1>2, <2>1, <2>2, <2>3 DEF Generations, Attached, Unslotted
  <2>5. ASSUME NEW d \in Client, NEW e \in Client, gen'[d] = gen'[e], gen'[d] # 0
        PROVE  d = e
    BY <1>1, <1>2, <2>1, <2>5 DEF Generations
  <2> QED
    BY <2>4, <2>5 DEF Generations
<1>5. OneFocus'
  <2> SUFFICES ASSUME NEW d \in Client
               PROVE  /\ cancel' = d => Attached(d)' /\ gen'[d] = generation' /\ d \notin fired'
                      /\ Attached(d)' /\ cancel' # d => d \in fired'
    BY DEF OneFocus
  <2>1. fired' = fired \cup ({cancel} \ {None}) /\ cancel' = c
    OBVIOUS
  <2>2. CASE d = c
    BY <1>2, <1>3, <2>1, <2>2 DEF Attached
  <2>3. CASE d # c
    <3>1. Attached(d)' => Attached(d)
      BY <1>2, <2>3 DEF Attached
    <3>2. Attached(d) => d \in fired'
      BY <2>1, NoneAssumption DEF OneFocus
    <3> QED
      BY <2>1, <2>3, <3>1, <3>2
  <2> QED
    BY <2>2, <2>3
<1>6. DestIsFocus'
  BY DEF DestIsFocus
<1> QED
  BY <1>4, <1>5, <1>6

\* A slot that is dropped takes no focus but its own with it.
LEMMA DropKeepsFocus ==
  ASSUME FocusInv, NEW c \in Client, SlotDrop(c), FocusTypeOK'
  PROVE  FocusInv'
<1> USE DEF SlotDrop, Goto, FocusTypeOK, FocusInv
<1>1. pc'[c] = "gone" /\ \A d \in Client \ {c} : pc'[d] = pc[d]
  OBVIOUS
<1>2. Generations'
  BY <1>1 DEF Generations, Attached, Unslotted
<1>3. generation = gen[c] => \A d \in Client : cancel = d => d = c
  BY DEF OneFocus, Generations, Attached
<1>4. generation # gen[c] => cancel # c
  BY DEF OneFocus
<1>5. OneFocus'
  <2>1. CASE generation = gen[c]
    BY <1>1, <1>3, <2>1, NoneAssumption DEF OneFocus, Attached
  <2>2. CASE generation # gen[c]
    BY <1>1, <1>4, <2>2 DEF OneFocus, Attached
  <2> QED
    BY <2>1, <2>2
<1>6. DestIsFocus'
  <2>1. CASE generation = gen[c]
    BY <2>1 DEF DestIsFocus
  <2>2. CASE generation # gen[c]
    <3>1. UNCHANGED <<cancel, dest, drain>>
      BY <2>2 DEF output
    <3> QED
      BY <3>1 DEF DestIsFocus
  <2> QED
    BY <2>1, <2>2
<1> QED
  BY <1>2, <1>5, <1>6

\* Every other step leaves the focus alone, or moves a client on without
\* giving it a slot or taking one away, or empties `dest` as the drain ends.
LEMMA OthersKeepFocus ==
  ASSUME FocusInv, FocusTypeOK', UNCHANGED <<generation, cancel, gen, fired>>,
         \/ UNCHANGED <<pc, dest>> /\ (drain = "ended" => drain' = "ended")
         \/ UNCHANGED pc /\ drain' = "ended" /\ dest' = None
         \/ UNCHANGED <<dest, drain>> /\ \E c \in Client :
              \/ Unslotted(c) /\ Goto(c, "replay")
              \/ Unslotted(c) /\ Goto(c, "steal")
              \/ Unslotted(c) /\ Goto(c, "gone")
              \/ pc[c] = "proxy" /\ Goto(c, "drop")
  PROVE  FocusInv'
<1> USE DEF FocusInv, FocusTypeOK
<1>1. CASE UNCHANGED <<pc, dest>> /\ (drain = "ended" => drain' = "ended")
  BY <1>1 DEF Generations, OneFocus, DestIsFocus, Attached, Unslotted
<1>2. CASE UNCHANGED pc /\ drain' = "ended" /\ dest' = None
  BY <1>2 DEF Generations, OneFocus, DestIsFocus, Attached, Unslotted
<1>3. ASSUME UNCHANGED <<dest, drain>>, NEW c \in Client,
             \/ Unslotted(c) /\ Goto(c, "replay")
             \/ Unslotted(c) /\ Goto(c, "steal")
             \/ Unslotted(c) /\ Goto(c, "gone")
             \/ pc[c] = "proxy" /\ Goto(c, "drop")
      PROVE  FocusInv'
  <2>1. \A d \in Client \ {c} : pc'[d] = pc[d]
    BY <1>3 DEF Goto
  <2>2. Attached(c)' <=> Attached(c)
    BY <1>3 DEF Goto, Attached, Unslotted
  <2>3. Unslotted(c)' => Unslotted(c)
    BY <1>3 DEF Goto, Attached, Unslotted
  <2>4. \A d \in Client : (Attached(d)' <=> Attached(d)) /\ (Unslotted(d)' => Unslotted(d))
    BY <2>1, <2>2, <2>3 DEF Attached, Unslotted
  <2> QED
    BY <1>3, <2>4 DEF Generations, OneFocus, DestIsFocus
<1> QED
  BY <1>1, <1>2, <1>3

\* Every step keeps the focus invariant: by the three lemmas above.
LEMMA FocusStep == FocusInv /\ FocusTypeOK' /\ [Next]_vars => FocusInv'
<1> SUFFICES ASSUME FocusInv, FocusTypeOK', [Next]_vars PROVE FocusInv'
  OBVIOUS
<1> USE DEF focus, output, session
<1>1. ASSUME NEW c \in Client, AttachCheck(c) \/ AttachReplay(c) PROVE FocusInv'
  BY <1>1, OthersKeepFocus DEF AttachCheck, AttachReplay, Unslotted
<1>2. ASSUME NEW c \in Client, AttachSteal(c) PROVE FocusInv'
  BY <1>2, StealKeepsFocus
<1>3. ASSUME NEW c \in Client, SlotDrop(c) PROVE FocusInv'
  BY <1>3, DropKeepsFocus
<1>4. ASSUME NEW c \in Client, Leave(c) PROVE FocusInv'
  BY <1>4, OthersKeepFocus DEF Leave
<1>5. ASSUME NEW c \in Client, ProxyInput(c) \/ ProxyOutput(c) PROVE FocusInv'
  BY <1>5, OthersKeepFocus DEF ProxyInput, ProxyOutput
<1>6. CASE Drain
  BY <1>6, OthersKeepFocus DEF Drain, DrainFeed, DrainClone, DrainSend, DrainEnd
<1>7. CASE WriteInput \/ Reaped \/ Hangup \/ UNCHANGED vars
  BY <1>7, OthersKeepFocus DEF WriteInput, Reaped, Hangup, vars
<1> QED
  BY <1>1, <1>2, <1>3, <1>4, <1>5, <1>6, <1>7
  DEF Next, Attach, Proxy, ProxyStolen, ProxyClosed, ProxyEof, ProxyInputClosed

\* The inductive invariant of the focus.
LEMMA FocusInvariant == Spec => []FocusInv
  BY FocusInit, FocusStep, FocusTypes, PTL DEF Spec

(* One focused client per session, for any number of clients: the client   *)
(* `cancel` reaches is attached, current and not told to go, every other   *)
(* attached client has been told.                                          *)
THEOREM FocusIsExclusive == Spec => []OneFocus
  BY FocusInvariant, PTL DEF FocusInv

(* Output goes to the focused client or to nobody, and to the focused      *)
(* client as long as the drain thread runs.                                *)
THEOREM OutputFollowsFocus == Spec => []DestIsFocus
  BY FocusInvariant, PTL DEF FocusInv

-----------------------------------------------------------------------------
(* Attach implements ExclusiveFocus.                                       *)

(* For any number of clients, whatever attaches, leaves and thefts do to   *)
(* the focus is a step of the abstract specification or none at all.       *)
THEOREM Refinement == Spec => ImplementsExclusiveFocus
<1>1. Init => Abstract!Init
  BY DEF Init, Abstract!Init
<1>2. FocusInv /\ FocusTypeOK' /\ [Next]_vars => [Abstract!Next]_(Abstract!vars)
  <2> SUFFICES ASSUME FocusInv, FocusTypeOK', [Next]_vars
               PROVE  [Abstract!Next]_(Abstract!vars)
    OBVIOUS
  <2> DEFINE Came == {c \in Client : gen[c] # 0}
             Left == {c \in Client : pc[c] = "gone" /\ gen[c] # 0}
  <2> USE DEF FocusInv, FocusTypeOK, focus, output, session, Goto
  <2>1. ASSUME UNCHANGED <<cancel, gen, pc>> PROVE UNCHANGED Abstract!vars
    BY <2>1 DEF Abstract!vars
  <2>2. ASSUME NEW c \in Client, UNCHANGED <<cancel, gen>>,
               pc' = [pc EXCEPT ![c] = pc'[c]],
               pc[c] # "gone",
               pc'[c] = "gone" => gen[c] = 0
        PROVE  UNCHANGED Abstract!vars
    <3>1. Came' = Came /\ Left' = Left
      BY <2>2
    <3> QED
      BY <2>2, <3>1 DEF Abstract!vars
  <2>3. ASSUME NEW c \in Client, AttachCheck(c) \/ AttachReplay(c)
        PROVE  UNCHANGED Abstract!vars
    BY <2>2, <2>3 DEF AttachCheck, AttachReplay, Generations, Unslotted
  <2>4. ASSUME NEW c \in Client, AttachSteal(c) PROVE Abstract!Take(c)
    <3>1. gen[c] = 0 /\ pc[c] = "steal" /\ pc'[c] = "proxy" /\ cancel' = c
      BY <2>4 DEF AttachSteal, Generations, Unslotted
    <3>2. gen'[c] # 0 /\ \A d \in Client \ {c} : gen'[d] = gen[d] /\ pc'[d] = pc[d]
      BY <2>4 DEF AttachSteal
    <3>3. Came' = Came \cup {c} /\ Left' = Left /\ c \notin Came \cup Left
      BY <3>1, <3>2
    <3> QED
      BY <3>1, <3>3 DEF Abstract!Take
  <2>5. ASSUME NEW c \in Client, SlotDrop(c) PROVE Abstract!Leave({c})
    <3>1. /\ gen[c] # 0 /\ pc[c] = "drop" /\ pc'[c] = "gone" /\ gen' = gen
          /\ \A d \in Client \ {c} : pc'[d] = pc[d]
      BY <2>5 DEF SlotDrop, Generations, Attached
    <3>2. Left' = Left \cup {c} /\ c \in Came \ Left /\ Came' = Came
      BY <3>1
    <3>3. generation = gen[c] => cancel = c \/ cancel = None
      BY DEF OneFocus, Generations, Attached
    <3>4. generation # gen[c] => cancel # c
      BY DEF OneFocus
    <3>5. cancel' = IF cancel = c THEN None ELSE cancel
      BY <2>5, <3>3, <3>4 DEF SlotDrop
    <3> QED
      BY <3>2, <3>5 DEF Abstract!Leave
  <2>6. ASSUME NEW c \in Client, Leave(c) PROVE UNCHANGED Abstract!vars
    BY <2>2, <2>6 DEF Leave
  <2>7. ASSUME NEW c \in Client, ProxyInput(c) \/ ProxyOutput(c)
        PROVE  UNCHANGED Abstract!vars
    BY <2>1, <2>7 DEF ProxyInput, ProxyOutput
  <2>8. ASSUME Drain \/ WriteInput \/ Reaped \/ Hangup \/ UNCHANGED vars
        PROVE  UNCHANGED Abstract!vars
    BY <2>1, <2>8 DEF Drain, DrainFeed, DrainClone, DrainSend, DrainEnd,
                      WriteInput, Reaped, Hangup, vars
  <2> QED
    BY <2>3, <2>4, <2>5, <2>6, <2>7, <2>8
    DEF Next, Attach, Proxy, ProxyStolen, ProxyClosed, ProxyEof, ProxyInputClosed,
        Abstract!Next
<1> QED
  BY <1>1, <1>2, FocusInvariant, FocusTypes, PTL
  DEF Spec, ImplementsExclusiveFocus, Abstract!Spec

-----------------------------------------------------------------------------
(* The frame and the clients.                                              *)

\* An element of a sequence over S is in S.
LEMMA ElementOf ==
  ASSUME NEW S, NEW s \in Seq(S), NEW i \in 1..Len(s) PROVE s[i] \in S
  OBVIOUS

FrameInv == read = fed /\ FrameCoversClients

(* Feeding the frame before looking for a client keeps the frame ahead of  *)
(* every client, for any capacities: a later replay misses nothing that an *)
(* earlier client was sent.                                                *)
THEOREM FrameIsNeverBehind == Spec => []FrameCoversClients
<1>1. Init => FrameInv
  BY DEF Init, FrameInv, FrameCoversClients
<1>2. FrameInv /\ OutputTypeOK /\ OutputTypeOK' /\ [Next]_vars => FrameInv'
  <2> SUFFICES ASSUME FrameInv, OutputTypeOK, OutputTypeOK', [Next]_vars
               PROVE  FrameInv'
    OBVIOUS
  <2> USE DEF FrameInv, FrameCoversClients, OutputTypeOK, output
  <2>1. ASSUME NEW c \in Client, AttachCheck(c) \/ AttachSteal(c) \/ ProxyInput(c) \/ SlotDrop(c)
        PROVE  FrameInv'
    BY <2>1 DEF AttachCheck, AttachSteal, ProxyInput, SlotDrop
  <2>2. ASSUME NEW c \in Client, AttachReplay(c)
        PROVE  FrameInv'
    BY <2>2 DEF AttachReplay
  <2>3. ASSUME NEW c \in Client, Leave(c)
        PROVE  FrameInv'
    BY <2>3 DEF Leave
  <2>4. ASSUME NEW c \in Client, ProxyOutput(c)
        PROVE  FrameInv'
    <3>1. /\ out[c] \in Seq(Nat) /\ out[c] # << >>
          /\ UNCHANGED <<fed, read>>
          /\ seen' = [seen EXCEPT ![c] = Head(out[c])]
          /\ out' = [out EXCEPT ![c] = Tail(out[c])]
      BY <2>4 DEF ProxyOutput
    <3>2. Head(out[c]) = out[c][1] /\ 1 \in 1..Len(out[c])
      BY <3>1
    <3>3. \A i \in 1..Len(Tail(out[c])) :
            Tail(out[c])[i] = out[c][i+1] /\ i+1 \in 1..Len(out[c])
      BY <3>1
    <3>4. seen'[c] <= fed
      BY <3>1, <3>2
    <3>5. \A i \in 1..Len(out'[c]) : out'[c][i] <= fed
      BY <3>1, <3>3
    <3> QED
      BY <3>1, <3>4, <3>5
  <2>5. CASE DrainFeed
    <3>1. fed' = fed + 1 /\ read' = fed' /\ UNCHANGED <<out, seen>>
      BY <2>5 DEF DrainFeed
    <3>2. ASSUME NEW c \in Client, NEW i \in 1..Len(out[c]) PROVE out[c][i] <= fed'
      <4>1. out[c] \in Seq(Nat)
        OBVIOUS
      <4>2. out[c][i] \in Nat
        BY <4>1, ElementOf
      <4>3. out[c][i] <= fed /\ fed \in Nat
        OBVIOUS
      <4> QED
        BY <3>1, <4>2, <4>3
    <3> QED
      BY <3>1, <3>2
  <2>6. CASE DrainSend
    <3>1. UNCHANGED <<fed, read, seen>>
      BY <2>6 DEF DrainSend
    <3>2. ASSUME NEW c \in Client, NEW i \in 1..Len(out'[c]) PROVE out'[c][i] <= fed
      <4>1. out[c] \in Seq(Nat) /\ (out'[c] = out[c] \/ out'[c] = Append(out[c], read))
        BY <2>6 DEF DrainSend
      <4>2. CASE out'[c] = out[c]
        BY <4>2
      <4>3. CASE out'[c] = Append(out[c], read)
        <5>1. Len(out'[c]) = Len(out[c]) + 1 /\ Len(out[c]) \in Nat
          BY <4>1, <4>3
        <5>2. CASE i = Len(out[c]) + 1
          BY <4>1, <4>3, <5>1, <5>2
        <5>3. CASE i \in 1..Len(out[c])
          BY <4>1, <4>3, <5>1, <5>3
        <5> QED
          BY <5>1, <5>2, <5>3
      <4> QED
        BY <4>1, <4>2, <4>3
    <3> QED
      BY <3>1, <3>2
  <2>7. CASE DrainClone \/ DrainEnd \/ WriteInput \/ Reaped \/ Hangup \/ UNCHANGED vars
    BY <2>7 DEF DrainClone, DrainEnd, WriteInput, Reaped, Hangup, vars
  <2> QED
    BY <2>1, <2>2, <2>3, <2>4, <2>5, <2>6, <2>7
    DEF Next, Attach, Drain, Proxy, ProxyStolen, ProxyClosed, ProxyEof, ProxyInputClosed
<1> QED
  <2>1. FrameInv => FrameCoversClients
    BY DEF FrameInv
  <2> QED
    BY <1>1, <1>2, <2>1, OutputTypes, PTL DEF Spec
=============================================================================
