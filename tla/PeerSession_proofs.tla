------------------------ MODULE PeerSession_proofs ------------------------
(***************************************************************************)
(* Theorems about PeerSession, for every number of control connections,    *)
(* video sessions, monitors and buttons pressed, and their proofs.         *)
(***************************************************************************)
EXTENDS PeerSession, SequenceTheorems, TLAPS

USE PeerAssumption DEF PeerAssumption

----------------------------------------------------------------------------
(* The inductive invariant.                                                *)

\* TypeOK by the parts of the state that actions leave alone together.
SharedOK ==
    /\ configured \in ConfigCounts \cup {NoVideo}
    /\ controlStream \in Connections \cup {NoOne}
    /\ controlLock \in Threads \cup {Nobody}
    /\ settings \subseteq Buttons
    /\ videoCommands \in Videos \cup {NoOne}

ControlOK ==
    /\ link \in [Connections -> {"none", "open", "stalled", "lost", "closed"}]
    /\ handler \in [Connections ->
          {"none", "new", "attached", "greeting", "reading", "putting", "ended"}]
    /\ target \in [Connections -> [of : Videos \cup {NoOne}, cmd : Commands \cup {"none"}]]
    /\ keepalive \in [Connections -> {"none", "sleeping", "ended"}]
    /\ shown \in [Connections -> SUBSET Buttons]
    /\ unsent \in [Connections -> Seq(Threads)]
    /\ garbled \in [Connections -> BOOLEAN]

WriteOK ==
    /\ writing \in [Threads -> {"no", "lock", "send"}]
    /\ to \in [Threads -> Connections \cup {NoOne}]
    /\ message \in [Threads -> Message]

VideoOK ==
    /\ phase \in [Videos -> {"none", "running", "done"}]
    /\ monitors \in [Videos -> 0..MaxMonitors]
    /\ \A v \in Videos : phase[v] # "none" => monitors[v] > 0
    /\ queue \in [Videos -> Seq(Commands \cup {"none"})]
    /\ forwarder \in [Videos -> {"none", "read", "get", "ended"}]
    /\ source \in [Videos -> Videos \cup {NoOne}]
    /\ outQ \in [Videos -> Seq(Commands)]
    /\ changes \in [Videos -> Seq(Message)]

PartsOK == SharedOK /\ ControlOK /\ WriteOK /\ VideoOK /\ pressed \in 0..MaxPresses

\* What a thread is about to use is there.
Ready ==
    /\ \A c \in Connections : link[c] = "none" => handler[c] = "none"
    /\ \A c \in Connections : handler[c] = "putting" =>
          target[c].of \in Videos /\ target[c].cmd \in Commands
    /\ \A v \in Videos : forwarder[v] = "get" => source[v] \in Videos

\* Until a control channel has attached there is nothing to write and no
\* command to write about.
Silence ==
    controlStream = NoOne =>
        /\ \A c \in Connections : handler[c] \in {"none", "new"}
        /\ \A v \in Videos : outQ[v] = <<>> /\ changes[v] = <<>>
        /\ \A v \in Videos : \A i \in 1 .. Len(queue[v]) : queue[v][i] = "none"

\* The thread with the lock is the one that has encrypted and not sent; who
\* writes has something to write.
LockInv ==
    /\ \A t \in Threads : writing[t] = "send" <=> controlLock = t
    /\ \A t \in Threads : writing[t] # "no" => to[t] \in Connections
    /\ \A c \in Connections : writing[Handler(c)] # "no" => handler[c] = "greeting"
    /\ \A v \in Videos : writing[Video(v)] # "no" => changes[v] # <<>>
    /\ \A t \in Threads : controlLock = t =>
          \A c \in Connections : unsent[c] = IF to[t] = c THEN <<t>> ELSE <<>>
    /\ controlLock = Nobody => \A c \in Connections : unsent[c] = <<>>
    /\ \A c \in Connections : garbled[c] = FALSE

PeerInv == PartsOK /\ Ready /\ Silence /\ LockInv

----------------------------------------------------------------------------
(* Parts that a step leaves alone.                                         *)

LEMMA Names ==
  /\ Nobody \notin Threads
  /\ \A c \in Connections : Handler(c) \in Threads /\ Keepalive(c) \in Threads
  /\ \A v \in Videos : Video(v) \in Threads
  /\ \A c, d \in Connections : Handler(c) = Handler(d) => c = d
  /\ \A c, d \in Connections, v \in Videos :
        Handler(c) # Keepalive(d) /\ Handler(c) # Video(v) /\ Keepalive(c) # Video(v)
  /\ \A v, w \in Videos : Video(v) = Video(w) => v = w
  /\ NoOne \notin Connections /\ NoOne \notin Videos
  BY DEF Threads, Nobody, Handler, Keepalive, Video, NoOne, Connections, Videos

LEMMA ControlKept == ControlOK /\ UNCHANGED controlVars => ControlOK'
  BY Zenon DEF ControlOK, controlVars

LEMMA WriteKept == WriteOK /\ UNCHANGED writeVars => WriteOK'
  BY DEF WriteOK, writeVars

LEMMA VideoKept == VideoOK /\ UNCHANGED videoVars => VideoOK'
  BY DEF VideoOK, videoVars

\* A step that writes nothing.
LEMMA NothingWritten ==
  ASSUME LockInv, UNCHANGED <<controlLock, unsent, garbled>>, UNCHANGED writeVars,
         \A c \in Connections : handler[c] = "greeting" => handler'[c] = "greeting",
         \A v \in Videos : changes[v] # <<>> => changes'[v] # <<>>
  PROVE  LockInv'
  BY DEF LockInv, writeVars

----------------------------------------------------------------------------
(* The control connections.                                                *)

\* A step of a control connection that writes nothing.
LEMMA ConnectionStep ==
  ASSUME PeerInv,
         NEW c \in Connections, NEW l \in {"open", "stalled", "lost", "closed"},
         NEW h \in {"new", "reading", "putting", "ended"},
         NEW g \in [of : Videos \cup {NoOne}, cmd : Commands \cup {"none"}],
         link' = [link EXCEPT ![c] = l], handler' = [handler EXCEPT ![c] = h],
         target' = [target EXCEPT ![c] = g],
         handler[c] # "greeting",
         h # "new" => controlStream # NoOne,
         h = "putting" => g.of \in Videos /\ g.cmd \in Commands,
         UNCHANGED <<sharedVars, keepalive, shown, unsent, writeVars, videoVars>>,
         garbled' = garbled, pressed' \in 0..MaxPresses
  PROVE  PeerInv'
<1> USE DEF PeerInv, PartsOK
<1>1. ControlOK'
  <2>1. garbled' \in [Connections -> BOOLEAN]
    BY Zenon DEF ControlOK
  <2> QED
    BY <2>1 DEF ControlOK
<1>2. SharedOK' /\ WriteOK' /\ VideoOK'
  BY WriteKept, VideoKept DEF SharedOK, sharedVars
<1>3. \A d \in Connections : /\ handler'[d] = IF d = c THEN h ELSE handler[d]
                             /\ target'[d] = IF d = c THEN g ELSE target[d]
                             /\ link'[d] = IF d = c THEN l ELSE link[d]
  BY DEF ControlOK
<1>4. Ready'
  BY <1>3 DEF Ready, videoVars
<1>5. Silence'
  BY <1>3 DEF Silence, sharedVars, videoVars
<1>6. LockInv'
  BY <1>3, NothingWritten DEF sharedVars, videoVars
<1> QED
  BY <1>1, <1>2, <1>4, <1>5, <1>6

\* The headset's side of a connection, and the end of the handler's.
LEMMA LinkSteps ==
  ASSUME PeerInv, NEW c \in Connections,
         Connect(c) \/ HangUp(c) \/ Stall(c) \/ Resume(c) \/ Notice(c)
  PROVE  PeerInv'
<1> USE DEF PeerInv, PartsOK
<1>1. /\ target[c] \in [of : Videos \cup {NoOne}, cmd : Commands \cup {"none"}]
      /\ target = [target EXCEPT ![c] = target[c]]
      /\ handler = [handler EXCEPT ![c] = handler[c]]
      /\ handler[c] \in {"none", "new", "attached", "greeting", "reading", "putting", "ended"}
  BY DEF ControlOK
<1>2. garbled' = garbled
  BY Zenon DEF Connect, HangUp, Stall, Resume, Notice
<1>3. handler[c] = "putting" => target[c].of \in Videos /\ target[c].cmd \in Commands
  BY DEF Ready
<1>4. handler[c] \notin {"none", "new"} => controlStream # NoOne
  BY DEF Silence
<1>5. CASE Connect(c)
  <2>1. /\ handler[c] = "none"
        /\ link' = [link EXCEPT ![c] = "open"] /\ handler' = [handler EXCEPT ![c] = "new"]
        /\ target' = target /\ pressed' = pressed
        /\ UNCHANGED <<sharedVars, keepalive, shown, unsent, writeVars, videoVars>>
    BY <1>5 DEF Connect, Ready
  <2>2. target' = [target EXCEPT ![c] = target[c]] /\ pressed' \in 0..MaxPresses
    BY <1>1, <2>1
  <2>3. target[c] \in [of : Videos \cup {NoOne}, cmd : Commands \cup {"none"}]
    BY <1>1
  <2> QED
    BY <1>2, <2>1, <2>2, <2>3, ConnectionStep
<1>6. CASE HangUp(c) \/ Stall(c) \/ Resume(c)
  <2>1. /\ \E l \in {"open", "stalled", "lost"} : link' = [link EXCEPT ![c] = l]
        /\ link[c] # "none" /\ handler' = handler
        /\ target' = target /\ pressed' = pressed
        /\ UNCHANGED <<sharedVars, keepalive, shown, unsent, writeVars, videoVars>>
    BY <1>6 DEF HangUp, Stall, Resume
  <2>2. ControlOK'
    <3>1. garbled' \in [Connections -> BOOLEAN]
      BY <1>2, Zenon DEF ControlOK
    <3> QED
      BY <2>1, <3>1 DEF ControlOK
  <2>3. SharedOK' /\ WriteOK' /\ VideoOK' /\ pressed' \in 0..MaxPresses
    BY <2>1, WriteKept, VideoKept DEF SharedOK, sharedVars
  <2>4. Ready' /\ Silence'
    BY <2>1 DEF Ready, Silence, ControlOK, sharedVars, videoVars
  <2>5. LockInv'
    BY <1>2, <2>1, NothingWritten DEF sharedVars, videoVars
  <2> QED
    BY <2>2, <2>3, <2>4, <2>5
<1>7. CASE Notice(c)
  <2>1. /\ handler[c] = "reading"
        /\ link' = [link EXCEPT ![c] = "closed"] /\ handler' = [handler EXCEPT ![c] = "ended"]
        /\ target' = target /\ pressed' = pressed
        /\ UNCHANGED <<sharedVars, keepalive, shown, unsent, writeVars, videoVars>>
    BY <1>7 DEF Notice
  <2> QED
    BY <1>1, <1>2, <1>4, <2>1, ConnectionStep
<1> QED
  BY <1>5, <1>6, <1>7

LEMMA PressStep ==
  ASSUME PeerInv, NEW c \in Connections, NEW cmd \in Commands, Press(c, cmd)
  PROVE  PeerInv'
<1> USE DEF PeerInv, PartsOK
<1>1. garbled' = garbled
  BY Zenon DEF Press
<1>2. /\ handler[c] = "reading" /\ link[c] \in {"open", "stalled"} /\ pressed' \in 0..MaxPresses
      /\ UNCHANGED <<sharedVars, keepalive, shown, unsent, writeVars, videoVars>>
      /\ link' = link
  BY DEF Press
<1>3. link = [link EXCEPT ![c] = link[c]] /\ controlStream # NoOne
  BY <1>2 DEF ControlOK, Silence
<1>4. CASE videoCommands # NoOne
  <2> DEFINE g == [of |-> videoCommands, cmd |-> cmd]
  <2>1. target' = [target EXCEPT ![c] = g] /\ handler' = [handler EXCEPT ![c] = "putting"]
    BY <1>4 DEF Press
  <2>2. g \in [of : Videos \cup {NoOne}, cmd : Commands \cup {"none"}] /\ g.of \in Videos
    BY <1>4 DEF SharedOK
  <2> QED
    BY <1>1, <1>2, <1>3, <2>1, <2>2, ConnectionStep
<1>5. CASE videoCommands = NoOne
  <2>1. /\ target[c] \in [of : Videos \cup {NoOne}, cmd : Commands \cup {"none"}]
        /\ target' = [target EXCEPT ![c] = target[c]]
        /\ handler' = [handler EXCEPT ![c] = "reading"]
    BY <1>2, <1>5 DEF ControlOK, Press
  <2> QED
    BY <1>1, <1>2, <1>3, <2>1, ConnectionStep
<1> QED
  BY <1>4, <1>5

LEMMA PutStep == ASSUME PeerInv, NEW c \in Connections, Put(c) PROVE PeerInv'
<1> USE DEF PeerInv, PartsOK
<1>1. garbled' \in [Connections -> BOOLEAN] /\ garbled' = garbled
  BY Zenon DEF Put, ControlOK
<1> DEFINE q   == target[c].of
           cmd == target[c].cmd
<1>2. handler[c] = "putting" /\ q \in Videos /\ cmd \in Commands /\ controlStream # NoOne
  BY DEF Put, Ready, Silence
<1>3. /\ queue' = [queue EXCEPT ![q] = Append(@, cmd)]
      /\ target' = [target EXCEPT ![c] = [of |-> NoOne, cmd |-> "none"]]
      /\ handler' = [handler EXCEPT ![c] = "reading"]
      /\ UNCHANGED <<sharedVars, link, keepalive, shown, unsent, writeVars>>
      /\ UNCHANGED <<phase, monitors, forwarder, source, outQ, changes, pressed>>
  BY DEF Put
<1>4. ControlOK'
  BY <1>1, <1>3 DEF ControlOK
<1>5. VideoOK'
  BY <1>2, <1>3 DEF VideoOK
<1>6. SharedOK' /\ WriteOK' /\ pressed' \in 0..MaxPresses
  BY <1>3, WriteKept DEF SharedOK, sharedVars
<1>7. Ready' /\ Silence'
  BY <1>2, <1>3 DEF Ready, Silence, ControlOK, sharedVars
<1>8. LockInv'
  BY <1>1, <1>2, <1>3, NothingWritten DEF ControlOK, sharedVars
<1> QED
  BY <1>4, <1>5, <1>6, <1>7, <1>8

LEMMA AttachStep == ASSUME PeerInv, NEW c \in Connections, Attach(c) PROVE PeerInv'
<1> USE DEF PeerInv, PartsOK
<1>1. garbled' \in [Connections -> BOOLEAN] /\ garbled' = garbled
  BY Zenon DEF Attach, ControlOK
<1>2. /\ handler[c] = "new" /\ controlStream' = c /\ c # NoOne
      /\ handler' = [handler EXCEPT ![c] = "attached"]
      /\ UNCHANGED <<configured, controlLock, settings, videoCommands>>
      /\ UNCHANGED <<link, target, keepalive, shown, unsent, pressed, writeVars, videoVars>>
  BY Names DEF Attach
<1>3. ControlOK'
  BY <1>1, <1>2 DEF ControlOK
<1>4. SharedOK' /\ WriteOK' /\ VideoOK' /\ pressed' \in 0..MaxPresses
  BY <1>2, WriteKept, VideoKept DEF SharedOK
<1>5. Ready' /\ Silence'
  BY <1>2 DEF Ready, Silence, ControlOK, videoVars
<1>6. LockInv'
  BY <1>1, <1>2, NothingWritten DEF ControlOK, videoVars
<1> QED
  BY <1>3, <1>4, <1>5, <1>6

LEMMA SkipGreetingStep == ASSUME PeerInv, NEW c \in Connections, SkipGreeting(c) PROVE PeerInv'
<1> USE DEF PeerInv, PartsOK
<1>1. garbled' \in [Connections -> BOOLEAN] /\ garbled' = garbled
  BY Zenon DEF SkipGreeting, ControlOK
<1>2. /\ handler[c] = "attached"
      /\ handler' = [handler EXCEPT ![c] = "reading"]
      /\ keepalive' = [keepalive EXCEPT ![c] = "sleeping"]
      /\ UNCHANGED <<sharedVars, link, target, shown, unsent, pressed, writeVars, videoVars>>
  BY DEF SkipGreeting
<1>3. ControlOK'
  BY <1>1, <1>2 DEF ControlOK
<1>4. SharedOK' /\ WriteOK' /\ VideoOK' /\ pressed' \in 0..MaxPresses
  BY <1>2, WriteKept, VideoKept DEF SharedOK, sharedVars
<1>5. Ready' /\ Silence'
  BY <1>2 DEF Ready, Silence, ControlOK, sharedVars, videoVars
<1>6. LockInv'
  BY <1>1, <1>2, NothingWritten DEF ControlOK, sharedVars, videoVars
<1> QED
  BY <1>3, <1>4, <1>5, <1>6

----------------------------------------------------------------------------
(* Writing.                                                                *)

LEMMA BeginWriteStep ==
  ASSUME WriteOK, LockInv, NEW t \in Threads, NEW c \in Connections, NEW m \in Message,
         BeginWrite(t, c, m), writing[t] = "no",
         \A d \in Connections :
            t = Handler(d) \/ handler[d] = "greeting" => handler'[d] = "greeting",
         \A v \in Videos : t = Video(v) => changes[v] # <<>>,
         UNCHANGED <<controlLock, unsent, changes>>, garbled' = garbled
  PROVE  WriteOK' /\ LockInv'
<1>1. /\ writing' = [writing EXCEPT ![t] = "lock"] /\ to' = [to EXCEPT ![t] = c]
      /\ message' = [message EXCEPT ![t] = m]
  BY DEF BeginWrite
<1>2. WriteOK'
  BY <1>1 DEF WriteOK
<1>3. /\ \A u \in Threads : u # t => writing'[u] = writing[u] /\ to'[u] = to[u]
      /\ writing'[t] = "lock" /\ to'[t] = c
  BY <1>1 DEF WriteOK
<1>4. controlLock # t
  BY DEF LockInv
<1>5. /\ \A d \in Connections : Handler(d) \in Threads
      /\ \A v \in Videos : Video(v) \in Threads
  BY Names
<1>6. LockInv'
  BY <1>3, <1>4, <1>5 DEF LockInv
<1> QED
  BY <1>2, <1>6

LEMMA Messages ==
  ASSUME NEW s \in SUBSET Buttons, NEW b \in Buttons
  PROVE  Reload(s) \in Message /\ On(b) \in Message /\ Off(b) \in Message /\ Nothing \in Message
  BY DEF Reload, On, Off, Nothing, Message

LEMMA ButtonsAre == \A n : ButtonsFor(n) \subseteq Buttons
  BY DEF ButtonsFor

LEMMA GreetStep == ASSUME PeerInv, NEW c \in Connections, Greet(c) PROVE PeerInv'
<1> USE DEF PeerInv, PartsOK
<1>1. garbled' \in [Connections -> BOOLEAN] /\ garbled' = garbled
  BY Zenon DEF Greet, ControlOK
<1>2. /\ handler[c] = "attached" /\ controlStream \in Connections
      /\ handler' = [handler EXCEPT ![c] = "greeting"]
      /\ settings' = ButtonsFor(configured)
      /\ BeginWrite(Handler(c), controlStream, Reload(ButtonsFor(configured)))
      /\ UNCHANGED <<configured, controlStream, controlLock, videoCommands>>
      /\ UNCHANGED <<link, target, keepalive, shown, unsent, videoVars, pressed>>
  BY DEF Greet, Silence, SharedOK
<1>3. SharedOK' /\ VideoOK' /\ pressed' \in 0..MaxPresses
  BY <1>2, VideoKept, ButtonsAre DEF SharedOK
<1>4. ControlOK'
  BY <1>1, <1>2 DEF ControlOK
<1>5. Ready' /\ Silence'
  BY <1>2, Names DEF Ready, Silence, ControlOK, videoVars
<1>6. Reload(ButtonsFor(configured)) \in Message /\ Handler(c) \in Threads
  BY Messages, ButtonsAre, Names DEF Reload, Message
<1>7. writing[Handler(c)] = "no"
  BY <1>2, <1>6 DEF LockInv, WriteOK
<1>8. \A d \in Connections :
         Handler(c) = Handler(d) \/ handler[d] = "greeting" => handler'[d] = "greeting"
  BY <1>2, Names DEF ControlOK
<1>9. /\ \A v \in Videos : Handler(c) = Video(v) => changes[v] # <<>>
      /\ changes' = changes
  BY <1>2 DEF Handler, Video, videoVars
<1>10. WriteOK' /\ LockInv'
  BY <1>1, <1>2, <1>6, <1>7, <1>8, <1>9, BeginWriteStep
<1> QED
  BY <1>3, <1>4, <1>5, <1>10

LEMMA WakeStep == ASSUME PeerInv, NEW c \in Connections, Wake(c) PROVE PeerInv'
<1> USE DEF PeerInv, PartsOK
<1>1. garbled' \in [Connections -> BOOLEAN] /\ garbled' = garbled
  BY Zenon DEF Wake, ControlOK
<1>2. /\ writing[Keepalive(c)] = "no"
      /\ keepalive' = keepalive \/ keepalive' = [keepalive EXCEPT ![c] = "ended"]
      /\ BeginWrite(Keepalive(c), c, Nothing) \/ UNCHANGED writeVars
      /\ UNCHANGED <<sharedVars, link, handler, target, shown, unsent, videoVars, pressed>>
  BY DEF Wake
<1>3. SharedOK' /\ VideoOK' /\ pressed' \in 0..MaxPresses
  BY <1>2, VideoKept DEF SharedOK, sharedVars
<1>4. ControlOK'
  BY <1>1, <1>2 DEF ControlOK
<1>5. Ready' /\ Silence'
  BY <1>2 DEF Ready, Silence, sharedVars, videoVars
<1>6. WriteOK' /\ LockInv'
  <2>1. CASE UNCHANGED writeVars
    BY <1>1, <1>2, <2>1, WriteKept, NothingWritten DEF sharedVars, videoVars
  <2>2. CASE BeginWrite(Keepalive(c), c, Nothing)
    <3>1. Nothing \in Message /\ Keepalive(c) \in Threads
      BY Names DEF Nothing, Message
    <3>2. \A d \in Connections :
             Keepalive(c) = Handler(d) \/ handler[d] = "greeting" => handler'[d] = "greeting"
      BY <1>2 DEF Keepalive, Handler
    <3>3. /\ \A v \in Videos : Keepalive(c) = Video(v) => changes[v] # <<>>
          /\ changes' = changes
      BY <1>2 DEF Keepalive, Video, videoVars
    <3> QED
      BY <1>1, <1>2, <2>2, <3>1, <3>2, <3>3, BeginWriteStep DEF sharedVars
  <2> QED
    BY <1>2, <2>1, <2>2
<1> QED
  BY <1>3, <1>4, <1>5, <1>6

LEMMA SendSettingStep == ASSUME PeerInv, NEW v \in Videos, SendSetting(v) PROVE PeerInv'
<1> USE DEF PeerInv, PartsOK
<1>1. garbled' \in [Connections -> BOOLEAN] /\ garbled' = garbled
  BY Zenon DEF SendSetting, ControlOK, controlVars
<1> DEFINE m == Head(changes[v])
<1>2. /\ changes[v] # <<>> /\ writing[Video(v)] = "no"
      /\ settings' = Applied(m, settings)
      /\ BeginWrite(Video(v), controlStream, m)
      /\ UNCHANGED <<configured, controlStream, controlLock, videoCommands>>
      /\ UNCHANGED <<link, handler, target, keepalive, shown, unsent, videoVars, pressed>>
  BY DEF SendSetting, controlVars
<1>3. m \in Message /\ controlStream \in Connections
  BY <1>2 DEF VideoOK, Silence, SharedOK
<1>4. settings' \subseteq Buttons
  BY <1>2, <1>3 DEF SharedOK, Applied, Message
<1>5. SharedOK' /\ VideoOK' /\ pressed' \in 0..MaxPresses
  BY <1>2, <1>4, VideoKept DEF SharedOK
<1>6. ControlOK'
  BY <1>1, <1>2 DEF ControlOK
<1>7. Ready' /\ Silence'
  BY <1>2 DEF Ready, Silence, videoVars
<1>8. WriteOK' /\ LockInv'
  <2>1. Video(v) \in Threads
    BY Names
  <2>2. \A d \in Connections :
           Video(v) = Handler(d) \/ handler[d] = "greeting" => handler'[d] = "greeting"
    BY <1>2 DEF Video, Handler
  <2>3. /\ \A w \in Videos : Video(v) = Video(w) => changes[w] # <<>>
        /\ changes' = changes
    BY <1>2 DEF Video, videoVars
  <2> QED
    BY <1>1, <1>2, <1>3, <2>1, <2>2, <2>3, BeginWriteStep
<1> QED
  BY <1>5, <1>6, <1>7, <1>8

LEMMA EncryptStep == ASSUME PeerInv, NEW t \in Threads, Encrypt(t) PROVE PeerInv'
<1> USE DEF PeerInv, PartsOK
<1>1. garbled' \in [Connections -> BOOLEAN] /\ garbled' = garbled
  BY Zenon DEF Encrypt, ControlOK
<1>2. /\ writing[t] = "lock" /\ controlLock = Nobody /\ controlLock' = t
      /\ message' = [message EXCEPT ![t] = Contents(t)]
      /\ unsent' = [unsent EXCEPT ![to[t]] = Append(@, t)]
      /\ writing' = [writing EXCEPT ![t] = "send"]
      /\ UNCHANGED <<configured, controlStream, settings, videoCommands>>
      /\ UNCHANGED <<link, handler, target, keepalive, shown, to, videoVars, pressed>>
  BY DEF Encrypt, Unlocked
<1>3. to[t] \in Connections /\ \A c \in Connections : unsent[c] = <<>>
  BY <1>2 DEF LockInv
<1>4. \A c \in Connections : unsent'[c] = IF to[t] = c THEN <<t>> ELSE <<>>
  <2>1. Append(<<>>, t) = <<t>>
    OBVIOUS
  <2> QED
    BY <1>2, <1>3, <2>1, Zenon DEF ControlOK
<1>5. Contents(t) \in Message
  <2>1. Reload(settings) \in Message
    BY DEF Reload, Message, SharedOK
  <2>2. message[t] \in Message
    BY DEF WriteOK
  <2> QED
    BY <2>1, <2>2 DEF Contents
<1>6. SharedOK' /\ VideoOK' /\ pressed' \in 0..MaxPresses
  BY <1>2, VideoKept DEF SharedOK
<1>7. unsent' \in [Connections -> Seq(Threads)]
  BY <1>2, <1>3 DEF ControlOK
<1>8. ControlOK'
  BY <1>1, <1>2, <1>7 DEF ControlOK
<1>9. WriteOK'
  BY <1>2, <1>5 DEF WriteOK
<1>10. Ready' /\ Silence'
  BY <1>2 DEF Ready, Silence, videoVars
<1>11. \A u \in Threads : writing'[u] = IF u = t THEN "send" ELSE writing[u]
  BY <1>2 DEF WriteOK
<1>12. LockInv'
  BY <1>1, <1>2, <1>3, <1>4, <1>11, Names DEF LockInv, videoVars
<1> QED
  BY <1>6, <1>8, <1>9, <1>10, <1>12

LEMMA SendFrameStep == ASSUME PeerInv, NEW t \in Threads, SendFrame(t) PROVE PeerInv'
<1> USE DEF PeerInv, PartsOK
<1> DEFINE c == to[t]
<1>1. /\ writing[t] = "send" /\ controlLock' = Nobody
      /\ writing' = [writing EXCEPT ![t] = "no"] /\ to' = [to EXCEPT ![t] = NoOne]
      /\ message' = [message EXCEPT ![t] = Nothing]
      /\ unsent' = [unsent EXCEPT ![c] = Tail(@)]
      /\ UNCHANGED <<configured, controlStream, settings, videoCommands, target>>
      /\ UNCHANGED <<phase, monitors, queue, forwarder, source, outQ, pressed>>
  BY DEF SendFrame
<1>2. garbled' = [garbled EXCEPT ![c] = @ \/ Head(unsent[c]) # t]
  BY Zenon DEF SendFrame
<1>3. /\ c \in Connections /\ controlLock = t
      /\ \A d \in Connections : unsent[d] = IF c = d THEN <<t>> ELSE <<>>
  BY <1>1 DEF LockInv
<1>4. \A d \in Connections : unsent'[d] = <<>>
  <2>1. Tail(<<t>>) = <<>>
    OBVIOUS
  <2> QED
    BY <1>1, <1>3, <2>1 DEF ControlOK
<1>5. garbled' = [garbled EXCEPT ![c] = FALSE]
  <2>1. Head(unsent[c]) = t
    BY <1>3
  <2>2. garbled[c] = FALSE
    BY <1>3 DEF LockInv
  <2> QED
    BY <1>2, <2>1, <2>2
<1>6. garbled' \in [Connections -> BOOLEAN] /\ \A d \in Connections : garbled'[d] = FALSE
  BY <1>3, <1>5 DEF ControlOK, LockInv
<1>7. /\ t[1] = "handler" => t[2] \in Connections /\ t = Handler(t[2])
      /\ t[1] = "keepalive" => t[2] \in Connections /\ t = Keepalive(t[2])
      /\ t[1] = "video" => t[2] \in Videos /\ t = Video(t[2])
      /\ t[1] \in {"handler", "keepalive", "video"}
  BY DEF Threads, Handler, Keepalive, Video
<1>8. shown' \in [Connections -> SUBSET Buttons]
  <2>1. Applied(message[t], shown[c]) \in SUBSET Buttons
    BY <1>3 DEF Applied, ControlOK, WriteOK, Message
  <2>2. shown' = shown \/ shown' = [shown EXCEPT ![c] = Applied(message[t], @)]
    BY DEF SendFrame, Accepted
  <2> QED
    BY <1>3, <2>1, <2>2 DEF ControlOK
<1>9. /\ t[1] = "handler" =>
            /\ \/ handler' = [handler EXCEPT ![t[2]] = "reading"]
               \/ handler' = [handler EXCEPT ![t[2]] = "ended"]
            /\ keepalive' = keepalive \/ keepalive' = [keepalive EXCEPT ![t[2]] = "sleeping"]
            /\ link' = link \/ link' = [link EXCEPT ![t[2]] = "closed"]
            /\ changes' = changes
      /\ t[1] = "keepalive" =>
            /\ keepalive' = keepalive \/ keepalive' = [keepalive EXCEPT ![t[2]] = "ended"]
            /\ UNCHANGED <<handler, link, changes>>
      /\ t[1] = "video" =>
            /\ changes' = [changes EXCEPT ![t[2]] = Tail(@)]
            /\ UNCHANGED <<handler, link, keepalive>>
  BY DEF SendFrame, GreetingSent, GreetingFailed, KeepaliveFailed, ChangeSent
<1>10. t[1] = "handler" => handler[t[2]] = "greeting"
  BY <1>1, <1>7 DEF LockInv
<1>11. t[1] = "video" => changes[t[2]] # <<>>
  BY <1>1, <1>7 DEF LockInv
<1>12. ControlOK'
  <2>1. unsent' \in [Connections -> Seq(Threads)]
    <3>1. unsent' = [d \in Connections |-> <<>>]
      BY <1>1, <1>3, <1>4, Zenon DEF ControlOK
    <3>2. <<>> \in Seq(Threads)
      OBVIOUS
    <3> QED
      BY <3>1, <3>2
  <2>2. /\ link' \in [Connections -> {"none", "open", "stalled", "lost", "closed"}]
        /\ keepalive' \in [Connections -> {"none", "sleeping", "ended"}]
    BY <1>7, <1>9 DEF ControlOK
  <2>3. handler' \in [Connections ->
          {"none", "new", "attached", "greeting", "reading", "putting", "ended"}]
    BY <1>7, <1>9 DEF ControlOK
  <2> QED
    BY <1>1, <1>6, <1>8, <2>1, <2>2, <2>3 DEF ControlOK
<1>13. VideoOK'
  <2>1. changes' \in [Videos -> Seq(Message)]
    <3>1. t[1] = "video" => Tail(changes[t[2]]) \in Seq(Message)
      BY <1>7, <1>11 DEF VideoOK
    <3> QED
      BY <1>7, <1>9, <3>1 DEF VideoOK
  <2> QED
    BY <1>1, <2>1 DEF VideoOK
<1>14. SharedOK' /\ WriteOK' /\ pressed' \in 0..MaxPresses
  BY <1>1 DEF SharedOK, WriteOK, Nothing, Message
<1>15. Ready'
  <2>1. CASE t[1] = "handler"
    <3>1. \A d \in Connections :
             \/ handler'[d] = handler[d]
             \/ d = t[2] /\ handler'[d] \in {"reading", "ended"}
      <4>1. CASE handler' = [handler EXCEPT ![t[2]] = "reading"]
        BY <1>7, <2>1, <4>1 DEF ControlOK
      <4>2. CASE handler' = [handler EXCEPT ![t[2]] = "ended"]
        BY <1>7, <2>1, <4>2 DEF ControlOK
      <4> QED
        BY <1>9, <2>1, <4>1, <4>2
    <3>2. \A d \in Connections : link'[d] = link[d] \/ link'[d] = "closed"
      BY <1>7, <1>9, <2>1 DEF ControlOK
    <3>3. link[t[2]] # "none"
      BY <1>7, <1>10, <2>1 DEF Ready
    <3> QED
      BY <1>1, <1>7, <2>1, <3>1, <3>2, <3>3 DEF Ready
  <2>2. CASE t[1] # "handler"
    <3>1. UNCHANGED <<handler, link>>
      BY <1>7, <1>9, <2>2
    <3> QED
      BY <1>1, <3>1 DEF Ready
  <2> QED
    BY <2>1, <2>2
<1>16. Silence'
  BY <1>1, <1>7, <1>9, <1>10, <1>11 DEF Silence, ControlOK, VideoOK
<1>17. LockInv'
  <2>1. \A u \in Threads : writing'[u] = IF u = t THEN "no" ELSE writing[u]
    BY <1>1 DEF WriteOK
  <2>2. \A u \in Threads : u # t => to'[u] = to[u] /\ writing[u] # "send"
    BY <1>1, <1>3 DEF WriteOK, LockInv
  <2>3. \A d \in Connections : writing'[Handler(d)] # "no" => handler'[d] = "greeting"
    <3> SUFFICES ASSUME NEW d \in Connections, writing'[Handler(d)] # "no"
                 PROVE  handler'[d] = "greeting"
      OBVIOUS
    <3>1. Handler(d) # t /\ handler[d] = "greeting"
      BY <2>1, Names DEF LockInv
    <3>2. t[1] = "handler" => t[2] # d
      BY <1>7, <3>1
    <3>3. handler'[d] = handler[d]
      <4>1. CASE t[1] = "handler"
        BY <1>7, <1>9, <3>2, <4>1 DEF ControlOK
      <4>2. CASE t[1] # "handler"
        BY <1>7, <1>9, <4>2
      <4> QED
        BY <4>1, <4>2
    <3> QED
      BY <3>1, <3>3
  <2>4. \A v \in Videos : writing'[Video(v)] # "no" => changes'[v] # <<>>
    <3> SUFFICES ASSUME NEW v \in Videos, writing'[Video(v)] # "no"
                 PROVE  changes'[v] # <<>>
      OBVIOUS
    <3>1. Video(v) # t /\ changes[v] # <<>>
      BY <2>1, Names DEF LockInv
    <3>2. t[1] = "video" => t[2] # v
      BY <1>7, <3>1
    <3>3. changes'[v] = changes[v]
      BY <1>7, <1>9, <3>2 DEF VideoOK
    <3> QED
      BY <3>1, <3>3
  <2> QED
    BY <1>1, <1>4, <1>6, <2>1, <2>2, <2>3, <2>4, Names DEF LockInv
<1> QED
  BY <1>12, <1>13, <1>14, <1>15, <1>16, <1>17
----------------------------------------------------------------------------
(* The video sessions.                                                     *)

LEMMA StartVideoStep == ASSUME PeerInv, NEW v \in Videos, StartVideo(v) PROVE PeerInv'
<1> USE DEF PeerInv, PartsOK
<1>1. /\ configured # NoVideo /\ phase' = [phase EXCEPT ![v] = "running"]
      /\ monitors' = [monitors EXCEPT ![v] = configured]
      /\ videoCommands' = v /\ forwarder' = [forwarder EXCEPT ![v] = "read"]
      /\ UNCHANGED <<configured, controlStream, controlLock, settings, writeVars>>
      /\ UNCHANGED <<link, handler, target, keepalive, shown, unsent>>
      /\ UNCHANGED <<queue, source, outQ, changes, pressed>>
  BY DEF StartVideo, controlVars
<1>2. garbled' \in [Connections -> BOOLEAN] /\ garbled' = garbled /\ UNCHANGED controlVars
  BY Zenon DEF StartVideo, ControlOK, controlVars
<1>3. SharedOK' /\ ControlOK' /\ WriteOK' /\ pressed' \in 0..MaxPresses
  BY <1>1, <1>2, ControlKept, WriteKept DEF SharedOK
<1>4. VideoOK'
  <2>1. configured \in 0..MaxMonitors /\ configured > 0
    BY <1>1 DEF SharedOK, NoVideo
  <2> QED
    BY <1>1, <2>1 DEF VideoOK
<1>5. Ready' /\ Silence'
  BY <1>1 DEF Ready, Silence, VideoOK
<1>6. LockInv'
  BY <1>1, <1>2, NothingWritten
<1> QED
  BY <1>3, <1>4, <1>5, <1>6

LEMMA ReadQueueStep == ASSUME PeerInv, NEW v \in Videos, ReadQueue(v) PROVE PeerInv'
<1> USE DEF PeerInv, PartsOK
<1>1. /\ source' = [source EXCEPT ![v] = videoCommands]
      /\ forwarder' = [forwarder EXCEPT ![v] = IF videoCommands = NoOne THEN "ended" ELSE "get"]
      /\ UNCHANGED <<sharedVars, writeVars, phase, monitors, queue, outQ, changes, pressed>>
      /\ handler' = handler /\ link' = link /\ target' = target /\ unsent' = unsent
  BY DEF ReadQueue, controlVars
<1>2. garbled' = garbled /\ UNCHANGED controlVars
  BY Zenon DEF ReadQueue, controlVars
<1>3. SharedOK' /\ ControlOK' /\ WriteOK' /\ pressed' \in 0..MaxPresses
  BY <1>1, <1>2, ControlKept, WriteKept DEF SharedOK, sharedVars
<1>4. VideoOK'
  BY <1>1 DEF VideoOK, SharedOK
<1>5. Ready' /\ Silence'
  BY <1>1 DEF Ready, Silence, VideoOK, SharedOK, sharedVars
<1>6. LockInv'
  BY <1>1, <1>2, NothingWritten DEF sharedVars
<1> QED
  BY <1>3, <1>4, <1>5, <1>6

LEMMA ForwardStep == ASSUME PeerInv, NEW v \in Videos, Forward(v) PROVE PeerInv'
<1> USE DEF PeerInv, PartsOK
<1> DEFINE w == source[v]
           q == queue[w]
<1>1. /\ forwarder[v] = "get" /\ q # <<>>
      /\ queue' = [queue EXCEPT ![w] = Tail(@)] /\ source' = [source EXCEPT ![v] = NoOne]
      /\ \/ outQ' = outQ /\ forwarder' = [forwarder EXCEPT ![v] = "ended"]
         \/ /\ Head(q) # "none" /\ outQ' = [outQ EXCEPT ![v] = Append(@, Head(q))]
            /\ forwarder' = [forwarder EXCEPT ![v] = "read"]
      /\ UNCHANGED <<sharedVars, writeVars, phase, monitors, changes, pressed>>
      /\ handler' = handler /\ link' = link /\ target' = target /\ unsent' = unsent
  BY DEF Forward, controlVars
<1>2. garbled' = garbled /\ UNCHANGED controlVars
  BY Zenon DEF Forward, controlVars
<1>3. SharedOK' /\ ControlOK' /\ WriteOK' /\ pressed' \in 0..MaxPresses
  BY <1>1, <1>2, ControlKept, WriteKept DEF SharedOK, sharedVars
<1>4. w \in Videos /\ q \in Seq(Commands \cup {"none"})
  BY <1>1 DEF Ready, VideoOK
<1>5. /\ Head(q) = q[1] /\ Len(q) >= 1 /\ q[1] \in Commands \cup {"none"}
      /\ Tail(q) \in Seq(Commands \cup {"none"}) /\ Len(Tail(q)) = Len(q) - 1
      /\ \A i \in 1 .. Len(Tail(q)) : Tail(q)[i] = q[i + 1]
  BY <1>1, <1>4
<1>6. VideoOK'
  <2>1. queue' \in [Videos -> Seq(Commands \cup {"none"})]
    BY <1>1, <1>5 DEF VideoOK
  <2>2. outQ' \in [Videos -> Seq(Commands)]
    <3>1. CASE outQ' = outQ
      BY <3>1 DEF VideoOK
    <3>2. CASE Head(q) # "none" /\ outQ' = [outQ EXCEPT ![v] = Append(@, Head(q))]
      <4>1. Head(q) \in Commands
        BY <1>5, <3>2
      <4>2. Append(outQ[v], Head(q)) \in Seq(Commands)
        BY <4>1 DEF VideoOK
      <4> QED
        BY <3>2, <4>2 DEF VideoOK
    <3> QED
      BY <1>1, <3>1, <3>2
  <2>3. /\ source' \in [Videos -> Videos \cup {NoOne}]
        /\ forwarder' \in [Videos -> {"none", "read", "get", "ended"}]
    BY <1>1 DEF VideoOK
  <2> QED
    BY <1>1, <2>1, <2>2, <2>3 DEF VideoOK
<1>7. Ready'
  BY <1>1 DEF Ready, VideoOK
<1>8. Silence'
  <2> SUFFICES ASSUME controlStream = NoOne
               PROVE  /\ \A c \in Connections : handler[c] \in {"none", "new"}
                      /\ \A u \in Videos : outQ'[u] = <<>> /\ changes'[u] = <<>>
                      /\ \A u \in Videos : \A i \in 1 .. Len(queue'[u]) : queue'[u][i] = "none"
    BY <1>1 DEF Silence, sharedVars
  <2>1. \A i \in 1 .. Len(q) : q[i] = "none"
    BY <1>4 DEF Silence
  <2>2. outQ' = outQ
    BY <1>1, <1>5, <2>1
  <2>3. \A i \in 1 .. Len(Tail(q)) : Tail(q)[i] = "none"
    BY <1>4, <1>5, <2>1
  <2>4. \A u \in Videos : queue'[u] = IF u = w THEN Tail(q) ELSE queue[u]
    BY <1>1 DEF VideoOK
  <2>5. \A u \in Videos : \A i \in 1 .. Len(queue'[u]) : queue'[u][i] = "none"
    <3> SUFFICES ASSUME NEW u \in Videos
                 PROVE  \A i \in 1 .. Len(queue'[u]) : queue'[u][i] = "none"
      OBVIOUS
    <3>1. CASE u = w
      <4>1. queue'[u] = Tail(q)
        BY <2>4, <3>1
      <4> QED
        BY <2>3, <4>1
    <3>2. CASE u # w
      <4>1. queue'[u] = queue[u]
        BY <2>4, <3>2
      <4> QED
        BY <4>1 DEF Silence
    <3> QED
      BY <3>1, <3>2
  <2> QED
    BY <1>1, <2>2, <2>5 DEF Silence
<1>9. LockInv'
  BY <1>1, <1>2, NothingWritten DEF sharedVars
<1> QED
  BY <1>3, <1>6, <1>7, <1>8, <1>9

LEMMA ChangesSent ==
  ASSUME NEW n \in Nat
  PROVE  AddChanges(n) \in Seq(Message) /\ RemoveChanges(n) \in Seq(Message)
<1>1. \A b \in Buttons : On(b) \in Message /\ Off(b) \in Message
  BY DEF On, Off, Message
<1>2. \A m \in Message : <<m>> \in Seq(Message)
  OBVIOUS
<1>3. <<>> \in Seq(Message)
  OBVIOUS
<1>4. \A s, u \in Seq(Message) : s \o u \in Seq(Message)
  OBVIOUS
<1>5. "CanAddMonitor" \in Buttons /\ "CanRemoveMonitor" \in Buttons
  BY DEF Buttons
<1> QED
  BY <1>1, <1>2, <1>3, <1>4, <1>5, Zenon DEF AddChanges, RemoveChanges

LEMMA HandleStep == ASSUME PeerInv, NEW v \in Videos, Handle(v) PROVE PeerInv'
<1> USE DEF PeerInv, PartsOK
<1> DEFINE n == monitors[v]
<1>1. /\ changes[v] = <<>> /\ outQ[v] # <<>> /\ phase[v] = "running"
      /\ outQ' = [outQ EXCEPT ![v] = Tail(@)]
      /\ UNCHANGED <<sharedVars, writeVars, phase, queue, forwarder, source, pressed>>
      /\ handler' = handler /\ link' = link /\ target' = target /\ unsent' = unsent
  BY DEF Handle, controlVars
<1>2. garbled' = garbled /\ UNCHANGED controlVars
  BY Zenon DEF Handle, controlVars
<1>3. \/ n < MaxMonitors /\ Monitors(v, n + 1, AddChanges(n + 1))
      \/ n > 1 /\ Monitors(v, n - 1, RemoveChanges(n - 1))
      \/ UNCHANGED <<monitors, changes>>
  BY DEF Handle, Removable
<1>4. n \in 0..MaxMonitors
  BY DEF VideoOK
<1>5. \/ \E k \in 1..MaxMonitors, s \in Seq(Message) : Monitors(v, k, s)
      \/ UNCHANGED <<monitors, changes>>
  <2>1. CASE n < MaxMonitors /\ Monitors(v, n + 1, AddChanges(n + 1))
    <3>1. n + 1 \in 1..MaxMonitors /\ n + 1 \in Nat
      BY <1>4, <2>1
    <3>2. AddChanges(n + 1) \in Seq(Message)
      BY <3>1, ChangesSent, Zenon
    <3> QED
      BY <2>1, <3>1, <3>2, Zenon
  <2>2. CASE n > 1 /\ Monitors(v, n - 1, RemoveChanges(n - 1))
    <3>1. n - 1 \in 1..MaxMonitors /\ n - 1 \in Nat
      BY <1>4, <2>2
    <3>2. RemoveChanges(n - 1) \in Seq(Message)
      BY <3>1, ChangesSent, Zenon
    <3> QED
      BY <2>2, <3>1, <3>2, Zenon
  <2> QED
    BY <1>3, <2>1, <2>2
<1>6. SharedOK' /\ ControlOK' /\ WriteOK' /\ pressed' \in 0..MaxPresses
  BY <1>1, <1>2, ControlKept, WriteKept DEF SharedOK, sharedVars
<1>7. VideoOK'
  <2>1. outQ' \in [Videos -> Seq(Commands)]
    BY <1>1 DEF VideoOK
  <2>2. /\ changes' \in [Videos -> Seq(Message)]
        /\ monitors' \in [Videos -> 0..MaxMonitors]
        /\ \A w \in Videos : phase[w] # "none" => monitors'[w] > 0
    <3>1. CASE UNCHANGED <<monitors, changes>>
      BY <3>1 DEF VideoOK
    <3>2. ASSUME NEW k \in 1..MaxMonitors, NEW s \in Seq(Message), Monitors(v, k, s)
          PROVE  /\ changes' \in [Videos -> Seq(Message)]
                 /\ monitors' \in [Videos -> 0..MaxMonitors]
                 /\ \A w \in Videos : phase[w] # "none" => monitors'[w] > 0
      <4>1. /\ monitors' = [monitors EXCEPT ![v] = k] /\ changes' = [changes EXCEPT ![v] = s]
            /\ k \in 0..MaxMonitors /\ k > 0
        BY <3>2 DEF Monitors
      <4>2. changes' \in [Videos -> Seq(Message)]
        BY <4>1 DEF VideoOK
      <4>3. /\ monitors' \in [Videos -> 0..MaxMonitors]
            /\ \A w \in Videos : phase[w] # "none" => monitors'[w] > 0
        BY <4>1 DEF VideoOK
      <4> QED
        BY <4>2, <4>3
    <3> QED
      BY <1>5, <3>1, <3>2
  <2> QED
    BY <1>1, <2>1, <2>2 DEF VideoOK
<1>8. Ready' /\ Silence'
  BY <1>1 DEF Ready, Silence, VideoOK, sharedVars
<1>9. \A w \in Videos : changes[w] # <<>> => changes'[w] # <<>>
  BY <1>1, <1>5 DEF Monitors, VideoOK
<1>10. LockInv'
  BY <1>1, <1>2, <1>9, NothingWritten DEF sharedVars
<1> QED
  BY <1>6, <1>7, <1>8, <1>10

LEMMA EndVideoStep == ASSUME PeerInv, NEW v \in Videos, EndVideo(v) PROVE PeerInv'
<1> USE DEF PeerInv, PartsOK
<1>1. /\ phase[v] = "running" /\ phase' = [phase EXCEPT ![v] = "done"]
      /\ videoCommands' = NoOne
      /\ queue' = [u \in Videos |-> IF u = videoCommands THEN Append(queue[u], "none") ELSE queue[u]]
      /\ UNCHANGED <<configured, controlStream, controlLock, settings, writeVars>>
      /\ UNCHANGED <<monitors, forwarder, source, outQ, changes, pressed>>
      /\ handler' = handler /\ link' = link /\ target' = target /\ unsent' = unsent
  BY DEF EndVideo, controlVars
<1>2. garbled' = garbled /\ UNCHANGED controlVars
  BY Zenon DEF EndVideo, controlVars
<1>3. SharedOK' /\ ControlOK' /\ WriteOK' /\ pressed' \in 0..MaxPresses
  BY <1>1, <1>2, ControlKept, WriteKept DEF SharedOK
<1>4. \A u \in Videos :
         /\ queue'[u] \in Seq(Commands \cup {"none"})
         /\ \A i \in 1 .. Len(queue'[u]) :
               \/ queue'[u][i] = "none"
               \/ i \in 1 .. Len(queue[u]) /\ queue'[u][i] = queue[u][i]
  BY <1>1 DEF VideoOK
<1>5. VideoOK'
  BY <1>1, <1>4 DEF VideoOK
<1>6. Ready'
  BY <1>1 DEF Ready
<1>7. Silence'
  BY <1>1, <1>4 DEF Silence
<1>8. LockInv'
  BY <1>1, <1>2, NothingWritten
<1> QED
  BY <1>3, <1>5, <1>6, <1>7, <1>8

----------------------------------------------------------------------------
(* The invariant of the specification.                                     *)

LEMMA InitInv == Init => PeerInv
<1> SUFFICES ASSUME Init PROVE PeerInv
  OBVIOUS
<1>1. /\ garbled = [c \in Connections |-> FALSE] /\ FALSE \in BOOLEAN
  BY Zenon DEF Init
<1>2. garbled \in [Connections -> BOOLEAN] /\ \A c \in Connections : garbled[c] = FALSE
  BY <1>1
<1>3. ControlOK
  BY <1>2 DEF Init, ControlOK
<1>4. SharedOK /\ WriteOK /\ VideoOK /\ pressed \in 0..MaxPresses
  BY DEF Init, SharedOK, WriteOK, VideoOK, Nothing, Message
<1>5. Ready /\ Silence
  BY DEF Init, Ready, Silence
<1>6. LockInv
  BY <1>2, Names DEF Init, LockInv
<1> QED
  BY <1>3, <1>4, <1>5, <1>6 DEF PeerInv, PartsOK

LEMMA StutterInv == PeerInv /\ UNCHANGED vars => PeerInv'
<1> SUFFICES ASSUME PeerInv, UNCHANGED vars PROVE PeerInv'
  OBVIOUS
<1> USE DEF PeerInv, PartsOK
<1>1. UNCHANGED <<sharedVars, controlVars, writeVars, videoVars, pressed>>
  BY DEF vars
<1>2. garbled' = garbled
  BY <1>1, Zenon DEF controlVars
<1>3. handler' = handler /\ link' = link /\ target' = target /\ unsent' = unsent
  BY <1>1 DEF controlVars
<1>4. SharedOK' /\ ControlOK' /\ WriteOK' /\ VideoOK' /\ pressed' \in 0..MaxPresses
  BY <1>1, ControlKept, WriteKept, VideoKept DEF SharedOK, sharedVars
<1>5. Ready' /\ Silence'
  BY <1>1, <1>3 DEF Ready, Silence, sharedVars, videoVars
<1>6. LockInv'
  BY <1>1, <1>2, <1>3, NothingWritten DEF sharedVars, videoVars
<1> QED
  BY <1>4, <1>5, <1>6

LEMMA NextInv == PeerInv /\ [Next]_vars => PeerInv'
<1> SUFFICES ASSUME PeerInv, [Next]_vars PROVE PeerInv'
  OBVIOUS
<1>1. ASSUME NEW t \in Threads, WriteStep(t) PROVE PeerInv'
  BY <1>1, EncryptStep, SendFrameStep DEF WriteStep
<1>2. ASSUME NEW c \in Connections, Connect(c) \/ HangUp(c) \/ Stall(c) \/ Resume(c)
      PROVE  PeerInv'
  BY <1>2, LinkSteps
<1>3. ASSUME NEW c \in Connections, HandlerStep(c) PROVE PeerInv'
  <2>1. Handler(c) \in Threads
    BY Names
  <2> QED
    BY <1>1, <1>3, <2>1, AttachStep, GreetStep, SkipGreetingStep, PutStep, LinkSteps DEF HandlerStep
<1>4. ASSUME NEW c \in Connections, KeepaliveStep(c) PROVE PeerInv'
  <2>1. Keepalive(c) \in Threads
    BY Names
  <2> QED
    BY <1>1, <1>4, <2>1, WakeStep DEF KeepaliveStep
<1>5. ASSUME NEW v \in Videos, VideoStep(v) PROVE PeerInv'
  <2>1. Video(v) \in Threads
    BY Names
  <2> QED
    BY <1>1, <1>5, <2>1, HandleStep, SendSettingStep DEF VideoStep
<1>6. ASSUME NEW v \in Videos, ForwarderStep(v) PROVE PeerInv'
  BY <1>6, ReadQueueStep, ForwardStep DEF ForwarderStep
<1>7. CASE UNCHANGED vars
  BY <1>7, StutterInv
<1>8. CASE Next
  BY <1>2, <1>3, <1>4, <1>5, <1>6, <1>8, PressStep, StartVideoStep, EndVideoStep DEF Next
<1> QED
  BY <1>7, <1>8

LEMMA Invariant == Spec => []PeerInv
  BY InitInv, NextInv, PTL DEF Spec

----------------------------------------------------------------------------
(* The settings and the monitors.                                          *)

\* A control connection of which the settings have been set.
Greeted == {"greeting", "reading", "putting", "ended"}
Unheard == \A c \in Connections : handler[c] \notin Greeted

\* No command is under way.
NoCommands == \A v \in Videos : /\ outQ[v] = <<>>
                                /\ \A i \in 1 .. Len(queue[v]) : queue[v][i] = "none"

\* The settings when the changes that are still to be sent have been made.
After(ch, s) ==
    IF Len(ch) = 0 THEN s
    ELSE IF Len(ch) = 1 THEN Applied(ch[1], s) ELSE Applied(ch[2], Applied(ch[1], s))

\* Before the first greeting no command can have come, so that every session
\* has the monitors it was configured with.
Fresh == Unheard =>
    /\ NoCommands
    /\ \A v \in Videos : changes[v] = <<>> /\ (phase[v] # "none" => monitors[v] = configured)

FewChanges ==
    /\ \A v \in Videos : Len(changes[v]) <= 2 /\ (phase[v] # "running" => changes[v] = <<>>)
    /\ configured = NoVideo => \A v \in Videos : phase[v] = "none"

\* From then on the settings become those of the monitors once the changes are
\* made; the first of them has been made already if it is being written.
Followed == ConnectedOnce /\ ~Unheard =>
    /\ \A v \in Videos : phase[v] # "none" =>
          /\ After(changes[v], settings) = ButtonsFor(monitors[v])
          /\ writing[Video(v)] # "no" => Applied(changes[v][1], settings) = settings
    /\ (\A v \in Videos : phase[v] = "none") =>
          configured = NoVideo \/ settings = ButtonsFor(configured)

SettingsInv == Fresh /\ FewChanges /\ Followed

LEMMA AppliedTwice == \A m, s : Applied(m, Applied(m, s)) = Applied(m, s)
  BY DEF Applied

LEMMA AfterApplied ==
  ASSUME NEW ch \in Seq(Message), NEW s, ch # <<>>
  PROVE  After(ch, Applied(ch[1], s)) = After(ch, s)
<1>1. Len(ch) # 0
  OBVIOUS
<1> QED
  BY <1>1, AppliedTwice, Zenon DEF After

LEMMA AfterSent ==
  ASSUME NEW ch \in Seq(Message), NEW s, ch # <<>>, Len(ch) <= 2, Applied(ch[1], s) = s
  PROVE  After(Tail(ch), s) = After(ch, s) /\ Len(Tail(ch)) <= 2
<1>1. CASE Len(ch) = 1
  <2>1. Len(Tail(ch)) = 0
    BY <1>1
  <2> QED
    BY <1>1, <2>1 DEF After
<1>2. CASE Len(ch) = 2
  <2>1. Len(Tail(ch)) = 1 /\ Tail(ch)[1] = ch[2]
    BY <1>2
  <2>2. After(ch, s) = Applied(ch[2], s)
    BY <1>2 DEF After
  <2>3. After(Tail(ch), s) = Applied(Tail(ch)[1], s)
    BY <2>1 DEF After
  <2>4. Len(Tail(ch)) <= 2
    BY <2>1
  <2> QED
    BY <2>1, <2>2, <2>3, <2>4, Zenon
<1>3. Len(ch) = 1 \/ Len(ch) = 2
  <2>1. Len(ch) \in Nat /\ Len(ch) # 0
    OBVIOUS
  <2>2. \A l \in Nat : l # 0 /\ l <= 2 => l = 1 \/ l = 2
    OBVIOUS
  <2> QED
    BY <2>1, <2>2, Zenon
<1> QED
  BY <1>1, <1>2, <1>3

LEMMA TwoChanges ==
  ASSUME NEW a \in Message, NEW b \in Message, NEW s
  PROVE  /\ After(<<a>>, s) = Applied(a, s) /\ Len(<<a>>) <= 2
         /\ After(<<a>> \o <<>>, s) = Applied(a, s) /\ Len(<<a>> \o <<>>) <= 2
         /\ After(<<a>> \o <<b>>, s) = Applied(b, Applied(a, s)) /\ Len(<<a>> \o <<b>>) <= 2
<1>1. <<a>> \in Seq(Message) /\ Len(<<a>>) = 1 /\ <<a>>[1] = a
  OBVIOUS
<1>2. <<b>> \in Seq(Message) /\ Len(<<b>>) = 1 /\ <<b>>[1] = b
  OBVIOUS
<1>3. <<a>> \o <<>> = <<a>>
  BY <1>1, ConcatEmptySeq
<1>4. After(<<a>>, s) = Applied(a, s) /\ Len(<<a>>) <= 2
  BY <1>1 DEF After
<1>5. /\ Len(<<a>> \o <<b>>) = 2 /\ (<<a>> \o <<b>>)[1] = a /\ (<<a>> \o <<b>>)[2] = b
  <2> PICK x, y : x = <<a>> /\ y = <<b>>
    OBVIOUS
  <2>1. /\ x \in Seq(Message) /\ Len(x) = 1 /\ x[1] = a
        /\ y \in Seq(Message) /\ Len(y) = 1 /\ y[1] = b
    BY <1>1, <1>2
  <2>2. /\ Len(x \o y) = Len(x) + Len(y)
        /\ \A i \in 1 .. Len(x) + Len(y) : (x \o y)[i] = IF i <= Len(x) THEN x[i] ELSE y[i - Len(x)]
    BY <2>1, ConcatProperties
  <2>3. Len(x \o y) = 2 /\ (x \o y)[1] = a /\ (x \o y)[2] = b
    BY <2>1, <2>2
  <2> QED
    BY <2>3
<1> HIDE DEF After
<1>6. After(<<a>> \o <<b>>, s) = Applied(b, Applied(a, s))
  BY <1>5 DEF After
<1>7. Len(<<a>> \o <<b>>) <= 2
  BY <1>5
<1> QED
  BY <1>3, <1>4, <1>6, <1>7, Zenon

\* The settings that follow an added and a removed monitor are those of the
\* monitors there are then.
LEMMA AddedButtons ==
  ASSUME NEW n \in 1 .. MaxMonitors, n < MaxMonitors
  PROVE  /\ After(AddChanges(n + 1), ButtonsFor(n)) = ButtonsFor(n + 1)
         /\ Len(AddChanges(n + 1)) <= 2
<1> DEFINE a == On("CanRemoveMonitor")
           b == Off("CanAddMonitor")
           s == ButtonsFor(n)
<1>1. a \in Message /\ b \in Message
  BY DEF On, Off, Message, Buttons
<1>2. Applied(a, s) = {"CanAddMonitor", "CanRemoveMonitor"}
  BY DEF Applied, On, ButtonsFor, Buttons
<1>3. CASE n + 1 >= MaxMonitors
  <2>1. AddChanges(n + 1) = <<a>> \o <<b>>
    BY <1>3 DEF AddChanges
  <2>2. Applied(b, Applied(a, s)) = {"CanRemoveMonitor"}
    BY <1>2 DEF Applied, Off
  <2>3. ButtonsFor(n + 1) = {"CanRemoveMonitor"}
    BY <1>3 DEF ButtonsFor, Buttons
  <2> HIDE DEF a, b, s
  <2>4. /\ After(<<a>> \o <<b>>, s) = Applied(b, Applied(a, s)) /\ Len(<<a>> \o <<b>>) <= 2
    BY <1>1, TwoChanges
  <2> QED
    BY <2>1, <2>2, <2>3, <2>4, Zenon DEF s
<1>4. CASE ~ (n + 1 >= MaxMonitors)
  <2>1. AddChanges(n + 1) = <<a>> \o <<>>
    BY <1>4 DEF AddChanges
  <2>2. ButtonsFor(n + 1) = {"CanAddMonitor", "CanRemoveMonitor"}
    BY <1>4 DEF ButtonsFor, Buttons
  <2> HIDE DEF a, b, s
  <2>3. /\ After(<<a>> \o <<>>, s) = Applied(a, s) /\ Len(<<a>> \o <<>>) <= 2
    BY <1>1, TwoChanges
  <2> QED
    BY <1>2, <2>1, <2>2, <2>3, Zenon DEF s
<1> QED
  BY <1>3, <1>4

LEMMA RemovedButtons ==
  ASSUME NEW n \in 1 .. MaxMonitors, n > 1
  PROVE  /\ After(RemoveChanges(n - 1), ButtonsFor(n)) = ButtonsFor(n - 1)
         /\ Len(RemoveChanges(n - 1)) <= 2
<1> DEFINE a == On("CanAddMonitor")
           b == Off("CanRemoveMonitor")
           s == ButtonsFor(n)
<1>1. a \in Message /\ b \in Message
  BY DEF On, Off, Message, Buttons
<1>2. Applied(a, s) = {"CanAddMonitor", "CanRemoveMonitor"}
  BY DEF Applied, On, ButtonsFor, Buttons
<1>3. CASE n - 1 <= 1
  <2>1. RemoveChanges(n - 1) = <<a>> \o <<b>>
    BY <1>3 DEF RemoveChanges
  <2>2. Applied(b, Applied(a, s)) = {"CanAddMonitor"}
    BY <1>2 DEF Applied, Off
  <2>3. ButtonsFor(n - 1) = {"CanAddMonitor"}
    BY <1>3 DEF ButtonsFor, Buttons
  <2> HIDE DEF a, b, s
  <2>4. /\ After(<<a>> \o <<b>>, s) = Applied(b, Applied(a, s)) /\ Len(<<a>> \o <<b>>) <= 2
    BY <1>1, TwoChanges
  <2> QED
    BY <2>1, <2>2, <2>3, <2>4, Zenon DEF s
<1>4. CASE ~ (n - 1 <= 1)
  <2>1. RemoveChanges(n - 1) = <<a>> \o <<>>
    BY <1>4 DEF RemoveChanges
  <2>2. ButtonsFor(n - 1) = {"CanAddMonitor", "CanRemoveMonitor"}
    BY <1>4 DEF ButtonsFor, Buttons
  <2> HIDE DEF a, b, s
  <2>3. /\ After(<<a>> \o <<>>, s) = Applied(a, s) /\ Len(<<a>> \o <<>>) <= 2
    BY <1>1, TwoChanges
  <2> QED
    BY <1>2, <2>1, <2>2, <2>3, Zenon DEF s
<1> QED
  BY <1>3, <1>4

\* A step that changes neither settings nor monitors and greets nobody.
LEMMA SettingsKept ==
  ASSUME SettingsInv, UNCHANGED <<configured, settings, phase, monitors, changes>>,
         \A d \in Connections : handler[d] \in Greeted <=> handler'[d] \in Greeted,
         \A d \in Connections : handler[d] # "none" => handler'[d] # "none",
         \A v \in Videos : writing'[Video(v)] # "no" => writing[Video(v)] # "no",
         Unheard /\ NoCommands => NoCommands'
  PROVE  SettingsInv'
<1>1. Unheard' <=> Unheard
  BY DEF Unheard
<1>2. ConnectedOnce' => ConnectedOnce
  BY DEF ConnectedOnce
<1>3. Fresh'
  BY <1>1 DEF SettingsInv, Fresh
<1>4. FewChanges'
  BY DEF SettingsInv, FewChanges
<1>5. Followed'
  BY <1>1, <1>2 DEF SettingsInv, Followed
<1> QED
  BY <1>3, <1>4, <1>5 DEF SettingsInv

\* A step of a connection that sends no greeting: it moves the handler of c on.
LEMMA HandlerMoves ==
  ASSUME PeerInv, SettingsInv, NEW c \in Connections,
         NEW h \in {"new", "attached", "reading", "putting", "ended"},
         handler' = [handler EXCEPT ![c] = h],
         handler[c] \in Greeted <=> h \in Greeted,
         UNCHANGED <<configured, settings, phase, monitors, changes, outQ>>,
         UNCHANGED queue \/ handler[c] \in Greeted,
         \A v \in Videos : writing'[Video(v)] # "no" => writing[Video(v)] # "no"
  PROVE  SettingsInv'
<1>1. \A d \in Connections : handler'[d] = IF d = c THEN h ELSE handler[d]
  BY DEF PeerInv, PartsOK, ControlOK
<1>2. Unheard /\ NoCommands => NoCommands'
  BY DEF Unheard, NoCommands
<1> QED
  BY <1>1, <1>2, SettingsKept

\* A step that has nothing to do with settings or commands.
LEMMA NothingFollows ==
  ASSUME SettingsInv,
         UNCHANGED <<configured, settings, phase, monitors, changes, outQ, queue, handler>>,
         \A v \in Videos : writing'[Video(v)] # "no" => writing[Video(v)] # "no"
  PROVE  SettingsInv'
<1>1. NoCommands => NoCommands'
  BY DEF NoCommands
<1> QED
  BY <1>1, SettingsKept

LEMMA ConnectionFollows ==
  ASSUME PeerInv, SettingsInv, NEW c \in Connections,
         \/ Connect(c) \/ HangUp(c) \/ Stall(c) \/ Resume(c) \/ Attach(c) \/ Put(c)
         \/ Notice(c) \/ Wake(c)
         \/ \E cmd \in Commands : Press(c, cmd)
  PROVE  SettingsInv'
<1>1. CASE Connect(c)
  <2>1. /\ handler[c] = "none" /\ handler' = [handler EXCEPT ![c] = "new"]
        /\ UNCHANGED <<configured, settings, phase, monitors, changes, outQ, queue, writing>>
    BY <1>1 DEF Connect, PeerInv, Ready, sharedVars, videoVars, writeVars
  <2> QED
    BY <2>1, HandlerMoves DEF Greeted
<1>2. CASE HangUp(c) \/ Stall(c) \/ Resume(c)
  <2>1. UNCHANGED <<configured, settings, phase, monitors, changes, outQ, queue, handler, writing>>
    BY <1>2 DEF HangUp, Stall, Resume, sharedVars, videoVars, writeVars
  <2> QED
    BY <2>1, NothingFollows
<1>3. CASE Attach(c)
  <2>1. /\ handler[c] = "new" /\ handler' = [handler EXCEPT ![c] = "attached"]
        /\ UNCHANGED <<configured, settings, phase, monitors, changes, outQ, queue, writing>>
    BY <1>3 DEF Attach, videoVars, writeVars
  <2> QED
    BY <2>1, HandlerMoves DEF Greeted
<1>4. CASE Put(c)
  <2>1. /\ handler[c] = "putting" /\ handler' = [handler EXCEPT ![c] = "reading"]
        /\ UNCHANGED <<configured, settings, phase, monitors, changes, outQ, writing>>
    BY <1>4 DEF Put, sharedVars, writeVars
  <2> QED
    BY <2>1, HandlerMoves DEF Greeted
<1>5. CASE Notice(c)
  <2>1. /\ handler[c] = "reading" /\ handler' = [handler EXCEPT ![c] = "ended"]
        /\ UNCHANGED <<configured, settings, phase, monitors, changes, outQ, queue, writing>>
    BY <1>5 DEF Notice, sharedVars, videoVars, writeVars
  <2> QED
    BY <2>1, HandlerMoves DEF Greeted
<1>6. CASE Wake(c)
  <2>1. /\ UNCHANGED <<configured, settings, phase, monitors, changes, outQ, queue, handler>>
        /\ writing' = writing \/ writing' = [writing EXCEPT ![Keepalive(c)] = "lock"]
    BY <1>6 DEF Wake, BeginWrite, sharedVars, videoVars, writeVars
  <2>2. \A v \in Videos : writing'[Video(v)] = writing[Video(v)]
    BY <2>1, Names DEF PeerInv, PartsOK, WriteOK
  <2> QED
    BY <2>1, <2>2, NothingFollows
<1>7. ASSUME NEW cmd \in Commands, Press(c, cmd) PROVE SettingsInv'
  <2>1. /\ handler[c] = "reading"
        /\ handler' = handler \/ handler' = [handler EXCEPT ![c] = "putting"]
        /\ UNCHANGED <<configured, settings, phase, monitors, changes, outQ, queue, writing>>
    BY <1>7 DEF Press, sharedVars, videoVars, writeVars
  <2>2. CASE handler' = handler
    BY <2>1, <2>2, NothingFollows
  <2>3. CASE handler' = [handler EXCEPT ![c] = "putting"]
    BY <2>1, <2>3, HandlerMoves DEF Greeted
  <2> QED
    BY <2>1, <2>2, <2>3
<1> QED
  BY <1>1, <1>2, <1>3, <1>4, <1>5, <1>6, <1>7

LEMMA EncryptFollows ==
  ASSUME PeerInv, SettingsInv, NEW t \in Threads, Encrypt(t)
  PROVE  SettingsInv'
<1>1. /\ UNCHANGED <<configured, settings, phase, monitors, changes, outQ, queue, handler>>
      /\ writing[t] = "lock" /\ writing' = [writing EXCEPT ![t] = "send"]
  BY DEF Encrypt, videoVars
<1>2. \A v \in Videos : writing'[Video(v)] # "no" => writing[Video(v)] # "no"
  BY <1>1, Names DEF PeerInv, PartsOK, WriteOK
<1> QED
  BY <1>1, <1>2, NothingFollows

\* Setting the settings: the first time from the configuration.
LEMMA GreetFollows ==
  ASSUME PeerInv, SettingsInv, NEW c \in Connections, Greet(c)
  PROVE  SettingsInv'
<1>1. /\ handler[c] = "attached" /\ handler' = [handler EXCEPT ![c] = "greeting"]
      /\ settings' = ButtonsFor(configured)
      /\ writing' = [writing EXCEPT ![Handler(c)] = "lock"]
      /\ UNCHANGED <<configured, phase, monitors, changes, outQ, queue>>
  BY DEF Greet, BeginWrite, videoVars
<1>2. \A d \in Connections : handler'[d] = IF d = c THEN "greeting" ELSE handler[d]
  BY <1>1 DEF PeerInv, PartsOK, ControlOK
<1>3. ~ Unheard'
  BY <1>2 DEF Unheard, Greeted
<1>4. FewChanges'
  BY <1>1 DEF SettingsInv, FewChanges
<1>5. ASSUME ConnectedOnce'
      PROVE  /\ \A v \in Videos : (phase[v] # "none")' =>
                   /\ (After(changes[v], settings) = ButtonsFor(monitors[v]))'
                   /\ (writing[Video(v)] # "no" => Applied(changes[v][1], settings) = settings)'
  <2>1. Unheard
    <3> SUFFICES ASSUME NEW d \in Connections PROVE handler[d] \notin Greeted
      BY DEF Unheard
    <3>1. CASE d = c
      BY <1>1, <3>1 DEF Greeted
    <3>2. CASE d # c
      <4>1. handler'[d] = "none"
        BY <1>2, <1>5, <3>2 DEF ConnectedOnce
      <4> QED
        BY <1>2, <3>2, <4>1 DEF Greeted
    <3> QED
      BY <3>1, <3>2
  <2>2. \A v \in Videos : changes[v] = <<>> /\ (phase[v] # "none" => monitors[v] = configured)
    BY <2>1 DEF SettingsInv, Fresh
  <2>3. \A v \in Videos : writing[Video(v)] = "no"
    BY <2>2 DEF PeerInv, LockInv
  <2>4. \A v \in Videos : writing'[Video(v)] = "no"
    BY <1>1, <2>3, Names DEF PeerInv, PartsOK, WriteOK
  <2>5. \A x : After(<<>>, x) = x
    BY DEF After
  <2> QED
    BY <1>1, <2>2, <2>4, <2>5
<1>6. Followed'
  BY <1>1, <1>5 DEF Followed
<1>7. Fresh'
  BY <1>3 DEF Fresh
<1> QED
  BY <1>4, <1>6, <1>7 DEF SettingsInv

\* Without video there are no monitors the settings could differ from.
LEMMA SkipFollows ==
  ASSUME PeerInv, SettingsInv, NEW c \in Connections, SkipGreeting(c)
  PROVE  SettingsInv'
<1>1. /\ configured = NoVideo /\ handler' = [handler EXCEPT ![c] = "reading"]
      /\ UNCHANGED <<configured, phase, changes>>
  BY DEF SkipGreeting, sharedVars, videoVars
<1>2. handler'[c] = "reading"
  BY <1>1 DEF PeerInv, PartsOK, ControlOK
<1>3. Fresh'
  BY <1>2 DEF Fresh, Unheard, Greeted
<1>4. FewChanges' /\ \A v \in Videos : phase[v] = "none"
  BY <1>1 DEF SettingsInv, FewChanges
<1>5. Followed'
  BY <1>1, <1>4 DEF Followed
<1> QED
  BY <1>3, <1>4, <1>5 DEF SettingsInv

\* A video session whose change was sent goes on to the next one.
LEMMA ChangeFollows ==
  ASSUME PeerInv, SettingsInv, NEW v \in Videos, writing[Video(v)] # "no",
         changes' = [changes EXCEPT ![v] = Tail(@)],
         writing' = [writing EXCEPT ![Video(v)] = "no"],
         UNCHANGED <<configured, settings, phase, monitors, outQ, queue, handler>>
  PROVE  SettingsInv'
<1>1. changes[v] # <<>> /\ changes[v] \in Seq(Message)
  BY DEF PeerInv, PartsOK, VideoOK, LockInv
<1>2. \A w \in Videos : changes'[w] = IF w = v THEN Tail(changes[v]) ELSE changes[w]
  BY DEF PeerInv, PartsOK, VideoOK
<1>3. \A w \in Videos : writing'[Video(w)] = IF w = v THEN "no" ELSE writing[Video(w)]
  BY Names DEF PeerInv, PartsOK, WriteOK
<1>4. phase[v] = "running" /\ Len(changes[v]) <= 2 /\ ~ Unheard
  BY <1>1 DEF SettingsInv, FewChanges, Fresh
<1>5. Fresh'
  BY <1>4 DEF Fresh, Unheard
<1>6. Len(Tail(changes[v])) <= 2
  <2>1. Len(Tail(changes[v])) = Len(changes[v]) - 1
    BY <1>1
  <2> QED
    BY <1>1, <1>4, <2>1
<1>7. FewChanges'
  BY <1>2, <1>4, <1>6 DEF SettingsInv, FewChanges
<1>8. ASSUME ConnectedOnce
      PROVE  After(Tail(changes[v]), settings) = ButtonsFor(monitors[v])
  <2>1. /\ After(changes[v], settings) = ButtonsFor(monitors[v])
        /\ Applied(changes[v][1], settings) = settings
    BY <1>4, <1>8 DEF SettingsInv, Followed
  <2> QED
    BY <1>1, <1>4, <2>1, AfterSent
<1>9. ConnectedOnce' => ConnectedOnce
  BY DEF ConnectedOnce
<1>10. ASSUME ConnectedOnce', NEW w \in Videos, phase'[w] # "none"
       PROVE  /\ After(changes'[w], settings') = ButtonsFor(monitors'[w])
              /\ writing'[Video(w)] # "no" => Applied(changes'[w][1], settings') = settings'
  <2>1. CASE w = v
    BY <1>2, <1>3, <1>8, <1>9, <1>10, <2>1
  <2>2. CASE w # v
    <3>1. /\ After(changes[w], settings) = ButtonsFor(monitors[w])
          /\ writing[Video(w)] # "no" => Applied(changes[w][1], settings) = settings
      BY <1>4, <1>9, <1>10 DEF SettingsInv, Followed
    <3> QED
      BY <1>2, <1>3, <2>2, <3>1
  <2> QED
    BY <2>1, <2>2
<1>11. Followed'
  BY <1>4, <1>10 DEF Followed
<1> QED
  BY <1>5, <1>7, <1>11 DEF SettingsInv

LEMMA SendFollows ==
  ASSUME PeerInv, SettingsInv, NEW t \in Threads, SendFrame(t)
  PROVE  SettingsInv'
<1>1. /\ writing[t] = "send" /\ writing' = [writing EXCEPT ![t] = "no"]
      /\ UNCHANGED <<configured, settings, phase, monitors, outQ, queue>>
  BY DEF SendFrame
<1>2. /\ t[1] = "handler" => t[2] \in Connections /\ t = Handler(t[2])
      /\ t[1] = "video" => t[2] \in Videos /\ t = Video(t[2])
      /\ t[1] \in {"handler", "keepalive", "video"}
  BY DEF Threads, Handler, Video
<1>3. /\ t[1] = "handler" =>
            /\ \/ handler' = [handler EXCEPT ![t[2]] = "reading"]
               \/ handler' = [handler EXCEPT ![t[2]] = "ended"]
            /\ changes' = changes
      /\ t[1] = "keepalive" => UNCHANGED <<handler, changes>>
      /\ t[1] = "video" => changes' = [changes EXCEPT ![t[2]] = Tail(@)] /\ UNCHANGED handler
  BY DEF SendFrame, GreetingSent, GreetingFailed, KeepaliveFailed, ChangeSent
<1>4. \A v \in Videos : writing'[Video(v)] # "no" => writing[Video(v)] # "no"
  BY <1>1, Names DEF PeerInv, PartsOK, WriteOK
<1>5. CASE t[1] = "handler"
  <2>1. handler[t[2]] = "greeting"
    BY <1>1, <1>2, <1>5 DEF PeerInv, LockInv
  <2>2. PICK c \in Connections : c = t[2]
    BY <1>2, <1>5
  <2>3. handler[c] = "greeting" /\ changes' = changes
    BY <1>3, <1>5, <2>1, <2>2
  <2>4. CASE handler' = [handler EXCEPT ![c] = "reading"]
    BY <1>1, <1>4, <2>3, <2>4, HandlerMoves DEF Greeted
  <2>5. CASE handler' = [handler EXCEPT ![c] = "ended"]
    BY <1>1, <1>4, <2>3, <2>5, HandlerMoves DEF Greeted
  <2> QED
    BY <1>3, <1>5, <2>2, <2>4, <2>5
<1>6. CASE t[1] = "keepalive"
  BY <1>1, <1>3, <1>4, <1>6, NothingFollows
<1>7. CASE t[1] = "video"
  <2>1. PICK v \in Videos : v = t[2]
    BY <1>2, <1>7
  <2>2. t = Video(v)
    BY <1>2, <1>7, <2>1
  <2>3. /\ writing[Video(v)] # "no" /\ writing' = [writing EXCEPT ![Video(v)] = "no"]
        /\ changes' = [changes EXCEPT ![v] = Tail(@)] /\ UNCHANGED handler
    BY <1>1, <1>3, <1>7, <2>1, <2>2
  <2> QED
    BY <1>1, <2>3, ChangeFollows
<1> QED
  BY <1>2, <1>5, <1>6, <1>7

LEMMA StartFollows ==
  ASSUME PeerInv, SettingsInv, NEW v \in Videos, StartVideo(v)
  PROVE  SettingsInv'
<1>1. /\ phase[v] = "none" /\ phase' = [phase EXCEPT ![v] = "running"] /\ configured # NoVideo
      /\ monitors' = [monitors EXCEPT ![v] = configured]
      /\ UNCHANGED <<configured, settings, changes, outQ, queue, handler, writing>>
  BY DEF StartVideo, controlVars, writeVars
<1>2. \A w \in Videos : /\ phase'[w] = IF w = v THEN "running" ELSE phase[w]
                        /\ monitors'[w] = IF w = v THEN configured ELSE monitors[w]
  BY <1>1 DEF PeerInv, PartsOK, VideoOK
<1>3. changes[v] = <<>> /\ writing[Video(v)] = "no"
  BY <1>1 DEF SettingsInv, FewChanges, PeerInv, LockInv
<1>4. Fresh'
  BY <1>1, <1>2 DEF SettingsInv, Fresh, Unheard, NoCommands
<1>5. FewChanges'
  BY <1>1, <1>2, <1>3 DEF SettingsInv, FewChanges
<1>6. ASSUME ConnectedOnce', ~ Unheard, NEW w \in Videos, phase'[w] # "none"
      PROVE  /\ After(changes'[w], settings') = ButtonsFor(monitors'[w])
             /\ writing'[Video(w)] # "no" => Applied(changes'[w][1], settings') = settings'
  <2>1. w = v /\ \A u \in Videos : phase[u] = "none"
    BY <1>1, <1>2, <1>6 DEF ConnectedOnce
  <2>2. ConnectedOnce
    BY <1>1, <1>6, <2>1 DEF ConnectedOnce
  <2>3. settings = ButtonsFor(configured)
    BY <1>1, <1>6, <2>1, <2>2 DEF SettingsInv, Followed
  <2>4. \A x : After(<<>>, x) = x
    BY DEF After
  <2>5. /\ changes'[w] = <<>> /\ settings' = settings /\ monitors'[w] = configured
        /\ writing'[Video(w)] = "no"
    BY <1>1, <1>2, <1>3, <2>1
  <2> QED
    BY <2>3, <2>4, <2>5
<1>7. ~ (\A w \in Videos : phase'[w] = "none")
  BY <1>2
<1>8. Unheard' <=> Unheard
  BY <1>1 DEF Unheard
<1>9. Followed'
  BY <1>6, <1>7, <1>8 DEF Followed
<1> QED
  BY <1>4, <1>5, <1>9 DEF SettingsInv

\* A forwarder moves no command before there is one.
LEMMA ForwardFollows ==
  ASSUME PeerInv, SettingsInv, NEW v \in Videos, ForwarderStep(v)
  PROVE  SettingsInv'
<1>1. UNCHANGED <<configured, settings, phase, monitors, changes, handler, writing>>
  BY DEF ForwarderStep, ReadQueue, Forward, sharedVars, controlVars, writeVars
<1>2. ASSUME NoCommands, Forward(v) PROVE NoCommands'
  <2> DEFINE w == source[v]
             q == queue[w]
  <2>1. /\ forwarder[v] = "get" /\ q # <<>> /\ queue' = [queue EXCEPT ![w] = Tail(@)]
        /\ outQ' = outQ \/ Head(q) # "none"
    BY <1>2 DEF Forward
  <2>2. w \in Videos /\ q \in Seq(Commands \cup {"none"})
    BY <2>1 DEF PeerInv, PartsOK, Ready, VideoOK
  <2>3. /\ Head(q) = q[1] /\ Len(q) >= 1 /\ Len(Tail(q)) = Len(q) - 1
        /\ \A i \in 1 .. Len(Tail(q)) : Tail(q)[i] = q[i + 1]
    BY <2>1, <2>2
  <2>4. \A i \in 1 .. Len(q) : q[i] = "none"
    BY <1>2, <2>2 DEF NoCommands
  <2>5. outQ' = outQ
    BY <2>1, <2>3, <2>4
  <2>6. \A i \in 1 .. Len(Tail(q)) : Tail(q)[i] = "none"
    BY <2>2, <2>3, <2>4
  <2>7. \A u \in Videos : queue'[u] = IF u = w THEN Tail(q) ELSE queue[u]
    BY <2>1 DEF PeerInv, PartsOK, VideoOK
  <2>8. ASSUME NEW u \in Videos
        PROVE  outQ'[u] = <<>> /\ \A i \in 1 .. Len(queue'[u]) : queue'[u][i] = "none"
    <3>1. CASE u = w
      <4>1. queue'[u] = Tail(q)
        BY <2>7, <3>1
      <4> QED
        BY <1>2, <2>5, <2>6, <4>1 DEF NoCommands
    <3>2. CASE u # w
      <4>1. queue'[u] = queue[u]
        BY <2>7, <3>2
      <4> QED
        BY <1>2, <2>5, <4>1 DEF NoCommands
    <3> QED
      BY <3>1, <3>2
  <2> QED
    BY <2>8 DEF NoCommands
<1>3. ASSUME NoCommands, ReadQueue(v) PROVE NoCommands'
  BY <1>3 DEF NoCommands, ReadQueue
<1>4. NoCommands => NoCommands'
  BY <1>2, <1>3 DEF ForwarderStep
<1> QED
  BY <1>1, <1>4, SettingsKept

LEMMA EndFollows ==
  ASSUME PeerInv, SettingsInv, NEW v \in Videos, EndVideo(v)
  PROVE  SettingsInv'
<1>1. /\ phase[v] = "running" /\ changes[v] = <<>> /\ phase' = [phase EXCEPT ![v] = "done"]
      /\ queue' = [u \in Videos |-> IF u = videoCommands THEN Append(queue[u], "none") ELSE queue[u]]
      /\ UNCHANGED <<configured, settings, monitors, changes, outQ, handler, writing>>
  BY DEF EndVideo, controlVars, writeVars
<1>2. \A w \in Videos : phase'[w] = IF w = v THEN "done" ELSE phase[w]
  BY <1>1 DEF PeerInv, PartsOK, VideoOK
<1>3. \A w \in Videos : phase'[w] = "none" <=> phase[w] = "none"
  BY <1>1, <1>2
<1>4. NoCommands => NoCommands'
  <2>1. \A u \in Videos : \A i \in 1 .. Len(queue'[u]) :
           \/ queue'[u][i] = "none"
           \/ i \in 1 .. Len(queue[u]) /\ queue'[u][i] = queue[u][i]
    BY <1>1 DEF PeerInv, PartsOK, VideoOK
  <2> QED
    BY <1>1, <2>1 DEF NoCommands
<1>5. Unheard' <=> Unheard
  BY <1>1 DEF Unheard
<1>6. Fresh'
  BY <1>1, <1>3, <1>4, <1>5 DEF SettingsInv, Fresh
<1>7. FewChanges'
  BY <1>1, <1>2 DEF SettingsInv, FewChanges
<1>8. ConnectedOnce' => ConnectedOnce
  BY <1>1, <1>3 DEF ConnectedOnce
<1>9. Followed'
  BY <1>1, <1>3, <1>5, <1>8 DEF SettingsInv, Followed
<1> QED
  BY <1>6, <1>7, <1>9 DEF SettingsInv

\* Setting one of the changes of the session leads where all of them do.
LEMMA SettingFollows ==
  ASSUME PeerInv, SettingsInv, NEW v \in Videos, SendSetting(v)
  PROVE  SettingsInv'
<1> DEFINE m == changes[v][1]
<1>1. /\ changes[v] # <<>> /\ settings' = Applied(Head(changes[v]), settings)
      /\ writing' = [writing EXCEPT ![Video(v)] = "lock"]
      /\ UNCHANGED <<configured, phase, monitors, changes, outQ, queue, handler>>
  BY DEF SendSetting, BeginWrite, controlVars, videoVars
<1>2. changes[v] \in Seq(Message) /\ settings' = Applied(m, settings)
  BY <1>1 DEF PeerInv, PartsOK, VideoOK
<1>3. phase[v] = "running" /\ ~ Unheard
  BY <1>1 DEF SettingsInv, FewChanges, Fresh
<1>4. Fresh' /\ FewChanges'
  BY <1>1, <1>3 DEF SettingsInv, FewChanges, Fresh, Unheard
<1>5. ASSUME ConnectedOnce', NEW w \in Videos, phase'[w] # "none"
      PROVE  /\ After(changes'[w], settings') = ButtonsFor(monitors'[w])
             /\ writing'[Video(w)] # "no" => Applied(changes'[w][1], settings') = settings'
  <2>1. w = v /\ ConnectedOnce
    BY <1>1, <1>3, <1>5 DEF ConnectedOnce
  <2>2. After(changes[v], settings) = ButtonsFor(monitors[v])
    BY <1>3, <2>1 DEF SettingsInv, Followed
  <2>3. After(changes[v], Applied(m, settings)) = After(changes[v], settings)
    BY <1>1, <1>2, AfterApplied
  <2>4. Applied(m, Applied(m, settings)) = Applied(m, settings)
    BY AppliedTwice
  <2>5. changes'[w] = changes[v] /\ monitors'[w] = monitors[v]
    BY <1>1, <2>1
  <2> QED
    BY <1>2, <2>2, <2>3, <2>4, <2>5, Zenon
<1>6. ~ (\A w \in Videos : phase'[w] = "none")
  BY <1>1, <1>3
<1>7. Followed'
  BY <1>5, <1>6 DEF Followed
<1> QED
  BY <1>4, <1>7 DEF SettingsInv

\* Handling a command: the changes lead from the buttons of the monitors there
\* were to those of the monitors there are.
LEMMA HandleFollows ==
  ASSUME PeerInv, SettingsInv, NEW v \in Videos, Handle(v)
  PROVE  SettingsInv'
<1> DEFINE n == monitors[v]
<1>1. /\ phase[v] = "running" /\ changes[v] = <<>> /\ outQ[v] # <<>>
      /\ UNCHANGED <<configured, settings, phase, queue, handler, writing>>
  BY DEF Handle, sharedVars, controlVars, writeVars
<1>2. \/ n < MaxMonitors /\ Monitors(v, n + 1, AddChanges(n + 1))
      \/ n > 1 /\ Monitors(v, n - 1, RemoveChanges(n - 1))
      \/ UNCHANGED <<monitors, changes>>
  BY DEF Handle, Removable
<1>3. n \in 1 .. MaxMonitors
  <2>1. n \in 0 .. MaxMonitors /\ n > 0
    BY <1>1 DEF PeerInv, PartsOK, VideoOK
  <2> HIDE DEF n
  <2> QED
    BY <2>1
<1>4. ~ Unheard /\ (Unheard' <=> Unheard)
  BY <1>1 DEF SettingsInv, Fresh, NoCommands, Unheard
<1>5. Fresh'
  BY <1>4 DEF Fresh
<1>6. writing[Video(v)] = "no"
  BY <1>1 DEF PeerInv, LockInv
<1>7. \A x : After(<<>>, x) = x
  BY DEF After
<1>8. CASE UNCHANGED <<monitors, changes>>
  <2>1. FewChanges'
    BY <1>1, <1>8 DEF SettingsInv, FewChanges
  <2>2. ConnectedOnce' => ConnectedOnce
    BY <1>1 DEF ConnectedOnce
  <2>3. Followed'
    BY <1>1, <1>4, <1>8, <2>2 DEF SettingsInv, Followed
  <2> QED
    BY <1>5, <2>1, <2>3 DEF SettingsInv
<1>9. ASSUME NEW k \in Nat, NEW s, Monitors(v, k, s), Len(s) <= 2,
             After(s, ButtonsFor(n)) = ButtonsFor(k)
      PROVE  SettingsInv'
  <2>1. \A w \in Videos : /\ monitors'[w] = IF w = v THEN k ELSE monitors[w]
                          /\ changes'[w] = IF w = v THEN s ELSE changes[w]
    BY <1>9 DEF Monitors, PeerInv, PartsOK, VideoOK
  <2>2. FewChanges'
    BY <1>1, <1>9, <2>1 DEF SettingsInv, FewChanges
  <2>3. ASSUME ConnectedOnce', NEW w \in Videos, phase'[w] # "none"
        PROVE  /\ After(changes'[w], settings') = ButtonsFor(monitors'[w])
               /\ writing'[Video(w)] # "no" => Applied(changes'[w][1], settings') = settings'
    <3>1. w = v /\ ConnectedOnce
      BY <1>1, <2>3 DEF ConnectedOnce
    <3>2. After(changes[v], settings) = ButtonsFor(n)
      BY <1>1, <1>4, <3>1 DEF SettingsInv, Followed
    <3>3. settings = ButtonsFor(n)
      BY <1>1, <1>7, <3>2
    <3>4. /\ changes'[w] = s /\ monitors'[w] = k /\ settings' = settings
          /\ writing'[Video(w)] = "no"
      BY <1>1, <1>6, <2>1, <3>1
    <3> QED
      BY <1>9, <3>3, <3>4
  <2>4. ~ (\A w \in Videos : phase'[w] = "none")
    BY <1>1
  <2>5. Followed'
    BY <2>3, <2>4 DEF Followed
  <2> QED
    BY <1>5, <2>2, <2>5 DEF SettingsInv
<1>10. CASE n < MaxMonitors /\ Monitors(v, n + 1, AddChanges(n + 1))
  <2>1. /\ After(AddChanges(n + 1), ButtonsFor(n)) = ButtonsFor(n + 1)
        /\ Len(AddChanges(n + 1)) <= 2
    BY <1>3, <1>10, AddedButtons
  <2>2. n + 1 \in Nat
    BY <1>3
  <2> QED
    BY <1>9, <1>10, <2>1, <2>2, Zenon
<1>11. CASE n > 1 /\ Monitors(v, n - 1, RemoveChanges(n - 1))
  <2>1. /\ After(RemoveChanges(n - 1), ButtonsFor(n)) = ButtonsFor(n - 1)
        /\ Len(RemoveChanges(n - 1)) <= 2
    BY <1>3, <1>11, RemovedButtons
  <2>2. n - 1 \in Nat
    BY <1>3, <1>11
  <2> QED
    BY <1>9, <1>11, <2>1, <2>2, Zenon
<1> QED
  BY <1>2, <1>8, <1>10, <1>11

LEMMA SettingsInit == Init => SettingsInv
<1> SUFFICES ASSUME Init PROVE SettingsInv
  OBVIOUS
<1>1. Fresh
  BY DEF Init, Fresh, NoCommands
<1>2. FewChanges
  BY DEF Init, FewChanges
<1>3. Followed
  BY DEF Init, Followed, Unheard, Greeted
<1> QED
  BY <1>1, <1>2, <1>3 DEF SettingsInv

LEMMA SettingsNext == PeerInv /\ SettingsInv /\ [Next]_vars => SettingsInv'
<1> SUFFICES ASSUME PeerInv, SettingsInv, [Next]_vars PROVE SettingsInv'
  OBVIOUS
<1>1. ASSUME NEW t \in Threads, WriteStep(t) PROVE SettingsInv'
  BY <1>1, EncryptFollows, SendFollows DEF WriteStep
<1>2. ASSUME NEW c \in Connections, HandlerStep(c) \/ KeepaliveStep(c) PROVE SettingsInv'
  <2>1. Handler(c) \in Threads /\ Keepalive(c) \in Threads
    BY Names
  <2> QED
    BY <1>1, <1>2, <2>1, GreetFollows, SkipFollows, ConnectionFollows
       DEF HandlerStep, KeepaliveStep
<1>3. ASSUME NEW v \in Videos, VideoStep(v) PROVE SettingsInv'
  <2>1. Video(v) \in Threads
    BY Names
  <2> QED
    BY <1>1, <1>3, <2>1, HandleFollows, SettingFollows DEF VideoStep
<1>4. CASE UNCHANGED vars
  <2>1. UNCHANGED <<configured, settings, phase, monitors, changes, outQ, queue, handler, writing>>
    BY <1>4 DEF vars, sharedVars, controlVars, writeVars, videoVars
  <2> QED
    BY <2>1, NothingFollows
<1>5. ASSUME NEW c \in Connections,
             \/ Connect(c) \/ HangUp(c) \/ Stall(c) \/ Resume(c)
             \/ \E cmd \in Commands : Press(c, cmd)
      PROVE  SettingsInv'
  BY <1>5, ConnectionFollows
<1>6. CASE Next
  BY <1>2, <1>3, <1>5, <1>6, StartFollows, ForwardFollows, EndFollows DEF Next
<1> QED
  BY <1>4, <1>6

----------------------------------------------------------------------------
(* The theorems.                                                           *)

\* The type invariant: every part of the shared session, of the connections,
\* of the writes under way and of the video sessions has the values the code
\* gives it; a session that was started never has fewer than one monitor nor
\* more than MAX_MONITORS.
THEOREM TypeCorrect == Spec => []TypeOK
<1>1. PeerInv => TypeOK
  <2> SUFFICES ASSUME PeerInv PROVE TypeOK
    OBVIOUS
  <2>1. garbled \in [Connections -> BOOLEAN]
    BY Zenon DEF PeerInv, PartsOK, ControlOK
  <2> QED
    BY <2>1 DEF PeerInv, PartsOK, SharedOK, ControlOK, WriteOK, VideoOK, TypeOK
<1> QED
  BY <1>1, Invariant, PTL

\* control_lock does what it is for: on every connection the frames go out in
\* the order they were encrypted, whichever of the threads of whichever
\* connection wrote them, and however many connections overlap.
THEOREM ChainsAreIntact == Spec => []ChainsIntact
<1>1. PeerInv => ChainsIntact
  BY DEF PeerInv, LockInv, ChainsIntact
<1> QED
  BY <1>1, Invariant, PTL

\* The buttons the headset is to show follow the monitors: while the headset
\* reconnects neither channel, the settings are those of the monitors of the
\* session, whenever the session is not just changing them (send_setting in
\* add_monitor and remove_monitor, initial_settings in the control handler).
THEOREM SettingsFollow == Spec => []SettingsMatchMonitors
<1>1. Spec => [](PeerInv /\ SettingsInv)
  BY InitInv, NextInv, SettingsInit, SettingsNext, PTL DEF Spec
<1>2. SettingsInv => SettingsMatchMonitors
  <2> SUFFICES ASSUME SettingsInv, ConnectedOnce, NEW c \in Connections, NEW v \in Videos,
                      handler[c] \in {"greeting", "reading", "putting"}, phase[v] = "running",
                      changes[v] = <<>>
               PROVE  settings = ButtonsFor(monitors[v])
    BY DEF SettingsMatchMonitors
  <2>1. ~ Unheard
    BY DEF Unheard, Greeted
  <2>2. After(changes[v], settings) = ButtonsFor(monitors[v])
    BY <2>1 DEF SettingsInv, Followed
  <2> QED
    BY <2>2 DEF After
<1> QED
  BY <1>1, <1>2, PTL
=============================================================================
