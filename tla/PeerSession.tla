---------------------------- MODULE PeerSession ----------------------------
(***************************************************************************)
(* What the connections of one headset share (net/registry.py,             *)
(* PeerSession): the control connections, each with its handler and its    *)
(* keepalive thread (net/control.py), and the video sessions, each with    *)
(* its command forwarder (video/session.py).  A headset reconnects         *)
(* whenever it likes, and the threads of the old connection go on until    *)
(* they notice.                                                            *)
(*                                                                         *)
(* Every thread of the three kinds that write to the control channel is a  *)
(* member of Threads.  write_frame is two steps, because it encrypts with  *)
(* the chained state of the connection before it sends: frames that are    *)
(* not sent in the order they were encrypted are garbage to the headset.   *)
(***************************************************************************)
EXTENDS Naturals, Sequences, FiniteSets

CONSTANTS
    MaxConnections,  \* bound: control connections the headset ever opens
    MaxVideos,       \* bound: video sessions it ever starts
    MaxMonitors,     \* protocol/constants.py MAX_MONITORS
    ConfigCounts,    \* the values len(config.video.monitors) may have
    MaxPresses       \* bound: buttons pressed

ASSUME PeerAssumption ==
    /\ MaxConnections \in Nat /\ MaxVideos \in Nat
    /\ MaxMonitors \in Nat \ {0}
    /\ ConfigCounts \subseteq 1..MaxMonitors
    /\ MaxPresses \in Nat

VARIABLES
    configured,     \* len(config.video.monitors), NoVideo unless video.enabled
    \* PeerSession
    controlStream,  \* control_stream: its connection, or NoOne
    controlLock,    \* control_lock: the thread that holds it, or Nobody
    settings,       \* streamer_settings: the buttons that are enabled
    videoCommands,  \* video_commands: the session whose queue it is, or NoOne
    \* control connections
    link,           \* link[c]: the TCP connection; "stalled" if the headset does
                    \* not read and no more fits in between
    handler,        \* handler[c]: where control.handle is
    target,         \* target[c]: the queue the handler is about to put into
    keepalive,      \* keepalive[c]: the _keepalive thread
    shown,          \* shown[c]: the buttons the headset shows enabled
    unsent,         \* unsent[c]: threads whose frame is encrypted and not sent
    garbled,        \* garbled[c]: a frame was sent out of its turn
    \* threads writing a frame
    writing,        \* writing[t]: where t is in write_control
    to,             \* to[t]: the connection it writes to
    message,        \* message[t]: what it writes
    \* video sessions
    phase,          \* phase[v]: "none", "running" or "done"
    monitors,       \* monitors[v]: len(self.plans)
    queue,          \* queue[v]: the command queue it made
    forwarder,      \* forwarder[v]: its forwarding thread
    source,         \* source[v]: the queue that thread waits at
    outQ,           \* outQ[v]: the commands in its out_q
    changes,        \* changes[v]: the settings it still has to send
    pressed         \* buttons pressed so far

sharedVars  == <<configured, controlStream, controlLock, settings, videoCommands>>
controlVars == <<link, handler, target, keepalive, shown, unsent, garbled>>
writeVars   == <<writing, to, message>>
videoVars   == <<phase, monitors, queue, forwarder, source, outQ, changes>>
vars == <<sharedVars, controlVars, writeVars, videoVars, pressed>>

\* Both are numbered in the order they begin.
Connections == 1..MaxConnections
Videos      == 1..MaxVideos
NoOne       == 0
NoVideo     == 0

Buttons  == {"CanAddMonitor", "CanRemoveMonitor"}
Commands == {"AddMonitor", "RemoveMonitor"}

Handler(c)   == <<"handler", c>>
Keepalive(c) == <<"keepalive", c>>
Video(v)     == <<"video", v>>
Nobody       == <<"nobody", NoOne>>
Nothing      == [off |-> {}, on |-> {}]
Threads == ({"handler", "keepalive"} \X Connections) \cup ({"video"} \X Videos)

\* Messages: the buttons that go off and the ones that go on.
Reload(s)  == [off |-> Buttons, on |-> s]
On(b)      == [off |-> {}, on |-> {b}]
Off(b)     == [off |-> {b}, on |-> {}]
Message    == [off : SUBSET Buttons, on : SUBSET Buttons]
Applied(m, s) == (s \ m.off) \cup m.on

\* The buttons that make sense while n monitors are shown.
ButtonsFor(n) == { b \in Buttons : \/ b = "CanAddMonitor" /\ n < MaxMonitors
                                   \/ b = "CanRemoveMonitor" /\ n > 1 }

Init ==
    /\ configured \in ConfigCounts \cup {NoVideo}
    /\ controlStream = NoOne /\ controlLock = Nobody
    /\ settings = {} /\ videoCommands = NoOne
    /\ link      = [c \in Connections |-> "none"]
    /\ handler   = [c \in Connections |-> "none"]
    /\ target    = [c \in Connections |-> [of |-> NoOne, cmd |-> "none"]]
    /\ keepalive = [c \in Connections |-> "none"]
    /\ shown     = [c \in Connections |-> {}]
    /\ unsent    = [c \in Connections |-> <<>>]
    /\ garbled   = [c \in Connections |-> FALSE]
    /\ writing   = [t \in Threads |-> "no"]
    /\ to        = [t \in Threads |-> NoOne]
    /\ message   = [t \in Threads |-> Nothing]
    /\ phase     = [v \in Videos |-> "none"]
    /\ monitors  = [v \in Videos |-> 0]
    /\ queue     = [v \in Videos |-> <<>>]
    /\ forwarder = [v \in Videos |-> "none"]
    /\ source    = [v \in Videos |-> NoOne]
    /\ outQ      = [v \in Videos |-> <<>>]
    /\ changes   = [v \in Videos |-> <<>>]
    /\ pressed = 0

----------------------------------------------------------------------------
(* Writing a frame to a control connection.                                *)

BeginWrite(t, c, m) ==
    /\ writing' = [writing EXCEPT ![t] = "lock"]
    /\ to' = [to EXCEPT ![t] = c]
    /\ message' = [message EXCEPT ![t] = m]

\* Fault: the lock is not waited for.
FaultUnlocked == TRUE
Unlocked == controlLock = Nobody

\* A keepalive thread copies the settings only when it has the lock.
\* Fault: it sends none.
FaultContents(t) == message[t]
Contents(t) == IF t[1] = "keepalive" THEN Reload(settings) ELSE message[t]

\* Taking control_lock and encrypting the frame.
Encrypt(t) ==
    /\ writing[t] = "lock"
    /\ Unlocked
    /\ controlLock' = t
    /\ message' = [message EXCEPT ![t] = Contents(t)]
    /\ unsent' = [unsent EXCEPT ![to[t]] = Append(@, t)]
    /\ writing' = [writing EXCEPT ![t] = "send"]
    /\ UNCHANGED <<configured, controlStream, settings, videoCommands, link, handler, target,
                   keepalive, shown, garbled, to, videoVars, pressed>>

\* The bytes go out.  On a connection the headset has left they may still be
\* accepted, on a stalled one the thread waits with the lock: control sockets
\* have no timeout.
Accepted(t) ==
    LET c == to[t]
    IN /\ link[c] \notin {"closed", "stalled"}
       /\ shown' = IF link[c] = "open" THEN [shown EXCEPT ![c] = Applied(message[t], @)]
                                       ELSE shown

\* A handler whose greeting was written starts the keepalive thread and reads;
\* one whose greeting failed closes its connection.
GreetingSent(c) ==
    /\ handler' = [handler EXCEPT ![c] = "reading"]
    /\ keepalive' = [keepalive EXCEPT ![c] = "sleeping"]
    /\ UNCHANGED <<link, changes>>
GreetingFailed(c) ==
    /\ handler' = [handler EXCEPT ![c] = "ended"]
    /\ link' = [link EXCEPT ![c] = "closed"]
    /\ UNCHANGED <<keepalive, changes>>

\* A keepalive thread sleeps again, or ends.
\* Fault: an error does not end it.
FaultKeepaliveFailed(c) == UNCHANGED <<keepalive, handler, link, changes>>
KeepaliveFailed(c) ==
    /\ keepalive' = [keepalive EXCEPT ![c] = "ended"]
    /\ UNCHANGED <<handler, link, changes>>

\* A video session goes on to the next setting either way.
ChangeSent(v) ==
    /\ changes' = [changes EXCEPT ![v] = Tail(@)]
    /\ UNCHANGED <<handler, keepalive, link>>

SendFrame(t) ==
    LET c == to[t]
    IN /\ writing[t] = "send"
       /\ writing' = [writing EXCEPT ![t] = "no"]
       /\ to' = [to EXCEPT ![t] = NoOne]
       /\ message' = [message EXCEPT ![t] = Nothing]
       /\ controlLock' = Nobody
       /\ garbled' = [garbled EXCEPT ![c] = @ \/ Head(unsent[c]) # t]
       /\ unsent' = [unsent EXCEPT ![c] = Tail(@)]
       /\ \/ /\ Accepted(t)
             /\ \/ t[1] = "handler" /\ GreetingSent(t[2])
                \/ t[1] = "keepalive" /\ UNCHANGED <<keepalive, handler, link, changes>>
                \/ t[1] = "video" /\ ChangeSent(t[2])
          \/ /\ link[c] \in {"lost", "closed"}
             /\ UNCHANGED shown
             /\ \/ t[1] = "handler" /\ GreetingFailed(t[2])
                \/ t[1] = "keepalive" /\ KeepaliveFailed(t[2])
                \/ t[1] = "video" /\ ChangeSent(t[2])
       /\ UNCHANGED <<configured, controlStream, settings, videoCommands, target, phase, monitors,
                      queue, forwarder, source, outQ, pressed>>

----------------------------------------------------------------------------
(* control.handle and _keepalive.                                          *)

\* The headset connects, perhaps because it lost a connection that is stalled for
\* the program; the listener starts a thread for the connection.
Connect(c) ==
    /\ link[c] = "none"
    /\ \A d \in Connections : link[d] # "open"
    /\ \A d \in Connections : d < c => link[d] # "none"
    /\ link' = [link EXCEPT ![c] = "open"]
    /\ handler' = [handler EXCEPT ![c] = "new"]
    /\ UNCHANGED <<sharedVars, target, keepalive, shown, unsent, garbled, writeVars, videoVars,
                   pressed>>

HangUp(c) ==
    /\ link[c] = "open"
    /\ link' = [link EXCEPT ![c] = "lost"]
    /\ UNCHANGED <<sharedVars, handler, target, keepalive, shown, unsent, garbled, writeVars,
                   videoVars, pressed>>

\* It stops reading while a thread writes to it, and reads on, or is gone for
\* TCP too.
Stall(c) ==
    /\ link[c] = "open" /\ \E t \in Threads : to[t] = c
    /\ link' = [link EXCEPT ![c] = "stalled"]
    /\ UNCHANGED <<sharedVars, handler, target, keepalive, shown, unsent, garbled, writeVars,
                   videoVars, pressed>>
Resume(c) ==
    /\ link[c] = "stalled"
    /\ \E l \in {"open", "lost"} : link' = [link EXCEPT ![c] = l]
    /\ UNCHANGED <<sharedVars, handler, target, keepalive, shown, unsent, garbled, writeVars,
                   videoVars, pressed>>

Attach(c) ==
    /\ handler[c] = "new"
    /\ controlStream' = c
    /\ handler' = [handler EXCEPT ![c] = "attached"]
    /\ UNCHANGED <<configured, controlLock, settings, videoCommands, link, target, keepalive, shown,
                   unsent, garbled, writeVars, videoVars, pressed>>

\* The settings are set from the configuration and sent to the connection
\* that is current by now.
Greet(c) ==
    /\ handler[c] = "attached" /\ configured # NoVideo
    /\ handler' = [handler EXCEPT ![c] = "greeting"]
    /\ settings' = ButtonsFor(configured)
    /\ BeginWrite(Handler(c), controlStream, Reload(ButtonsFor(configured)))
    /\ UNCHANGED <<configured, controlStream, controlLock, videoCommands, link, target, keepalive,
                   shown, unsent, garbled, videoVars, pressed>>

\* Without video there is no greeting.
SkipGreeting(c) ==
    /\ handler[c] = "attached" /\ configured = NoVideo
    /\ handler' = [handler EXCEPT ![c] = "reading"]
    /\ keepalive' = [keepalive EXCEPT ![c] = "sleeping"]
    /\ UNCHANGED <<sharedVars, link, target, shown, unsent, garbled, writeVars, videoVars, pressed>>

\* A command of the headset is read, and with it the queue it is for.
Press(c, cmd) ==
    /\ handler[c] = "reading" /\ link[c] \in {"open", "stalled"}
    /\ pressed < MaxPresses
    /\ pressed' = pressed + 1
    /\ \/ /\ videoCommands # NoOne
          /\ target' = [target EXCEPT ![c] = [of |-> videoCommands, cmd |-> cmd]]
          /\ handler' = [handler EXCEPT ![c] = "putting"]
       \/ /\ videoCommands = NoOne
          /\ UNCHANGED <<target, handler>>
    /\ UNCHANGED <<sharedVars, link, keepalive, shown, unsent, garbled, writeVars, videoVars>>

Put(c) ==
    /\ handler[c] = "putting"
    /\ queue' = [queue EXCEPT ![target[c].of] = Append(@, target[c].cmd)]
    /\ target' = [target EXCEPT ![c] = [of |-> NoOne, cmd |-> "none"]]
    /\ handler' = [handler EXCEPT ![c] = "reading"]
    /\ UNCHANGED <<sharedVars, link, keepalive, shown, unsent, garbled, writeVars, phase,
                   monitors, forwarder, source, outQ, changes, pressed>>

\* The read fails: the thread of the connection closes it and ends.
Notice(c) ==
    /\ handler[c] = "reading" /\ link[c] = "lost"
    /\ handler' = [handler EXCEPT ![c] = "ended"]
    /\ link' = [link EXCEPT ![c] = "closed"]
    /\ UNCHANGED <<sharedVars, target, keepalive, shown, unsent, garbled, writeVars, videoVars,
                   pressed>>

\* A keepalive thread wakes up.  It ends when another connection has become
\* the control stream.
Wake(c) ==
    /\ keepalive[c] = "sleeping" /\ writing[Keepalive(c)] = "no"
    /\ \/ /\ controlStream # c
          /\ keepalive' = [keepalive EXCEPT ![c] = "ended"]
          /\ UNCHANGED writeVars
       \/ /\ controlStream = c
          /\ BeginWrite(Keepalive(c), c, Nothing)
          /\ UNCHANGED keepalive
    /\ UNCHANGED <<sharedVars, link, handler, target, shown, unsent, garbled, videoVars, pressed>>

----------------------------------------------------------------------------
(* The video sessions.                                                     *)

\* A session has set up its encoders: _start_command_forwarder.
StartVideo(v) ==
    /\ phase[v] = "none" /\ configured # NoVideo
    /\ \A w \in Videos : w < v => phase[w] # "none"
    /\ phase' = [phase EXCEPT ![v] = "running"]
    /\ monitors' = [monitors EXCEPT ![v] = configured]
    /\ videoCommands' = v
    /\ forwarder' = [forwarder EXCEPT ![v] = "read"]
    /\ UNCHANGED <<configured, controlStream, controlLock, settings, controlVars, writeVars, queue,
                   source, outQ, changes, pressed>>

\* forward() reads the attribute anew for every command.
ReadQueue(v) ==
    /\ forwarder[v] = "read"
    /\ source' = [source EXCEPT ![v] = videoCommands]
    /\ forwarder' = [forwarder EXCEPT ![v] = IF videoCommands = NoOne THEN "ended" ELSE "get"]
    /\ UNCHANGED <<sharedVars, controlVars, writeVars, phase, monitors, queue, outQ, changes,
                   pressed>>

\* It takes a command from that queue and puts it into its own out_q, or takes
\* the poison and ends.
Forward(v) ==
    LET q == queue[source[v]]
    IN /\ forwarder[v] = "get"
       /\ q # <<>>
       /\ queue' = [queue EXCEPT ![source[v]] = Tail(@)]
       /\ \/ /\ Head(q) = "none"
             /\ forwarder' = [forwarder EXCEPT ![v] = "ended"]
             /\ UNCHANGED outQ
          \/ /\ Head(q) # "none"
             /\ outQ' = [outQ EXCEPT ![v] = Append(@, Head(q))]
             /\ forwarder' = [forwarder EXCEPT ![v] = "read"]
       /\ source' = [source EXCEPT ![v] = NoOne]
       /\ UNCHANGED <<sharedVars, controlVars, writeVars, phase, monitors, changes, pressed>>

\* Fault: the button stays on when the last monitor has been added.
FaultAddChanges(n) == <<On("CanRemoveMonitor")>>
AddChanges(n) ==
    <<On("CanRemoveMonitor")>> \o IF n >= MaxMonitors THEN <<Off("CanAddMonitor")>> ELSE <<>>
RemoveChanges(n) ==
    <<On("CanAddMonitor")>> \o IF n <= 1 THEN <<Off("CanRemoveMonitor")>> ELSE <<>>

\* Fault: the last monitor can be removed.
FaultRemovable(n) == n >= 1
Removable(n) == n > 1

\* add_monitor and remove_monitor, up to the settings they send.
Monitors(v, n, sends) ==
    /\ monitors' = [monitors EXCEPT ![v] = n]
    /\ changes' = [changes EXCEPT ![v] = sends]

Handle(v) ==
    /\ phase[v] = "running" /\ changes[v] = <<>>
    /\ outQ[v] # <<>>
    /\ outQ' = [outQ EXCEPT ![v] = Tail(@)]
    /\ LET cmd == Head(outQ[v])
           n   == monitors[v]
       IN \/ cmd = "AddMonitor" /\ n < MaxMonitors /\ Monitors(v, n + 1, AddChanges(n + 1))
          \/ cmd = "AddMonitor" /\ n >= MaxMonitors /\ UNCHANGED <<monitors, changes>>
          \/ cmd = "RemoveMonitor" /\ Removable(n) /\ Monitors(v, n - 1, RemoveChanges(n - 1))
          \/ cmd = "RemoveMonitor" /\ ~Removable(n) /\ UNCHANGED <<monitors, changes>>
    /\ UNCHANGED <<sharedVars, controlVars, writeVars, phase, queue, forwarder, source, pressed>>

\* send_setting: the shared settings, then the message.  There is a control
\* stream, or there would not have been a command.
SendSetting(v) ==
    /\ changes[v] # <<>> /\ writing[Video(v)] = "no"
    /\ settings' = Applied(Head(changes[v]), settings)
    /\ BeginWrite(Video(v), controlStream, Head(changes[v]))
    /\ UNCHANGED <<configured, controlStream, controlLock, videoCommands, controlVars, videoVars,
                   pressed>>

\* shutdown unplugs and poisons whatever queue is plugged in.
EndVideo(v) ==
    /\ phase[v] = "running" /\ changes[v] = <<>>
    /\ phase' = [phase EXCEPT ![v] = "done"]
    /\ videoCommands' = NoOne
    /\ queue' = [q \in Videos |-> IF q = videoCommands THEN Append(queue[q], "none") ELSE queue[q]]
    /\ UNCHANGED <<configured, controlStream, controlLock, settings, controlVars, writeVars,
                   monitors, forwarder, source, outQ, changes, pressed>>

----------------------------------------------------------------------------

WriteStep(t)     == Encrypt(t) \/ SendFrame(t)
HandlerStep(c)   ==
    Attach(c) \/ Greet(c) \/ SkipGreeting(c) \/ Put(c) \/ Notice(c) \/ WriteStep(Handler(c))
KeepaliveStep(c) == Wake(c) \/ WriteStep(Keepalive(c))
VideoStep(v)     == Handle(v) \/ SendSetting(v) \/ WriteStep(Video(v))
ForwarderStep(v) == ReadQueue(v) \/ Forward(v)

Next ==
    \/ \E c \in Connections :
          \/ Connect(c) \/ HangUp(c) \/ Stall(c) \/ Resume(c)
          \/ HandlerStep(c) \/ KeepaliveStep(c)
          \/ \E cmd \in Commands : Press(c, cmd)
    \/ \E v \in Videos : StartVideo(v) \/ VideoStep(v) \/ ForwarderStep(v) \/ EndVideo(v)

\* What the code leaves to the headset and to TCP: a connection that is not
\* read is read again some time or is gone.  Without it one thread keeps
\* control_lock for ever, and neither property of what must happen holds.
HeadsetReads == \A c \in Connections : WF_vars(Resume(c))

\* Every thread that can run is run, and one that waits for the lock gets it:
\* the keepalive threads, which come back for it, sleep in between.  The
\* headset need not do anything else, nor need a video session end.
Fairness ==
    /\ \A c \in Connections : SF_vars(HandlerStep(c)) /\ SF_vars(KeepaliveStep(c))
    /\ \A v \in Videos : SF_vars(VideoStep(v)) /\ WF_vars(ForwarderStep(v))

Spec     == Init /\ [][Next]_vars
FairSpec == Spec /\ Fairness /\ HeadsetReads

----------------------------------------------------------------------------
(* Properties.                                                             *)

\* The type invariant.
TypeOK ==
    /\ configured \in ConfigCounts \cup {NoVideo}
    /\ controlStream \in Connections \cup {NoOne}
    /\ controlLock \in Threads \cup {Nobody}
    /\ settings \subseteq Buttons
    /\ videoCommands \in Videos \cup {NoOne}
    /\ link \in [Connections -> {"none", "open", "stalled", "lost", "closed"}]
    /\ handler \in [Connections ->
          {"none", "new", "attached", "greeting", "reading", "putting", "ended"}]
    /\ target \in [Connections -> [of : Videos \cup {NoOne}, cmd : Commands \cup {"none"}]]
    /\ keepalive \in [Connections -> {"none", "sleeping", "ended"}]
    /\ shown \in [Connections -> SUBSET Buttons]
    /\ unsent \in [Connections -> Seq(Threads)]
    /\ garbled \in [Connections -> BOOLEAN]
    /\ writing \in [Threads -> {"no", "lock", "send"}]
    /\ to \in [Threads -> Connections \cup {NoOne}]
    /\ message \in [Threads -> Message]
    /\ phase \in [Videos -> {"none", "running", "done"}]
    /\ monitors \in [Videos -> 0..MaxMonitors]
    /\ \A v \in Videos : phase[v] # "none" => monitors[v] > 0
    /\ queue \in [Videos -> Seq(Commands \cup {"none"})]
    /\ forwarder \in [Videos -> {"none", "read", "get", "ended"}]
    /\ source \in [Videos -> Videos \cup {NoOne}]
    /\ outQ \in [Videos -> Seq(Commands)]
    /\ changes \in [Videos -> Seq(Message)]
    /\ pressed \in 0..MaxPresses

\* On every connection the frames go out in the order they were encrypted,
\* whichever threads of whichever connection wrote them.
ChainsIntact == \A c \in Connections : ~garbled[c]

\* As long as the headset neither reconnects its control channel nor its
\* video channel, the buttons are those of the monitors the session has,
\* whenever the session is not just changing them.
ConnectedOnce ==
    /\ \A c, d \in Connections : handler[c] # "none" /\ handler[d] # "none" => c = d
    /\ \A v, w \in Videos : phase[v] # "none" /\ phase[w] # "none" => v = w
SettingsMatchMonitors ==
    ConnectedOnce =>
        \A c \in Connections, v \in Videos :
            handler[c] \in {"greeting", "reading", "putting"} /\ phase[v] = "running"
                /\ changes[v] = <<>>
            => settings = ButtonsFor(monitors[v])

\* Keepalive threads end with their connections: in the end none is left whose
\* connection is closed or superseded.
KeepalivesEnd ==
    <>[](\A c \in Connections :
            link[c] = "closed" \/ controlStream # c => keepalive[c] # "sleeping")

\* When all has come to rest, the headset shows the buttons the streamer's
\* settings say, in whatever order the changes were written.
HeadsetSeesSettings ==
    <>[](\A c \in Connections :
            controlStream = c /\ handler[c] = "reading" /\ link[c] = "open" => shown[c] = settings)

\* "requested but no active video session to send it to": without a queue to
\* put a command into, no video session is running.
NoQueueMeansNoSession == videoCommands = NoOne => \A v \in Videos : phase[v] # "running"

=============================================================================
