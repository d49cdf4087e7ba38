---------------------------- MODULE VideoSession ----------------------------
(***************************************************************************)
(* One video session of the client (video/session.py): the thread of the   *)
(* video channel that plans the monitors, starts their encoders and sends  *)
(* what they produce; one reader thread per encoder, each with its         *)
(* DropGate (video/access_units.py); the bounded queue out_q between them; *)
(* and the thread that forwards the headset's AddMonitor and RemoveMonitor *)
(* commands into that queue.                                               *)
(*                                                                         *)
(* Encoders are numbered in the order they are started and a number is     *)
(* never used again, whereas the index of a monitor is: after a Remove and *)
(* an Add, two encoders have carried the same index.  The decoders of the  *)
(* headset go by that index alone.                                         *)
(*                                                                         *)
(* The programs differ in where they put the parameter sets of a keyframe: *)
(* h264_vaapi in front of its delimiter, so that the reader cuts them off  *)
(* with the unit before, and the others behind it.                         *)
(***************************************************************************)
EXTENDS Naturals, Sequences, SequencesExt, FiniteSets

CONSTANTS
    MaxMonitors,     \* protocol/constants.py MAX_MONITORS
    InitialMonitors, \* len(config.video.monitors)
    QueueSize,       \* config.tunables.video_queue_size
    Kinds,           \* the encoder programs the session may run, by self.encoder
    Commands,        \* the commands the headset may send
    MaxEncoders,     \* bound: encoders ever started
    MaxCommands,     \* bound: commands ever sent
    PipeUnits,       \* bound: access units left in the pipe of a dead encoder
    FrameCap         \* bound: where the frame counters saturate

ASSUME ConstantsAssumption ==
    /\ MaxMonitors \in Nat \ {0}
    /\ InitialMonitors \in 1..MaxMonitors
    /\ QueueSize \in Nat \ {0}
    /\ Kinds = {"libx264"} \/ Kinds \subseteq {"native", "vd", "h264_vaapi"}
    /\ Commands \subseteq {"AddMonitor", "RemoveMonitor"}
    /\ MaxEncoders \in Nat /\ InitialMonitors <= MaxEncoders
    /\ MaxCommands \in Nat
    /\ PipeUnits \in Nat
    /\ FrameCap \in Nat

VARIABLES
    \* the thread of the video channel
    pc,          \* where it is in VideoSession.run
    plans,       \* len(self.plans)
    procs,       \* self.procs, the encoder of each monitor
    frameIndex,  \* self.frame_index, the frames sent of each monitor
    announced,   \* StreamCount of the last VideoFormat sent to the headset
    \* shared between the threads
    outQ,        \* self.out_q
    alive,       \* self.alive[0]
    lock,        \* the reader that holds self.lock while it blocks, or 0
    \* encoder processes
    started,     \* encoders 1..started have been started
    running,     \* running[e]: the process of e has not exited
    kind,        \* kind[e]: the program e runs
    index,       \* index[e]: the monitor its reader was started for
    pipe,        \* pipe[e]: units still unread after e exited
    \* reader threads
    reader,      \* reader[e]: where it is in _reader or _native_reader
    desynced,    \* DropGate._desynced
    due,         \* due[e]: the next unit of an h264_vaapi process is a keyframe
    \* commands
    plugged,     \* session.video_commands is this session's queue
    commands,    \* the contents of that queue
    pressed,     \* commands sent so far
    forwarder,   \* where the forwarding thread is
    forwarding,  \* the command it is holding
    missed,      \* missed[e]: a unit of e was dropped after the last one queued
    \* what the decoder of each monitor in the headset has been sent
    fed,         \* fed[i]: the encoder of the last unit sent as monitor i, or 0
    broken,      \* broken[i]: that unit needs one that was not sent before it
    late         \* late[i]: an encoder that is gone was sent as monitor i since
                 \* the last keyframe of the one that is shown there

mainVars    == <<pc, plans, procs, frameIndex, announced>>
processVars == <<started, running, kind, index, pipe>>
readerVars  == <<reader, desynced, due, missed>>
commandVars == <<plugged, commands, pressed, forwarder, forwarding>>
viewVars    == <<fed, broken, late>>
vars == <<mainVars, outQ, alive, lock, processVars, readerVars, commandVars, viewVars>>

Ids     == 1..MaxEncoders
Monitor == 0..(MaxMonitors - 1)

\* The items of out_q.  Of a unit it says whether it is a keyframe and whether
\* the unit of the same encoder that precedes it was queued too; is_sync, which
\* the loop only passes on, is left out.
Unit(e, key, follows) ==
    [what |-> "unit", enc |-> e, key |-> key, follows |-> follows]
Command(c) == [what |-> "cmd", cmd |-> c]
End        == [what |-> "end"]

Items == [what : {"unit"}, enc : Ids, key : BOOLEAN, follows : BOOLEAN]
           \cup [what : {"cmd"}, cmd : Commands] \cup [what : {"end"}]

\* Fault: the queue takes one item too many.
FaultRoom == Len(outQ) <= QueueSize
Room == Len(outQ) < QueueSize

\* The processes of S end, killed or not.  What they wrote and nobody has read
\* yet stays in their pipes; a native encoder has none.
Die(S) ==
    /\ running' = [e \in Ids |-> running[e] /\ e \notin S]
    /\ \E left \in [S -> 0..PipeUnits] :
         pipe' = [e \in Ids |-> IF e \in S /\ running[e] /\ kind[e] # "native"
                                THEN left[e] ELSE pipe[e]]

----------------------------------------------------------------------------
(* The program counters.                                                   *)
(*   "setup"    planning the configured monitors, sending the first format  *)
(*   "start"    starting the configured encoders one by one                 *)
(*   "register" in _register, about to take the lock                        *)
(*   "get"      in the loop, at out_q.get()                                 *)
(*   "report"   reading what the encoders wrote to stderr                   *)
(*   "shutdown" in the finally clause                                       *)
(*   "done"     the session has shut down                                   *)
(*   "dead"     an exception left run before its try block was entered      *)
MainStates      == {"setup", "start", "register", "get", "report", "shutdown", "done", "dead"}
ReaderStates    == {"none", "first", "reading", "finally", "put", "ended"}
ForwarderStates == {"none", "get", "put", "ended"}

Init ==
    /\ pc = "setup" /\ plans = 0 /\ procs = <<>> /\ frameIndex = <<>> /\ announced = 0
    /\ outQ = <<>> /\ alive = 0 /\ lock = 0
    /\ started = 0
    /\ running  = [e \in Ids |-> FALSE]
    /\ kind     = [e \in Ids |-> "none"]
    /\ index    = [e \in Ids |-> 0]
    /\ pipe     = [e \in Ids |-> 0]
    /\ reader   = [e \in Ids |-> "none"]
    /\ desynced = [e \in Ids |-> FALSE]
    /\ plugged = FALSE /\ commands = <<>> /\ pressed = 0
    /\ forwarder = "none" /\ forwarding = "none"
    /\ due    = [e \in Ids |-> FALSE]
    /\ missed = [e \in Ids |-> FALSE]
    /\ fed    = [i \in Monitor |-> 0]
    /\ broken = [i \in Monitor |-> FALSE]
    /\ late   = [i \in Monitor |-> FALSE]

SettingUp == forwarder = "none"

----------------------------------------------------------------------------
(* The thread of the video channel.                                        *)

\* run, before its loop: plan every configured monitor and announce the
\* stream count.  Planning or sending may raise.
Setup ==
    /\ pc = "setup"
    /\ \/ /\ plans' = InitialMonitors
          /\ announced' = InitialMonitors
          /\ pc' = "start"
       \/ /\ plans' \in {0, InitialMonitors}
          /\ pc' = "dead"
          /\ UNCHANGED announced
    /\ UNCHANGED <<procs, frameIndex, outQ, alive, lock, processVars, readerVars,
                   commandVars, viewVars>>

\* start_encoder up to the lock in _register: a new process of some kind, put
\* into procs and frame_index.
Launch(i) ==
    /\ started < MaxEncoders
    /\ started' = started + 1
    /\ running' = [running EXCEPT ![started'] = TRUE]
    /\ \E k \in Kinds : kind' = [kind EXCEPT ![started'] = k]
    /\ index' = [index EXCEPT ![started'] = i]
    /\ procs' = Append(procs, started')
    /\ frameIndex' = Append(frameIndex, 0)
    /\ pc' = "register"
    /\ UNCHANGED pipe

\* The encoder cannot be started: run ends, before or inside its try block.
LaunchFails ==
    /\ pc' = IF SettingUp THEN "dead" ELSE "shutdown"
    /\ UNCHANGED <<procs, frameIndex, processVars>>

StartConfigured ==
    /\ pc = "start"
    /\ Launch(Len(procs)) \/ LaunchFails
    /\ UNCHANGED <<plans, announced, outQ, alive, lock, readerVars, commandVars, viewVars>>

\* The locked part of _register, the start of the reader thread, and, after
\* the last configured encoder, _start_command_forwarder.
Register ==
    /\ pc = "register"
    /\ lock = 0
    /\ alive' = alive + 1
    /\ reader' = [reader EXCEPT ![Last(procs)] = "first"]
    /\ \/ /\ SettingUp /\ Len(procs) < plans
          /\ pc' = "start"
          /\ UNCHANGED <<plugged, forwarder>>
       \/ /\ SettingUp /\ Len(procs) = plans
          /\ pc' = "get"
          /\ plugged' = TRUE
          /\ forwarder' = "get"
       \/ /\ ~SettingUp
          /\ pc' = "get"
          /\ UNCHANGED <<plugged, forwarder>>
    /\ UNCHANGED <<plans, procs, frameIndex, announced, outQ, lock, processVars, desynced,
                   due, missed, commands, pressed, forwarding, viewVars>>

\* out_q.get() in the loop: the item at the head is an x.
Take(x) ==
    /\ pc = "get"
    /\ outQ # <<>>
    /\ Head(outQ).what = x
    /\ outQ' = Tail(outQ)

\* A unit of a monitor that no longer exists is dropped in silence.
Discard(e) ==
    /\ index[e] >= Len(frameIndex)
    /\ UNCHANGED <<pc, frameIndex, viewVars>>

\* Any other is sent, as a frame of monitor 0 or a slice of another one: also
\* one of an encoder that is gone, when its index has been given away again.
Send(e, key, follows) ==
    LET i == index[e]
    IN /\ i < Len(frameIndex)
       /\ frameIndex' = [frameIndex EXCEPT ![i + 1] = IF @ < FrameCap THEN @ + 1 ELSE @]
       /\ fed' = [fed EXCEPT ![i] = e]
       /\ broken' = [broken EXCEPT ![i] = ~key /\ (@ \/ fed[i] # e \/ ~follows)]
       /\ late' = [late EXCEPT ![i] = procs[i + 1] # e \/ (@ /\ ~key)]
       /\ UNCHANGED pc

\* The headset closed the connection, or stopped reading until the timeout.
SendFails(e) ==
    /\ index[e] < Len(frameIndex)
    /\ pc' = "shutdown"
    /\ UNCHANGED <<frameIndex, viewVars>>

HandleUnit ==
    /\ Take("unit")
    /\ LET u == Head(outQ)
       IN Discard(u.enc) \/ Send(u.enc, u.key, u.follows) \/ SendFails(u.enc)
    /\ UNCHANGED <<plans, procs, announced, alive, lock, processVars, readerVars, commandVars>>

\* The sentinel: every reader is taken to have ended.
HandleEnd ==
    /\ Take("end")
    /\ pc' = "report"
    /\ UNCHANGED <<plans, procs, frameIndex, announced, alive, lock, processVars, readerVars,
                   commandVars, viewVars>>

IgnoreAdd ==
    /\ plans >= MaxMonitors
    /\ UNCHANGED <<mainVars, processVars>>

\* Planning the virtual monitor raises, or, once it is planned, so does
\* sending the new format.
AddFails ==
    /\ plans < MaxMonitors
    /\ plans' \in {plans, plans + 1}
    /\ pc' = "shutdown"
    /\ UNCHANGED <<procs, frameIndex, announced, processVars>>

AddStream ==
    /\ plans < MaxMonitors
    /\ plans' = plans + 1
    /\ announced' = plans + 1
    /\ Launch(plans) \/ LaunchFails

AddMonitor ==
    /\ Take("cmd") /\ Head(outQ).cmd = "AddMonitor"
    /\ IgnoreAdd \/ AddFails \/ AddStream
    /\ UNCHANGED <<alive, lock, readerVars, commandVars, viewVars>>

IgnoreRemove ==
    /\ plans <= 1
    /\ UNCHANGED <<mainVars, running, pipe, viewVars>>

\* Fault: frame_index keeps the entry of the monitor that goes.
FaultPopLists == procs' = Front(procs) /\ UNCHANGED frameIndex
\* Fault: the first entry goes, which is that of a monitor that stays.
FaultPopFirst == procs' = Front(procs) /\ frameIndex' = Tail(frameIndex)
PopLists == procs' = Front(procs) /\ frameIndex' = Front(frameIndex)

KillLast == Die({Last(procs)})

\* The headset has no decoder for a monitor beyond the stream count.
GiveUpDecoder(i) ==
    /\ fed' = [fed EXCEPT ![i] = 0]
    /\ broken' = [broken EXCEPT ![i] = FALSE]
    /\ late' = [late EXCEPT ![i] = FALSE]

\* The last monitor goes: its encoder is killed, its plan torn down and the
\* new format sent.  Each of the last two may raise.
DropLast ==
    /\ plans > 1
    /\ plans' = plans - 1
    /\ PopLists
    /\ KillLast
    /\ GiveUpDecoder(plans - 1)
    /\ \/ announced' = plans - 1 /\ UNCHANGED pc
       \/ pc' = "shutdown" /\ UNCHANGED announced

RemoveMonitor ==
    /\ Take("cmd") /\ Head(outQ).cmd = "RemoveMonitor"
    /\ IgnoreRemove \/ DropLast
    /\ UNCHANGED <<alive, lock, started, kind, index, readerVars, commandVars>>

\* _report_encoder_exits reads the stderr of every ffmpeg to its end, which
\* comes when that ffmpeg exits.
IsFfmpeg(e) == kind[e] \in {"libx264", "h264_vaapi"}

Report ==
    /\ pc = "report"
    /\ \A i \in DOMAIN procs : IsFfmpeg(procs[i]) => ~running[procs[i]]
    /\ pc' = "shutdown"
    /\ UNCHANGED <<plans, procs, frameIndex, announced, outQ, alive, lock, processVars,
                   readerVars, commandVars, viewVars>>

\* shutdown: unplug and poison the command queue, kill the encoders, tear the
\* plans down.
Shutdown ==
    /\ pc = "shutdown"
    /\ plugged' = FALSE
    /\ commands' = IF plugged THEN Append(commands, "none") ELSE commands
    /\ Die(ToSet(procs))
    /\ pc' = "done"
    /\ UNCHANGED <<plans, procs, frameIndex, announced, outQ, alive, lock, started, kind,
                   index, readerVars, pressed, forwarder, forwarding, viewVars>>

MainStep ==
    \/ Setup \/ StartConfigured \/ Register
    \/ HandleUnit \/ HandleEnd \/ AddMonitor \/ RemoveMonitor
    \/ Report \/ Shutdown

----------------------------------------------------------------------------
(* The reader threads.                                                     *)

\* What e produces can be read while it runs; when it has died, a pipe still
\* holds what it wrote before.
HasOutput(e) == running[e] \/ pipe[e] > 0

\* DropGate.offer drops a unit when out_q is full, and then every delta up to
\* the next keyframe.
\* Fault: the gate does not wait for a keyframe after a loss.
FaultDropped(e, sync) == ~Room
Dropped(e, sync) == (desynced[e] /\ ~sync) \/ ~Room

\* The next unit of e, a keyframe or not (key), and whether the reader takes it
\* for one (sync).  It looks for parameter sets, which in the stream of
\* h264_vaapi end up in the unit before the keyframe, but for those of the first
\* unit of all, which are put back, or lost when the first read ends within that
\* unit.  The first unit is a keyframe.
Splits(e, key, sync) ==
    /\ reader[e] = "first" => key
    /\ \/ /\ kind[e] # "h264_vaapi"
          /\ sync = key
          /\ UNCHANGED due
       \/ /\ kind[e] = "h264_vaapi"
          /\ reader[e] = "reading" => key = due[e]
          /\ \E next \in BOOLEAN :
                /\ due' = [due EXCEPT ![e] = next]
                /\ next => sync
                /\ sync => next \/ reader[e] = "first"

\* One access unit of e passes the gate, or does not.
Offer(e, key, sync) ==
    LET dropped == Dropped(e, sync)
    IN /\ reader[e] \in {"first", "reading"}
       /\ HasOutput(e)
       /\ Splits(e, key, sync)
       /\ reader' = [reader EXCEPT ![e] = "reading"]
       /\ desynced' = [desynced EXCEPT ![e] = dropped]
       /\ missed' = [missed EXCEPT ![e] = dropped]
       /\ outQ' = IF dropped THEN outQ ELSE Append(outQ, Unit(e, key, ~missed[e]))
       /\ pipe' = [pipe EXCEPT ![e] = IF running[e] THEN @ ELSE @ - 1]
       /\ UNCHANGED <<mainVars, alive, lock, started, running, kind, index, commandVars, viewVars>>

\* Fault: the thread returns without its finally clause.
FaultStreamEnds(e) ==
    /\ reader[e] \in {"first", "reading"}
    /\ ~HasOutput(e)
    /\ reader' = [reader EXCEPT ![e] = "ended"]
    /\ UNCHANGED <<mainVars, outQ, alive, lock, processVars, desynced, due, missed, commandVars, viewVars>>

\* The stream of e ends: end of file on the pipe, or next_packet raises.
StreamEnds(e) ==
    /\ reader[e] \in {"first", "reading"}
    /\ ~HasOutput(e)
    /\ reader' = [reader EXCEPT ![e] = "finally"]
    /\ UNCHANGED <<mainVars, outQ, alive, lock, processVars, desynced, due, missed, commandVars, viewVars>>

\* The finally clause.  The reader that counts alive down to 0 goes on to put
\* the sentinel and keeps the lock meanwhile.
Finish(e) ==
    /\ reader[e] = "finally"
    /\ lock = 0
    /\ alive' = alive - 1
    /\ \/ /\ alive = 1
          /\ lock' = e
          /\ reader' = [reader EXCEPT ![e] = "put"]
       \/ /\ alive > 1
          /\ reader' = [reader EXCEPT ![e] = "ended"]
          /\ UNCHANGED lock
    /\ UNCHANGED <<mainVars, outQ, processVars, desynced, due, missed, commandVars, viewVars>>

\* out_q.put(None), which waits for room and then releases the lock.
PutEnd(e) ==
    /\ reader[e] = "put"
    /\ Room
    /\ outQ' = Append(outQ, End)
    /\ lock' = 0
    /\ reader' = [reader EXCEPT ![e] = "ended"]
    /\ UNCHANGED <<mainVars, alive, processVars, desynced, due, missed, commandVars, viewVars>>

ReaderStep(e) ==
    \/ \E key, sync \in BOOLEAN : Offer(e, key, sync)
    \/ StreamEnds(e) \/ Finish(e) \/ PutEnd(e)

----------------------------------------------------------------------------
(* Everything else: the encoder processes, the control channel and the     *)
(* forwarding thread.                                                      *)

\* e exits by itself, at any time.
EncoderExits(e) ==
    /\ running[e]
    /\ Die({e})
    /\ UNCHANGED <<mainVars, outQ, alive, lock, started, kind, index, readerVars, commandVars, viewVars>>

\* The control channel puts a command of the headset into
\* session.video_commands when it is there.  It reads the attribute first and
\* puts later; when Shutdown comes in between, the command lands behind the
\* poison, where nobody reads it, as if it had not been sent.
Press(c) ==
    /\ pressed < MaxCommands
    /\ plugged
    /\ pressed' = pressed + 1
    /\ commands' = Append(commands, c)
    /\ UNCHANGED <<mainVars, outQ, alive, lock, processVars, readerVars, plugged, forwarder,
                   forwarding, viewVars>>

\* forward: take a command, or the poison that ends the thread.
Fetch ==
    /\ forwarder = "get"
    /\ commands # <<>>
    /\ commands' = Tail(commands)
    /\ \/ /\ Head(commands) = "none"
          /\ forwarder' = "ended"
          /\ UNCHANGED forwarding
       \/ /\ Head(commands) # "none"
          /\ forwarder' = "put"
          /\ forwarding' = Head(commands)
    /\ UNCHANGED <<mainVars, outQ, alive, lock, processVars, readerVars, plugged, pressed, viewVars>>

\* forward: the blocking put.  The next turn of its loop reads
\* session.video_commands again, which fails when that has become None.
Forward ==
    /\ forwarder = "put"
    /\ Room
    /\ outQ' = Append(outQ, Command(forwarding))
    /\ forwarder' = IF plugged THEN "get" ELSE "ended"
    /\ forwarding' = "none"
    /\ UNCHANGED <<mainVars, alive, lock, processVars, readerVars, plugged, commands, pressed, viewVars>>

ForwarderStep == Fetch \/ Forward

Next ==
    \/ MainStep
    \/ \E e \in Ids : ReaderStep(e) \/ EncoderExits(e)
    \/ \E c \in Commands : Press(c)
    \/ ForwarderStep

\* The operating system runs every thread that can run.  Nothing makes an
\* encoder exit or the headset send a command.
Fairness ==
    /\ WF_vars(MainStep)
    /\ \A e \in Ids : WF_vars(ReaderStep(e))
    /\ WF_vars(ForwarderStep)

Spec     == Init /\ [][Next]_vars
FairSpec == Spec /\ Fairness

----------------------------------------------------------------------------
(* Properties.                                                             *)

MainTypes ==
    /\ pc \in MainStates
    /\ plans \in 0..MaxMonitors
    /\ procs \in Seq(Ids)
    /\ frameIndex \in Seq(0..FrameCap)
    /\ announced \in 0..MaxMonitors

QueueTypes ==
    /\ outQ \in Seq(Items)
    /\ Len(outQ) <= QueueSize
    /\ alive \in Nat
    /\ lock \in 0..MaxEncoders

ProcessTypes ==
    /\ started \in 0..MaxEncoders
    /\ running \in [Ids -> BOOLEAN]
    /\ kind \in [Ids -> Kinds \cup {"none"}]
    /\ index \in [Ids -> Monitor]
    /\ pipe \in [Ids -> 0..PipeUnits]

ReaderTypes ==
    /\ reader \in [Ids -> ReaderStates]
    /\ desynced \in [Ids -> BOOLEAN]
    /\ due \in [Ids -> BOOLEAN]
    /\ missed \in [Ids -> BOOLEAN]

CommandTypes ==
    /\ plugged \in BOOLEAN
    /\ commands \in Seq(Commands \cup {"none"})
    /\ pressed \in 0..MaxCommands
    /\ forwarder \in ForwarderStates
    /\ forwarding \in Commands \cup {"none"}
    /\ forwarder = "put" => forwarding \in Commands

ViewTypes ==
    /\ fed \in [Monitor -> 0..MaxEncoders]
    /\ broken \in [Monitor -> BOOLEAN]
    /\ late \in [Monitor -> BOOLEAN]

\* The type invariant; out_q never holds more than video_queue_size items.
TypeOK == MainTypes /\ QueueTypes /\ ProcessTypes /\ ReaderTypes /\ CommandTypes /\ ViewTypes

\* alive[0] counts the readers that have been registered and have not passed
\* their finally clause: the count on which the end of the session hangs.
Reading == { e \in Ids : reader[e] \in {"first", "reading", "finally"} }
AliveCountsReaders == alive = Cardinality(Reading)

\* Whenever the loop handles an item, the three lists agree with each other
\* and with the format the headset was last sent, and the reader of every
\* monitor labels its units with that monitor's place in the lists.
StreamsAligned ==
    pc = "get" =>
        /\ plans \in 1..MaxMonitors
        /\ announced = plans
        /\ Len(procs) = plans
        /\ Len(frameIndex) = plans
        /\ \A i \in 1..plans : index[procs[i]] = i - 1

\* A monitor being shown gets a delta without the unit it refers to only when
\* its encoder is an h264_vaapi, whose keyframes the reader mistakes, or when an
\* encoder that is gone was sent in its place since its last keyframe.  A full
\* queue, other monitors and commands never cost a reference, because the gate
\* sees every loss; what a late unit costs comes back with the next keyframe.
ShownReferencesIntact ==
    \A i \in 1..Len(procs) :
        broken[i - 1] => late[i - 1] \/ kind[procs[i]] = "h264_vaapi"

\* A session that shut down leaves no encoder running, whatever was added,
\* removed or failed before.  (A part of KeepsPromise.)
NothingRunsWhenDone == pc = "done" => \A e \in Ids : ~running[e]

\* The session as MonitorStreams sees it.  A monitor that is being added is
\* there from the moment its encoder is started.
Stage ==
    CASE pc \in {"setup", "start"} -> "opening"
      [] pc = "register" -> IF SettingUp THEN "opening" ELSE "open"
      [] pc = "get" -> "open"
      [] pc \in {"report", "shutdown", "dead"} -> "over"
      [] pc = "done" -> "closed"

\* The decoders that cannot rely on their references.
Lost == [i \in Monitor |-> \/ broken[i] \/ late[i]
                           \/ i < Len(procs) /\ kind[procs[i + 1]] = "h264_vaapi"]

Promise == INSTANCE MonitorStreams WITH
    Streams <- Ids, stage <- Stage, shown <- procs, frames <- frameIndex,
    begun <- 1..started, live <- {e \in Ids : running[e]}, place <- index, lost <- Lost

\* What the headset is told and sent, and what runs, changes only as
\* MonitorStreams promises: no step of any thread counts, labels, announces or
\* sends otherwise, and nothing is sent when the loop has been left.
KeepsPromise == Promise!Spec

\* When every encoder of the session has exited, the session ends.
SessionEnds ==
    (pc = "get" /\ \A i \in DOMAIN procs : ~running[procs[i]]) ~> (pc = "done")

\* The Add Monitor button creates the display: its handling ends.
AddCompletes == (pc = "register") ~> (pc # "register")

=============================================================================
