------------------------ MODULE VideoSession_proofs -------------------------
(***************************************************************************)
(* Theorems about VideoSession, for every value of its constants, and      *)
(* their proofs.                                                           *)
(***************************************************************************)
EXTENDS VideoSession, FiniteSetTheorems, SequenceTheorems, TLAPS

----------------------------------------------------------------------------
(* Items and sequences.                                                    *)

\* What the loop learns from the fields of an item.
LEMMA ItemFields ==
    ASSUME NEW x \in Items
    PROVE  /\ x.what = "unit" => x.enc \in Ids /\ x.key \in BOOLEAN /\ x.follows \in BOOLEAN
           /\ x.what = "cmd" => x.cmd \in Commands
           /\ x.what \in {"unit", "cmd", "end"}
  BY DEF Items

\* What the threads put into out_q are items.
LEMMA NewItems ==
    /\ \A e \in Ids, k \in BOOLEAN, f \in BOOLEAN :
          /\ Unit(e, k, f) \in Items
          /\ Unit(e, k, f).what = "unit" /\ Unit(e, k, f).enc = e
          /\ Unit(e, k, f).key = k /\ Unit(e, k, f).follows = f
    /\ \A c \in Commands : Command(c) \in Items /\ Command(c).what = "cmd"
    /\ End \in Items /\ End.what = "end"
  BY DEF Items, Unit, Command, End

\* Taking the last element off a sequence.
LEMMA FrontType ==
    ASSUME NEW S, NEW s \in Seq(S), s # <<>>
    PROVE  /\ Front(s) \in Seq(S)
           /\ Len(Front(s)) = Len(s) - 1
           /\ \A i \in 1..(Len(s) - 1) : Front(s)[i] = s[i]
           /\ Last(s) \in S
<1>1. Len(s) \in Nat /\ Len(s) >= 1
  OBVIOUS
<1>2. Last(s) \in S
  BY <1>1, ElementOfSeq DEF Last
<1>3. \A i \in 1..(Len(s) - 1) : s[i] \in S
  BY <1>1, ElementOfSeq
<1>4. Front(s) \in Seq(S)
  BY <1>1, <1>3, SubSeqProperties DEF Front
<1>5. Len(Front(s)) = Len(s) - 1
  BY <1>1 DEF Front
<1>6. \A i \in 1..(Len(s) - 1) : Front(s)[i] = s[i]
  BY <1>1 DEF Front
<1> QED
  BY <1>2, <1>4, <1>5, <1>6

\* Taking the first element off out_q.
LEMMA TakeTypes ==
    ASSUME QueueTypes, outQ # <<>>, outQ' = Tail(outQ), UNCHANGED <<alive, lock>>
    PROVE  QueueTypes' /\ Head(outQ) \in Items
<1>1. outQ' \in Seq(Items) /\ Len(outQ') = Len(outQ) - 1 /\ Head(outQ) \in Items
  BY HeadTailProperties DEF QueueTypes
<1> QED
  BY <1>1, ConstantsAssumption DEF QueueTypes

\* Putting an item into out_q when there is room.
LEMMA PutTypes ==
    ASSUME QueueTypes, ConstantsAssumption, NEW x \in Items, Room, outQ' = Append(outQ, x),
           alive' = alive, lock' \in 0..MaxEncoders
    PROVE  QueueTypes'
  BY DEF QueueTypes, Room, ConstantsAssumption

----------------------------------------------------------------------------
(* Type correctness.                                                       *)

\* What typing needs to know of the lists: those the main thread pops are not
\* empty, and they never outgrow the monitors there may be.
Counted ==
    /\ Len(procs) = Len(frameIndex)
    /\ pc \in {"setup", "start"} => SettingUp
    /\ pc \notin {"setup", "start", "register", "dead"} => ~SettingUp
    /\ pc = "setup" => procs = <<>> /\ announced = 0
    /\ pc = "start" => plans = InitialMonitors /\ announced = plans /\ Len(procs) < plans
    /\ pc = "register" => /\ plans \in 1..MaxMonitors
                          /\ announced = plans
                          /\ Len(procs) \in 1..plans
                          /\ SettingUp => plans = InitialMonitors
                          /\ ~SettingUp => Len(procs) = plans
    /\ pc = "get" => plans \in 1..MaxMonitors /\ announced = plans /\ Len(procs) = plans

TypeInv == TypeOK /\ Counted

\* The initial state satisfies the type invariant.
LEMMA TypeInvInit == Init => TypeInv
<1> SUFFICES ASSUME Init PROVE TypeInv
  OBVIOUS
<1> USE ConstantsAssumption DEF Init
<1>1. MainTypes /\ QueueTypes
  BY DEF MainTypes, QueueTypes, MainStates
<1>2. ProcessTypes
  BY DEF ProcessTypes, Monitor
<1>3. ReaderTypes /\ ViewTypes
  BY DEF ReaderTypes, ReaderStates, ViewTypes, Monitor
<1>4. CommandTypes
  <2>1. commands \in Seq(Commands \cup {"none"})
    BY EmptySeq
  <2>2. plugged \in BOOLEAN
    BY Zenon
  <2>3. pressed \in 0..MaxCommands
    OBVIOUS
  <2>4. forwarder \in ForwarderStates /\ forwarder # "put" /\ forwarding \in Commands \cup {"none"}
    BY DEF ForwarderStates
  <2> QED
    BY <2>1, <2>2, <2>3, <2>4, Zenon DEF CommandTypes
<1>5. Counted
  BY DEF Counted, SettingUp
<1> QED
  BY <1>1, <1>2, <1>3, <1>4, <1>5 DEF TypeInv, TypeOK

\* A part of the state an action leaves alone keeps its type.
LEMMA UnchangedTypes ==
    /\ MainTypes /\ UNCHANGED mainVars => MainTypes'
    /\ QueueTypes /\ UNCHANGED <<outQ, alive, lock>> => QueueTypes'
    /\ ProcessTypes /\ UNCHANGED processVars => ProcessTypes'
    /\ ReaderTypes /\ UNCHANGED readerVars => ReaderTypes'
    /\ CommandTypes /\ UNCHANGED commandVars => CommandTypes'
    /\ ViewTypes /\ UNCHANGED viewVars => ViewTypes'
    /\ Counted /\ UNCHANGED <<mainVars, SettingUp>> => Counted'
  BY DEF MainTypes, QueueTypes, ProcessTypes, ReaderTypes, CommandTypes, ViewTypes, Counted,
         SettingUp, mainVars, processVars, readerVars, commandVars, viewVars

\* Starting an encoder for monitor i keeps the types of the processes and of
\* the lists.
LEMMA LaunchTypes ==
    ASSUME TypeInv, NEW i \in Monitor, Launch(i)
    PROVE  /\ ProcessTypes'
           /\ procs' \in Seq(Ids) /\ frameIndex' \in Seq(0..FrameCap)
           /\ Len(procs') = Len(procs) + 1 /\ Len(frameIndex') = Len(frameIndex) + 1
           /\ Last(procs') = started' /\ started' \in Ids
<1> USE ConstantsAssumption DEF TypeInv, TypeOK
<1>1. started' \in Ids /\ started' \in 0..MaxEncoders
  BY DEF Launch, ProcessTypes, Ids
<1>2. procs' \in Seq(Ids) /\ Len(procs') = Len(procs) + 1 /\ Last(procs') = started'
  BY <1>1 DEF Launch, MainTypes, Last
<1>3. frameIndex' \in Seq(0..FrameCap) /\ Len(frameIndex') = Len(frameIndex) + 1
  BY DEF Launch, MainTypes
<1>4. running' \in [Ids -> BOOLEAN] /\ index' \in [Ids -> Monitor] /\ pipe' \in [Ids -> 0..PipeUnits]
  BY <1>1 DEF Launch, ProcessTypes
<1>5. kind' \in [Ids -> Kinds \cup {"none"}]
  BY <1>1 DEF Launch, ProcessTypes
<1> QED
  BY <1>1, <1>2, <1>3, <1>4, <1>5 DEF ProcessTypes

\* When processes end, their states and pipes keep their types.
LEMMA DieTypes ==
    ASSUME ProcessTypes, NEW S, Die(S), UNCHANGED <<started, kind, index>>
    PROVE  ProcessTypes'
  BY DEF Die, ProcessTypes

\* Every step of every thread preserves the type invariant.
LEMMA TypeInvNext == TypeInv /\ [Next]_vars => TypeInv'
<1> SUFFICES ASSUME TypeInv, [Next]_vars PROVE TypeInv'
  OBVIOUS
<1> USE ConstantsAssumption DEF TypeInv, TypeOK
<1>1. CASE Setup
  <2>1. MainTypes' /\ Counted'
    BY <1>1 DEF Setup, MainTypes, MainStates, Counted, SettingUp, commandVars
  <2> QED
    BY <1>1, <2>1, UnchangedTypes DEF Setup
<1>2. CASE StartConfigured
  <2>1. Len(procs) \in Monitor /\ pc = "start"
    BY <1>2 DEF StartConfigured, Counted, Monitor, MainTypes
  <2>2. CASE Launch(Len(procs))
    <3>1. MainTypes' /\ ProcessTypes'
      BY <1>2, <2>1, <2>2, LaunchTypes DEF StartConfigured, Launch, MainTypes, MainStates
    <3>2. Counted'
      BY <1>2, <2>1, <2>2, LaunchTypes
         DEF StartConfigured, Launch, Counted, SettingUp, MainTypes, commandVars
    <3> QED
      BY <1>2, <3>1, <3>2, UnchangedTypes DEF StartConfigured
  <2>3. CASE LaunchFails
    <3>1. MainTypes' /\ Counted'
      BY <1>2, <2>1, <2>3
         DEF StartConfigured, LaunchFails, MainTypes, MainStates, Counted, SettingUp, commandVars
    <3> QED
      BY <1>2, <2>3, <3>1, UnchangedTypes DEF StartConfigured, LaunchFails
  <2> QED
    BY <1>2, <2>2, <2>3 DEF StartConfigured
<1>3. CASE Register
  <2>1. Last(procs) \in Ids
    BY <1>3, FrontType DEF Register, MainTypes, Counted
  <2>2. MainTypes'
    BY <1>3 DEF Register, MainTypes, MainStates
  <2>3. QueueTypes'
    BY <1>3 DEF Register, QueueTypes
  <2>4. ReaderTypes'
    BY <1>3, <2>1 DEF Register, ReaderTypes, ReaderStates
  <2>5. CommandTypes'
    BY <1>3 DEF Register, CommandTypes, ForwarderStates
  <2>6. Counted'
    BY <1>3 DEF Register, Counted, SettingUp, MainTypes
  <2> QED
    BY <1>3, <2>2, <2>3, <2>4, <2>5, <2>6, UnchangedTypes DEF Register
<1>4. CASE HandleUnit
  <2> DEFINE u == Head(outQ)
  <2>1. QueueTypes' /\ u \in Items /\ pc = "get"
    BY <1>4, TakeTypes DEF HandleUnit, Take
  <2>2. u.enc \in Ids /\ u.key \in BOOLEAN /\ u.follows \in BOOLEAN
    BY <1>4, <2>1, ItemFields DEF HandleUnit, Take
  <2>3. CASE Discard(u.enc)
    <3> QED
      BY <1>4, <2>1, <2>3, UnchangedTypes
         DEF HandleUnit, Discard, mainVars, commandVars, SettingUp
  <2>4. CASE Send(u.enc, u.key, u.follows)
    <3>1. ViewTypes'
      BY <2>2, <2>4 DEF Send, ViewTypes, ProcessTypes, Ids
    <3>2. frameIndex' \in Seq(0..FrameCap) /\ Len(frameIndex') = Len(frameIndex)
      <4> DEFINE i == index[u.enc] + 1
      <4>1. i \in 1..Len(frameIndex)
        BY <2>2, <2>4 DEF Send, MainTypes, ProcessTypes, Monitor
      <4>2. frameIndex[i] \in 0..FrameCap
        BY <4>1, ElementOfSeq DEF MainTypes
      <4> QED
        BY <2>4, <4>1, <4>2, ExceptSeq DEF Send, MainTypes
    <3>3. MainTypes' /\ Counted'
      BY <1>4, <2>1, <2>4, <3>2
         DEF HandleUnit, Send, MainTypes, MainStates, Counted, SettingUp, commandVars
    <3> QED
      BY <1>4, <2>1, <3>1, <3>3, UnchangedTypes DEF HandleUnit
  <2>5. CASE SendFails(u.enc)
    <3>1. MainTypes' /\ Counted'
      BY <1>4, <2>1, <2>5
         DEF HandleUnit, SendFails, MainTypes, MainStates, Counted, SettingUp, commandVars
    <3> QED
      BY <1>4, <2>1, <2>5, <3>1, UnchangedTypes DEF HandleUnit, SendFails
  <2> QED
    BY <1>4, <2>3, <2>4, <2>5 DEF HandleUnit
<1>5. CASE HandleEnd
  <2>1. QueueTypes'
    BY <1>5, TakeTypes DEF HandleEnd, Take
  <2>2. MainTypes' /\ Counted'
    BY <1>5 DEF HandleEnd, Take, MainTypes, MainStates, Counted, SettingUp, commandVars
  <2> QED
    BY <1>5, <2>1, <2>2, UnchangedTypes DEF HandleEnd
<1>6. CASE AddMonitor
  <2>1. QueueTypes' /\ pc = "get"
    BY <1>6, TakeTypes DEF AddMonitor, Take
  <2>2. CASE IgnoreAdd
    BY <1>6, <2>1, <2>2, UnchangedTypes DEF AddMonitor, IgnoreAdd, commandVars, SettingUp
  <2>3. CASE AddFails
    <3>1. MainTypes' /\ Counted'
      BY <1>6, <2>1, <2>3
         DEF AddMonitor, AddFails, MainTypes, MainStates, Counted, SettingUp, commandVars
    <3> QED
      BY <1>6, <2>1, <2>3, <3>1, UnchangedTypes DEF AddMonitor, AddFails
  <2>4. CASE AddStream /\ Launch(plans)
    <3>1. plans \in Monitor
      BY <2>1, <2>4 DEF AddStream, MainTypes, Monitor
    <3>2. ProcessTypes' /\ procs' \in Seq(Ids) /\ frameIndex' \in Seq(0..FrameCap)
      BY <2>4, <3>1, LaunchTypes
    <3>3. MainTypes'
      BY <2>4, <3>2 DEF AddStream, Launch, MainTypes, MainStates
    <3>4. Counted'
      BY <1>6, <2>1, <2>4, <3>1, LaunchTypes
         DEF AddMonitor, AddStream, Launch, Counted, SettingUp, MainTypes, commandVars
    <3> QED
      BY <1>6, <2>1, <3>2, <3>3, <3>4, UnchangedTypes DEF AddMonitor
  <2>5. CASE AddStream /\ LaunchFails
    <3>1. MainTypes' /\ Counted'
      BY <1>6, <2>1, <2>5
         DEF AddMonitor, AddStream, LaunchFails, MainTypes, MainStates, Counted, SettingUp, commandVars
    <3> QED
      BY <1>6, <2>1, <2>5, <3>1, UnchangedTypes DEF AddMonitor, LaunchFails
  <2> QED
    BY <1>6, <2>2, <2>3, <2>4, <2>5 DEF AddMonitor, AddStream
<1>7. CASE RemoveMonitor
  <2>1. QueueTypes' /\ pc = "get"
    BY <1>7, TakeTypes DEF RemoveMonitor, Take
  <2>2. CASE IgnoreRemove
    BY <1>7, <2>1, <2>2, UnchangedTypes
       DEF RemoveMonitor, IgnoreRemove, processVars, commandVars, SettingUp
  <2>3. CASE DropLast
    <3>1. procs # <<>> /\ frameIndex # <<>>
      BY <2>1, <2>3 DEF DropLast, Counted
    <3>2. /\ procs' \in Seq(Ids) /\ frameIndex' \in Seq(0..FrameCap)
          /\ Len(procs') = Len(procs) - 1 /\ Len(frameIndex') = Len(frameIndex) - 1
      BY <3>1, <2>3, FrontType DEF DropLast, PopLists, MainTypes
    <3>3. ProcessTypes'
      BY <1>7, <2>3, DieTypes DEF RemoveMonitor, DropLast, KillLast
    <3>4. MainTypes' /\ Counted'
      BY <1>7, <2>1, <2>3, <3>2
         DEF RemoveMonitor, DropLast, MainTypes, MainStates, Counted, SettingUp, commandVars
    <3>5. ViewTypes'
      <4>1. GiveUpDecoder(plans - 1)
        BY <2>3 DEF DropLast
      <4>2. 0 \in 0..MaxEncoders
        OBVIOUS
      <4> QED
        BY <4>1, <4>2 DEF GiveUpDecoder, ViewTypes
    <3> QED
      BY <1>7, <2>1, <3>3, <3>4, <3>5, UnchangedTypes DEF RemoveMonitor
  <2> QED
    BY <1>7, <2>2, <2>3 DEF RemoveMonitor
<1>8. CASE Report
  <2>1. MainTypes' /\ Counted'
    BY <1>8 DEF Report, MainTypes, MainStates, Counted, SettingUp, commandVars
  <2> QED
    BY <1>8, <2>1, UnchangedTypes DEF Report
<1>9. CASE Shutdown
  <2>1. MainTypes' /\ Counted'
    BY <1>9 DEF Shutdown, MainTypes, MainStates, Counted, SettingUp
  <2>2. CommandTypes'
    <3>1. commands' \in Seq(Commands \cup {"none"})
      BY <1>9, AppendProperties DEF Shutdown, CommandTypes
    <3> QED
      BY <1>9, <3>1 DEF Shutdown, CommandTypes
  <2>3. ProcessTypes'
    BY <1>9, DieTypes DEF Shutdown
  <2> QED
    BY <1>9, <2>1, <2>2, <2>3, UnchangedTypes DEF Shutdown
<1>10. ASSUME NEW e \in Ids, NEW key \in BOOLEAN, NEW sync \in BOOLEAN, Offer(e, key, sync)
       PROVE  TypeInv'
  <2>1. Dropped(e, sync) \in BOOLEAN /\ (~missed[e]) \in BOOLEAN
    BY DEF Dropped, Room
  <2>2. QueueTypes'
    <3>1. CASE Dropped(e, sync)
      BY <1>10, <3>1, UnchangedTypes DEF Offer
    <3>2. CASE ~Dropped(e, sync)
      BY <1>10, <2>1, <3>2, NewItems, PutTypes DEF Offer, Dropped, QueueTypes
    <3> QED
      BY <3>1, <3>2
  <2>3. ProcessTypes'
    BY <1>10 DEF Offer, HasOutput, ProcessTypes
  <2>4. ReaderTypes'
    BY <1>10, <2>1 DEF Offer, Splits, ReaderTypes, ReaderStates
  <2> QED
    BY <1>10, <2>2, <2>3, <2>4, UnchangedTypes DEF Offer, commandVars, SettingUp
<1>11. ASSUME NEW e \in Ids, StreamEnds(e) PROVE TypeInv'
  <2>1. ReaderTypes'
    BY <1>11 DEF StreamEnds, ReaderTypes, ReaderStates
  <2> QED
    BY <1>11, <2>1, UnchangedTypes DEF StreamEnds, commandVars, SettingUp
<1>12. ASSUME NEW e \in Ids, Finish(e) PROVE TypeInv'
  <2>1. ReaderTypes'
    BY <1>12 DEF Finish, ReaderTypes, ReaderStates
  <2>2. QueueTypes'
    BY <1>12 DEF Finish, QueueTypes, Ids
  <2> QED
    BY <1>12, <2>1, <2>2, UnchangedTypes DEF Finish, commandVars, SettingUp
<1>13. ASSUME NEW e \in Ids, PutEnd(e) PROVE TypeInv'
  <2>1. ReaderTypes'
    BY <1>13 DEF PutEnd, ReaderTypes, ReaderStates
  <2>2. QueueTypes'
    BY <1>13, NewItems, PutTypes DEF PutEnd
  <2> QED
    BY <1>13, <2>1, <2>2, UnchangedTypes DEF PutEnd, commandVars, SettingUp
<1>14. ASSUME NEW e \in Ids, EncoderExits(e) PROVE TypeInv'
  <2>1. ProcessTypes'
    BY <1>14, DieTypes DEF EncoderExits
  <2> QED
    BY <1>14, <2>1, UnchangedTypes DEF EncoderExits, commandVars, SettingUp
<1>15. ASSUME NEW c \in Commands, Press(c) PROVE TypeInv'
  <2>1. CommandTypes'
    BY <1>15 DEF Press, CommandTypes
  <2> QED
    BY <1>15, <2>1, UnchangedTypes DEF Press, SettingUp
<1>16. CASE Fetch
  <2>1. CommandTypes' /\ SettingUp' = SettingUp
    BY <1>16 DEF Fetch, CommandTypes, ForwarderStates, SettingUp
  <2> QED
    BY <1>16, <2>1, UnchangedTypes DEF Fetch
<1>17. CASE Forward
  <2>1. CommandTypes' /\ SettingUp' = SettingUp
    BY <1>17 DEF Forward, CommandTypes, ForwarderStates, SettingUp
  <2>2. QueueTypes'
    BY <1>17, NewItems, PutTypes DEF Forward, CommandTypes, QueueTypes
  <2> QED
    BY <1>17, <2>1, <2>2, UnchangedTypes DEF Forward
<1>18. CASE UNCHANGED vars
  BY <1>18, UnchangedTypes DEF vars, commandVars, SettingUp
<1> QED
  BY <1>1, <1>2, <1>3, <1>4, <1>5, <1>6, <1>7, <1>8, <1>9, <1>10, <1>11, <1>12, <1>13,
     <1>14, <1>15, <1>16, <1>17, <1>18
     DEF Next, MainStep, ReaderStep, ForwarderStep

\* Every variable of a session keeps its type; out_q never holds more than
\* video_queue_size items.
THEOREM TypeCorrect == Spec => []TypeOK
<1>1. Spec => []TypeInv
  BY TypeInvInit, TypeInvNext, PTL DEF Spec
<1> QED
  BY <1>1, PTL DEF TypeInv

----------------------------------------------------------------------------
(* The lists of the session, its running encoders and the reader count.    *)

\* The encoder at place i of procs was started for monitor i - 1, and no
\* reader has begun before its encoder was registered.
Numbered ==
    /\ \A i \in 1..Len(procs) : procs[i] \in 1..started /\ index[procs[i]] = i - 1
    /\ \A e \in Ids : e > started => reader[e] = "none"
    /\ pc = "register" => reader[Last(procs)] = "none"

\* Whatever runs is in procs, where shutdown finds it.
RunningListed ==
    \A e \in Ids : running[e] => pc # "done" /\ \E i \in 1..Len(procs) : procs[i] = e

ListInv == Numbered /\ RunningListed

\* The initial state has no encoder to list.
LEMMA ListInvInit == Init => ListInv
  BY DEF Init, ListInv, Numbered, RunningListed

\* Steps that leave the lists, the readers and the processes alone, and do not
\* move the main thread to where the lists matter.
LEMMA ListInvUnchanged ==
    ASSUME ListInv, UNCHANGED <<procs, started, index, reader, running>>,
           pc' = pc \/ pc' \in {"get", "report", "shutdown", "dead", "start"}
    PROVE  ListInv'
  BY DEF ListInv, Numbered, RunningListed, Last

\* Steps of a reader that has begun.
LEMMA ListInvReader ==
    ASSUME TypeInv, ListInv, NEW e \in Ids, reader[e] # "none",
           NEW r \in ReaderStates, reader' = [reader EXCEPT ![e] = r],
           UNCHANGED <<pc, procs, started, index, running>>
    PROVE  ListInv'
<1>1. RunningListed'
  BY DEF ListInv, RunningListed
<1>2. \A d \in Ids : d > started' => reader'[d] = "none"
  BY DEF ListInv, Numbered, TypeInv, TypeOK, ReaderTypes
<1>3. \A i \in 1..Len(procs') : procs'[i] \in 1..started' /\ index'[procs'[i]] = i - 1
  BY DEF ListInv, Numbered
<1>4. pc' = "register" => reader'[Last(procs')] = "none"
  <2> SUFFICES ASSUME pc = "register" PROVE reader'[Last(procs)] = "none"
    OBVIOUS
  <2>1. Last(procs) \in Ids /\ Last(procs) # e
    BY FrontType DEF ListInv, Numbered, TypeInv, TypeOK, MainTypes, Counted
  <2> QED
    BY <2>1 DEF ListInv, Numbered, TypeInv, TypeOK, ReaderTypes
<1> QED
  BY <1>1, <1>2, <1>3, <1>4 DEF ListInv, Numbered

\* Starting an encoder puts it behind those that are there.
LEMMA ListInvLaunch ==
    ASSUME TypeInv, ListInv, Launch(Len(procs)), Len(procs) \in Monitor, UNCHANGED reader,
           pc # "done"
    PROVE  ListInv'
<1>1. /\ started' = started + 1 /\ started' \in Ids /\ started \in Nat
      /\ procs' = Append(procs, started') /\ procs \in Seq(Ids) /\ pc' = "register"
  <2>1. started' \in Ids
    BY LaunchTypes
  <2> QED
    BY <2>1, ConstantsAssumption DEF Launch, TypeInv, TypeOK, MainTypes, ProcessTypes
<1>2. /\ Len(procs') = Len(procs) + 1 /\ procs'[Len(procs) + 1] = started'
      /\ \A i \in 1..Len(procs) : procs'[i] = procs[i]
  BY <1>1
<1>3. /\ index'[started'] = Len(procs) /\ running'[started']
      /\ \A e \in Ids : e # started' => index'[e] = index[e] /\ running'[e] = running[e]
  BY <1>1 DEF Launch, TypeInv, TypeOK, ProcessTypes
<1>4. \A i \in 1..Len(procs') : procs'[i] \in 1..started' /\ index'[procs'[i]] = i - 1
  <2> SUFFICES ASSUME NEW i \in 1..Len(procs')
               PROVE  procs'[i] \in 1..started' /\ index'[procs'[i]] = i - 1
    OBVIOUS
  <2>1. CASE i = Len(procs) + 1
    BY <1>1, <1>2, <1>3, <2>1
  <2>2. CASE i \in 1..Len(procs)
    <3>1. procs[i] \in Ids
      BY <1>1, <2>2, ElementOfSeq
    <3> QED
      BY <1>1, <1>2, <1>3, <2>2, <3>1 DEF ListInv, Numbered
  <2> QED
    BY <1>1, <1>2, <2>1, <2>2
<1>5. (\A e \in Ids : e > started' => reader'[e] = "none") /\ reader'[Last(procs')] = "none"
  BY <1>1, <1>2 DEF ListInv, Numbered, Last, Ids
<1>6. RunningListed'
  BY <1>1, <1>2, <1>3 DEF ListInv, RunningListed
<1> QED
  BY <1>4, <1>5, <1>6 DEF ListInv, Numbered

\* Removing the last monitor takes the encoder that is killed off the list.
LEMMA ListInvDropLast ==
    ASSUME TypeInv, ListInv, DropLast, pc = "get", UNCHANGED <<started, index, reader>>
    PROVE  ListInv'
<1>1. procs \in Seq(Ids) /\ procs # <<>> /\ procs' = Front(procs) /\ pc' \in {"get", "shutdown"}
  BY DEF DropLast, PopLists, TypeInv, TypeOK, MainTypes, Counted
<1>2. /\ Len(procs') = Len(procs) - 1
      /\ \A i \in 1..(Len(procs) - 1) : procs'[i] = procs[i]
  BY <1>1, FrontType
<1>3. \A e \in Ids : running'[e] => running[e] /\ e # procs[Len(procs)]
  BY DEF DropLast, KillLast, Die, Last
<1>4. Numbered'
  BY <1>1, <1>2 DEF ListInv, Numbered
<1>5. RunningListed'
  BY <1>1, <1>2, <1>3 DEF ListInv, RunningListed
<1> QED
  BY <1>4, <1>5 DEF ListInv

\* Every step keeps the lists aligned with the plans.
LEMMA ListInvNext == TypeInv /\ ListInv /\ [Next]_vars => ListInv'
<1> SUFFICES ASSUME TypeInv, ListInv, [Next]_vars PROVE ListInv'
  OBVIOUS
<1>1. CASE Setup
  BY <1>1, ListInvUnchanged DEF Setup, processVars, readerVars
<1>2. CASE StartConfigured
  <2>1. CASE Launch(Len(procs))
    <3>1. Len(procs) \in Monitor /\ pc # "done" /\ reader' = reader
      BY <1>2, ConstantsAssumption
         DEF StartConfigured, TypeInv, TypeOK, MainTypes, Counted, Monitor, readerVars
    <3> QED
      BY <2>1, <3>1, ListInvLaunch
  <2>2. CASE LaunchFails
    BY <1>2, <2>2, ListInvUnchanged DEF StartConfigured, LaunchFails, processVars, readerVars
  <2> QED
    BY <1>2, <2>1, <2>2 DEF StartConfigured
<1>3. CASE Register
  <2>1. /\ Last(procs) \in 1..started /\ pc' \in {"start", "get"}
        /\ UNCHANGED <<procs, started, index, running>>
        /\ reader' = [reader EXCEPT ![Last(procs)] = "first"]
    BY <1>3 DEF Register, TypeInv, TypeOK, MainTypes, Counted, ListInv, Numbered, Last, processVars
  <2>2. Numbered'
    BY <2>1 DEF ListInv, Numbered, TypeInv, TypeOK, ReaderTypes, ProcessTypes
  <2>3. RunningListed'
    BY <2>1 DEF ListInv, RunningListed
  <2> QED
    BY <2>2, <2>3 DEF ListInv
<1>4. CASE HandleUnit
  BY <1>4, ListInvUnchanged
     DEF HandleUnit, Take, Discard, Send, SendFails, processVars, readerVars, viewVars
<1>5. CASE HandleEnd
  BY <1>5, ListInvUnchanged DEF HandleEnd, processVars, readerVars
<1>6. CASE AddMonitor
  <2>1. CASE IgnoreAdd \/ AddFails \/ (AddStream /\ LaunchFails)
    BY <1>6, <2>1, ListInvUnchanged
       DEF AddMonitor, Take, IgnoreAdd, AddFails, AddStream, LaunchFails, SettingUp, mainVars,
           processVars, readerVars
  <2>2. CASE AddStream /\ Launch(plans)
    <3>1. Len(procs) = plans /\ plans \in Monitor /\ pc # "done" /\ reader' = reader
      BY <1>6, <2>2, ConstantsAssumption
         DEF AddMonitor, AddStream, Take, TypeInv, TypeOK, MainTypes, Counted, Monitor, readerVars
    <3> QED
      BY <2>2, <3>1, ListInvLaunch
  <2> QED
    BY <1>6, <2>1, <2>2 DEF AddMonitor, AddStream
<1>7. CASE RemoveMonitor
  <2>1. CASE IgnoreRemove
    BY <1>7, <2>1, ListInvUnchanged DEF RemoveMonitor, IgnoreRemove, mainVars, readerVars
  <2>2. CASE DropLast
    BY <1>7, <2>2, ListInvDropLast DEF RemoveMonitor, Take, readerVars
  <2> QED
    BY <1>7, <2>1, <2>2 DEF RemoveMonitor
<1>8. CASE Report
  BY <1>8, ListInvUnchanged DEF Report, processVars, readerVars
<1>9. CASE Shutdown
  <2>1. \A e \in Ids : ~running'[e]
    <3>1. \A e \in Ids : running[e] => e \in ToSet(procs)
      BY DEF ToSet, ListInv, RunningListed, TypeInv, TypeOK, MainTypes
    <3> QED
      BY <1>9, <3>1 DEF Shutdown, Die
  <2>2. Numbered'
    BY <1>9 DEF Shutdown, ListInv, Numbered, readerVars
  <2> QED
    BY <2>1, <2>2 DEF ListInv, RunningListed
<1>10. ASSUME NEW e \in Ids, NEW key \in BOOLEAN, NEW sync \in BOOLEAN, Offer(e, key, sync)
       PROVE  ListInv'
  BY <1>10, ListInvReader DEF Offer, ReaderStates, mainVars
<1>11. ASSUME NEW e \in Ids, StreamEnds(e) PROVE ListInv'
  BY <1>11, ListInvReader DEF StreamEnds, ReaderStates, mainVars, processVars
<1>12. ASSUME NEW e \in Ids, Finish(e) PROVE ListInv'
  BY <1>12, ListInvReader DEF Finish, ReaderStates, mainVars, processVars
<1>13. ASSUME NEW e \in Ids, PutEnd(e) PROVE ListInv'
  BY <1>13, ListInvReader DEF PutEnd, ReaderStates, mainVars, processVars
<1>14. ASSUME NEW e \in Ids, EncoderExits(e) PROVE ListInv'
  <2>1. Numbered'
    BY <1>14 DEF EncoderExits, ListInv, Numbered, mainVars, readerVars
  <2>2. RunningListed'
    BY <1>14 DEF EncoderExits, Die, ListInv, RunningListed, mainVars
  <2> QED
    BY <2>1, <2>2 DEF ListInv
<1>15. ASSUME NEW c \in Commands, Press(c) PROVE ListInv'
  BY <1>15, ListInvUnchanged DEF Press, mainVars, processVars, readerVars
<1>16. CASE ForwarderStep
  BY <1>16, ListInvUnchanged DEF ForwarderStep, Fetch, Forward, mainVars, processVars, readerVars
<1>17. CASE UNCHANGED vars
  BY <1>17, ListInvUnchanged DEF vars, mainVars, processVars, readerVars
<1> QED
  BY <1>1, <1>2, <1>3, <1>4, <1>5, <1>6, <1>7, <1>8, <1>9, <1>10, <1>11, <1>12, <1>13,
     <1>14, <1>15, <1>16, <1>17
     DEF Next, MainStep, ReaderStep

\* The lists stay aligned in every reachable state.
LEMMA ListsInvariant == Spec => [](TypeInv /\ ListInv)
  BY TypeInvInit, TypeInvNext, ListInvInit, ListInvNext, PTL DEF Spec

\* Whenever the loop handles an item, procs, frame_index, plans and the format
\* the headset knows agree, and each reader labels its units with the place of
\* its monitor.
THEOREM ListsAgree == Spec => []StreamsAligned
<1>1. TypeInv /\ ListInv => StreamsAligned
  BY DEF TypeInv, Counted, ListInv, Numbered, StreamsAligned
<1> QED
  BY <1>1, ListsInvariant, PTL

\* However a session that reached its try block ended, no encoder it started
\* survives it.
THEOREM ShutdownKills == Spec => []NothingRunsWhenDone
<1>1. ListInv => NothingRunsWhenDone
  BY DEF ListInv, RunningListed, NothingRunsWhenDone
<1> QED
  BY <1>1, ListsInvariant, PTL

----------------------------------------------------------------------------
(* The reader count.                                                       *)

\* There are finitely many readers, so they can be counted.
LEMMA ReadingFinite == IsFiniteSet(Reading) /\ IsFiniteSet(Reading')
<1>1. IsFiniteSet(Ids)
  BY FS_Interval, ConstantsAssumption DEF Ids
<1> QED
  BY <1>1, FS_Subset DEF Reading

\* Before the first reader is registered the count is 0.
LEMMA AliveInvInit == Init => AliveCountsReaders
<1> SUFFICES ASSUME Init PROVE AliveCountsReaders
  OBVIOUS
<1>1. Reading = {}
  BY DEF Init, Reading
<1> QED
  BY <1>1, FS_EmptySet DEF Init, AliveCountsReaders

\* Steps that neither register nor finish a reader keep the count exact.
LEMMA AliveInvUnchanged ==
    ASSUME AliveCountsReaders, Reading' = Reading, alive' = alive
    PROVE  AliveCountsReaders'
  BY DEF AliveCountsReaders

\* Every step keeps the count exact.
LEMMA AliveInvNext ==
    TypeInv /\ ListInv /\ AliveCountsReaders /\ [Next]_vars => AliveCountsReaders'
<1> SUFFICES ASSUME TypeInv, ListInv, AliveCountsReaders, [Next]_vars
             PROVE  AliveCountsReaders'
  OBVIOUS
<1>1. CASE UNCHANGED <<alive, reader>>
  BY <1>1, AliveInvUnchanged DEF Reading
<1>2. CASE Register
  <2> DEFINE e == Last(procs)
  <2>1. e \in Ids /\ reader[e] = "none" /\ reader' = [reader EXCEPT ![e] = "first"]
        /\ alive' = alive + 1
    BY <1>2, FrontType
       DEF Register, TypeInv, TypeOK, MainTypes, Counted, ListInv, Numbered
  <2>2. Reading' = Reading \cup {e} /\ e \notin Reading
    BY <2>1 DEF Reading, TypeInv, TypeOK, ReaderTypes
  <2> QED
    BY <2>1, <2>2, ReadingFinite, FS_AddElement DEF AliveCountsReaders
<1>3. ASSUME NEW e \in Ids, NEW key \in BOOLEAN, NEW sync \in BOOLEAN, Offer(e, key, sync)
      PROVE  AliveCountsReaders'
  <2>1. Reading' = Reading
    BY <1>3 DEF Offer, Reading, TypeInv, TypeOK, ReaderTypes
  <2> QED
    BY <1>3, <2>1, AliveInvUnchanged DEF Offer
<1>4. ASSUME NEW e \in Ids, StreamEnds(e) PROVE AliveCountsReaders'
  <2>1. Reading' = Reading
    BY <1>4 DEF StreamEnds, Reading, TypeInv, TypeOK, ReaderTypes
  <2> QED
    BY <1>4, <2>1, AliveInvUnchanged DEF StreamEnds
<1>5. ASSUME NEW e \in Ids, Finish(e) PROVE AliveCountsReaders'
  <2>1. e \in Reading /\ Reading' = Reading \ {e} /\ alive' = alive - 1
    BY <1>5 DEF Finish, Reading, TypeInv, TypeOK, ReaderTypes
  <2> QED
    BY <2>1, ReadingFinite, FS_RemoveElement DEF AliveCountsReaders
<1>6. ASSUME NEW e \in Ids, PutEnd(e) PROVE AliveCountsReaders'
  <2>1. Reading' = Reading
    BY <1>6 DEF PutEnd, Reading, TypeInv, TypeOK, ReaderTypes
  <2> QED
    BY <1>6, <2>1, AliveInvUnchanged DEF PutEnd
<1>7. ASSUME NEW e \in Ids, EncoderExits(e) PROVE AliveCountsReaders'
  BY <1>1, <1>7 DEF EncoderExits, readerVars
<1>8. ASSUME NEW c \in Commands, Press(c) PROVE AliveCountsReaders'
  BY <1>1, <1>8 DEF Press, readerVars
<1>9. CASE MainStep /\ ~Register
  BY <1>1, <1>9
     DEF MainStep, Setup, StartConfigured, HandleUnit, HandleEnd, AddMonitor, RemoveMonitor,
         Report, Shutdown, readerVars
<1>10. CASE ForwarderStep \/ UNCHANGED vars
  BY <1>1, <1>10 DEF ForwarderStep, Fetch, Forward, vars, readerVars
<1> QED
  BY <1>2, <1>3, <1>4, <1>5, <1>6, <1>7, <1>8, <1>9, <1>10 DEF Next, ReaderStep

\* alive[0], on whose way down to 0 the end of the session hangs, is at every
\* moment the number of registered readers that have not passed their finally
\* clause.
THEOREM AliveIsExact == Spec => []AliveCountsReaders
  BY TypeInvInit, TypeInvNext, ListInvInit, ListInvNext, AliveInvInit, AliveInvNext, PTL DEF Spec

----------------------------------------------------------------------------
(* Reference chains.  That a delta of a shown monitor finds its reference   *)
(* is not inductive: it has to be said of the units still in out_q, of the  *)
(* one the reader will offer next, and of what each decoder was fed.        *)

IsUnit(x, e) == x.what = "unit" /\ x.enc = e
Serving == pc \in {"setup", "start", "register", "get"}
Shown(e) == \E i \in 1..Len(procs) : procs[i] = e

\* A monitor being shown whose keyframes the reader knows.
Told(e) == Shown(e) /\ kind[e] # "h264_vaapi"

\* Before its first unit passed the gate, e has no unit anywhere.
Unborn ==
    \A e \in Ids : reader[e] \in {"none", "first"} =>
        /\ ~desynced[e]
        /\ \A j \in 1..Len(outQ) : ~IsUnit(outQ[j], e)

\* A delta in out_q has the unit before it in front of it: in out_q, or sent.
QueuedIntact ==
    \A e \in Ids : Serving /\ Told(e) =>
        \A j \in 1..Len(outQ) : IsUnit(outQ[j], e) /\ ~outQ[j].key =>
            /\ outQ[j].follows
            /\ fed[index[e]] = 0 => \E k \in 1..(j - 1) : IsUnit(outQ[k], e)

\* So will the delta that is offered next, when the gate would let it pass.
OfferedIntact ==
    \A e \in Ids : Serving /\ Told(e) /\ reader[e] = "reading" /\ ~desynced[e] =>
        fed[index[e]] # 0 \/ \E k \in 1..Len(outQ) : IsUnit(outQ[k], e)

\* A decoder that no late unit disturbed was fed by its monitor alone.
FedIntact ==
    \A e \in Ids : Told(e) /\ ~late[index[e]] =>
        ~broken[index[e]] /\ fed[index[e]] \in {0, e}

\* A decoder there is no monitor for has been fed nothing.
Unfed ==
    \A i \in Monitor : i >= Len(procs) => fed[i] = 0 /\ ~broken[i] /\ ~late[i]

GateExact  == \A e \in Ids : desynced[e] = missed[e]

IntactInv == GateExact /\ Unborn /\ QueuedIntact /\ OfferedIntact /\ FedIntact /\ Unfed

\* Before the first unit is read nothing has been lost.
LEMMA IntactInvInit == Init => IntactInv
  BY DEF Init, IntactInv, GateExact, Unborn, QueuedIntact, OfferedIntact, FedIntact, Unfed,
         Told, Shown

\* The place of a monitor that is shown.
LEMMA ToldPlace ==
    ASSUME TypeInv, ListInv, NEW e \in Ids, Shown(e)
    PROVE  index[e] \in Monitor /\ index[e] < Len(procs) /\ procs[index[e] + 1] = e
<1>1. PICK i \in 1..Len(procs) : procs[i] = e
  BY DEF Shown
<1>2. index[e] = i - 1 /\ index[e] \in Monitor
  BY <1>1 DEF ListInv, Numbered, TypeInv, TypeOK, ProcessTypes
<1> QED
  BY <1>1, <1>2 DEF TypeInv, TypeOK, MainTypes

\* What a step does to procs and pc at most, as far as the chains care.
CalmStep ==
    /\ Serving' => Serving
    /\ \A e \in Ids : Told(e)' => \/ Told(e) /\ index'[e] = index[e]
                                  \/ reader[e] = "none" /\ index'[e] = Len(procs)

\* What a step does to the readers at most, when no unit is offered.
CalmReaders ==
    \A e \in Ids :
        /\ reader'[e] \in {"none", "first"} => reader[e] \in {"none", "first"}
        /\ reader'[e] = "reading" => reader[e] = "reading"

\* Decoders that are fed nothing, while no monitor goes, keep what they have.
LEMMA ViewKept ==
    ASSUME TypeInv, TypeInv', IntactInv, CalmStep, Len(procs') >= Len(procs), UNCHANGED viewVars
    PROVE  FedIntact' /\ Unfed'
<1>1. Unfed'
  BY DEF IntactInv, Unfed, viewVars, TypeInv, TypeOK, MainTypes, Monitor
<1>2. FedIntact'
  <2> SUFFICES ASSUME NEW e \in Ids, Told(e)', ~late'[index'[e]]
               PROVE  ~broken'[index'[e]] /\ fed'[index'[e]] \in {0, e}
    BY DEF FedIntact
  <2>1. CASE Told(e) /\ index'[e] = index[e]
    BY <2>1 DEF IntactInv, FedIntact, viewVars
  <2>2. CASE index'[e] = Len(procs)
    <3>1. index'[e] \in Monitor /\ index'[e] >= Len(procs)
      BY <2>2 DEF TypeInv, TypeOK, ProcessTypes, MainTypes
    <3> QED
      BY <3>1 DEF IntactInv, Unfed, viewVars
  <2> QED
    BY <2>1, <2>2 DEF CalmStep
<1> QED
  BY <1>1, <1>2

\* Steps that move no unit.
LEMMA IntactInvKeep ==
    ASSUME TypeInv, TypeInv', IntactInv, CalmStep, CalmReaders, Len(procs') >= Len(procs),
           UNCHANGED <<outQ, desynced, missed, viewVars>>
    PROVE  IntactInv'
<1> USE DEF CalmStep, CalmReaders, IntactInv
<1>1. GateExact' /\ Unborn'
  BY DEF GateExact, Unborn
<1>2. QueuedIntact'
  BY DEF QueuedIntact, Unborn, viewVars
<1>3. OfferedIntact'
  BY DEF OfferedIntact, Unborn, viewVars
<1> QED
  BY <1>1, <1>2, <1>3, ViewKept

\* Steps that put something other than a unit into out_q.
LEMMA IntactInvPut ==
    ASSUME TypeInv, TypeInv', IntactInv, CalmStep, CalmReaders, Len(procs') >= Len(procs),
           NEW x \in Items, x.what # "unit", outQ' = Append(outQ, x),
           UNCHANGED <<desynced, missed, viewVars>>
    PROVE  IntactInv'
<1> USE DEF CalmStep, CalmReaders, IntactInv
<1>1. /\ Len(outQ') = Len(outQ) + 1 /\ Len(outQ) \in Nat
      /\ \A j \in 1..Len(outQ) : outQ'[j] = outQ[j]
      /\ outQ'[Len(outQ) + 1].what # "unit"
  BY DEF TypeInv, TypeOK, QueueTypes
<1>2. \A e \in Ids, j \in 1..Len(outQ') :
         IsUnit(outQ'[j], e) => j \in 1..Len(outQ) /\ IsUnit(outQ[j], e)
  BY <1>1 DEF IsUnit
<1>3. GateExact' /\ Unborn'
  BY <1>2 DEF GateExact, Unborn
<1>4. QueuedIntact'
  BY <1>1, <1>2 DEF QueuedIntact, Unborn, viewVars
<1>5. OfferedIntact'
  BY <1>1 DEF OfferedIntact, Unborn, viewVars
<1> QED
  BY <1>3, <1>4, <1>5, ViewKept

\* Steps that take an item from out_q.  A unit of a monitor being shown has to
\* reach its decoder.
LEMMA IntactInvTake ==
    ASSUME TypeInv, IntactInv, CalmStep, CalmReaders, outQ # <<>>, outQ' = Tail(outQ),
           UNCHANGED <<desynced, missed>>, FedIntact', Unfed',
           \A e \in Ids : Serving' /\ Told(e)' /\ Told(e) /\ fed'[index[e]] = 0 =>
                               fed[index[e]] = 0 /\ ~IsUnit(Head(outQ), e)
    PROVE  IntactInv'
<1> USE DEF CalmStep, CalmReaders, IntactInv
<1>1. /\ Len(outQ') = Len(outQ) - 1 /\ Len(outQ) \in Nat /\ Head(outQ) = outQ[1]
      /\ \A j \in 1..Len(outQ') : outQ'[j] = outQ[j + 1] /\ j + 1 \in 2..Len(outQ)
      /\ \A k \in 2..Len(outQ) : outQ[k] = outQ'[k - 1] /\ k - 1 \in 1..Len(outQ')
  BY HeadTailProperties DEF TypeInv, TypeOK, QueueTypes
<1>3. GateExact' /\ Unborn'
  BY <1>1 DEF GateExact, Unborn
<1>4. QueuedIntact'
  <2> SUFFICES ASSUME NEW e \in Ids, Serving', Told(e)', NEW j \in 1..Len(outQ'),
                      IsUnit(outQ'[j], e), ~outQ'[j].key
               PROVE  /\ outQ'[j].follows
                      /\ fed'[index'[e]] = 0 => \E k \in 1..(j - 1) : IsUnit(outQ'[k], e)
    BY DEF QueuedIntact
  <2>1. IsUnit(outQ[j + 1], e) /\ ~outQ[j + 1].key /\ j + 1 \in 1..Len(outQ)
    BY <1>1
  <2>2. Serving /\ Told(e) /\ index'[e] = index[e]
    BY <2>1 DEF Unborn
  <2>3. outQ[j + 1].follows /\ (fed[index[e]] = 0 => \E k \in 1..j : IsUnit(outQ[k], e))
    BY <2>1, <2>2 DEF QueuedIntact
  <2>4. ASSUME fed'[index[e]] = 0 PROVE \E k \in 1..(j - 1) : IsUnit(outQ'[k], e)
    <3>1. ~IsUnit(outQ[1], e) /\ fed[index[e]] = 0
      BY <1>1, <2>2, <2>4
    <3>2. PICK k \in 1..j : IsUnit(outQ[k], e)
      BY <2>3, <3>1
    <3>3. k - 1 \in 1..(j - 1) /\ outQ'[k - 1] = outQ[k]
      BY <1>1, <2>1, <3>1, <3>2
    <3> QED
      BY <3>2, <3>3
  <2> QED
    BY <1>1, <2>2, <2>3, <2>4
<1>5. OfferedIntact'
  <2> SUFFICES ASSUME NEW e \in Ids, Serving', Told(e)', reader'[e] = "reading", ~desynced'[e],
                      fed'[index'[e]] = 0
               PROVE  \E k \in 1..Len(outQ') : IsUnit(outQ'[k], e)
    BY DEF OfferedIntact
  <2>1. Serving /\ Told(e) /\ index'[e] = index[e] /\ reader[e] = "reading" /\ ~desynced[e]
    OBVIOUS
  <2>2. ~IsUnit(outQ[1], e) /\ fed[index[e]] = 0
    BY <1>1, <2>1
  <2>3. PICK k \in 1..Len(outQ) : IsUnit(outQ[k], e)
    BY <2>1, <2>2 DEF OfferedIntact
  <2>4. k - 1 \in 1..Len(outQ') /\ outQ'[k - 1] = outQ[k]
    BY <1>1, <2>2, <2>3
  <2> QED
    BY <2>3, <2>4
<1> QED
  BY <1>3, <1>4, <1>5

\* Sending feeds the decoder of one monitor: as it should, when the unit is of
\* the encoder shown there, or as a late one.
LEMMA FedBySend ==
    ASSUME TypeInv, ListInv, IntactInv, pc = "get", outQ # <<>>, UNCHANGED <<procs, index, kind>>,
           NEW d \in Ids, NEW k \in BOOLEAN, NEW f \in BOOLEAN, Send(d, k, f),
           IsUnit(outQ[1], d), outQ[1].key = k, outQ[1].follows = f
    PROVE  FedIntact' /\ Unfed' /\ \A e \in Ids : Told(e) => (fed'[index[e]] = 0 =>
                                        fed[index[e]] = 0 /\ ~IsUnit(outQ[1], e))
<1> DEFINE i == index[d]
<1>1. /\ i \in Monitor /\ i < Len(procs) /\ d # 0 /\ Len(outQ) \in Nat /\ 1 \in 1..Len(outQ)
      /\ fed \in [Monitor -> 0..MaxEncoders]
      /\ broken \in [Monitor -> BOOLEAN] /\ late \in [Monitor -> BOOLEAN]
  BY DEF Send, TypeInv, TypeOK, ProcessTypes, ViewTypes, QueueTypes, Counted, Ids
<1>2. /\ fed' = [fed EXCEPT ![i] = d]
      /\ broken' = [broken EXCEPT ![i] = ~k /\ (@ \/ fed[i] # d \/ ~f)]
      /\ late' = [late EXCEPT ![i] = procs[i + 1] # d \/ (@ /\ ~k)]
  BY DEF Send
<1>3. /\ fed'[i] = d /\ (broken'[i] <=> ~k /\ (broken[i] \/ fed[i] # d \/ ~f))
      /\ (late'[i] <=> procs[i + 1] # d \/ (late[i] /\ ~k))
      /\ \A m \in Monitor : m # i => fed'[m] = fed[m] /\ broken'[m] = broken[m] /\ late'[m] = late[m]
  BY <1>1, <1>2
<1>4. Unfed'
  BY <1>1, <1>3 DEF IntactInv, Unfed, Monitor, TypeInv, TypeOK, MainTypes
<1>5. FedIntact'
  <2> SUFFICES ASSUME NEW e \in Ids, Told(e), ~late'[index[e]]
               PROVE  ~broken'[index[e]] /\ fed'[index[e]] \in {0, e}
    BY DEF FedIntact, Told, Shown
  <2>1. index[e] \in Monitor /\ procs[index[e] + 1] = e
    BY ToldPlace DEF Told
  <2>2. CASE index[e] # i
    BY <1>3, <2>1, <2>2 DEF IntactInv, FedIntact
  <2>3. CASE index[e] = i
    <3>1. d = e /\ (k \/ ~late[i])
      BY <1>3, <2>1, <2>3
    <3>2. CASE k
      BY <1>3, <2>3, <3>1, <3>2
    <3>3. CASE ~k
      <4>1. ~broken[i] /\ fed[i] \in {0, e}
        BY <2>3, <3>1, <3>3 DEF IntactInv, FedIntact
      <4>2. f /\ fed[i] # 0
        BY <1>1, <2>3, <3>1, <3>3 DEF IntactInv, QueuedIntact, Serving
      <4> QED
        BY <1>3, <2>3, <3>1, <4>1, <4>2
    <3> QED
      BY <3>2, <3>3
  <2> QED
    BY <2>2, <2>3
<1>6. ASSUME NEW e \in Ids, Told(e), fed'[index[e]] = 0
      PROVE  fed[index[e]] = 0 /\ ~IsUnit(outQ[1], e)
  <2>1. index[e] \in Monitor
    BY <1>6, ToldPlace DEF Told
  <2>2. index[e] # i
    BY <1>1, <1>3, <1>6
  <2> QED
    BY <1>3, <1>6, <2>1, <2>2 DEF IsUnit
<1> QED
  BY <1>4, <1>5, <1>6

\* The gate lets a delta pass only behind the unit before it.
LEMMA IntactInvOffer ==
    ASSUME TypeInv, TypeInv', IntactInv, NEW e \in Ids, NEW key \in BOOLEAN, NEW sync \in BOOLEAN,
           Offer(e, key, sync)
    PROVE  IntactInv'
<1> USE DEF IntactInv
<1>0. /\ UNCHANGED <<pc, procs, kind, index, viewVars>>
      /\ reader' = [reader EXCEPT ![e] = "reading"]
      /\ reader[e] \in {"first", "reading"} /\ (reader[e] = "first" => key)
      /\ kind[e] # "h264_vaapi" => sync = key
      /\ reader \in [Ids -> ReaderStates]
      /\ desynced \in [Ids -> BOOLEAN] /\ missed \in [Ids -> BOOLEAN]
  BY DEF Offer, Splits, TypeInv, TypeOK, ReaderTypes, mainVars
<1>a. FedIntact' /\ Unfed'
  BY <1>0 DEF FedIntact, Unfed, Told, Shown, viewVars
<1>1. CASE Dropped(e, sync)
  <2>1. /\ outQ' = outQ
        /\ desynced' = [desynced EXCEPT ![e] = TRUE] /\ missed' = [missed EXCEPT ![e] = TRUE]
    BY <1>1 DEF Offer
  <2>2. GateExact' /\ Unborn'
    BY <1>0, <2>1 DEF GateExact, Unborn
  <2>3. QueuedIntact'
    BY <1>0, <2>1 DEF QueuedIntact, Serving, Told, Shown, viewVars
  <2>4. OfferedIntact'
    BY <1>0, <2>1 DEF OfferedIntact, Serving, Told, Shown, viewVars
  <2> QED
    BY <1>a, <2>2, <2>3, <2>4
<1>2. CASE ~Dropped(e, sync)
  <2> DEFINE n == Len(outQ) + 1
             u == Unit(e, key, ~missed[e])
  <2>1. /\ outQ' = Append(outQ, u)
        /\ desynced' = [desynced EXCEPT ![e] = FALSE] /\ missed' = [missed EXCEPT ![e] = FALSE]
    <3>1. Dropped(e, sync) = FALSE
      BY <1>2 DEF Dropped
    <3> QED
      BY <3>1 DEF Offer
  <2>2. /\ Len(outQ') = n /\ Len(outQ) \in Nat /\ outQ'[n] = u
        /\ \A j \in 1..Len(outQ) : outQ'[j] = outQ[j]
    BY <2>1 DEF TypeInv, TypeOK, QueueTypes
  <2>3. /\ IsUnit(u, e) /\ \A d \in Ids : IsUnit(u, d) => d = e
        /\ u.key = key /\ u.follows = ~missed[e]
    BY DEF IsUnit, Unit
  <2>4. ~key => ~(desynced[e] /\ Told(e)) /\ reader[e] = "reading"
    BY <1>0, <1>2 DEF Dropped, Told
  <2>5. GateExact'
    BY <1>0, <2>1 DEF GateExact
  <2>6. Unborn'
    <3> SUFFICES ASSUME NEW d \in Ids, reader'[d] \in {"none", "first"}
                 PROVE  /\ ~desynced'[d]
                        /\ \A j \in 1..Len(outQ') : ~IsUnit(outQ'[j], d)
      BY DEF Unborn
    <3>1. d # e /\ reader[d] \in {"none", "first"}
      BY <1>0
    <3> QED
      BY <1>0, <2>1, <2>2, <2>3, <3>1 DEF Unborn
  <2>7. QueuedIntact'
    <3> SUFFICES ASSUME NEW d \in Ids, Serving', Told(d)', NEW j \in 1..Len(outQ'),
                        IsUnit(outQ'[j], d), ~outQ'[j].key
                 PROVE  /\ outQ'[j].follows
                        /\ fed[index[d]] = 0 => \E k \in 1..(j - 1) : IsUnit(outQ'[k], d)
      BY <1>0 DEF QueuedIntact, viewVars
    <3>1. Serving /\ Told(d)
      BY <1>0 DEF Serving, Told, Shown
    <3>2. CASE j \in 1..Len(outQ)
      BY <1>0, <2>2, <3>1, <3>2 DEF QueuedIntact
    <3>3. CASE j = n
      <4>1. d = e /\ ~key
        BY <2>2, <2>3, <3>3
      <4>2. u.follows
        BY <2>3, <2>4, <3>1, <4>1 DEF GateExact
      <4>3. fed[index[e]] # 0 \/ \E k \in 1..Len(outQ) : IsUnit(outQ[k], e)
        BY <2>4, <3>1, <4>1 DEF OfferedIntact
      <4> QED
        BY <1>0, <2>2, <3>3, <4>1, <4>2, <4>3
    <3> QED
      BY <2>2, <3>2, <3>3
  <2>8. OfferedIntact'
    <3> SUFFICES ASSUME NEW d \in Ids, Serving', Told(d)', reader'[d] = "reading", ~desynced'[d],
                        fed[index[d]] = 0
                 PROVE  \E k \in 1..Len(outQ') : IsUnit(outQ'[k], d)
      BY <1>0 DEF OfferedIntact, viewVars
    <3>1. CASE d = e
      BY <2>2, <2>3, <3>1
    <3>2. CASE d # e
      <4>1. Serving /\ Told(d) /\ reader[d] = "reading" /\ ~desynced[d]
        BY <1>0, <2>1, <3>2 DEF Serving, Told, Shown
      <4>2. PICK k \in 1..Len(outQ) : IsUnit(outQ[k], d)
        BY <4>1 DEF OfferedIntact
      <4> QED
        BY <2>2, <4>2
    <3> QED
      BY <3>1, <3>2
  <2> QED
    BY <1>a, <2>5, <2>6, <2>7, <2>8
<1> QED
  BY <1>1, <1>2

\* The steps of the main thread change what is shown and served calmly.
LEMMA CalmLaunch ==
    ASSUME TypeInv, ListInv, Launch(Len(procs)), Len(procs) \in Monitor, Serving
    PROVE  CalmStep /\ Len(procs') >= Len(procs)
<1>1. started' \in Ids /\ reader[started'] = "none" /\ started \in Nat
  <2>1. started' \in Ids
    BY LaunchTypes
  <2> QED
    BY <2>1, ConstantsAssumption DEF Launch, ListInv, Numbered, TypeInv, TypeOK, ProcessTypes
<1>2. procs \in Seq(Ids) /\ procs' = Append(procs, started')
  BY DEF Launch, TypeInv, TypeOK, MainTypes
<1>3. \A e \in Ids : Shown(e)' => Shown(e) \/ e = started'
  BY <1>1, <1>2 DEF Shown
<1>4. /\ index' = [index EXCEPT ![started'] = Len(procs)]
      /\ \E k \in Kinds : kind' = [kind EXCEPT ![started'] = k]
      /\ index \in [Ids -> Monitor] /\ DOMAIN kind = Ids
  BY DEF Launch, TypeInv, TypeOK, ProcessTypes
<1>5. \A e \in Ids : Told(e)' => \/ Told(e) /\ index'[e] = index[e]
                                 \/ reader[e] = "none" /\ index'[e] = Len(procs)
  <2> SUFFICES ASSUME NEW e \in Ids, Told(e)'
               PROVE  \/ Told(e) /\ index'[e] = index[e]
                      \/ reader[e] = "none" /\ index'[e] = Len(procs)
    OBVIOUS
  <2>1. CASE e = started'
    BY <1>1, <1>4, <2>1
  <2>2. CASE e # started'
    BY <1>3, <1>4, <2>2 DEF Told
  <2> QED
    BY <2>1, <2>2
<1> QED
  BY <1>2, <1>5 DEF CalmStep

\* Moving the main thread alone is calm.
LEMMA CalmPc ==
    ASSUME TypeInv, procs' = procs, index' = index, kind' = kind, Serving' => Serving
    PROVE  CalmStep /\ Len(procs') >= Len(procs)
  BY DEF CalmStep, Told, Shown, TypeInv, TypeOK, MainTypes

\* Removing the last monitor is calm: it shows and serves fewer encoders, and
\* takes the decoder of that monitor away.
LEMMA CalmDropLast ==
    ASSUME TypeInv, ListInv, IntactInv, DropLast, pc = "get", UNCHANGED <<index, kind>>
    PROVE  /\ CalmStep /\ FedIntact' /\ Unfed'
           /\ \A e \in Ids : Told(e)' => fed'[index[e]] = fed[index[e]]
<1>1. procs \in Seq(Ids) /\ procs # <<>> /\ procs' = Front(procs)
  BY DEF DropLast, PopLists, TypeInv, TypeOK, MainTypes, Counted
<1>2. /\ Len(procs') = Len(procs) - 1 /\ Len(procs) \in Nat
      /\ \A i \in 1..(Len(procs) - 1) : procs'[i] = procs[i]
  BY <1>1, FrontType
<1>3. CalmStep
  BY <1>2 DEF CalmStep, Told, Shown, Serving
<1> DEFINE m == Len(procs) - 1
<1>4. /\ m \in Monitor
      /\ fed' = [fed EXCEPT ![m] = 0]
      /\ broken' = [broken EXCEPT ![m] = FALSE]
      /\ late' = [late EXCEPT ![m] = FALSE]
      /\ fed \in [Monitor -> 0..MaxEncoders]
      /\ broken \in [Monitor -> BOOLEAN] /\ late \in [Monitor -> BOOLEAN]
  <2>1. Len(procs) = plans /\ plans \in 1..MaxMonitors
    BY DEF TypeInv, Counted
  <2> QED
    BY <2>1, ConstantsAssumption DEF DropLast, GiveUpDecoder, Monitor, TypeInv, TypeOK, ViewTypes
<1>5. /\ fed'[m] = 0 /\ ~broken'[m] /\ ~late'[m]
      /\ \A i \in Monitor : i # m => fed'[i] = fed[i] /\ broken'[i] = broken[i] /\ late'[i] = late[i]
  BY <1>4
<1>6. Unfed'
  <2> SUFFICES ASSUME NEW i \in Monitor, i >= Len(procs')
               PROVE  fed'[i] = 0 /\ ~broken'[i] /\ ~late'[i]
    BY DEF Unfed
  <2>1. i = m \/ i >= Len(procs)
    BY <1>2 DEF Monitor
  <2> QED
    BY <1>5, <2>1 DEF IntactInv, Unfed
<1>7. ASSUME NEW e \in Ids, Told(e)' PROVE Told(e) /\ index[e] \in Monitor /\ index[e] # m
  <2>1. PICK i \in 1..Len(procs') : procs'[i] = e
    BY <1>7 DEF Told, Shown
  <2>2. i \in 1..Len(procs) /\ procs[i] = e /\ i # Len(procs)
    BY <1>2, <2>1
  <2>3. index[e] = i - 1 /\ index[e] \in Monitor
    BY <2>2 DEF ListInv, Numbered, TypeInv, TypeOK, ProcessTypes
  <2> QED
    BY <1>2, <1>7, <2>2, <2>3 DEF Told, Shown
<1>8. FedIntact'
  BY <1>5, <1>7 DEF IntactInv, FedIntact
<1> QED
  BY <1>3, <1>5, <1>6, <1>7, <1>8

\* Every step keeps the references of the monitors being shown intact.
LEMMA IntactInvNext ==
    TypeInv /\ TypeInv' /\ ListInv /\ IntactInv /\ [Next]_vars => IntactInv'
<1> SUFFICES ASSUME TypeInv, TypeInv', ListInv, IntactInv, [Next]_vars PROVE IntactInv'
  OBVIOUS
<1>a. UNCHANGED reader => CalmReaders
  BY DEF CalmReaders
<1>1. CASE Setup
  BY <1>1, <1>a, CalmPc, IntactInvKeep DEF Setup, Serving, readerVars, processVars
<1>2. CASE StartConfigured
  <2>1. /\ Serving /\ Len(procs) \in Monitor
        /\ UNCHANGED <<outQ, reader, desynced, missed, viewVars>>
    BY <1>2, ConstantsAssumption
       DEF StartConfigured, Serving, TypeInv, TypeOK, MainTypes, Counted, Monitor, readerVars
  <2>2. CalmStep /\ Len(procs') >= Len(procs)
    BY <1>2, <2>1, CalmLaunch, CalmPc DEF StartConfigured, LaunchFails, processVars
  <2> QED
    BY <1>a, <2>1, <2>2, IntactInvKeep
<1>3. CASE Register
  <2>1. CalmReaders
    BY <1>3 DEF Register, CalmReaders, ListInv, Numbered, TypeInv, TypeOK, ReaderTypes
  <2>2. CalmStep /\ Len(procs') >= Len(procs)
    BY <1>3, CalmPc DEF Register, Serving, processVars
  <2> QED
    BY <1>3, <2>1, <2>2, IntactInvKeep DEF Register
<1>4. CASE HandleUnit
  <2> DEFINE u == Head(outQ)
  <2>1. /\ pc = "get" /\ outQ # <<>> /\ outQ' = Tail(outQ) /\ u = outQ[1] /\ u.what = "unit"
        /\ UNCHANGED <<procs, index, kind, reader, desynced, missed>>
    BY <1>4 DEF HandleUnit, Take, processVars, readerVars
  <2>2. u.enc \in Ids /\ u.key \in BOOLEAN /\ u.follows \in BOOLEAN /\ IsUnit(u, u.enc)
    BY <2>1, ItemFields, HeadTailProperties DEF TypeInv, TypeOK, QueueTypes, IsUnit
  <2>3. CalmStep /\ Len(procs') >= Len(procs)
    BY <1>4, <2>1, CalmPc DEF HandleUnit, Discard, Send, SendFails, Serving
  <2>4. CASE Discard(u.enc)
    <3>1. UNCHANGED viewVars
      BY <2>4 DEF Discard
    <3>2. \A e \in Ids : Told(e) => ~IsUnit(u, e)
      BY <2>1, <2>2, <2>4, ToldPlace DEF Discard, Told, IsUnit, TypeInv, Counted, TypeOK, ProcessTypes,
         MainTypes, Monitor
    <3> QED
      BY <1>a, <2>1, <2>3, <3>1, <3>2, ViewKept, IntactInvTake DEF viewVars
  <2>5. CASE Send(u.enc, u.key, u.follows)
    <3>1. /\ FedIntact' /\ Unfed'
          /\ \A e \in Ids : Told(e) => (fed'[index[e]] = 0 => fed[index[e]] = 0 /\ ~IsUnit(u, e))
      BY <2>1, <2>2, <2>5, FedBySend
    <3> QED
      BY <1>a, <2>1, <2>3, <3>1, IntactInvTake
  <2>6. CASE SendFails(u.enc)
    <3>1. UNCHANGED viewVars /\ ~Serving'
      BY <2>6 DEF SendFails, Serving
    <3> QED
      BY <1>a, <2>1, <2>3, <3>1, ViewKept, IntactInvTake
  <2> QED
    BY <1>4, <2>4, <2>5, <2>6 DEF HandleUnit
<1>5. ASSUME outQ # <<>>, outQ' = Tail(outQ), Head(outQ).what # "unit", CalmStep,
             Len(procs') >= Len(procs), UNCHANGED <<readerVars, viewVars>>
      PROVE  IntactInv'
  BY <1>5, <1>a, ViewKept, IntactInvTake DEF IsUnit, readerVars, viewVars
<1>6. CASE HandleEnd
  BY <1>5, <1>6, CalmPc DEF HandleEnd, Take, Serving, processVars
<1>7. CASE AddMonitor
  <2>1. CASE IgnoreAdd \/ AddFails \/ (AddStream /\ LaunchFails)
    BY <1>5, <1>7, <2>1, CalmPc
       DEF AddMonitor, Take, IgnoreAdd, AddFails, AddStream, LaunchFails, Serving, mainVars,
           processVars
  <2>2. CASE AddStream /\ Launch(plans)
    <3>1. Len(procs) = plans /\ plans \in Monitor /\ Serving
      BY <1>7, <2>2, ConstantsAssumption
         DEF AddMonitor, AddStream, Take, TypeInv, TypeOK, MainTypes, Counted, Monitor, Serving
    <3> QED
      BY <1>5, <1>7, <2>2, <3>1, CalmLaunch DEF AddMonitor, Take
  <2> QED
    BY <1>7, <2>1, <2>2 DEF AddMonitor, AddStream
<1>8. CASE RemoveMonitor
  <2>1. CASE IgnoreRemove
    BY <1>5, <1>8, <2>1, CalmPc DEF RemoveMonitor, Take, IgnoreRemove, Serving, mainVars
  <2>2. CASE DropLast
    <3>1. /\ pc = "get" /\ outQ # <<>> /\ outQ' = Tail(outQ) /\ Head(outQ).what = "cmd"
          /\ UNCHANGED <<index, kind, reader, desynced, missed>>
      BY <1>8 DEF RemoveMonitor, Take, readerVars
    <3>2. /\ CalmStep /\ FedIntact' /\ Unfed'
          /\ \A e \in Ids : Told(e)' => fed'[index[e]] = fed[index[e]]
      BY <2>2, <3>1, CalmDropLast
    <3>3. \A e \in Ids : ~IsUnit(Head(outQ), e)
      BY <3>1 DEF IsUnit
    <3> QED
      BY <1>a, <3>1, <3>2, <3>3, IntactInvTake
  <2> QED
    BY <1>8, <2>1, <2>2 DEF RemoveMonitor
<1>9. CASE Report \/ Shutdown
  BY <1>9, <1>a, CalmPc, IntactInvKeep DEF Report, Shutdown, Serving, readerVars, processVars
<1>10. ASSUME NEW e \in Ids, StreamEnds(e) \/ Finish(e) PROVE IntactInv'
  <2>1. CalmReaders
    BY <1>10 DEF StreamEnds, Finish, CalmReaders, TypeInv, TypeOK, ReaderTypes
  <2> QED
    BY <1>10, <2>1, CalmPc, IntactInvKeep DEF StreamEnds, Finish, Serving, mainVars, processVars
<1>11. ASSUME NEW e \in Ids, PutEnd(e) PROVE IntactInv'
  <2>1. CalmReaders
    BY <1>11 DEF PutEnd, CalmReaders, TypeInv, TypeOK, ReaderTypes
  <2> QED
    BY <1>11, <2>1, CalmPc, IntactInvPut, NewItems DEF PutEnd, Serving, mainVars, processVars
<1>12. CASE Forward
  BY <1>12, <1>a, CalmPc, IntactInvPut, NewItems
     DEF Forward, Serving, mainVars, readerVars, processVars, TypeInv, TypeOK, CommandTypes
<1>13. ASSUME NEW e \in Ids, EncoderExits(e) PROVE IntactInv'
  BY <1>13, <1>a, CalmPc, IntactInvKeep DEF EncoderExits, Serving, mainVars, readerVars
<1>14. ASSUME NEW c \in Commands, Press(c) PROVE IntactInv'
  BY <1>14, <1>a, CalmPc, IntactInvKeep DEF Press, Serving, mainVars, readerVars, processVars
<1>15. CASE Fetch
  BY <1>15, <1>a, CalmPc, IntactInvKeep DEF Fetch, Serving, mainVars, readerVars, processVars
<1>16. CASE UNCHANGED vars
  BY <1>16, <1>a, CalmPc, IntactInvKeep DEF vars, Serving, mainVars, readerVars, processVars
<1> QED
  BY <1>1, <1>2, <1>3, <1>4, <1>6, <1>7, <1>8, <1>9, <1>10, <1>11, <1>12, <1>13, <1>14, <1>15,
     <1>16, IntactInvOffer
     DEF Next, MainStep, ReaderStep, ForwarderStep

\* Whatever the queue drops and however monitors come and go, a monitor being
\* shown is given a delta without its reference only by an h264_vaapi process or
\* while the decoder has not recovered from a unit of an encoder that is gone.
THEOREM ReferencesOfShownMonitors == Spec => []ShownReferencesIntact
<1>1. TypeInv /\ ListInv /\ IntactInv => ShownReferencesIntact
  <2> SUFFICES ASSUME TypeInv, ListInv, IntactInv, NEW i \in 1..Len(procs),
                      ~late[i - 1], kind[procs[i]] # "h264_vaapi"
               PROVE  ~broken[i - 1]
    BY DEF ShownReferencesIntact
  <2>1. procs[i] \in Ids /\ index[procs[i]] = i - 1
    BY ElementOfSeq DEF TypeInv, TypeOK, MainTypes, ListInv, Numbered
  <2>2. Told(procs[i])
    BY DEF Told, Shown
  <2> QED
    BY <2>1, <2>2 DEF IntactInv, FedIntact
<1>2. Spec => [](TypeInv /\ ListInv /\ IntactInv)
  BY TypeInvInit, TypeInvNext, ListInvInit, ListInvNext, IntactInvInit, IntactInvNext, PTL
     DEF Spec
<1> QED
  BY <1>1, <1>2, PTL

----------------------------------------------------------------------------
(* The promise of MonitorStreams.                                          *)

Live == {e \in Ids : running[e]}

\* What the headset is told and sent, and what runs.
Unseen == UNCHANGED <<announced, procs, frameIndex, started, index, running, kind, broken, late>>

\* Then the same decoders are lost.
LEMMA LostKept ==
    ASSUME UNCHANGED <<procs, kind, broken, late>>
    PROVE  Lost' = Lost
  BY DEF Lost

LEMMA PromiseStutters ==
    ASSUME Unseen, Stage' = Stage
    PROVE  UNCHANGED Promise!vars
  BY LostKept DEF Unseen, Promise!vars, Promise!streamVars

\* A step by which the session is left and of which nothing else is seen.
LEMMA PromiseLeft ==
    ASSUME Unseen, Stage \in {"opening", "open"}, Stage' = "over"
    PROVE  Promise!Leave
  BY LostKept DEF Unseen, Promise!Leave, Promise!streamVars

\* Starting an encoder begins a stream.
LEMMA PromiseBegins ==
    ASSUME TypeInv, ListInv, IntactInv, Launch(Len(procs)), Len(procs) \in Monitor,
           UNCHANGED viewVars, Stage' = Stage,
           \/ Stage = "opening" /\ Len(procs) < announced /\ UNCHANGED announced
           \/ Stage = "open" /\ announced < MaxMonitors /\ announced' = announced + 1
    PROVE  \E s \in Ids : Promise!Begin(s)
<1>1. started' = started + 1 /\ started' \in Ids /\ started \in Nat
  <2>1. started' \in Ids
    BY LaunchTypes
  <2> QED
    BY <2>1, ConstantsAssumption DEF Launch, TypeInv, TypeOK, ProcessTypes
<1>2. /\ procs' = Append(procs, started') /\ frameIndex' = Append(frameIndex, 0)
      /\ index' = [index EXCEPT ![started'] = Len(procs)]
  BY DEF Launch
<1>3. started' \notin 1..started /\ 1..started' = (1..started) \cup {started'}
  BY <1>1
<1>4. Live' = Live \cup {started'}
  BY <1>1 DEF Launch, Live, TypeInv, TypeOK, ProcessTypes
<1>5. PICK s \in Ids : s = started'
  BY <1>1
<1>6. Lost' \in {Lost, [Lost EXCEPT ![Len(procs)] = TRUE]}
  <2> DEFINE n == Len(procs)
  <2>1. /\ n \in Nat /\ Len(procs') = n + 1 /\ procs'[n + 1] = started'
        /\ \A i \in 1..n : procs'[i] = procs[i] /\ procs[i] \in Ids /\ procs[i] # started'
    BY <1>1, <1>2, ElementOfSeq DEF ListInv, Numbered, TypeInv, TypeOK, MainTypes
  <2>2. \A e \in Ids : e # started' => kind'[e] = kind[e]
    BY <1>1 DEF Launch, TypeInv, TypeOK, ProcessTypes
  <2>3. broken' = broken /\ late' = late /\ ~broken[n] /\ ~late[n]
    BY DEF viewVars, IntactInv, Unfed
  <2>4. \A i \in Monitor : i # n => Lost'[i] = Lost[i]
    <3> SUFFICES ASSUME NEW i \in Monitor, i # n
                 PROVE  (i < Len(procs') /\ kind'[procs'[i + 1]] = "h264_vaapi")
                           = (i < n /\ kind[procs[i + 1]] = "h264_vaapi")
      BY <2>3 DEF Lost
    <3>1. CASE i < n
      <4>1. i + 1 \in 1..n /\ i < Len(procs')
        BY <2>1, <3>1 DEF Monitor
      <4> QED
        BY <2>1, <2>2, <3>1, <4>1
    <3>2. CASE ~(i < n)
      BY <2>1, <3>2 DEF Monitor
    <3> QED
      BY <3>1, <3>2
  <2>5. Lost[n] = FALSE /\ Lost'[n] \in BOOLEAN
    BY <2>1, <2>3 DEF Lost
  <2>6. Lost = [i \in Monitor |-> Lost[i]] /\ Lost' = [i \in Monitor |-> Lost'[i]]
    BY DEF Lost
  <2>7. CASE Lost'[n] = FALSE
    <3>1. \A i \in Monitor : Lost'[i] = Lost[i]
      BY <2>4, <2>5, <2>7
    <3>2. Lost' = Lost
      BY <2>6, <3>1
    <3> QED
      BY <3>2
  <2>8. CASE Lost'[n] = TRUE
    <3>1. \A i \in Monitor : Lost'[i] = [Lost EXCEPT ![n] = TRUE][i]
      BY <2>4, <2>6, <2>8
    <3>2. Lost' = [Lost EXCEPT ![n] = TRUE]
      BY <2>6, <3>1
    <3> QED
      BY <3>2
  <2> QED
    BY <2>5, <2>7, <2>8
<1>7. Promise!Begin(s)
  BY <1>2, <1>3, <1>4, <1>5, <1>6 DEF Promise!Begin, Live
<1> QED
  BY <1>7

\* Removing the last monitor ends its stream.
LEMMA PromiseShrinks ==
    ASSUME TypeInv, ListInv, DropLast, pc = "get", UNCHANGED <<started, index, kind>>
    PROVE  Promise!Shrink /\ Len(procs) > 1
<1>1. procs' = Front(procs) /\ frameIndex' = Front(frameIndex)
  BY DEF DropLast, PopLists
<1>2. Live' = Live \ {Last(procs)}
  BY DEF DropLast, KillLast, Die, Live
<1>3. Len(procs) > 1
  BY DEF DropLast, TypeInv, Counted
<1>4. Lost' = [Lost EXCEPT ![Len(procs) - 1] = FALSE]
  <2> DEFINE m == Len(procs) - 1
  <2>1. /\ Len(procs) \in Nat /\ Len(procs') = m
        /\ \A i \in 1..m : procs'[i] = procs[i]
    BY <1>1, <1>3, FrontType DEF TypeInv, TypeOK, MainTypes
  <2>2. /\ m \in Monitor /\ kind' = kind
        /\ broken' = [broken EXCEPT ![m] = FALSE] /\ late' = [late EXCEPT ![m] = FALSE]
        /\ broken \in [Monitor -> BOOLEAN] /\ late \in [Monitor -> BOOLEAN]
    <3>1. Len(procs) = plans /\ plans \in 1..MaxMonitors
      BY DEF TypeInv, Counted
    <3> QED
      BY <3>1, ConstantsAssumption
         DEF DropLast, GiveUpDecoder, Monitor, TypeInv, TypeOK, ViewTypes
  <2>3. \A i \in Monitor : Lost'[i] = IF i = m THEN FALSE ELSE Lost[i]
    <3> SUFFICES ASSUME NEW i \in Monitor
                 PROVE  Lost'[i] = IF i = m THEN FALSE ELSE Lost[i]
      OBVIOUS
    <3>1. CASE i = m
      BY <2>1, <2>2, <3>1 DEF Lost
    <3>2. CASE i < m
      <4>1. i + 1 \in 1..m /\ i < Len(procs) /\ i < Len(procs')
        BY <2>1, <3>2 DEF Monitor
      <4> QED
        BY <2>1, <2>2, <3>2, <4>1 DEF Lost
    <3>3. CASE i > m
      BY <2>1, <2>2, <3>3 DEF Lost, Monitor
    <3>4. i = m \/ i < m \/ i > m
      BY <2>1 DEF Monitor
    <3> QED
      BY <3>1, <3>2, <3>3, <3>4, Zenon
  <2>4. Lost = [i \in Monitor |-> Lost[i]] /\ Lost' = [i \in Monitor |-> Lost'[i]]
    BY DEF Lost
  <2> QED
    BY <2>3, <2>4
<1> QED
  BY <1>1, <1>2, <1>3, <1>4 DEF Promise!Shrink, Live, Front, Last, Promise!Front, Promise!Last

\* Sending a unit shows it; that it can be decoded when its monitor is shown is
\* what the reference chains are for.
LEMMA PromiseShows ==
    ASSUME TypeInv, ListInv, IntactInv, IntactInv', HandleUnit,
           NEW e \in Ids, e = Head(outQ).enc, NEW k \in BOOLEAN, NEW f \in BOOLEAN, Send(e, k, f)
    PROVE  Promise!Show(e)
<1>1. /\ pc = "get" /\ outQ # <<>> /\ index[e] < Len(frameIndex)
      /\ frameIndex' = [frameIndex EXCEPT ![index[e] + 1] = IF @ < FrameCap THEN @ + 1 ELSE @]
      /\ UNCHANGED <<pc, announced, procs, started, index, running, forwarder>>
  BY DEF HandleUnit, Take, Send, processVars, commandVars
<1>2. Stage = "open" /\ Stage' = Stage
  BY <1>1 DEF Stage
<1>3. e \in 1..started
  <2>1. IsUnit(outQ[1], e) /\ 1 \in 1..Len(outQ)
    BY <1>1 DEF HandleUnit, Take, IsUnit, TypeInv, TypeOK, QueueTypes
  <2>2. reader[e] # "none"
    BY <2>1 DEF IntactInv, Unborn
  <2> QED
    BY <2>2, ConstantsAssumption DEF ListInv, Numbered, TypeInv, TypeOK, ProcessTypes, Ids
<1>4. Len(procs) = Len(frameIndex)
  BY DEF TypeInv, Counted
<1>5. /\ Lost' = [Lost EXCEPT ![index[e]] = Lost'[index[e]]] /\ Lost'[index[e]] \in BOOLEAN
      /\ e = procs[index[e] + 1] /\ ~Lost[index[e]] => Lost'[index[e]] = FALSE
  <2> DEFINE i == index[e]
  <2>1. /\ i \in Monitor /\ i < Len(procs) /\ i + 1 \in 1..Len(procs)
        /\ broken \in [Monitor -> BOOLEAN] /\ late \in [Monitor -> BOOLEAN]
    <3>1. i \in Monitor
      BY DEF TypeInv, TypeOK, ProcessTypes
    <3>2. i \in Nat /\ i < Len(procs) /\ Len(procs) \in Nat
      BY <1>1, <1>4, <3>1, ConstantsAssumption DEF Monitor, TypeInv, TypeOK, MainTypes
    <3> QED
      BY <3>1, <3>2 DEF TypeInv, TypeOK, ViewTypes
  <2>2. /\ broken' = [broken EXCEPT ![i] = ~k /\ (@ \/ fed[i] # e \/ ~f)]
        /\ late' = [late EXCEPT ![i] = procs[i + 1] # e \/ (@ /\ ~k)]
    BY DEF Send
  <2>3. Lost = [m \in Monitor |-> Lost[m]] /\ Lost' = [m \in Monitor |-> Lost'[m]]
    BY DEF Lost
  <2>4. \A m \in Monitor : m # i => Lost'[m] = Lost[m]
    <3>1. kind' = kind
      BY DEF HandleUnit, processVars
    <3> QED
      BY <1>1, <2>1, <2>2, <3>1 DEF Lost
  <2>5. Lost' = [Lost EXCEPT ![i] = Lost'[i]] /\ Lost'[i] \in BOOLEAN
    <3>1. Lost'[i] \in BOOLEAN
      BY <2>1 DEF Lost
    <3> QED
      BY <2>3, <2>4, <3>1
  <2>6. e = procs[i + 1] /\ ~Lost[i] => Lost'[i] = FALSE
    <3> SUFFICES ASSUME e = procs[i + 1], ~Lost[i] PROVE ~Lost'[i]
      BY <2>5
    <3>1. ~late[i] /\ kind[e] # "h264_vaapi"
      BY <2>1 DEF Lost
    <3>2. ~late'[i]
      BY <2>1, <2>2, <3>1
    <3>3. Told(e)' /\ index'[e] = i /\ kind'[e] # "h264_vaapi"
      BY <1>1, <2>1, <3>1 DEF Told, Shown, HandleUnit, processVars
    <3>4. ~broken'[i]
      BY <3>2, <3>3 DEF IntactInv, FedIntact
    <3> QED
      BY <1>1, <2>1, <3>2, <3>3, <3>4 DEF Lost
  <2> QED
    BY <2>5, <2>6
<1> QED
  BY <1>1, <1>2, <1>3, <1>4, <1>5 DEF Promise!Show

\* The steps of the main thread that end with an encoder started or not.
LEMMA PromiseStarts ==
    ASSUME TypeInv, ListInv, IntactInv, StartConfigured \/ AddMonitor
    PROVE  Promise!Next \/ UNCHANGED Promise!vars
<1> USE DEF TypeInv, TypeOK, Counted
<1>1. UNCHANGED <<viewVars, broken, late, forwarder>>
  BY DEF StartConfigured, AddMonitor, viewVars, commandVars
<1>2. CASE StartConfigured /\ Launch(Len(procs))
  <2>1. /\ Stage = "opening" /\ Stage' = Stage /\ UNCHANGED announced
        /\ Len(procs) < announced /\ Len(procs) \in Monitor
    BY <1>1, <1>2, ConstantsAssumption
       DEF StartConfigured, Launch, Stage, SettingUp, MainTypes, Monitor
  <2> QED
    BY <1>1, <1>2, <2>1, PromiseBegins DEF Promise!Next
<1>3. CASE StartConfigured /\ LaunchFails
  <2>1. Stage = "opening" /\ Stage' = "over" /\ Unseen
    BY <1>1, <1>3 DEF StartConfigured, LaunchFails, Stage, SettingUp, Unseen, processVars
  <2> QED
    BY <2>1, PromiseLeft DEF Promise!Next
<1>4. CASE AddMonitor
  <2>1. pc = "get" /\ Stage = "open" /\ Len(procs) = plans /\ announced = plans /\ ~SettingUp
    BY <1>4 DEF AddMonitor, Take, Stage
  <2>2. CASE IgnoreAdd
    <3>1. Stage' = Stage /\ Unseen
      BY <1>1, <2>2 DEF IgnoreAdd, Stage, SettingUp, Unseen, mainVars, processVars
    <3> QED
      BY <3>1, PromiseStutters
  <2>3. CASE AddFails
    <3>1. Stage' = "over" /\ Unseen
      BY <1>1, <2>3 DEF AddFails, Stage, Unseen, processVars
    <3> QED
      BY <2>1, <3>1, PromiseLeft DEF Promise!Next
  <2>4. CASE AddStream /\ Launch(plans)
    <3>1. /\ Stage' = Stage /\ announced < MaxMonitors /\ announced' = announced + 1
          /\ Len(procs) \in Monitor
      BY <1>1, <2>1, <2>4, ConstantsAssumption
         DEF AddStream, Launch, Stage, SettingUp, MainTypes, Monitor
    <3> QED
      BY <1>1, <2>1, <2>4, <3>1, PromiseBegins DEF Promise!Next
  <2>5. CASE AddStream /\ LaunchFails
    <3>1. /\ Stage' = "over" /\ announced' = announced + 1
          /\ UNCHANGED <<procs, frameIndex, started, index, running, kind>>
      BY <1>1, <2>1, <2>5 DEF AddStream, LaunchFails, Stage, processVars
    <3>2. Promise!Leave
      BY <1>1, <2>1, <3>1, LostKept DEF Promise!Leave, Promise!streamVars
    <3> QED
      BY <3>2 DEF Promise!Next
  <2> QED
    BY <1>4, <2>2, <2>3, <2>4, <2>5 DEF AddMonitor, AddStream
<1> QED
  BY <1>2, <1>3, <1>4 DEF StartConfigured

LEMMA PromiseRemoves ==
    ASSUME TypeInv, ListInv, RemoveMonitor
    PROVE  Promise!Next \/ UNCHANGED Promise!vars
<1>1. /\ pc = "get" /\ Stage = "open" /\ Len(procs) = plans /\ announced = plans
      /\ UNCHANGED <<started, index, kind, forwarder>>
  BY DEF RemoveMonitor, Take, Stage, TypeInv, Counted, commandVars
<1>2. CASE IgnoreRemove
  <2>1. Stage' = Stage /\ Unseen
    BY <1>1, <1>2 DEF IgnoreRemove, Stage, SettingUp, Unseen, mainVars, viewVars
  <2> QED
    BY <2>1, PromiseStutters
<1>3. CASE DropLast
  <2>1. Promise!Shrink /\ Len(procs) > 1
    BY <1>1, <1>3, PromiseShrinks
  <2>2. CASE announced' = plans - 1 /\ UNCHANGED pc
    <3>1. Stage' = Stage
      BY <1>1, <2>2 DEF Stage, SettingUp
    <3>2. Promise!Drop
      BY <1>1, <2>1, <2>2, <3>1 DEF Promise!Drop
    <3> QED
      BY <3>2 DEF Promise!Next
  <2>3. CASE pc' = "shutdown" /\ UNCHANGED announced
    <3>1. Stage' = "over"
      BY <2>3 DEF Stage
    <3>2. Promise!Leave
      BY <1>1, <2>1, <2>3, <3>1 DEF Promise!Leave
    <3> QED
      BY <3>2 DEF Promise!Next
  <2> QED
    BY <1>3, <2>2, <2>3 DEF DropLast
<1> QED
  BY <1>2, <1>3 DEF RemoveMonitor

LEMMA PromiseHandles ==
    ASSUME TypeInv, ListInv, IntactInv, IntactInv', HandleUnit
    PROVE  Promise!Next \/ UNCHANGED Promise!vars
<1> DEFINE u == Head(outQ)
<1>1. /\ pc = "get" /\ Stage = "open" /\ outQ # <<>> /\ u.what = "unit"
      /\ UNCHANGED <<announced, procs, started, index, running, kind, forwarder>>
  BY DEF HandleUnit, Take, Stage, processVars, commandVars
<1>2. u.enc \in Ids /\ u.key \in BOOLEAN /\ u.follows \in BOOLEAN
  BY <1>1, ItemFields, HeadTailProperties DEF TypeInv, TypeOK, QueueTypes
<1>3. CASE Discard(u.enc)
  <2>1. Stage' = Stage /\ Unseen
    BY <1>1, <1>3 DEF Discard, Stage, SettingUp, Unseen, viewVars
  <2> QED
    BY <2>1, PromiseStutters
<1>4. CASE SendFails(u.enc)
  <2>1. Stage' = "over" /\ Unseen
    BY <1>1, <1>4 DEF SendFails, Stage, Unseen, viewVars
  <2> QED
    BY <1>1, <2>1, PromiseLeft DEF Promise!Next
<1>5. CASE Send(u.enc, u.key, u.follows)
  <2>1. PICK e \in Ids : e = u.enc
    BY <1>2
  <2>2. Promise!Show(e)
    BY <1>2, <1>5, <2>1, PromiseShows
  <2> QED
    BY <2>2 DEF Promise!Next
<1> QED
  BY <1>3, <1>4, <1>5 DEF HandleUnit

LEMMA PromiseInit == Init => Promise!Init
<1> SUFFICES ASSUME Init PROVE Promise!Init
  OBVIOUS
<1>1. Stage = "opening" /\ 1..started = {} /\ {e \in Ids : running[e]} = {}
  BY DEF Init, Stage
<1>2. Lost = [i \in Monitor |-> FALSE]
  BY DEF Init, Lost, Monitor
<1> QED
  BY <1>1, <1>2 DEF Init, Promise!Init, Monitor

LEMMA PromiseNext ==
    TypeInv /\ ListInv /\ IntactInv /\ IntactInv' /\ [Next]_vars
        => Promise!Next \/ UNCHANGED Promise!vars
<1> SUFFICES ASSUME TypeInv, ListInv, IntactInv, IntactInv', [Next]_vars
             PROVE  Promise!Next \/ UNCHANGED Promise!vars
  OBVIOUS
<1>1. CASE Setup
  <2>1. /\ pc = "setup" /\ Stage = "opening" /\ announced = 0
        /\ UNCHANGED <<procs, frameIndex, started, index, running, kind, broken, late>>
    BY <1>1 DEF Setup, Stage, processVars, viewVars, TypeInv, Counted
  <2>2. CASE announced' = InitialMonitors /\ pc' = "start"
    <3>1. Stage' = "opening" /\ announced' \in 1..MaxMonitors
      BY <2>2, ConstantsAssumption DEF Stage
    <3>2. Promise!Announce
      BY <2>1, <3>1, LostKept DEF Promise!Announce, Promise!streamVars
    <3> QED
      BY <3>2 DEF Promise!Next
  <2>3. CASE pc' = "dead" /\ UNCHANGED announced
    <3>1. Stage' = "over" /\ Unseen
      BY <2>1, <2>3 DEF Stage, Unseen
    <3> QED
      BY <2>1, <3>1, PromiseLeft DEF Promise!Next
  <2> QED
    BY <1>1, <2>2, <2>3 DEF Setup
<1>2. CASE Register
  <2>1. pc = "register" /\ Unseen /\ announced = plans /\ plans \in 1..MaxMonitors
    BY <1>2 DEF Register, Unseen, processVars, viewVars, TypeInv, Counted
  <2>2. CASE pc' = "start" /\ SettingUp
    <3>1. Stage' = Stage
      BY <2>1, <2>2 DEF Stage
    <3> QED
      BY <2>1, <3>1, PromiseStutters
  <2>3. CASE pc' = "get" /\ SettingUp /\ Len(procs) = plans
    <3>1. Stage = "opening" /\ Stage' = "open"
      BY <2>1, <2>3 DEF Stage
    <3>2. Promise!Open
      BY <2>1, <2>3, <3>1, LostKept DEF Promise!Open, Promise!streamVars, Unseen
    <3> QED
      BY <3>2 DEF Promise!Next
  <2>4. CASE pc' = "get" /\ ~SettingUp
    <3>1. Stage' = Stage
      BY <2>1, <2>4 DEF Stage
    <3> QED
      BY <2>1, <3>1, PromiseStutters
  <2> QED
    BY <1>2, <2>2, <2>3, <2>4 DEF Register
<1>3. CASE HandleEnd
  <2>1. Stage = "open" /\ Stage' = "over" /\ Unseen
    BY <1>3 DEF HandleEnd, Take, Stage, Unseen, processVars, viewVars
  <2> QED
    BY <2>1, PromiseLeft DEF Promise!Next
<1>4. CASE Report
  <2>1. Stage' = Stage /\ Unseen
    BY <1>4 DEF Report, Stage, Unseen, processVars, viewVars
  <2> QED
    BY <2>1, PromiseStutters
<1>5. CASE Shutdown
  <2>1. /\ Stage = "over" /\ Stage' = "closed"
        /\ UNCHANGED <<announced, procs, frameIndex, started, index, kind, broken, late>>
    BY <1>5 DEF Shutdown, Stage, viewVars
  <2>2. {e \in Ids : running[e]}' = {}
    <3>1. \A e \in Ids : running[e] => e \in ToSet(procs)
      BY DEF ToSet, ListInv, RunningListed, TypeInv, TypeOK, MainTypes
    <3> QED
      BY <1>5, <3>1 DEF Shutdown, Die
  <2>3. Promise!Close
    BY <2>1, <2>2, LostKept DEF Promise!Close, Promise!streamVars
  <2> QED
    BY <2>3 DEF Promise!Next
<1>6. ASSUME NEW e \in Ids, ReaderStep(e) PROVE UNCHANGED Promise!vars
  <2>1. Stage' = Stage /\ Unseen
    BY <1>6 DEF ReaderStep, Offer, StreamEnds, Finish, PutEnd, Stage, SettingUp, Unseen,
                mainVars, processVars, viewVars, commandVars
  <2> QED
    BY <2>1, PromiseStutters
<1>7. ASSUME NEW e \in Ids, EncoderExits(e) PROVE Promise!Next
  <2>1. /\ Stage' = Stage
        /\ UNCHANGED <<announced, procs, frameIndex, started, index, kind, broken, late>>
    BY <1>7 DEF EncoderExits, Stage, SettingUp, mainVars, viewVars, commandVars
  <2>2. {d \in Ids : running[d]}' = {d \in Ids : running[d]} \ {e}
    BY <1>7 DEF EncoderExits, Die
  <2>3. Promise!Exit(e)
    BY <2>1, <2>2, LostKept DEF Promise!Exit, Promise!streamVars
  <2> QED
    BY <2>3 DEF Promise!Next
<1>8. CASE ForwarderStep \/ \E c \in Commands : Press(c)
  <2>1. Stage' = Stage /\ Unseen
    BY <1>8 DEF ForwarderStep, Fetch, Forward, Press, Stage, SettingUp, Unseen, mainVars,
                processVars, viewVars
  <2> QED
    BY <2>1, PromiseStutters
<1>9. CASE UNCHANGED vars
  <2>1. Stage' = Stage /\ Unseen
    BY <1>9 DEF vars, Stage, SettingUp, Unseen, mainVars, processVars, viewVars, commandVars
  <2> QED
    BY <2>1, PromiseStutters
<1> QED
  BY <1>1, <1>2, <1>3, <1>4, <1>5, <1>6, <1>7, <1>8, <1>9, PromiseStarts, PromiseRemoves,
     PromiseHandles DEF Next, MainStep

\* The session implements what MonitorStreams promises: in every behaviour
\* monitors come and go at the end of the list, each frame is counted for the
\* monitor its stream began for, decoders of monitors that are shown get what
\* they can decode, and after the loop has been left nothing more is sent.
THEOREM SessionKeepsPromise == Spec => KeepsPromise
<1>1. Spec => [](TypeInv /\ ListInv /\ IntactInv)
  BY TypeInvInit, TypeInvNext, ListInvInit, ListInvNext, IntactInvInit, IntactInvNext, PTL
     DEF Spec
<1>2. Promise!Next \/ UNCHANGED Promise!vars <=> [Promise!Next]_(Promise!vars)
  OBVIOUS
<1> QED
  BY <1>1, <1>2, PromiseInit, PromiseNext, PTL DEF Spec, KeepsPromise, Promise!Spec
=============================================================================
