---------------------------- MODULE MonitorPlans ----------------------------
(***************************************************************************)
(* The virtual monitors of all video sessions of the process.  A session   *)
(* plans a virtual monitor (video/monitors.py) by forcing a free connector *)
(* on and extending the desktop onto it (display/virtual_output.py), or,   *)
(* when that raises an error the planner catches, by starting an Xvfb      *)
(* (display/virtual_display.py).  virtual_output works under a lock, on    *)
(* state shared by all sessions; virtual_display has no lock.              *)
(*                                                                         *)
(* Every command the code runs may succeed, return an error code, fail to  *)
(* start (OSError) or exceed its 30 seconds (TimeoutExpired).  The first   *)
(* monitor of a session is the primary output, whose plan holds nothing;   *)
(* plans lists the others.  The desktop is x11.  The connectors are the    *)
(* numbers 1..PoolSize in the order of VIRTUAL_OUTPUT_POOL.                *)
(***************************************************************************)
EXTENDS Naturals, Sequences, SequencesExt, FiniteSets

CONSTANTS
    Sessions,    \* the video sessions there ever are
    PoolSize,    \* len(VIRTUAL_OUTPUT_POOL)
    Configured,  \* virtual monitors in config.video.monitors
    MaxVirtual,  \* MAX_MONITORS - 1
    MaxAdds,     \* bound: monitors planned by all sessions together
    MaxDisplay   \* bound: display numbers tried

NoOne == "no one"

ASSUME PlansAssumption ==
    /\ NoOne \notin Sessions
    /\ PoolSize \in Nat
    /\ Configured \in Nat /\ MaxVirtual \in Nat /\ Configured <= MaxVirtual
    /\ MaxAdds \in Nat
    /\ MaxDisplay \in Nat \ {0}

VARIABLES
    phase,    \* phase[s]: where session s is in its life
    pc,       \* pc[s]: what it is waiting for
    plans,    \* plans[s]: self.plans without the primary output
    conn,     \* conn[s]: the connector it is forcing on or letting go
    edge,     \* edge[s]: the right edge add() measured
    num,      \* num[s]: the display number start() chose
    lock,     \* virtual_output._LOCK: its holder, or NoOne
    inUse,    \* virtual_output._in_use
    slot,     \* slot[c]: where the forced output c is on the desktop, in screens
              \* from the left, the panel's being the first; None when c shows
              \* nothing
    forced,   \* the connectors whose status is forced on
    sockets,  \* the numbers with a socket in /tmp/.X11-unix
    server,   \* server[n]: the session whose Xvfb runs as display n, or NoOne
    adds,     \* monitors planned so far
    obeyed,   \* the forced outputs that xrandr put where add() asked
    failed    \* a command has failed so far

sessionVars == <<phase, pc, plans>>
outputVars  == <<lock, inUse, slot, forced, obeyed>>
displayVars == <<num, sockets, server>>
vars == <<sessionVars, conn, edge, outputVars, displayVars, adds, failed>>

Connectors == 1..PoolSize
Displays   == 1..MaxDisplay
None       == 0
Panel      == 1

\* What a plan holds: its "vout" or its "vd".
Output(c)  == [vout |-> c, vd |-> None]
Display(n) == [vout |-> None, vd |-> n]
Plan       == { Output(c) : c \in Connectors } \cup { Display(n) : n \in Displays }

Least(S) == CHOOSE x \in S : \A y \in S : x <= y

Init ==
    /\ phase = [s \in Sessions |-> "setup"]
    /\ pc    = [s \in Sessions |-> "idle"]
    /\ plans = [s \in Sessions |-> <<>>]
    /\ conn  = [s \in Sessions |-> None]
    /\ edge  = [s \in Sessions |-> 0]
    /\ num   = [s \in Sessions |-> None]
    /\ lock = NoOne /\ inUse = {} /\ forced = {} /\ obeyed = {}
    /\ slot = [c \in Connectors |-> None]
    /\ sockets = {}
    /\ server = [n \in Displays |-> NoOne]
    /\ adds = 0 /\ failed = FALSE

----------------------------------------------------------------------------
(* How a step of session s ends.                                           *)

Proceed(s, next) ==
    /\ pc' = [pc EXCEPT ![s] = next]
    /\ UNCHANGED <<phase, plans>>

\* An exception nobody in the planner catches.  While run() is still planning
\* the configured monitors, it ends the session without a shutdown; in the
\* loop it leads to the shutdown, and there it skips what is left of it.
Escape(s) ==
    /\ phase' = [phase EXCEPT ![s] = IF @ = "running" THEN "closing" ELSE "gone"]
    /\ pc' = [pc EXCEPT ![s] = "idle"]
    /\ UNCHANGED plans

\* The plan is made and appended.
Planned(s, plan) ==
    /\ plans' = [plans EXCEPT ![s] = Append(@, plan)]
    /\ pc' = [pc EXCEPT ![s] = "idle"]
    /\ UNCHANGED phase

\* Fault: the lock is not waited for.
FaultAcquirable == TRUE
Acquirable == lock = NoOne

\* Fault: the lock is kept.
FaultRelease == UNCHANGED lock
Release == lock' = NoOne

\* A command of add() fails with RuntimeError or OSError: the planner catches
\* it and starts an Xvfb instead.
Fallback(s) ==
    /\ failed' = TRUE
    /\ Release
    /\ Proceed(s, "display")

\* A command of add() exceeds its time: TimeoutExpired is neither of the two.
TimesOut(s) ==
    /\ failed' = TRUE
    /\ Release
    /\ Escape(s)

----------------------------------------------------------------------------
(* virtual_output.add                                                      *)

\* Fault: the number of monitors has no limit.
FaultWantsMonitor(s) ==
    /\ pc[s] = "idle"
    /\ adds < MaxAdds
    /\ \/ phase[s] = "setup" /\ Len(plans[s]) < Configured
       \/ phase[s] = "running"

WantsMonitor(s) ==
    /\ pc[s] = "idle"
    /\ adds < MaxAdds
    /\ \/ phase[s] = "setup" /\ Len(plans[s]) < Configured
       \/ phase[s] = "running" /\ Len(plans[s]) < MaxVirtual

Free == Connectors \ inUse

\* The first x right of everything the desktop shows.
\* Fault: the number of forced outputs is taken for their right edge.
FaultRightEdge == Panel + Cardinality(forced) + 1
RightEdge == Least({ x \in (Panel + 1)..(MaxAdds + 2) : \A c \in forced : slot[c] < x })

\* _connected_right_edge does not look at the return code: what a failing
\* xrandr prints has no output in it, and the right edge is 0, where the panel is.
Measure(s) ==
    \/ edge' = [edge EXCEPT ![s] = RightEdge] /\ UNCHANGED failed
    \/ edge' = [edge EXCEPT ![s] = Panel] /\ failed' = TRUE

\* Taking the lock, choosing a connector and measuring the right edge.
BeginAdd(s) ==
    /\ WantsMonitor(s)
    /\ Acquirable
    /\ adds' = adds + 1
    /\ \/ /\ Free # {}
          /\ lock' = s
          /\ conn' = [conn EXCEPT ![s] = Least(Free)]
          /\ Measure(s)
          /\ Proceed(s, "enable")
       \/ /\ Free = {}
          /\ Proceed(s, "display")
          /\ UNCHANGED <<lock, conn, edge, failed>>
       \/ /\ Free # {}
          /\ Fallback(s) \/ TimesOut(s)
          /\ UNCHANGED <<conn, edge>>
    /\ UNCHANGED <<inUse, slot, forced, obeyed, displayVars>>

\* enable_virtual_monitor.sh forces the connector on and puts its output to
\* the right of the panel.  Killed half way, it may have got that far or not.
Enable(s) ==
    /\ pc[s] = "enable"
    /\ obeyed' = obeyed \ {conn[s]}
    /\ \/ /\ forced' = forced \cup {conn[s]}
          /\ slot' = [slot EXCEPT ![conn[s]] = Panel + 1]
          /\ \/ Proceed(s, "place") /\ UNCHANGED <<lock, failed>>
             \/ TimesOut(s)
       \/ /\ UNCHANGED <<forced, slot>>
          /\ Fallback(s) \/ TimesOut(s)
    /\ UNCHANGED <<conn, edge, inUse, displayVars, adds>>

\* xrandr moves the output to the right edge.  Its return code is not looked
\* at: the output may stay where it is, or show nothing.
Place(s) ==
    /\ pc[s] = "place"
    /\ \/ /\ slot' = [slot EXCEPT ![conn[s]] = edge[s]]
          /\ obeyed' = obeyed \cup {conn[s]}
          /\ Proceed(s, "query")
          /\ UNCHANGED <<lock, failed>>
       \/ /\ slot' \in {slot, [slot EXCEPT ![conn[s]] = None]}
          /\ failed' = TRUE
          /\ Proceed(s, "query")
          /\ UNCHANGED <<lock, obeyed>>
       \/ /\ Fallback(s) \/ TimesOut(s)
          /\ UNCHANGED <<slot, obeyed>>
    /\ UNCHANGED <<conn, edge, inUse, forced, displayVars, adds>>

\* The region is read back.  When there is one the connector is the session's.
\* A query that fails, whose return code is not looked at either, finds none.
Query(s) ==
    /\ pc[s] = "query"
    /\ \/ /\ slot[conn[s]] # None
          /\ inUse' = inUse \cup {conn[s]}
          /\ Planned(s, Output(conn[s]))
          /\ Release
          /\ UNCHANGED failed
       \/ /\ \/ slot[conn[s]] = None /\ UNCHANGED failed
             \/ failed' = TRUE
          /\ Proceed(s, "undo")
          /\ UNCHANGED <<inUse, lock>>
       \/ /\ Fallback(s) \/ TimesOut(s)
          /\ UNCHANGED inUse
    /\ UNCHANGED <<conn, edge, slot, forced, obeyed, displayVars, adds>>

\* Fault: the output is switched off and its connector stays forced on.
FaultDisabled(c) ==
    /\ slot' = [slot EXCEPT ![c] = None]
    /\ obeyed' = obeyed \ {c}
    /\ UNCHANGED forced

\* disable_virtual_monitor.sh; its return code is never looked at.
Disabled(c) ==
    /\ forced' = forced \ {c}
    /\ slot' = [slot EXCEPT ![c] = None]
    /\ obeyed' = obeyed \ {c}

\* add() gives a connector up that never showed a region.
Undo(s) ==
    /\ pc[s] = "undo"
    /\ Fallback(s) \/ TimesOut(s)
    /\ Disabled(conn[s]) \/ UNCHANGED <<forced, slot, obeyed>>
    /\ UNCHANGED <<conn, edge, inUse, displayVars, adds>>

----------------------------------------------------------------------------
(* virtual_display.start                                                   *)

\* Choosing a number and starting an Xvfb, which exits at once when another
\* one has that display.  Xvfb or xauth may be missing.
StartDisplay(s) ==
    /\ pc[s] = "display"
    /\ \/ /\ Displays \ sockets # {}
          /\ LET n == Least(Displays \ sockets)
             IN /\ num' = [num EXCEPT ![s] = n]
                /\ server' = [server EXCEPT ![n] = IF @ = NoOne THEN s ELSE @]
          /\ Proceed(s, "socket")
          /\ UNCHANGED failed
       \/ /\ failed' = TRUE
          /\ Escape(s)
          /\ UNCHANGED <<num, server>>
    /\ UNCHANGED <<conn, edge, outputVars, sockets, adds>>

\* An Xvfb that has started opens its socket.
OpenSocket(n) ==
    /\ server[n] # NoOne
    /\ n \notin sockets
    /\ sockets' = sockets \cup {n}
    /\ UNCHANGED <<sessionVars, conn, edge, outputVars, num, server, adds, failed>>

\* The socket has appeared, or five seconds have passed without it.
AwaitSocket(s) ==
    /\ pc[s] = "socket"
    /\ \/ /\ num[s] \in sockets
          /\ Planned(s, Display(num[s]))
          /\ UNCHANGED <<server, failed>>
       \/ /\ num[s] \notin sockets
          /\ server' = [server EXCEPT ![num[s]] = IF @ = s THEN NoOne ELSE @]
          /\ failed' = TRUE
          /\ Escape(s)
    /\ UNCHANGED <<conn, edge, outputVars, num, sockets, adds>>

----------------------------------------------------------------------------
(* monitors.teardown                                                       *)

\* virtual_display.stop kills the Xvfb of the plan.  Its socket stays.
StopDisplay(s, n) ==
    /\ server' = [server EXCEPT ![n] = IF @ = s THEN NoOne ELSE @]
    /\ UNCHANGED <<pc, conn, lock>>

\* virtual_output.remove takes the lock.
BeginRemove(s, c) ==
    /\ Acquirable
    /\ lock' = s
    /\ conn' = [conn EXCEPT ![s] = c]
    /\ pc' = [pc EXCEPT ![s] = "disable"]
    /\ UNCHANGED server

\* The plan at place i of session s leaves its list and is torn down.
Teardown(s, i) ==
    /\ \/ plans[s][i].vd # None /\ StopDisplay(s, plans[s][i].vd)
       \/ plans[s][i].vout # None /\ BeginRemove(s, plans[s][i].vout)
    /\ plans' = [plans EXCEPT ![s] = RemoveAt(@, i)]
    /\ UNCHANGED <<phase, edge, inUse, slot, forced, obeyed, num, sockets, adds, failed>>

\* The disabling script ends, with whatever return code, or it raises: then
\* the connector stays in _in_use and the exception goes up.
Disable(s) ==
    /\ pc[s] = "disable"
    /\ Release
    /\ \/ /\ Disabled(conn[s])
          /\ inUse' = inUse \ {conn[s]}
          /\ Proceed(s, "idle")
          /\ UNCHANGED failed
       \/ /\ UNCHANGED <<forced, slot, obeyed>>
          /\ inUse' = inUse \ {conn[s]}
          /\ Proceed(s, "idle")
          /\ failed' = TRUE
       \/ /\ Disabled(conn[s]) \/ UNCHANGED <<forced, slot, obeyed>>
          /\ Escape(s)
          /\ failed' = TRUE
          /\ UNCHANGED inUse
    /\ UNCHANGED <<conn, edge, displayVars, adds>>

----------------------------------------------------------------------------
(* The life of a session.                                                  *)

\* The configured monitors are planned.  What follows before the try block of
\* run() may still raise.
EnterLoop(s) ==
    /\ phase[s] = "setup" /\ pc[s] = "idle"
    /\ Len(plans[s]) = Configured
    /\ \/ phase' = [phase EXCEPT ![s] = "running"] /\ UNCHANGED failed
       \/ phase' = [phase EXCEPT ![s] = "gone"] /\ failed' = TRUE
    /\ UNCHANGED <<pc, plans, conn, edge, outputVars, displayVars, adds>>

RemoveMonitor(s) ==
    /\ phase[s] = "running" /\ pc[s] = "idle"
    /\ plans[s] # <<>>
    /\ Teardown(s, Len(plans[s]))

\* The loop of run() ends, for whatever reason.
LeaveLoop(s) ==
    /\ phase[s] = "running" /\ pc[s] = "idle"
    /\ phase' = [phase EXCEPT ![s] = "closing"]
    /\ UNCHANGED <<pc, plans, conn, edge, outputVars, displayVars, adds, failed>>

\* Fault: shutdown leaves the plans as they are.
FaultShutdown(s) ==
    /\ phase[s] = "closing" /\ pc[s] = "idle"
    /\ phase' = [phase EXCEPT ![s] = "gone"]
    /\ UNCHANGED <<pc, plans, conn, edge, outputVars, displayVars, adds, failed>>

\* shutdown() tears the plans down from the first to the last.
Shutdown(s) ==
    /\ phase[s] = "closing" /\ pc[s] = "idle"
    /\ \/ /\ plans[s] # <<>>
          /\ Teardown(s, 1)
       \/ /\ plans[s] = <<>>
          /\ phase' = [phase EXCEPT ![s] = "gone"]
          /\ UNCHANGED <<pc, plans, conn, edge, outputVars, displayVars, adds, failed>>

Command(s) == Enable(s) \/ Place(s) \/ Query(s) \/ Undo(s) \/ Disable(s)

Step(s) ==
    \/ BeginAdd(s) \/ Command(s)
    \/ StartDisplay(s) \/ AwaitSocket(s)
    \/ EnterLoop(s) \/ RemoveMonitor(s) \/ LeaveLoop(s) \/ Shutdown(s)

Next ==
    \/ \E s \in Sessions : Step(s)
    \/ \E n \in Displays : OpenSocket(n)

\* Every command ends, if only because its 30 seconds do, and a shutdown
\* that can go on goes on.
Fairness ==
    \A s \in Sessions : /\ WF_vars(Command(s))
                        /\ SF_vars(Shutdown(s))

Spec     == Init /\ [][Next]_vars
FairSpec == Spec /\ Fairness

----------------------------------------------------------------------------
(* Properties.                                                             *)

Phases == {"setup", "running", "closing", "gone"}
Points == {"idle", "enable", "place", "query", "undo", "display", "socket", "disable"}

\* The type invariant.
TypeOK ==
    /\ phase \in [Sessions -> Phases]
    /\ pc \in [Sessions -> Points]
    /\ plans \in [Sessions -> Seq(Plan)]
    /\ \A s \in Sessions : Len(plans[s]) <= MaxVirtual
    /\ conn \in [Sessions -> Connectors \cup {None}]
    /\ edge \in [Sessions -> 0..(MaxAdds + 1)]
    /\ num \in [Sessions -> Displays \cup {None}]
    /\ lock \in Sessions \cup {NoOne}
    /\ inUse \subseteq Connectors /\ forced \subseteq Connectors /\ obeyed \subseteq Connectors
    /\ slot \in [Connectors -> 0..(MaxAdds + 1)]
    /\ sockets \subseteq Displays
    /\ server \in [Displays -> Sessions \cup {NoOne}]
    /\ adds \in 0..MaxAdds
    /\ failed \in BOOLEAN

\* No connector belongs to two monitors, of one session or of two.
ConnectorsExclusive ==
    \A s, t \in Sessions : \A i \in DOMAIN plans[s], j \in DOMAIN plans[t] :
        plans[s][i].vout = plans[t][j].vout /\ plans[s][i].vout # None => s = t /\ i = j

\* The connectors of plans, and of the plan that is being torn down.
Held == (UNION { { plans[s][i].vout : i \in DOMAIN plans[s] } : s \in Sessions }) \ {None}
LettingGo == { conn[s] : s \in { t \in Sessions : pc[t] = "disable" } }
ForcingOn == { conn[s] : s \in { t \in Sessions : pc[t] \in {"place", "query"} } }

\* As long as no command fails, the pool's book-keeping and the hardware agree
\* with the plans: a connector is in use exactly while a plan holds it, and
\* forced on exactly while it is in use or about to be.
PoolAccountsForPlans ==
    ~failed => /\ inUse = Held \cup LettingGo
               /\ forced = inUse \cup ForcingOn

\* When every session is gone and no command failed, the desktop is as it was:
\* nothing is forced on and no Xvfb is left.
AllGivenBack ==
    (~failed /\ \A s \in Sessions : phase[s] = "gone") =>
        forced = {} /\ inUse = {} /\ \A n \in Displays : server[n] = NoOne

\* Two virtual monitors that xrandr put where add() asked cover each other only
\* on the panel, where add() puts them when it could not measure the desktop:
\* never does one that was put to the right of it lie on another, whatever has
\* come and gone in between.
RegionsDisjoint ==
    \A c, d \in Held \cap obeyed : c # d /\ slot[c] # Panel => slot[c] # slot[d]

\* A session that is closing is gone in the end, whatever the other sessions
\* do with the lock meanwhile.
ClosingEnds == \A s \in Sessions : (phase[s] = "closing") ~> (phase[s] = "gone")

=============================================================================
