------------------------ MODULE MonitorPlans_proofs -------------------------
(***************************************************************************)
(* Theorems about MonitorPlans, for every number of sessions, connectors   *)
(* and displays, and their proofs.                                         *)
(***************************************************************************)
EXTENDS MonitorPlans, WellFoundedInduction, SequenceTheorems, TLAPS

----------------------------------------------------------------------------
(* Plans and lists of plans.                                               *)

\* What a plan holds.
LEMMA PlanFields ==
    /\ \A c \in Connectors : Output(c) \in Plan /\ Output(c).vout = c
    /\ \A n \in Displays : Display(n) \in Plan /\ Display(n).vout = None
    /\ \A p \in Plan : p.vout \in Connectors \cup {None} /\ p.vd \in Displays \cup {None}
  BY DEF Plan, Output, Display

\* None is neither a connector nor a display.
LEMMA NoneIsNothing == None \notin Connectors /\ None \notin Displays
  BY PlansAssumption DEF None, Connectors, Displays

\* Removing the element at place i of a sequence shifts those behind it.
LEMMA Removed ==
    ASSUME NEW S, NEW s \in Seq(S), NEW i \in DOMAIN s
    PROVE  /\ RemoveAt(s, i) \in Seq(S)
           /\ Len(RemoveAt(s, i)) = Len(s) - 1
           /\ \A j \in 1..(Len(s) - 1) :
                 RemoveAt(s, i)[j] = s[IF j < i THEN j ELSE j + 1]
<1>1. Len(s) \in Nat /\ i \in 1..Len(s)
  OBVIOUS
<1> DEFINE a == SubSeq(s, 1, i - 1)
           b == SubSeq(s, i + 1, Len(s))
<1>2. /\ a \in Seq(S) /\ Len(a) = i - 1
      /\ \A j \in 1..(i - 1) : a[j] = s[j]
  <2>1. \A j \in 1..(i - 1) : s[j] \in S
    BY <1>1, ElementOfSeq
  <2> QED
    BY <1>1, <2>1, SubSeqProperties
<1>3. /\ b \in Seq(S) /\ Len(b) = Len(s) - i
      /\ \A j \in 1..(Len(s) - i) : b[j] = s[i + j]
  <2>1. \A j \in (i + 1)..Len(s) : s[j] \in S
    BY <1>1, ElementOfSeq
  <2> QED
    BY <1>1, <2>1, SubSeqProperties
<1> HIDE DEF a, b
<1>4. /\ a \o b \in Seq(S) /\ Len(a \o b) = Len(s) - 1
      /\ \A j \in 1..(Len(s) - 1) : (a \o b)[j] = IF j <= i - 1 THEN a[j] ELSE b[j - (i - 1)]
  BY <1>1, <1>2, <1>3, ConcatProperties
<1>5. ASSUME NEW j \in 1..(Len(s) - 1)
      PROVE  (a \o b)[j] = s[IF j < i THEN j ELSE j + 1]
  <2>1. CASE j < i
    BY <1>1, <1>2, <1>4, <2>1
  <2>2. CASE ~(j < i)
    <3>1. j - (i - 1) \in 1..(Len(s) - i) /\ i + (j - (i - 1)) = j + 1
      BY <1>1, <2>2
    <3> QED
      BY <1>1, <1>3, <1>4, <2>2, <3>1
  <2> QED
    BY <2>1, <2>2
<1> QED
  BY <1>4, <1>5 DEF RemoveAt, a, b

\* The smallest of a set of numbers is one of them and not above any.
LEMMA LeastIs ==
    ASSUME NEW S \in SUBSET Nat, S # {}
    PROVE  Least(S) \in S /\ \A y \in S : Least(S) <= y
<1> DEFINE Smaller == { p \in Nat \X Nat : p[1] < p[2] }
<1>1. IsWellFoundedOn(Smaller, Nat)
  BY NatLessThanWellFounded DEF OpToRel
<1>2. \A x, y \in Nat : x < y => <<x, y>> \in Smaller
  OBVIOUS
<1> HIDE DEF Smaller
<1>3. PICK x \in S : \A y \in S : ~(<<y, x>> \in Smaller)
  BY <1>1, WFMin
<1>4. x \in Nat /\ \A y \in S : y \in Nat /\ ~(y < x)
  BY <1>2, <1>3, Zenon
<1>5. \A y \in S : x <= y
  BY <1>4
<1> QED
  BY <1>5, Zenon DEF Least

----------------------------------------------------------------------------
(* Type correctness.                                                       *)

\* No desktop is wider than the monitors that were ever added to it, so that
\* add() always finds a right edge; and a session that is adding a monitor has
\* room for its plan.
Adding == {"enable", "place", "query", "undo"}

SessionTypes ==
    /\ phase \in [Sessions -> Phases]
    /\ pc \in [Sessions -> Points]
    /\ plans \in [Sessions -> Seq(Plan)]
    /\ \A s \in Sessions : Len(plans[s]) <= MaxVirtual
    /\ \A s \in Sessions : pc[s] \notin {"idle", "disable"} => Len(plans[s]) < MaxVirtual

OutputTypes ==
    /\ conn \in [Sessions -> Connectors \cup {None}]
    /\ lock \in Sessions \cup {NoOne}
    /\ inUse \subseteq Connectors /\ forced \subseteq Connectors /\ obeyed \subseteq Connectors
    /\ \A s \in Sessions : pc[s] \in Adding \cup {"disable"} => conn[s] \in Connectors

DesktopTypes ==
    /\ adds \in 0..MaxAdds
    /\ edge \in [Sessions -> 0..(adds + 1)]
    /\ slot \in [Connectors -> 0..(adds + 1)]
    /\ \A s \in Sessions : pc[s] = "enable" => adds > 0

DisplayTypes ==
    /\ num \in [Sessions -> Displays \cup {None}]
    /\ sockets \subseteq Displays
    /\ server \in [Displays -> Sessions \cup {NoOne}]
    /\ failed \in BOOLEAN
    /\ \A s \in Sessions : pc[s] = "socket" => num[s] \in Displays

TypeInv == SessionTypes /\ OutputTypes /\ DesktopTypes /\ DisplayTypes

\* The type invariant holds initially.
LEMMA TypeInvInit == Init => TypeInv
<1> SUFFICES ASSUME Init PROVE TypeInv
  OBVIOUS
<1> USE PlansAssumption DEF Init
<1>1. SessionTypes
  BY DEF SessionTypes, Phases, Points
<1>2. OutputTypes
  BY DEF OutputTypes, Adding
<1>3. DesktopTypes
  BY DEF DesktopTypes, None
<1>4. DisplayTypes
  BY DEF DisplayTypes
<1> QED
  BY <1>1, <1>2, <1>3, <1>4 DEF TypeInv

\* What it says includes TypeOK.
LEMMA TypeInvTypes == TypeInv => TypeOK
<1> SUFFICES ASSUME TypeInv PROVE TypeOK
  OBVIOUS
<1>1. adds \in 0..MaxAdds /\ edge \in [Sessions -> 0..(MaxAdds + 1)]
         /\ slot \in [Connectors -> 0..(MaxAdds + 1)]
  BY PlansAssumption DEF TypeInv, DesktopTypes
<1> QED
  BY <1>1 DEF TypeInv, TypeOK, SessionTypes, OutputTypes, DisplayTypes

\* add() finds a right edge: the first place right of all that is forced on.
LEMMA RightEdgeIs ==
    ASSUME TypeInv, adds < MaxAdds
    PROVE  RightEdge \in 2..(adds + 2) /\ \A c \in forced : slot[c] < RightEdge
<1> DEFINE S == { x \in (Panel + 1)..(MaxAdds + 2) : \A c \in forced : slot[c] < x }
<1>1. adds + 2 \in S /\ S \in SUBSET Nat
  BY PlansAssumption DEF TypeInv, OutputTypes, DesktopTypes, Panel
<1>2. Least(S) \in S /\ Least(S) <= adds + 2
  BY <1>1, LeastIs
<1> QED
  BY <1>1, <1>2 DEF RightEdge, Panel

\* What add() takes for the right edge when it begins.
LEMMA Measured ==
    ASSUME TypeInv, NEW s \in Sessions, adds < MaxAdds, Measure(s)
    PROVE  /\ edge' \in [Sessions -> 0..(adds + 2)]
           /\ failed' \in BOOLEAN
           /\ \A t \in Sessions \ {s} : edge'[t] = edge[t]
           /\ edge'[s] # Panel => \A c \in forced : slot[c] < edge'[s]
           /\ ~failed' => UNCHANGED failed
<1>1. RightEdge \in 0..(adds + 2) /\ \A c \in forced : slot[c] < RightEdge
  BY RightEdgeIs
<1>2. /\ edge \in [Sessions -> 0..(adds + 1)] /\ adds \in Nat /\ failed \in BOOLEAN
      /\ Panel \in 0..(adds + 2)
  BY PlansAssumption DEF TypeInv, DesktopTypes, DisplayTypes, Panel
<1>3. edge \in [Sessions -> 0..(adds + 2)]
  BY <1>2
<1>4. CASE edge' = [edge EXCEPT ![s] = RightEdge] /\ UNCHANGED failed
  BY <1>1, <1>2, <1>3, <1>4
<1>5. CASE edge' = [edge EXCEPT ![s] = Panel] /\ failed' = TRUE
  BY <1>2, <1>3, <1>5
<1> QED
  BY <1>4, <1>5 DEF Measure

\* How a step of a session ends keeps the types of its state.
LEMMA SessionStepTypes ==
    ASSUME SessionTypes, NEW s \in Sessions
    PROVE  /\ \A p \in Points :
                 (p \in {"idle", "disable"} \/ Len(plans[s]) < MaxVirtual) /\ Proceed(s, p)
                 => SessionTypes'
           /\ Escape(s) => SessionTypes'
           /\ \A x \in Plan : Len(plans[s]) < MaxVirtual /\ Planned(s, x) => SessionTypes'
<1> USE DEF SessionTypes
<1>1. ASSUME NEW p \in Points, p \in {"idle", "disable"} \/ Len(plans[s]) < MaxVirtual,
             Proceed(s, p)
      PROVE  SessionTypes'
  BY <1>1 DEF Proceed
<1>2. ASSUME Escape(s) PROVE SessionTypes'
  <2>1. phase' \in [Sessions -> Phases] /\ pc' \in [Sessions -> Points] /\ plans' = plans
    BY <1>2 DEF Escape, Phases, Points
  <2>2. \A t \in Sessions : pc'[t] = IF t = s THEN "idle" ELSE pc[t]
    BY <1>2 DEF Escape
  <2> QED
    BY <2>1, <2>2
<1>3. ASSUME NEW x \in Plan, Len(plans[s]) < MaxVirtual, Planned(s, x) PROVE SessionTypes'
  <2>1. plans[s] \in Seq(Plan) /\ Append(plans[s], x) \in Seq(Plan)
          /\ Len(Append(plans[s], x)) = Len(plans[s]) + 1
    OBVIOUS
  <2>2. plans' = [plans EXCEPT ![s] = Append(plans[s], x)] /\ phase' = phase
          /\ pc' = [pc EXCEPT ![s] = "idle"]
    BY <1>3 DEF Planned
  <2>3. plans' \in [Sessions -> Seq(Plan)] /\ pc' \in [Sessions -> Points]
    BY <2>1, <2>2 DEF Points
  <2>4. \A t \in Sessions : Len(plans'[t]) <= MaxVirtual
    BY <1>3, <2>1, <2>2, PlansAssumption
  <2>5. \A t \in Sessions : pc'[t] \notin {"idle", "disable"}
                               => t # s /\ pc'[t] = pc[t] /\ plans'[t] = plans[t]
    BY <2>2
  <2> QED
    BY <2>2, <2>3, <2>4, <2>5
<1> QED
  BY <1>1, <1>2, <1>3

\* Where the pc of the sessions goes, and that nobody else's moves.
LEMMA PcStep ==
    ASSUME SessionTypes, NEW s \in Sessions
    PROVE  /\ \A p \in Points : Proceed(s, p) =>
                 /\ pc'[s] = p
                 /\ \A t \in Sessions \ {s} : pc'[t] = pc[t]
                 /\ plans' = plans
           /\ Escape(s) => /\ pc'[s] = "idle"
                           /\ \A t \in Sessions \ {s} : pc'[t] = pc[t]
                           /\ plans' = plans
           /\ \A x \in Plan : Planned(s, x) =>
                 /\ pc'[s] = "idle"
                 /\ \A t \in Sessions \ {s} : pc'[t] = pc[t]
                 /\ plans' = [plans EXCEPT ![s] = Append(plans[s], x)]
  BY DEF SessionTypes, Proceed, Escape, Planned

\* The two ways a command of add() fails.
LEMMA FailureStep ==
    ASSUME SessionTypes, NEW s \in Sessions, Fallback(s) \/ TimesOut(s),
           Fallback(s) => Len(plans[s]) < MaxVirtual
    PROVE  /\ SessionTypes'
           /\ lock' = NoOne /\ failed' = TRUE
           /\ plans' = plans
           /\ pc'[s] \in {"display", "idle"}
           /\ \A t \in Sessions \ {s} : pc'[t] = pc[t]
<1>1. CASE Fallback(s)
  BY <1>1, SessionStepTypes, PcStep DEF Fallback, Release, Points
<1>2. CASE TimesOut(s)
  BY <1>2, SessionStepTypes, PcStep DEF TimesOut, Release
<1> QED
  BY <1>1, <1>2

\* A plan that leaves its list to be torn down.
LEMMA TeardownTypes ==
    ASSUME TypeInv, NEW s \in Sessions, NEW i \in DOMAIN plans[s], pc[s] = "idle", Teardown(s, i)
    PROVE  TypeInv'
<1> USE DEF TypeInv
<1>1. /\ RemoveAt(plans[s], i) \in Seq(Plan)
      /\ Len(RemoveAt(plans[s], i)) = Len(plans[s]) - 1
      /\ plans[s][i] \in Plan
  BY Removed, ElementOfSeq DEF SessionTypes
<1>2. plans[s][i].vout \in Connectors \cup {None} /\ plans[s][i].vd \in Displays \cup {None}
  BY <1>1, PlanFields
<1>3. /\ pc' \in [Sessions -> Points]
      /\ \A t \in Sessions : pc'[t] # pc[t] => t = s /\ pc'[t] = "disable"
  BY DEF SessionTypes, Teardown, StopDisplay, BeginRemove, Points
<1>4. plans' = [plans EXCEPT ![s] = RemoveAt(plans[s], i)] /\ phase' = phase
  BY DEF Teardown
<1>5. SessionTypes'
  <2>1. plans' \in [Sessions -> Seq(Plan)]
    BY <1>1, <1>4 DEF SessionTypes
  <2>2. \A t \in Sessions : Len(plans'[t]) <= Len(plans[t])
    BY <1>1, <1>4 DEF SessionTypes
  <2>3. \A t \in Sessions : Len(plans[t]) \in Nat /\ Len(plans'[t]) \in Nat
    BY <2>1 DEF SessionTypes
  <2>4. \A t \in Sessions : Len(plans'[t]) <= MaxVirtual
    BY <2>2, <2>3, PlansAssumption DEF SessionTypes
  <2>5. \A t \in Sessions : pc'[t] \notin {"idle", "disable"} => Len(plans'[t]) < MaxVirtual
    BY <1>3, <2>2, <2>3, PlansAssumption DEF SessionTypes
  <2> QED
    BY <1>3, <1>4, <2>1, <2>4, <2>5 DEF SessionTypes
<1>6. OutputTypes'
  <2>1. CASE StopDisplay(s, plans[s][i].vd)
    BY <2>1 DEF OutputTypes, Teardown, StopDisplay
  <2>2. CASE plans[s][i].vout # None /\ BeginRemove(s, plans[s][i].vout)
    BY <1>2, <2>2 DEF OutputTypes, SessionTypes, Teardown, BeginRemove
  <2> QED
    BY <2>1, <2>2 DEF Teardown
<1>7. DesktopTypes'
  BY <1>3 DEF DesktopTypes, Teardown
<1>8. DisplayTypes'
  <2>1. server' \in [Displays -> Sessions \cup {NoOne}]
    BY DEF DisplayTypes, Teardown, StopDisplay, BeginRemove
  <2> QED
    BY <1>3, <2>1 DEF DisplayTypes, Teardown
<1> QED
  BY <1>5, <1>6, <1>7, <1>8

\* Every step keeps the type invariant.
LEMMA TypeInvStep == TypeInv /\ [Next]_vars => TypeInv'
<1> SUFFICES ASSUME TypeInv, [Next]_vars PROVE TypeInv'
  OBVIOUS
<1> USE DEF TypeInv
<1>1. ASSUME NEW s \in Sessions, BeginAdd(s) PROVE TypeInv'
  <2>1. Len(plans[s]) < MaxVirtual /\ adds < MaxAdds /\ pc[s] = "idle"
    <3>1. Len(plans[s]) \in Nat
      BY DEF SessionTypes
    <3> QED
      BY <1>1, <3>1, PlansAssumption DEF BeginAdd, WantsMonitor
  <2>2. adds' \in 0..MaxAdds /\ adds' = adds + 1 /\ adds' > 0
    BY <1>1, <2>1, PlansAssumption DEF BeginAdd, DesktopTypes
  <2>3. UNCHANGED <<inUse, slot, forced, obeyed, displayVars>>
    BY <1>1 DEF BeginAdd
  <2>4. slot' \in [Connectors -> 0..(adds' + 1)]
    BY <2>2, <2>3 DEF DesktopTypes
  <2>5. edge \in [Sessions -> 0..(adds' + 1)]
    BY <2>2 DEF DesktopTypes
  <2>6. CASE /\ Free # {} /\ lock' = s /\ conn' = [conn EXCEPT ![s] = Least(Free)]
             /\ Measure(s) /\ Proceed(s, "enable")
    <3>1. SessionTypes' /\ pc'[s] = "enable" /\ \A t \in Sessions \ {s} : pc'[t] = pc[t]
      BY <2>1, <2>6, SessionStepTypes, PcStep DEF Points
    <3>2. Least(Free) \in Connectors
      <4>1. Free \in SUBSET Nat /\ Free # {}
        BY <2>6 DEF Free, Connectors
      <4> QED
        BY <4>1, LeastIs DEF Free
    <3>3. OutputTypes'
      BY <2>3, <2>6, <3>1, <3>2 DEF OutputTypes
    <3>4. edge' \in [Sessions -> 0..(adds' + 1)] /\ failed' \in BOOLEAN
      <4>1. adds \in Nat /\ adds' + 1 = adds + 2
        BY <2>2 DEF DesktopTypes
      <4> QED
        BY <2>1, <2>6, <4>1, Measured
    <3>5. DisplayTypes'
      BY <2>3, <3>1, <3>4 DEF DisplayTypes, displayVars
    <3> QED
      BY <2>2, <2>4, <3>1, <3>3, <3>4, <3>5 DEF DesktopTypes
  <2>7. CASE Proceed(s, "display") /\ UNCHANGED <<lock, conn, edge, failed>>
    <3>1. SessionTypes' /\ pc'[s] = "display" /\ \A t \in Sessions \ {s} : pc'[t] = pc[t]
      BY <2>1, <2>7, SessionStepTypes, PcStep DEF Points
    <3> QED
      BY <2>2, <2>3, <2>4, <2>5, <2>7, <3>1
         DEF OutputTypes, DesktopTypes, DisplayTypes, displayVars, Adding
  <2>8. CASE (Fallback(s) \/ TimesOut(s)) /\ UNCHANGED <<conn, edge>>
    <3>1. /\ SessionTypes' /\ lock' = NoOne /\ failed' = TRUE
          /\ pc'[s] \in {"display", "idle"} /\ \A t \in Sessions \ {s} : pc'[t] = pc[t]
      BY <2>1, <2>8, FailureStep
    <3> QED
      BY <2>2, <2>3, <2>4, <2>5, <2>8, <3>1
         DEF OutputTypes, DesktopTypes, DisplayTypes, displayVars, Adding
  <2> QED
    BY <1>1, <2>6, <2>7, <2>8 DEF BeginAdd
<1>2. ASSUME NEW s \in Sessions, Command(s), pc[s] \in Adding PROVE TypeInv'
  <2>1. Len(plans[s]) < MaxVirtual /\ conn[s] \in Connectors
    BY <1>2 DEF SessionTypes, OutputTypes, Adding
  <2>2. UNCHANGED <<conn, edge, displayVars, adds>>
    BY <1>2 DEF Command, Enable, Place, Query, Undo, Disable, Adding
  <2>3. CASE Fallback(s) \/ TimesOut(s)
    <3>1. /\ SessionTypes' /\ lock' = NoOne /\ failed' = TRUE
          /\ pc'[s] \in {"display", "idle"} /\ \A t \in Sessions \ {s} : pc'[t] = pc[t]
      BY <2>1, <2>3, FailureStep
    <3>2. inUse' \subseteq Connectors /\ forced' \subseteq Connectors /\ obeyed' \subseteq Connectors
      BY <1>2, <2>1 DEF Command, Enable, Place, Query, Undo, Disable, Disabled, OutputTypes, Adding
    <3>3. slot' \in [Connectors -> 0..(adds + 1)]
      <4>1. CASE Enable(s)
        BY <4>1 DEF Enable, DesktopTypes, Panel
      <4>2. CASE Place(s)
        BY <4>2 DEF Place, DesktopTypes, None
      <4>3. CASE Query(s)
        BY <4>3 DEF Query, DesktopTypes
      <4>4. CASE Undo(s)
        BY <4>4 DEF Undo, Disabled, DesktopTypes, None
      <4> QED
        BY <1>2, <4>1, <4>2, <4>3, <4>4 DEF Command, Disable, Adding
    <3> QED
      BY <2>2, <3>1, <3>2, <3>3 DEF OutputTypes, DesktopTypes, DisplayTypes, displayVars, Adding
  <2>4. CASE \/ pc[s] = "enable" /\ Enable(s) /\ Proceed(s, "place") /\ UNCHANGED <<lock, failed>>
    <3>1. SessionTypes' /\ pc'[s] = "place" /\ \A t \in Sessions \ {s} : pc'[t] = pc[t]
      BY <2>1, <2>4, SessionStepTypes, PcStep DEF Points
    <3>2. /\ forced' \subseteq Connectors /\ obeyed' \subseteq Connectors /\ inUse' = inUse
          /\ slot' \in [Connectors -> 0..(adds + 1)]
      BY <2>1, <2>4 DEF Enable, OutputTypes, DesktopTypes, Panel
    <3> QED
      BY <2>1, <2>2, <2>4, <3>1, <3>2
         DEF OutputTypes, DesktopTypes, DisplayTypes, displayVars, Adding
  <2>5. CASE pc[s] = "place" /\ Place(s) /\ Proceed(s, "query") /\ UNCHANGED lock
    <3>1. SessionTypes' /\ pc'[s] = "query" /\ \A t \in Sessions \ {s} : pc'[t] = pc[t]
      BY <2>1, <2>5, SessionStepTypes, PcStep DEF Points
    <3>2. /\ forced' = forced /\ obeyed' \subseteq Connectors /\ inUse' = inUse
          /\ slot' \in [Connectors -> 0..(adds + 1)]
      BY <2>1, <2>5 DEF Place, OutputTypes, DesktopTypes, None
    <3>3. failed' \in BOOLEAN
      BY <2>5 DEF Place, DisplayTypes, Fallback, TimesOut
    <3> QED
      BY <2>1, <2>2, <2>5, <3>1, <3>2, <3>3
         DEF OutputTypes, DesktopTypes, DisplayTypes, displayVars, Adding
  <2>6. CASE pc[s] = "query" /\ Query(s) /\ Proceed(s, "undo") /\ UNCHANGED <<inUse, lock>>
    <3>1. SessionTypes' /\ pc'[s] = "undo" /\ \A t \in Sessions \ {s} : pc'[t] = pc[t]
      BY <2>1, <2>6, SessionStepTypes, PcStep DEF Points
    <3>2. UNCHANGED <<slot, forced, obeyed>>
      BY <2>6 DEF Query
    <3>3. failed' \in BOOLEAN
      BY <2>6 DEF Query, DisplayTypes, Fallback, TimesOut
    <3> QED
      BY <2>1, <2>2, <2>6, <3>1, <3>2, <3>3
         DEF OutputTypes, DesktopTypes, DisplayTypes, displayVars, Adding
  <2>7. CASE /\ pc[s] = "query" /\ Query(s) /\ Planned(s, Output(conn[s])) /\ Release
             /\ inUse' = inUse \cup {conn[s]} /\ UNCHANGED failed
    <3>1. SessionTypes' /\ pc'[s] = "idle" /\ \A t \in Sessions \ {s} : pc'[t] = pc[t]
      BY <2>1, <2>7, PlanFields, SessionStepTypes, PcStep
    <3>2. UNCHANGED <<slot, forced, obeyed>> /\ lock' = NoOne
      BY <2>7 DEF Query, Release
    <3> QED
      BY <2>1, <2>2, <2>7, <3>1, <3>2
         DEF OutputTypes, DesktopTypes, DisplayTypes, displayVars, Adding
  <2> QED
    BY <1>2, <2>3, <2>4, <2>5, <2>6, <2>7 DEF Command, Enable, Place, Query, Undo, Disable, Adding
<1>3. ASSUME NEW s \in Sessions, Disable(s) PROVE TypeInv'
  <2>1. SessionTypes' /\ pc'[s] = "idle" /\ \A t \in Sessions \ {s} : pc'[t] = pc[t]
    BY <1>3, SessionStepTypes, PcStep DEF Disable, Points
  <2>2. /\ inUse' \subseteq Connectors /\ forced' \subseteq Connectors
        /\ obeyed' \subseteq Connectors /\ lock' = NoOne
    BY <1>3 DEF Disable, Disabled, Release, OutputTypes
  <2>3. slot' \in [Connectors -> 0..(adds + 1)]
    <3>1. slot' = slot \/ slot' = [slot EXCEPT ![conn[s]] = 0]
      BY <1>3 DEF Disable, Disabled, None
    <3>2. 0 \in 0..(adds + 1)
      BY DEF DesktopTypes
    <3> QED
      BY <3>1, <3>2 DEF DesktopTypes
  <2>5. failed' \in BOOLEAN
    BY <1>3 DEF Disable, DisplayTypes
  <2>4. UNCHANGED <<conn, edge, displayVars, adds>>
    BY <1>3 DEF Disable
  <2> QED
    BY <2>1, <2>2, <2>3, <2>4, <2>5 DEF OutputTypes, DesktopTypes, DisplayTypes, displayVars, Adding
<1>4. ASSUME NEW s \in Sessions, StartDisplay(s) PROVE TypeInv'
  <2>1. Len(plans[s]) < MaxVirtual
    BY <1>4 DEF StartDisplay, SessionTypes
  <2>2. UNCHANGED <<conn, edge, outputVars, sockets, adds>>
    BY <1>4 DEF StartDisplay
  <2>3. CASE /\ Displays \ sockets # {} /\ Proceed(s, "socket") /\ UNCHANGED failed
    <3>1. SessionTypes' /\ pc'[s] = "socket" /\ \A t \in Sessions \ {s} : pc'[t] = pc[t]
      BY <2>1, <2>3, SessionStepTypes, PcStep DEF Points
    <3> DEFINE n == Least(Displays \ sockets)
    <3>2. n \in Displays
      <4>1. Displays \ sockets \in SUBSET Nat
        BY DEF Displays
      <4> QED
        BY <2>3, <4>1, LeastIs
    <3>3. /\ num' = [num EXCEPT ![s] = n]
          /\ server' = [server EXCEPT ![n] = IF @ = NoOne THEN s ELSE @]
      BY <1>4, <2>3, <3>1 DEF StartDisplay, Escape, SessionTypes
    <3> HIDE DEF n
    <3>4. DisplayTypes'
      BY <2>2, <2>3, <3>1, <3>2, <3>3 DEF DisplayTypes
    <3> QED
      BY <2>2, <3>1, <3>4 DEF OutputTypes, DesktopTypes, outputVars, Adding
  <2>4. CASE failed' = TRUE /\ Escape(s) /\ UNCHANGED <<num, server>>
    <3>1. SessionTypes' /\ pc'[s] = "idle" /\ \A t \in Sessions \ {s} : pc'[t] = pc[t]
      BY <2>4, SessionStepTypes, PcStep
    <3> QED
      BY <2>2, <2>4, <3>1 DEF OutputTypes, DesktopTypes, DisplayTypes, outputVars, Adding
  <2> QED
    BY <1>4, <2>3, <2>4 DEF StartDisplay
<1>5. ASSUME NEW s \in Sessions, AwaitSocket(s) PROVE TypeInv'
  <2>1. Len(plans[s]) < MaxVirtual /\ num[s] \in Displays
    BY <1>5 DEF AwaitSocket, SessionTypes, DisplayTypes
  <2>2. SessionTypes' /\ pc'[s] = "idle" /\ \A t \in Sessions \ {s} : pc'[t] = pc[t]
    BY <1>5, <2>1, PlanFields, SessionStepTypes, PcStep DEF AwaitSocket
  <2>3. UNCHANGED <<conn, edge, outputVars, num, sockets, adds>>
    BY <1>5 DEF AwaitSocket
  <2>4. server' \in [Displays -> Sessions \cup {NoOne}] /\ failed' \in BOOLEAN
    BY <1>5, <2>1 DEF AwaitSocket, DisplayTypes
  <2> QED
    BY <2>2, <2>3, <2>4 DEF OutputTypes, DesktopTypes, DisplayTypes, outputVars, Adding
<1>6. ASSUME NEW s \in Sessions, EnterLoop(s) \/ LeaveLoop(s) PROVE TypeInv'
  <2>1. phase' \in [Sessions -> Phases]
    BY <1>6 DEF EnterLoop, LeaveLoop, SessionTypes, Phases
  <2>2. UNCHANGED <<pc, plans, conn, edge, outputVars, displayVars, adds>>
    BY <1>6 DEF EnterLoop, LeaveLoop
  <2>3. failed' \in BOOLEAN
    BY <1>6 DEF EnterLoop, LeaveLoop, DisplayTypes
  <2> QED
    BY <2>1, <2>2, <2>3
       DEF SessionTypes, OutputTypes, DesktopTypes, DisplayTypes, outputVars, displayVars
<1>7. ASSUME NEW s \in Sessions, RemoveMonitor(s) PROVE TypeInv'
  <2>1. Len(plans[s]) \in DOMAIN plans[s]
    <3>1. plans[s] \in Seq(Plan) /\ plans[s] # <<>>
      BY <1>7 DEF RemoveMonitor, SessionTypes
    <3> QED
      BY <3>1
  <2> QED
    BY <1>7, <2>1, TeardownTypes DEF RemoveMonitor
<1>8. ASSUME NEW s \in Sessions, Shutdown(s) PROVE TypeInv'
  <2>1. CASE plans[s] # <<>>
    <3>1. 1 \in DOMAIN plans[s]
      BY <2>1 DEF SessionTypes
    <3> QED
      BY <1>8, <2>1, <3>1, TeardownTypes DEF Shutdown
  <2>2. CASE plans[s] = <<>>
    <3>1. /\ phase' = [phase EXCEPT ![s] = "gone"]
          /\ UNCHANGED <<pc, plans, conn, edge, outputVars, displayVars, adds, failed>>
      BY <1>8, <2>2 DEF Shutdown
    <3>2. phase' \in [Sessions -> Phases]
      BY <3>1 DEF SessionTypes, Phases
    <3> QED
      BY <3>1, <3>2
         DEF SessionTypes, OutputTypes, DesktopTypes, DisplayTypes, outputVars, displayVars
  <2> QED
    BY <2>1, <2>2
<1>9. ASSUME NEW n \in Displays, OpenSocket(n) PROVE TypeInv'
  BY <1>9 DEF OpenSocket, SessionTypes, OutputTypes, DesktopTypes, DisplayTypes, sessionVars,
              outputVars
<1>10. CASE UNCHANGED vars
  BY <1>10 DEF vars, SessionTypes, OutputTypes, DesktopTypes, DisplayTypes, sessionVars,
               outputVars, displayVars
<1> QED
  <2>1. ASSUME NEW s \in Sessions, Step(s) PROVE TypeInv'
    BY <1>1, <1>2, <1>3, <1>4, <1>5, <1>6, <1>7, <1>8, <2>1
       DEF Step, Command, Enable, Place, Query, Undo, Adding
  <2> QED
    BY <1>9, <1>10, <2>1 DEF Next

\* Every state of every behaviour has its types, and what sessions hold never
\* outgrows what the code allows.
THEOREM TypeCorrect == Spec => []TypeOK
<1>1. Spec => []TypeInv
  BY TypeInvInit, TypeInvStep, PTL DEF Spec
<1> QED
  BY <1>1, TypeInvTypes, PTL

----------------------------------------------------------------------------
(* Connectors are exclusive.                                               *)

\* A session holds the lock exactly while it is in add() or remove().
LockExact == \A s \in Sessions : pc[s] \in Adding \cup {"disable"} <=> lock = s

\* The connector that is being forced on belongs to nobody.
AddedFree == \A s \in Sessions : pc[s] \in Adding => conn[s] \notin inUse

\* The connector that is being let go is still taken, by no plan.
RemovedTaken ==
    \A s \in Sessions : pc[s] = "disable" =>
        /\ conn[s] \in inUse
        /\ \A t \in Sessions : \A j \in DOMAIN plans[t] : plans[t][j].vout # conn[s]

\* The connectors of all plans are taken.
PlansTaken ==
    \A s \in Sessions : \A i \in DOMAIN plans[s] : plans[s][i].vout \in inUse \cup {None}

PoolInv == TypeInv /\ LockExact /\ AddedFree /\ RemovedTaken /\ PlansTaken /\ ConnectorsExclusive

\* When only the session in its critical section has a connector in hand.
LEMMA OneHolder ==
    ASSUME LockExact, NEW s \in Sessions, NEW t \in Sessions,
           pc[s] \in Adding \cup {"disable"}, t # s
    PROVE  pc[t] \notin Adding \cup {"disable"}
  BY DEF LockExact

\* A step that leaves inUse and the plans alone, and in which the session that
\* moves ends outside of a critical section, or goes on in that of add().
LEMMA QuietStep ==
    ASSUME PoolInv, TypeInv', NEW s \in Sessions,
           UNCHANGED <<inUse, plans>>,
           \A t \in Sessions \ {s} : pc'[t] = pc[t] /\ conn'[t] = conn[t],
           \/ /\ pc[s] \notin Adding \cup {"disable"} /\ pc'[s] \notin Adding \cup {"disable"}
              /\ lock' = lock
           \/ /\ pc[s] \in Adding \cup {"disable"} /\ pc'[s] \notin Adding \cup {"disable"}
              /\ lock' = NoOne
           \/ /\ pc[s] \in Adding /\ pc'[s] \in Adding
              /\ lock' = lock /\ conn'[s] = conn[s]
           \/ /\ lock = NoOne /\ lock' = s /\ pc'[s] \in Adding
              /\ conn'[s] \notin inUse
    PROVE  PoolInv'
<1>1. LockExact'
  BY PlansAssumption DEF PoolInv, LockExact, Adding
<1>2. AddedFree'
  BY DEF PoolInv, AddedFree
<1>3. RemovedTaken'
  BY DEF PoolInv, RemovedTaken, Adding
<1>4. PlansTaken' /\ ConnectorsExclusive'
  BY DEF PoolInv, PlansTaken, ConnectorsExclusive
<1> QED
  BY <1>1, <1>2, <1>3, <1>4 DEF PoolInv

\* A plan that leaves its list.
LEMMA TeardownPool ==
    ASSUME PoolInv, NEW s \in Sessions, NEW i \in DOMAIN plans[s], pc[s] = "idle", Teardown(s, i)
    PROVE  PoolInv'
<1> DEFINE from(t, j) == IF t # s \/ j < i THEN j ELSE j + 1
<1>1. TypeInv'
  BY TeardownTypes DEF PoolInv
<1>2. plans' = [plans EXCEPT ![s] = RemoveAt(plans[s], i)] /\ inUse' = inUse
  BY DEF Teardown
<1>3. /\ \A t \in Sessions : plans[t] \in Seq(Plan) /\ plans'[t] \in Seq(Plan)
      /\ i \in 1..Len(plans[s]) /\ Len(plans'[s]) = Len(plans[s]) - 1
      /\ \A j \in 1..(Len(plans[s]) - 1) : plans'[s][j] = plans[s][IF j < i THEN j ELSE j + 1]
      /\ \A t \in Sessions \ {s} : plans'[t] = plans[t]
  <2>1. plans \in [Sessions -> Seq(Plan)] /\ plans' \in [Sessions -> Seq(Plan)]
    BY <1>1 DEF PoolInv, TypeInv, SessionTypes
  <2> QED
    BY <1>2, <2>1, Removed
\* Every plan that is left was there before, in the order it had.
<1>4. ASSUME NEW t \in Sessions, NEW j \in DOMAIN plans'[t]
      PROVE  /\ from(t, j) \in DOMAIN plans[t] /\ plans'[t][j] = plans[t][from(t, j)]
             /\ from(t, j) # i \/ t # s
  <2>1. CASE t # s
    BY <1>3, <2>1
  <2>2. CASE t = s
    <3>1. j \in 1..(Len(plans[s]) - 1) /\ DOMAIN plans[s] = 1..Len(plans[s])
            /\ Len(plans[s]) \in Nat
      BY <1>3, <2>2
    <3>2. from(t, j) \in 1..Len(plans[s]) /\ from(t, j) # i
      BY <1>3, <2>2, <3>1
    <3> QED
      BY <1>3, <2>2, <3>1, <3>2
  <2> QED
    BY <2>1, <2>2
<1>5. \A t \in Sessions : \A j, k \in DOMAIN plans'[t] : j # k => from(t, j) # from(t, k)
  <2>1. \A t \in Sessions : DOMAIN plans'[t] \subseteq Int
    BY <1>3
  <2>2. i \in Int
    BY <1>3
  <2> QED
    BY <2>1, <2>2
<1> HIDE DEF from
<1>6. PlansTaken'
  BY <1>2, <1>4 DEF PoolInv, PlansTaken
<1>7. ConnectorsExclusive'
  BY <1>4, <1>5 DEF PoolInv, ConnectorsExclusive
<1>8. CASE StopDisplay(s, plans[s][i].vd)
  <2>1. UNCHANGED <<pc, conn, lock>>
    BY <1>8 DEF StopDisplay
  <2>2. LockExact' /\ AddedFree'
    BY <1>2, <2>1 DEF PoolInv, LockExact, AddedFree
  <2>3. RemovedTaken'
    BY <1>2, <1>4, <2>1 DEF PoolInv, RemovedTaken
  <2> QED
    BY <1>1, <1>6, <1>7, <2>2, <2>3 DEF PoolInv
<1>9. CASE plans[s][i].vout # None /\ BeginRemove(s, plans[s][i].vout)
  <2>1. /\ lock = NoOne /\ lock' = s
        /\ pc'[s] = "disable" /\ \A t \in Sessions \ {s} : pc'[t] = pc[t]
        /\ conn'[s] = plans[s][i].vout /\ \A t \in Sessions \ {s} : conn'[t] = conn[t]
    BY <1>9 DEF BeginRemove, Acquirable, PoolInv, TypeInv, SessionTypes, OutputTypes
  <2>2. \A t \in Sessions : pc[t] \notin Adding \cup {"disable"}
    BY <2>1, PlansAssumption DEF PoolInv, LockExact
  <2>3. LockExact'
    BY <2>1, <2>2, PlansAssumption DEF LockExact
  <2>4. AddedFree'
    BY <2>1, <2>2 DEF AddedFree, Adding
  <2>5. conn'[s] \in inUse'
    BY <1>2, <1>9, <2>1 DEF PoolInv, PlansTaken
  <2>6. \A t \in Sessions : \A j \in DOMAIN plans'[t] : plans'[t][j].vout # conn'[s]
    BY <1>4, <1>9, <2>1 DEF PoolInv, ConnectorsExclusive
  <2>7. RemovedTaken'
    BY <2>1, <2>2, <2>5, <2>6 DEF RemovedTaken
  <2> QED
    BY <1>1, <1>6, <1>7, <2>3, <2>4, <2>7 DEF PoolInv
<1> QED
  BY <1>8, <1>9 DEF Teardown

\* A monitor that is planned on connector c, or as an Xvfb (c = None).
LEMMA PlannedPool ==
    ASSUME PoolInv, TypeInv', NEW s \in Sessions, NEW x \in Plan, Planned(s, x),
           pc[s] \notin {"disable"},
           UNCHANGED conn,
           \/ x.vout = None /\ pc[s] \notin Adding /\ UNCHANGED <<inUse, lock>>
           \/ x.vout = conn[s] /\ pc[s] \in Adding /\ inUse' = inUse \cup {conn[s]} /\ lock' = NoOne
    PROVE  PoolInv'
<1>1. /\ pc'[s] = "idle" /\ \A t \in Sessions \ {s} : pc'[t] = pc[t]
      /\ plans' = [plans EXCEPT ![s] = Append(plans[s], x)]
  BY PcStep DEF PoolInv, TypeInv
<1>2. \A t \in Sessions : plans[t] \in Seq(Plan) /\ plans'[t] \in Seq(Plan)
  BY DEF PoolInv, TypeInv, SessionTypes
<1>3. /\ \A t \in Sessions \ {s} : plans'[t] = plans[t]
      /\ plans'[s] = Append(plans[s], x)
  BY <1>1 DEF PoolInv, TypeInv, SessionTypes
\* Every plan was there before, or is the new one.
<1>4. ASSUME NEW t \in Sessions, NEW j \in DOMAIN plans'[t]
      PROVE  \/ j \in DOMAIN plans[t] /\ plans'[t][j] = plans[t][j]
             \/ t = s /\ j = Len(plans[s]) + 1 /\ plans'[t][j] = x
  <2>1. CASE t # s
    BY <1>3, <2>1
  <2>2. CASE t = s
    BY <1>2, <1>3, <2>2
  <2> QED
    BY <2>1, <2>2
<1>5. LockExact'
  BY <1>1, PlansAssumption DEF PoolInv, LockExact, Adding
<1>6. AddedFree'
  BY <1>1, OneHolder DEF PoolInv, AddedFree, Adding
<1>7. x.vout = None \/ (x.vout \notin inUse /\ x.vout \in Connectors)
  BY DEF PoolInv, AddedFree, TypeInv, OutputTypes
<1>8. PlansTaken'
  BY <1>4 DEF PoolInv, PlansTaken
<1>9. ConnectorsExclusive'
  BY <1>4, <1>7 DEF PoolInv, PlansTaken, ConnectorsExclusive
<1>10. RemovedTaken'
  <2> SUFFICES ASSUME NEW r \in Sessions, pc'[r] = "disable"
               PROVE  /\ conn'[r] \in inUse'
                      /\ \A t \in Sessions : \A j \in DOMAIN plans'[t] : plans'[t][j].vout # conn'[r]
    BY DEF RemovedTaken
  <2>1. r # s /\ pc[r] = "disable" /\ conn'[r] = conn[r]
    BY <1>1
  <2>2. conn[r] \in inUse /\ conn[r] \in Connectors
    BY <2>1 DEF PoolInv, RemovedTaken, TypeInv, OutputTypes
  <2>3. x.vout # conn[r]
    BY <1>7, <2>2, NoneIsNothing
  <2> QED
    BY <1>4, <2>1, <2>2, <2>3 DEF PoolInv, RemovedTaken
<1> QED
  BY <1>5, <1>6, <1>8, <1>9, <1>10 DEF PoolInv

\* Connectors are exclusive in every initial state, and in no state are two
\* sessions in each other's way.
LEMMA PoolInvInit == Init => PoolInv
<1> SUFFICES ASSUME Init PROVE PoolInv
  OBVIOUS
<1> USE PlansAssumption DEF Init
<1>1. LockExact /\ AddedFree /\ RemovedTaken
  BY DEF LockExact, AddedFree, RemovedTaken, Adding
<1>2. PlansTaken /\ ConnectorsExclusive
  BY DEF PlansTaken, ConnectorsExclusive
<1> QED
  BY <1>1, <1>2, TypeInvInit DEF PoolInv

\* Every step keeps PoolInv.
LEMMA PoolInvStep == PoolInv /\ [Next]_vars => PoolInv'
<1> SUFFICES ASSUME PoolInv, [Next]_vars PROVE PoolInv'
  OBVIOUS
<1>0. TypeInv /\ TypeInv'
  BY TypeInvStep DEF PoolInv
<1>a. SessionTypes /\ OutputTypes
  BY <1>0 DEF TypeInv
<1>1. ASSUME NEW s \in Sessions, BeginAdd(s) PROVE PoolInv'
  <2>1. /\ pc[s] = "idle" /\ lock = NoOne
        /\ UNCHANGED inUse
        /\ Len(plans[s]) < MaxVirtual
    <3>1. Len(plans[s]) \in Nat
      BY <1>a DEF SessionTypes
    <3> QED
      BY <1>1, <3>1, PlansAssumption DEF BeginAdd, WantsMonitor, Acquirable
  <2>2. CASE /\ Free # {} /\ lock' = s /\ conn' = [conn EXCEPT ![s] = Least(Free)]
             /\ Proceed(s, "enable")
    <3>1. Least(Free) \notin inUse
      <4>1. Free \in SUBSET Nat /\ Free # {}
        BY <2>2 DEF Free, Connectors
      <4> QED
        BY <4>1, LeastIs DEF Free
    <3>2. pc'[s] = "enable" /\ (\A t \in Sessions \ {s} : pc'[t] = pc[t]) /\ plans' = plans
      BY <1>a, <2>2, PcStep DEF Points
    <3>3. conn'[s] = Least(Free) /\ \A t \in Sessions \ {s} : conn'[t] = conn[t]
      BY <1>a, <2>2 DEF OutputTypes
    <3> QED
      BY <1>0, <2>1, <2>2, <3>1, <3>2, <3>3, QuietStep DEF Adding
  <2>3. CASE Proceed(s, "display") /\ UNCHANGED <<lock, conn>>
    <3>1. pc'[s] = "display" /\ (\A t \in Sessions \ {s} : pc'[t] = pc[t]) /\ plans' = plans
      BY <1>a, <2>3, PcStep DEF Points
    <3> QED
      BY <1>0, <2>1, <2>3, <3>1, QuietStep DEF Adding
  <2>4. CASE (Fallback(s) \/ TimesOut(s)) /\ UNCHANGED conn
    <3>1. /\ pc'[s] \in {"display", "idle"} /\ (\A t \in Sessions \ {s} : pc'[t] = pc[t])
          /\ plans' = plans /\ lock' = NoOne
      BY <1>a, <2>1, <2>4, FailureStep
    <3> QED
      BY <1>0, <2>1, <2>4, <3>1, QuietStep DEF Adding
  <2> QED
    BY <1>1, <2>2, <2>3, <2>4 DEF BeginAdd
<1>2. ASSUME NEW s \in Sessions, Command(s), pc[s] \in Adding PROVE PoolInv'
  <2>1. UNCHANGED conn /\ Len(plans[s]) < MaxVirtual
    BY <1>a, <1>2 DEF SessionTypes, Command, Enable, Place, Query, Undo, Disable, Adding
  <2>2. CASE (Fallback(s) \/ TimesOut(s)) /\ UNCHANGED inUse
    <3>1. /\ pc'[s] \in {"display", "idle"} /\ (\A t \in Sessions \ {s} : pc'[t] = pc[t])
          /\ plans' = plans /\ lock' = NoOne
      BY <1>a, <2>1, <2>2, FailureStep
    <3> QED
      BY <1>0, <1>2, <2>1, <2>2, <3>1, QuietStep DEF Adding
  <2>3. CASE \E p \in {"place", "query", "undo"} : Proceed(s, p) /\ UNCHANGED <<lock, inUse>>
    <3>1. PICK p \in {"place", "query", "undo"} : Proceed(s, p) /\ UNCHANGED <<lock, inUse>>
      BY <2>3
    <3>2. pc'[s] = p /\ (\A t \in Sessions \ {s} : pc'[t] = pc[t]) /\ plans' = plans
      BY <1>a, <3>1, PcStep DEF Points
    <3> QED
      BY <1>0, <1>2, <2>1, <3>1, <3>2, QuietStep DEF Adding
  <2>4. CASE /\ Planned(s, Output(conn[s])) /\ Release
             /\ inUse' = inUse \cup {conn[s]}
    <3>1. conn[s] \in Connectors
      BY <1>2, <1>a DEF OutputTypes
    <3>2. Output(conn[s]) \in Plan /\ Output(conn[s]).vout = conn[s]
      BY <3>1, PlanFields
    <3> QED
      BY <1>0, <1>2, <2>1, <2>4, <3>2, PlannedPool DEF Release, Adding
  <2> QED
    BY <1>2, <2>2, <2>3, <2>4 DEF Command, Enable, Place, Query, Undo, Disable, Adding
<1>3. ASSUME NEW s \in Sessions, Disable(s) PROVE PoolInv'
  <2>1. /\ pc[s] = "disable" /\ UNCHANGED conn /\ lock' = NoOne
        /\ inUse' = inUse \/ inUse' = inUse \ {conn[s]}
    BY <1>3 DEF Disable, Release
  <2>2. pc'[s] = "idle" /\ (\A t \in Sessions \ {s} : pc'[t] = pc[t]) /\ plans' = plans
    BY <1>a, <1>3, PcStep DEF Disable, Points
  <2>3. \A t \in Sessions : pc'[t] \notin Adding \cup {"disable"}
    BY <2>1, <2>2, OneHolder DEF PoolInv, Adding
  <2>4. LockExact' /\ AddedFree' /\ RemovedTaken'
    BY <2>1, <2>3, PlansAssumption DEF LockExact, AddedFree, RemovedTaken
  <2>5. PlansTaken'
    BY <2>1, <2>2 DEF PoolInv, PlansTaken, RemovedTaken
  <2>6. ConnectorsExclusive'
    BY <2>2 DEF PoolInv, ConnectorsExclusive
  <2> QED
    BY <1>0, <2>4, <2>5, <2>6 DEF PoolInv
<1>4. ASSUME NEW s \in Sessions, StartDisplay(s) PROVE PoolInv'
  <2>1. pc[s] = "display" /\ UNCHANGED <<conn, lock, inUse>>
    BY <1>4 DEF StartDisplay, outputVars
  <2>2. /\ pc'[s] \in {"socket", "idle"} /\ (\A t \in Sessions \ {s} : pc'[t] = pc[t])
        /\ plans' = plans
    BY <1>a, <1>4, PcStep DEF StartDisplay, Points
  <2> QED
    BY <1>0, <2>1, <2>2, QuietStep DEF Adding
<1>5. ASSUME NEW s \in Sessions, AwaitSocket(s) PROVE PoolInv'
  <2>1. pc[s] = "socket" /\ UNCHANGED <<conn, lock, inUse>>
    BY <1>5 DEF AwaitSocket, outputVars
  <2>2. CASE Planned(s, Display(num[s]))
    <3>1. Display(num[s]) \in Plan /\ Display(num[s]).vout = None
      BY <1>0, <2>1, PlanFields DEF TypeInv, DisplayTypes
    <3> QED
      BY <1>0, <2>1, <2>2, <3>1, PlannedPool DEF Adding
  <2>3. CASE Escape(s)
    <3>1. pc'[s] = "idle" /\ (\A t \in Sessions \ {s} : pc'[t] = pc[t]) /\ plans' = plans
      BY <1>a, <2>3, PcStep
    <3> QED
      BY <1>0, <2>1, <3>1, QuietStep DEF Adding
  <2> QED
    BY <1>5, <2>2, <2>3 DEF AwaitSocket
<1>6. ASSUME NEW s \in Sessions, RemoveMonitor(s) PROVE PoolInv'
  <2>1. plans[s] \in Seq(Plan) /\ plans[s] # <<>>
    BY <1>6, <1>a DEF RemoveMonitor, SessionTypes
  <2> QED
    BY <1>6, <2>1, TeardownPool DEF RemoveMonitor
<1>7. ASSUME NEW s \in Sessions, Shutdown(s), plans[s] # <<>> PROVE PoolInv'
  <2>1. plans[s] \in Seq(Plan)
    BY <1>a DEF SessionTypes
  <2> QED
    BY <1>7, <2>1, TeardownPool DEF Shutdown
<1>8. CASE UNCHANGED <<pc, plans, conn, lock, inUse>>
  BY <1>0, <1>8 DEF PoolInv, LockExact, AddedFree, RemovedTaken, PlansTaken, ConnectorsExclusive
<1> QED
  <2>1. ASSUME NEW s \in Sessions, Step(s) PROVE PoolInv'
    <3>1. CASE EnterLoop(s) \/ LeaveLoop(s) \/ (Shutdown(s) /\ plans[s] = <<>>)
      BY <1>8, <3>1 DEF EnterLoop, LeaveLoop, Shutdown, outputVars
    <3> QED
      BY <1>1, <1>2, <1>3, <1>4, <1>5, <1>6, <1>7, <2>1, <3>1
         DEF Step, Command, Enable, Place, Query, Undo, Adding
  <2>2. ASSUME NEW n \in Displays, OpenSocket(n) PROVE PoolInv'
    BY <1>8, <2>2 DEF OpenSocket, sessionVars, outputVars
  <2>3. CASE UNCHANGED vars
    BY <1>8, <2>3 DEF vars, sessionVars, outputVars
  <2> QED
    BY <2>1, <2>2, <2>3 DEF Next

\* PoolInv holds in every state.
LEMMA PoolInvHolds == Spec => []PoolInv
  BY PoolInvInit, PoolInvStep, PTL DEF Spec

\* Whatever commands fail, whichever sessions add and remove monitors at the
\* same time: no connector is ever part of two monitors.
THEOREM ConnectorsAreExclusive == Spec => []ConnectorsExclusive
<1>1. PoolInv => ConnectorsExclusive
  BY DEF PoolInv
<1> QED
  BY <1>1, PoolInvHolds, PTL

----------------------------------------------------------------------------
(* Regions are disjoint.                                                   *)

\* Outputs that went where they were told are forced on, each in a place of
\* its own or on the panel.
ObeyedApart ==
    /\ obeyed \subseteq forced
    /\ \A c, d \in obeyed : c # d /\ slot[c] # Panel => slot[c] # slot[d]

\* What add() measured, if it did, is still right of all of them when it
\* places its own.
EdgeStands ==
    \A s \in Sessions : pc[s] \in {"enable", "place"} /\ edge[s] # Panel =>
        \A c \in obeyed \ {conn[s]} : slot[c] < edge[s]

\* An output that is about to be placed is forced on and not placed yet.
ToBePlaced == \A s \in Sessions : pc[s] = "place" => conn[s] \in forced \ obeyed

RegionInv == ObeyedApart /\ EdgeStands /\ ToBePlaced

\* A step that leaves the desktop alone, and in which no session comes to
\* force a connector on.
LEMMA SameDesktop ==
    ASSUME RegionInv, UNCHANGED <<obeyed, forced, slot>>,
           \A t \in Sessions : pc'[t] \in {"enable", "place"} =>
               pc'[t] = pc[t] /\ conn'[t] = conn[t] /\ edge'[t] = edge[t]
    PROVE  RegionInv'
<1>1. ObeyedApart'
  BY DEF RegionInv, ObeyedApart
<1>2. EdgeStands' /\ ToBePlaced'
  BY DEF RegionInv, EdgeStands, ToBePlaced
<1> QED
  BY <1>1, <1>2 DEF RegionInv

\* A step of the session in its critical section after which no session is
\* forcing a connector on, and in which outputs only cease to be placed.
LEMMA LeavesDesktop ==
    ASSUME RegionInv, PoolInv, NEW s \in Sessions, pc[s] \in Adding \cup {"disable"},
           pc'[s] \notin {"enable", "place"}, \A t \in Sessions \ {s} : pc'[t] = pc[t],
           obeyed' \subseteq obeyed, obeyed' \subseteq forced',
           \A c \in obeyed' : slot'[c] = slot[c]
    PROVE  RegionInv'
<1>1. \A t \in Sessions : pc'[t] \notin {"enable", "place"}
  BY OneHolder DEF PoolInv, Adding
<1>2. ObeyedApart'
  BY DEF RegionInv, ObeyedApart
<1> QED
  BY <1>1, <1>2 DEF RegionInv, EdgeStands, ToBePlaced

\* Every step keeps RegionInv.
LEMMA RegionInvStep == PoolInv /\ RegionInv /\ [Next]_vars => RegionInv'
<1> SUFFICES ASSUME PoolInv, RegionInv, [Next]_vars PROVE RegionInv'
  OBVIOUS
<1>a. SessionTypes /\ OutputTypes /\ DesktopTypes
  BY DEF PoolInv, TypeInv
<1>1. ASSUME NEW s \in Sessions, BeginAdd(s) PROVE RegionInv'
  <2>1. /\ pc[s] = "idle" /\ lock = NoOne /\ adds < MaxAdds
        /\ UNCHANGED <<obeyed, forced, slot>>
        /\ Len(plans[s]) < MaxVirtual
    <3>1. Len(plans[s]) \in Nat
      BY <1>a DEF SessionTypes
    <3> QED
      BY <1>1, <3>1, PlansAssumption DEF BeginAdd, WantsMonitor, Acquirable
  <2>2. \A t \in Sessions : pc[t] \notin Adding \cup {"disable"}
    BY <2>1, PlansAssumption DEF PoolInv, LockExact
  <2>3. CASE Measure(s) /\ Proceed(s, "enable")
    <3>1. pc'[s] = "enable" /\ (\A t \in Sessions \ {s} : pc'[t] = pc[t])
      BY <1>a, <2>3, PcStep DEF Points
    <3>2. edge'[s] # Panel => \A c \in forced : slot[c] < edge'[s]
      BY <2>1, <2>3, Measured DEF PoolInv
    <3>3. EdgeStands'
      BY <2>1, <2>2, <3>1, <3>2 DEF EdgeStands, Adding, RegionInv, ObeyedApart
    <3>4. ToBePlaced'
      BY <2>2, <3>1 DEF ToBePlaced, Adding
    <3>5. ObeyedApart'
      BY <2>1 DEF RegionInv, ObeyedApart
    <3> QED
      BY <3>3, <3>4, <3>5 DEF RegionInv
  <2>4. CASE Proceed(s, "display") \/ Fallback(s) \/ TimesOut(s)
    <3>1. pc'[s] \in {"display", "idle"} /\ (\A t \in Sessions \ {s} : pc'[t] = pc[t])
      BY <1>a, <2>1, <2>4, FailureStep, PcStep DEF Points
    <3>2. \A t \in Sessions : pc'[t] \notin {"enable", "place"}
      BY <2>2, <3>1 DEF Adding
    <3> QED
      BY <2>1, <3>2, SameDesktop
  <2> QED
    BY <1>1, <2>3, <2>4 DEF BeginAdd
<1>2. ASSUME NEW s \in Sessions, Enable(s) PROVE RegionInv'
  <2>1. /\ pc[s] = "enable" /\ obeyed' = obeyed \ {conn[s]} /\ UNCHANGED <<conn, edge>>
        /\ conn[s] \in Connectors /\ Len(plans[s]) < MaxVirtual
    BY <1>2, <1>a DEF Enable, SessionTypes, OutputTypes, Adding
  <2>2. \A t \in Sessions \ {s} : pc[t] \notin Adding
    BY <2>1, OneHolder DEF PoolInv, Adding
  <2>3. CASE /\ forced' = forced \cup {conn[s]}
             /\ slot' = [slot EXCEPT ![conn[s]] = Panel + 1]
             /\ Proceed(s, "place") \/ TimesOut(s)
    <3>1. \A c \in obeyed' : slot'[c] = slot[c]
      BY <1>a, <2>1, <2>3 DEF DesktopTypes, OutputTypes
    <3>2. obeyed' \subseteq forced'
      BY <2>1, <2>3 DEF RegionInv, ObeyedApart
    <3>3. CASE Proceed(s, "place")
      <4>1. pc'[s] = "place" /\ (\A t \in Sessions \ {s} : pc'[t] = pc[t])
        BY <1>a, <3>3, PcStep DEF Points
      <4>2. ObeyedApart'
        BY <2>1, <3>1, <3>2 DEF RegionInv, ObeyedApart
      <4>3. EdgeStands'
        BY <2>1, <2>2, <3>1, <4>1 DEF RegionInv, EdgeStands, Adding
      <4>4. ToBePlaced'
        BY <2>1, <2>2, <2>3, <4>1 DEF ToBePlaced, Adding
      <4> QED
        BY <4>2, <4>3, <4>4 DEF RegionInv
    <3>4. CASE TimesOut(s)
      <4>1. pc'[s] \in {"display", "idle"} /\ (\A t \in Sessions \ {s} : pc'[t] = pc[t])
        BY <1>a, <2>1, <3>4, FailureStep
      <4> QED
        BY <2>1, <3>1, <3>2, <4>1, LeavesDesktop DEF Adding
    <3> QED
      BY <2>3, <3>3, <3>4
  <2>4. CASE UNCHANGED <<forced, slot>> /\ (Fallback(s) \/ TimesOut(s))
    <3>1. pc'[s] \in {"display", "idle"} /\ (\A t \in Sessions \ {s} : pc'[t] = pc[t])
      BY <1>a, <2>1, <2>4, FailureStep
    <3>2. obeyed' \subseteq forced'
      BY <2>1, <2>4 DEF RegionInv, ObeyedApart
    <3> QED
      BY <2>1, <2>4, <3>1, <3>2, LeavesDesktop DEF Adding
  <2> QED
    BY <1>2, <2>3, <2>4 DEF Enable
<1>3. ASSUME NEW s \in Sessions, Place(s) PROVE RegionInv'
  <2>1. /\ pc[s] = "place" /\ UNCHANGED <<conn, edge, forced>>
        /\ conn[s] \in Connectors /\ Len(plans[s]) < MaxVirtual
        /\ conn[s] \in forced \ obeyed
    BY <1>3, <1>a DEF Place, SessionTypes, OutputTypes, Adding, RegionInv, ToBePlaced
  <2>2. /\ pc'[s] \in {"query", "display", "idle"} /\ (\A t \in Sessions \ {s} : pc'[t] = pc[t])
    BY <1>3, <1>a, <2>1, FailureStep, PcStep DEF Place, Points
  <2>3. CASE obeyed' = obeyed
    <3>1. \A c \in obeyed' : slot'[c] = slot[c]
      BY <1>3, <1>a, <2>1, <2>3 DEF Place, DesktopTypes, OutputTypes
    <3> QED
      BY <2>1, <2>2, <2>3, <3>1, LeavesDesktop DEF Adding, RegionInv, ObeyedApart
  <2>4. CASE /\ slot' = [slot EXCEPT ![conn[s]] = edge[s]]
             /\ obeyed' = obeyed \cup {conn[s]}
    <3>1. \A t \in Sessions : pc'[t] \notin {"enable", "place"}
      BY <2>1, <2>2, OneHolder DEF PoolInv, Adding
    <3>2. /\ slot'[conn[s]] = edge[s] /\ \A c \in obeyed : slot'[c] = slot[c]
      BY <1>a, <2>1, <2>4 DEF DesktopTypes, OutputTypes
    <3>3. edge[s] # Panel => \A c \in obeyed : slot[c] < edge[s]
      BY <2>1 DEF RegionInv, EdgeStands
    <3>4. edge[s] # Panel => \A c \in obeyed : slot[c] # edge[s]
      <4>1. \A c \in obeyed : slot[c] \in Nat
        BY <1>a DEF DesktopTypes, OutputTypes
      <4> QED
        BY <3>3, <4>1
    <3>5. ObeyedApart'
      BY <2>1, <2>4, <3>2, <3>4 DEF RegionInv, ObeyedApart
    <3> QED
      BY <3>1, <3>5 DEF RegionInv, EdgeStands, ToBePlaced
  <2> QED
    BY <1>3, <2>3, <2>4 DEF Place
<1>4. ASSUME NEW s \in Sessions, Query(s) PROVE RegionInv'
  <2>1. /\ pc[s] = "query" /\ UNCHANGED <<obeyed, forced, slot>>
        /\ Len(plans[s]) < MaxVirtual /\ conn[s] \in Connectors
    BY <1>4, <1>a DEF Query, SessionTypes, OutputTypes, Adding
  <2>2. pc'[s] \in {"undo", "display", "idle"} /\ (\A t \in Sessions \ {s} : pc'[t] = pc[t])
    BY <1>4, <1>a, <2>1, PlanFields, FailureStep, PcStep DEF Query, Points
  <2> QED
    BY <2>1, <2>2, LeavesDesktop DEF Adding, RegionInv, ObeyedApart
<1>5. ASSUME NEW s \in Sessions, Undo(s) \/ Disable(s) PROVE RegionInv'
  <2>1. pc[s] \in Adding \cup {"disable"} /\ conn[s] \in Connectors
           /\ (pc[s] \in Adding => Len(plans[s]) < MaxVirtual)
    BY <1>5, <1>a DEF Undo, Disable, SessionTypes, OutputTypes, Adding
  <2>2. pc'[s] \in {"display", "idle"} /\ (\A t \in Sessions \ {s} : pc'[t] = pc[t])
    BY <1>5, <1>a, <2>1, FailureStep, PcStep DEF Undo, Disable, Points, Adding
  <2>3. Disabled(conn[s]) \/ UNCHANGED <<forced, slot, obeyed>>
    BY <1>5 DEF Undo, Disable
  <2>4. /\ obeyed' \subseteq obeyed /\ obeyed' \subseteq forced'
        /\ \A c \in obeyed' : slot'[c] = slot[c]
    BY <1>a, <2>1, <2>3 DEF Disabled, RegionInv, ObeyedApart, DesktopTypes, OutputTypes
  <2> QED
    BY <2>1, <2>2, <2>4, LeavesDesktop DEF Adding
<1>6. ASSUME NEW s \in Sessions, StartDisplay(s) \/ AwaitSocket(s) PROVE RegionInv'
  <2>1. pc[s] \in {"display", "socket"} /\ UNCHANGED <<conn, edge, forced, obeyed, slot>>
           /\ num[s] \in Displays \cup {None}
           /\ (pc[s] = "socket" => num[s] \in Displays)
    BY <1>6 DEF StartDisplay, AwaitSocket, outputVars, PoolInv, TypeInv, DisplayTypes
  <2>2. pc'[s] \in {"socket", "idle"} /\ (\A t \in Sessions \ {s} : pc'[t] = pc[t])
    BY <1>6, <1>a, <2>1, PlanFields, PcStep DEF StartDisplay, AwaitSocket, Points
  <2> QED
    BY <2>1, <2>2, SameDesktop
<1>7. ASSUME NEW s \in Sessions, NEW i, Teardown(s, i), pc[s] = "idle" PROVE RegionInv'
  <2>1. UNCHANGED <<obeyed, forced, slot, edge>>
    BY <1>7 DEF Teardown
  <2>2. \A t \in Sessions : pc'[t] \in {"enable", "place"} => pc'[t] = pc[t] /\ conn'[t] = conn[t]
    BY <1>7, <1>a DEF Teardown, StopDisplay, BeginRemove, SessionTypes, OutputTypes
  <2> QED
    BY <2>1, <2>2, SameDesktop
<1>8. CASE UNCHANGED <<pc, conn, edge, obeyed, forced, slot>>
  BY <1>8, SameDesktop
<1> QED
  <2>1. ASSUME NEW s \in Sessions, Step(s) PROVE RegionInv'
    <3>1. CASE EnterLoop(s) \/ LeaveLoop(s) \/ (Shutdown(s) /\ plans[s] = <<>>)
      BY <1>8, <3>1 DEF EnterLoop, LeaveLoop, Shutdown, outputVars
    <3>2. CASE RemoveMonitor(s) \/ (Shutdown(s) /\ plans[s] # <<>>)
      BY <1>7, <3>2 DEF RemoveMonitor, Shutdown
    <3> QED
      BY <1>1, <1>2, <1>3, <1>4, <1>5, <1>6, <2>1, <3>1, <3>2 DEF Step, Command
  <2>2. ASSUME NEW n \in Displays, OpenSocket(n) PROVE RegionInv'
    BY <1>8, <2>2 DEF OpenSocket, sessionVars, outputVars
  <2>3. CASE UNCHANGED vars
    BY <1>8, <2>3 DEF vars, sessionVars, outputVars
  <2> QED
    BY <2>1, <2>2, <2>3 DEF Next

\* Monitors of one session or of several that xrandr put where it was told
\* cover each other nowhere but on the panel, where those are put whose add()
\* failed to measure the desktop.
THEOREM RegionsNeverOverlap == Spec => []RegionsDisjoint
<1>1. Init => RegionInv
  BY DEF Init, RegionInv, ObeyedApart, EdgeStands, ToBePlaced
<1>2. RegionInv => RegionsDisjoint
  BY DEF RegionInv, ObeyedApart, RegionsDisjoint
<1>3. Spec => []RegionInv
  BY <1>1, RegionInvStep, PoolInvHolds, PTL DEF Spec
<1> QED
  BY <1>2, <1>3, PTL

----------------------------------------------------------------------------
(* The books agree with the hardware.                                      *)

\* As long as no command fails, every output that was placed shows a region,
\* so that add() never gives one up.
PlacementsShow ==
    ~failed => \A s \in Sessions :
        /\ pc[s] \in {"enable", "place"} => edge[s] > 0
        /\ pc[s] = "query" => slot[conn[s]] # None
        /\ pc[s] # "undo"

AccountInv == PlacementsShow /\ PoolAccountsForPlans

\* Every step keeps AccountInv.
LEMMA AccountInvStep == PoolInv /\ AccountInv /\ [Next]_vars => AccountInv'
<1> SUFFICES ASSUME PoolInv, AccountInv, [Next]_vars, ~failed' PROVE AccountInv'
  BY DEF AccountInv, PlacementsShow, PoolAccountsForPlans
<1> DEFINE holds(c) == \E t \in Sessions : \E j \in DOMAIN plans[t] : plans[t][j].vout = c
<1>a. SessionTypes /\ OutputTypes /\ DesktopTypes
  BY DEF PoolInv, TypeInv
<1>b. ASSUME NEW s \in Sessions PROVE ~Fallback(s) /\ ~TimesOut(s)
  BY DEF Fallback, TimesOut
<1>c. SUFFICES ASSUME ~failed PROVE AccountInv'
  <2>1. failed => failed'
    BY DEF Next, vars, Step, Command, BeginAdd, Enable, Place, Query, Undo, Disable, StartDisplay,
           AwaitSocket, EnterLoop, RemoveMonitor, LeaveLoop, Shutdown, Teardown, OpenSocket,
           Fallback, TimesOut, Measure
  <2> QED
    BY <2>1
<1> USE DEF AccountInv, PlacementsShow
<1>1. ASSUME UNCHANGED <<pc, plans, inUse, forced, conn, edge, slot>> PROVE AccountInv'
  <2>1. Held' = Held /\ LettingGo' = LettingGo /\ ForcingOn' = ForcingOn
    BY <1>1 DEF Held, LettingGo, ForcingOn
  <2> QED
    BY <1>1, <1>c, <2>1 DEF PoolAccountsForPlans
\* A step outside of the critical sections.
<1>2. ASSUME NEW s \in Sessions, UNCHANGED <<plans, inUse, forced, slot>>,
             pc[s] \notin {"disable", "place", "query"},
             \A t \in Sessions \ {s} :
                 pc'[t] = pc[t] /\ conn'[t] = conn[t] /\ edge'[t] = edge[t],
             \/ pc'[s] \in {"display", "socket", "idle"}
             \/ pc'[s] = "enable" /\ edge'[s] > 0
      PROVE  AccountInv'
  <2>1. Held' = Held
    BY <1>2 DEF Held
  <2>2. LettingGo' = LettingGo /\ ForcingOn' = ForcingOn
    BY <1>2 DEF LettingGo, ForcingOn
  <2> QED
    BY <1>2, <1>c, <2>1, <2>2 DEF PoolAccountsForPlans
<1>3. ASSUME NEW s \in Sessions, BeginAdd(s) PROVE AccountInv'
  <2>1. /\ pc[s] = "idle" /\ UNCHANGED <<inUse, forced, slot>> /\ adds < MaxAdds
        /\ edge' \in [Sessions -> Nat]
    BY <1>3, TypeInvStep DEF BeginAdd, WantsMonitor, PoolInv, TypeInv, DesktopTypes
  <2>2. CASE /\ Proceed(s, "enable") /\ conn' = [conn EXCEPT ![s] = Least(Free)]
             /\ edge' = [edge EXCEPT ![s] = RightEdge]
    <3>1. pc'[s] = "enable" /\ (\A t \in Sessions \ {s} : pc'[t] = pc[t]) /\ plans' = plans
      BY <1>a, <2>2, PcStep DEF Points
    <3>2. edge'[s] > 0
      BY <1>a, <2>1, <2>2, RightEdgeIs DEF PoolInv, DesktopTypes
    <3>3. \A t \in Sessions \ {s} : conn'[t] = conn[t] /\ edge'[t] = edge[t]
      BY <1>a, <2>2 DEF OutputTypes, DesktopTypes
    <3> QED
      BY <1>2, <2>1, <3>1, <3>2, <3>3
  <2>3. CASE Proceed(s, "display") /\ UNCHANGED <<lock, conn, edge>>
    <3>1. pc'[s] = "display" /\ (\A t \in Sessions \ {s} : pc'[t] = pc[t]) /\ plans' = plans
      BY <1>a, <2>3, PcStep DEF Points
    <3> QED
      BY <1>2, <2>1, <2>3, <3>1
  <2> QED
    BY <1>3, <1>b, <2>2, <2>3 DEF BeginAdd, Measure
<1>4. ASSUME NEW s \in Sessions, Enable(s) PROVE AccountInv'
  <2>1. /\ pc[s] = "enable" /\ Proceed(s, "place")
        /\ forced' = forced \cup {conn[s]}
        /\ UNCHANGED <<inUse, conn, edge>>
    BY <1>4, <1>b DEF Enable
  <2>2. pc'[s] = "place" /\ (\A t \in Sessions \ {s} : pc'[t] = pc[t]) /\ plans' = plans
    BY <1>a, <2>1, PcStep DEF Points
  <2>3. Held' = Held
    BY <2>2 DEF Held
  <2>4. LettingGo' = LettingGo /\ ForcingOn' = ForcingOn \cup {conn[s]}
    BY <2>1, <2>2 DEF LettingGo, ForcingOn
  <2>5. \A t \in Sessions \ {s} : pc'[t] \notin Adding
    BY <2>1, <2>2, OneHolder DEF PoolInv, Adding
  <2>6. PlacementsShow'
    BY <1>c, <2>1, <2>2, <2>5 DEF Adding
  <2> QED
    BY <1>c, <2>1, <2>3, <2>4, <2>6 DEF PoolAccountsForPlans
<1>5. ASSUME NEW s \in Sessions, Place(s) PROVE AccountInv'
  <2>1. /\ pc[s] = "place" /\ Proceed(s, "query")
        /\ slot' = [slot EXCEPT ![conn[s]] = edge[s]]
        /\ UNCHANGED <<inUse, forced, conn, edge>>
    BY <1>5, <1>b DEF Place
  <2>2. pc'[s] = "query" /\ (\A t \in Sessions \ {s} : pc'[t] = pc[t]) /\ plans' = plans
    BY <1>a, <2>1, PcStep DEF Points
  <2>3. Held' = Held
    BY <2>2 DEF Held
  <2>4. LettingGo' = LettingGo /\ ForcingOn' = ForcingOn
    BY <2>1, <2>2 DEF LettingGo, ForcingOn
  <2>5. \A t \in Sessions \ {s} : pc'[t] \notin Adding
    BY <2>1, <2>2, OneHolder DEF PoolInv, Adding
  <2>6. slot'[conn'[s]] = edge[s] /\ edge[s] > 0 /\ edge[s] \in Nat
    BY <1>a, <1>c, <2>1 DEF DesktopTypes, OutputTypes, Adding
  <2>7. PlacementsShow'
    BY <2>2, <2>5, <2>6 DEF Adding, None
  <2> QED
    BY <1>c, <2>1, <2>3, <2>4, <2>7 DEF PoolAccountsForPlans
<1>6. ASSUME NEW s \in Sessions, Query(s) PROVE AccountInv'
  <2>1. /\ pc[s] = "query" /\ slot[conn[s]] # None
        /\ Planned(s, Output(conn[s])) /\ inUse' = inUse \cup {conn[s]}
        /\ UNCHANGED <<forced, conn, edge, slot>>
    BY <1>6, <1>b, <1>c DEF Query
  <2>2. conn[s] \in Connectors /\ Output(conn[s]) \in Plan /\ Output(conn[s]).vout = conn[s]
    BY <1>a, <2>1, PlanFields DEF OutputTypes, Adding
  <2>3. /\ pc'[s] = "idle" /\ (\A t \in Sessions \ {s} : pc'[t] = pc[t])
        /\ plans' = [plans EXCEPT ![s] = Append(plans[s], Output(conn[s]))]
    BY <1>a, <2>1, <2>2, PcStep
  <2>4. \A t \in Sessions \ {s} : pc[t] \notin Adding \cup {"disable"}
    BY <2>1, OneHolder DEF PoolInv, Adding
  <2>5. Held' = Held \cup {conn[s]}
    <3>1. \A t \in Sessions : plans[t] \in Seq(Plan)
      BY <1>a DEF SessionTypes
    <3>2. /\ \A t \in Sessions \ {s} : plans'[t] = plans[t]
          /\ plans'[s] = Append(plans[s], Output(conn[s]))
      BY <1>a, <2>3 DEF SessionTypes
    <3>3. /\ DOMAIN plans'[s] = DOMAIN plans[s] \cup {Len(plans[s]) + 1}
          /\ plans'[s][Len(plans[s]) + 1] = Output(conn[s])
          /\ \A j \in DOMAIN plans[s] : plans'[s][j] = plans[s][j]
      BY <3>1, <3>2
    <3>4. \A c : (\E t \in Sessions : \E j \in DOMAIN plans'[t] : plans'[t][j].vout = c)
                   <=> c = conn[s] \/ holds(c)
      BY <2>2, <3>2, <3>3
    <3>5. \A c : c \in Held' <=> c \in Held \/ c = conn[s]
      BY <2>2, <3>4, NoneIsNothing DEF Held
    <3> QED
      BY <3>5
  <2>6. LettingGo' = {} /\ LettingGo = {} /\ ForcingOn' = {} /\ ForcingOn = {conn[s]}
    BY <2>1, <2>3, <2>4 DEF LettingGo, ForcingOn, Adding
  <2>7. PlacementsShow'
    BY <2>3, <2>4 DEF Adding
  <2> QED
    BY <1>c, <2>1, <2>5, <2>6, <2>7 DEF PoolAccountsForPlans
<1>7. ASSUME NEW s \in Sessions, Disable(s) PROVE AccountInv'
  <2>1. /\ pc[s] = "disable" /\ Proceed(s, "idle") /\ UNCHANGED <<conn, edge>>
        /\ inUse' = inUse \ {conn[s]}
        /\ Disabled(conn[s])
    BY <1>7 DEF Disable
  <2>2. pc'[s] = "idle" /\ (\A t \in Sessions \ {s} : pc'[t] = pc[t]) /\ plans' = plans
    BY <1>a, <2>1, PcStep DEF Points
  <2>3. \A t \in Sessions \ {s} : pc[t] \notin Adding \cup {"disable"}
    BY <2>1, OneHolder DEF PoolInv, Adding
  <2>4. LettingGo' = {} /\ LettingGo = {conn[s]} /\ ForcingOn' = {} /\ ForcingOn = {}
    BY <2>1, <2>2, <2>3 DEF LettingGo, ForcingOn, Adding
  <2>5. Held' = Held /\ conn[s] \notin Held
    BY <2>1, <2>2 DEF Held, PoolInv, RemovedTaken
  <2>6. PlacementsShow'
    BY <2>2, <2>3 DEF Adding
  <2> QED
    BY <1>c, <2>1, <2>4, <2>5, <2>6 DEF PoolAccountsForPlans, Disabled
<1>8. ASSUME NEW s \in Sessions, StartDisplay(s) PROVE AccountInv'
  <2>1. /\ pc[s] = "display" /\ Proceed(s, "socket")
        /\ UNCHANGED <<conn, edge, inUse, forced, slot>>
    BY <1>8 DEF StartDisplay, outputVars
  <2>2. pc'[s] = "socket" /\ (\A t \in Sessions \ {s} : pc'[t] = pc[t]) /\ plans' = plans
    BY <1>a, <2>1, PcStep DEF Points
  <2> QED
    BY <1>2, <2>1, <2>2
<1>9. ASSUME NEW s \in Sessions, AwaitSocket(s) PROVE AccountInv'
  <2>1. /\ pc[s] = "socket" /\ Planned(s, Display(num[s]))
        /\ UNCHANGED <<conn, edge, inUse, forced, slot>>
    BY <1>9 DEF AwaitSocket, outputVars
  <2>2. Display(num[s]) \in Plan /\ Display(num[s]).vout = None
    BY <2>1, PlanFields DEF PoolInv, TypeInv, DisplayTypes
  <2>3. /\ pc'[s] = "idle" /\ (\A t \in Sessions \ {s} : pc'[t] = pc[t])
        /\ plans' = [plans EXCEPT ![s] = Append(plans[s], Display(num[s]))]
    BY <1>a, <2>1, <2>2, PcStep
  <2>4. Held' = Held
    <3>1. \A t \in Sessions : plans[t] \in Seq(Plan)
      BY <1>a DEF SessionTypes
    <3>2. /\ \A t \in Sessions \ {s} : plans'[t] = plans[t]
          /\ plans'[s] = Append(plans[s], Display(num[s]))
      BY <1>a, <2>3 DEF SessionTypes
    <3>3. /\ DOMAIN plans'[s] = DOMAIN plans[s] \cup {Len(plans[s]) + 1}
          /\ plans'[s][Len(plans[s]) + 1] = Display(num[s])
          /\ \A j \in DOMAIN plans[s] : plans'[s][j] = plans[s][j]
      BY <3>1, <3>2
    <3>4. \A c : c # None =>
             ((\E t \in Sessions : \E j \in DOMAIN plans'[t] : plans'[t][j].vout = c) <=> holds(c))
      <4>1. ASSUME NEW c, c # None,
                   \E t \in Sessions : \E j \in DOMAIN plans'[t] : plans'[t][j].vout = c
            PROVE  holds(c)
        BY <2>2, <3>2, <3>3, <4>1
      <4>2. ASSUME NEW c, holds(c)
            PROVE  \E t \in Sessions : \E j \in DOMAIN plans'[t] : plans'[t][j].vout = c
        <5>1. PICK t \in Sessions : \E j \in DOMAIN plans[t] : plans[t][j].vout = c
          BY <4>2
        <5>2. \E j \in DOMAIN plans'[t] : plans'[t][j].vout = c
          BY <3>2, <3>3, <5>1
        <5> QED
          BY <5>2
      <4> QED
        BY <4>1, <4>2
    <3>5. \A c : c \in Held' <=> c \in Held
      BY <3>4 DEF Held
    <3> QED
      BY <3>5
  <2>5. LettingGo' = LettingGo /\ ForcingOn' = ForcingOn
    BY <2>1, <2>3 DEF LettingGo, ForcingOn
  <2>6. PlacementsShow'
    BY <1>c, <2>1, <2>3
  <2> QED
    BY <1>c, <2>1, <2>4, <2>5, <2>6 DEF PoolAccountsForPlans
<1>10. ASSUME NEW s \in Sessions, NEW i \in DOMAIN plans[s], pc[s] = "idle", Teardown(s, i)
       PROVE  AccountInv'
  <2> DEFINE c == plans[s][i].vout
  <2>1. /\ plans' = [plans EXCEPT ![s] = RemoveAt(plans[s], i)]
        /\ UNCHANGED <<edge, inUse, forced, slot>>
    BY <1>10 DEF Teardown
  <2>2. /\ plans[s] \in Seq(Plan) /\ i \in 1..Len(plans[s]) /\ plans[s][i] \in Plan
        /\ Len(plans'[s]) = Len(plans[s]) - 1 /\ plans'[s] \in Seq(Plan)
        /\ \A j \in 1..(Len(plans[s]) - 1) : plans'[s][j] = plans[s][IF j < i THEN j ELSE j + 1]
        /\ \A t \in Sessions \ {s} : plans'[t] = plans[t]
    <3>1. plans \in [Sessions -> Seq(Plan)]
      BY <1>a DEF SessionTypes
    <3>2. plans[s] \in Seq(Plan) /\ i \in 1..Len(plans[s])
      BY <3>1
    <3> QED
      BY <2>1, <3>1, <3>2, Removed, ElementOfSeq
\* The plans that are left are those from before but the one at i.
  <2>3. \A d : (\E j \in DOMAIN plans'[s] : plans'[s][j].vout = d)
                 <=> \E j \in DOMAIN plans[s] : j # i /\ plans[s][j].vout = d
    <3>1. DOMAIN plans'[s] = 1..(Len(plans[s]) - 1) /\ DOMAIN plans[s] = 1..Len(plans[s])
            /\ Len(plans[s]) \in Nat
      BY <2>2
    <3>2. ASSUME NEW d, NEW j \in DOMAIN plans'[s], plans'[s][j].vout = d
          PROVE  \E k \in DOMAIN plans[s] : k # i /\ plans[s][k].vout = d
      <4> DEFINE k == IF j < i THEN j ELSE j + 1
      <4>1. k \in DOMAIN plans[s] /\ k # i /\ plans'[s][j] = plans[s][k]
        BY <2>2, <3>1, <3>2
      <4> QED
        BY <3>2, <4>1
    <3>3. ASSUME NEW d, NEW k \in DOMAIN plans[s], k # i, plans[s][k].vout = d
          PROVE  \E j \in DOMAIN plans'[s] : plans'[s][j].vout = d
      <4> DEFINE j == IF k < i THEN k ELSE k - 1
      <4>1. j \in DOMAIN plans'[s] /\ (IF j < i THEN j ELSE j + 1) = k
        BY <2>2, <3>1, <3>3
      <4>2. plans'[s][j] = plans[s][k]
        BY <2>2, <3>1, <4>1
      <4> QED
        BY <3>3, <4>1, <4>2
    <3> QED
      BY <3>2, <3>3
  <2>4. c \in Connectors \cup {None}
    BY <2>2, PlanFields
  <2>5. Held' = Held \ {c}
    <3>1. \A d : d # None =>
             ((\E t \in Sessions : \E j \in DOMAIN plans'[t] : plans'[t][j].vout = d)
                <=> d # c /\ holds(d))
      <4>1. ASSUME NEW d, d # None, NEW t \in Sessions, NEW j \in DOMAIN plans'[t],
                   plans'[t][j].vout = d
            PROVE  d # c /\ holds(d)
        <5>1. CASE t # s
          BY <2>2, <4>1, <5>1 DEF PoolInv, ConnectorsExclusive
        <5>2. CASE t = s
          <6>1. PICK k \in DOMAIN plans[s] : k # i /\ plans[s][k].vout = d
            BY <2>3, <4>1, <5>2
          <6> QED
            BY <4>1, <6>1 DEF PoolInv, ConnectorsExclusive
        <5> QED
          BY <5>1, <5>2
      <4>2. ASSUME NEW d, d # c, NEW t \in Sessions, NEW j \in DOMAIN plans[t],
                   plans[t][j].vout = d
            PROVE  \E r \in Sessions : \E k \in DOMAIN plans'[r] : plans'[r][k].vout = d
        <5>1. CASE t # s
          BY <2>2, <4>2, <5>1
        <5>2. CASE t = s
          <6>1. \E k \in DOMAIN plans'[s] : plans'[s][k].vout = d
            BY <2>3, <4>2, <5>2
          <6> QED
            BY <6>1
        <5> QED
          BY <5>1, <5>2
      <4> QED
        BY <4>1, <4>2
    <3>2. \A d : d \in Held' <=> d \in Held /\ d # c
      BY <3>1 DEF Held
    <3> QED
      BY <3>2
  <2>6. c # None => c \in Held
    BY DEF Held
  <2>7. CASE StopDisplay(s, plans[s][i].vd) /\ c = None
    <3>1. UNCHANGED <<pc, conn>>
      BY <2>7 DEF StopDisplay
    <3>2. LettingGo' = LettingGo /\ ForcingOn' = ForcingOn /\ Held' = Held
      BY <2>5, <2>7, <3>1 DEF LettingGo, ForcingOn, Held
    <3> QED
      BY <1>c, <2>1, <3>1, <3>2 DEF PoolAccountsForPlans
  <2>8. CASE c # None /\ BeginRemove(s, c)
    <3>1. /\ lock = NoOne
          /\ pc'[s] = "disable" /\ \A t \in Sessions \ {s} : pc'[t] = pc[t]
          /\ conn'[s] = c /\ \A t \in Sessions \ {s} : conn'[t] = conn[t]
      BY <1>a, <2>8 DEF BeginRemove, Acquirable, SessionTypes, OutputTypes
    <3>2. \A t \in Sessions : pc[t] \notin Adding \cup {"disable"}
      BY <3>1, PlansAssumption DEF PoolInv, LockExact
    <3>3. LettingGo = {} /\ LettingGo' = {c} /\ ForcingOn = {} /\ ForcingOn' = {}
      BY <3>1, <3>2 DEF LettingGo, ForcingOn, Adding
    <3>4. PlacementsShow'
      BY <3>1, <3>2 DEF Adding
    <3> QED
      BY <1>c, <2>1, <2>5, <2>6, <2>8, <3>3, <3>4 DEF PoolAccountsForPlans
  <2>9. plans[s][i].vd # None => c = None
    BY <2>2 DEF Plan, Output, Display
  <2> QED
    BY <1>10, <2>7, <2>8, <2>9 DEF Teardown
<1> QED
  <2>1. ASSUME NEW s \in Sessions, Step(s) PROVE AccountInv'
    <3>1. CASE EnterLoop(s) \/ LeaveLoop(s) \/ (Shutdown(s) /\ plans[s] = <<>>)
      BY <1>1, <3>1 DEF EnterLoop, LeaveLoop, Shutdown, outputVars
    <3>2. CASE RemoveMonitor(s) \/ (Shutdown(s) /\ plans[s] # <<>>)
      <4>1. plans[s] \in Seq(Plan)
        BY <1>a DEF SessionTypes
      <4> QED
        BY <1>10, <3>2, <4>1 DEF RemoveMonitor, Shutdown
    <3>3. ~Undo(s)
      BY <1>c DEF Undo
    <3> QED
      BY <1>3, <1>4, <1>5, <1>6, <1>7, <1>8, <1>9, <2>1, <3>1, <3>2, <3>3 DEF Step, Command
  <2>2. ASSUME NEW n \in Displays, OpenSocket(n) PROVE AccountInv'
    BY <1>1, <2>2 DEF OpenSocket, sessionVars, outputVars
  <2>3. CASE UNCHANGED vars
    BY <1>1, <2>3 DEF vars, sessionVars, outputVars
  <2> QED
    BY <2>1, <2>2, <2>3 DEF Next

\* AccountInv holds in every state.
LEMMA AccountInvHolds == Spec => []AccountInv
<1>1. Init => AccountInv
  BY DEF Init, AccountInv, PlacementsShow, PoolAccountsForPlans, Held, LettingGo, ForcingOn
<1> QED
  BY <1>1, AccountInvStep, PoolInvHolds, PTL DEF Spec

\* As long as no command fails, a connector is in use exactly while a plan
\* holds it or is giving it back, and forced on exactly while it is in use or
\* about to be.
THEOREM BooksAgree == Spec => []PoolAccountsForPlans
<1>1. AccountInv => PoolAccountsForPlans
  BY DEF AccountInv
<1> QED
  BY <1>1, AccountInvHolds, PTL

----------------------------------------------------------------------------
(* Everything is given back.                                               *)

\* As long as no command fails: every Xvfb is that of a plan, or of one that
\* is being made, of the session that started it; and a session that is gone
\* has nothing left to do and no plan.
ServersPlanned ==
    \A n \in Displays : \A s \in Sessions : server[n] = s =>
        \/ pc[s] = "socket" /\ num[s] = n
        \/ \E i \in DOMAIN plans[s] : plans[s][i].vd = n

GoneEmpty == \A s \in Sessions : phase[s] = "gone" => pc[s] = "idle" /\ plans[s] = <<>>

GivenInv == ~failed => ServersPlanned /\ GoneEmpty

\* Every step keeps GivenInv.
LEMMA GivenInvStep == TypeInv /\ GivenInv /\ [Next]_vars => GivenInv'
<1> SUFFICES ASSUME TypeInv, GivenInv, [Next]_vars, ~failed' PROVE (ServersPlanned /\ GoneEmpty)'
  BY DEF GivenInv
<1>a. SessionTypes /\ OutputTypes /\ DisplayTypes
  BY DEF TypeInv
<1>b. ASSUME NEW s \in Sessions PROVE ~Fallback(s) /\ ~TimesOut(s)
  BY DEF Fallback, TimesOut
<1>c. ~failed
  BY DEF Next, vars, Step, Command, BeginAdd, Enable, Place, Query, Undo, Disable, StartDisplay,
         AwaitSocket, EnterLoop, RemoveMonitor, LeaveLoop, Shutdown, Teardown, OpenSocket,
         Fallback, TimesOut, Measure
<1>d. ServersPlanned /\ GoneEmpty
  BY <1>c DEF GivenInv
\* A step that starts and stops no Xvfb and ends no session.
<1>1. ASSUME NEW s \in Sessions, UNCHANGED <<plans, server, num>>,
             pc[s] # "socket", \A t \in Sessions \ {s} : pc'[t] = pc[t],
             pc'[s] # pc[s] => phase[s] # "gone",
             \A t \in Sessions : phase'[t] = "gone" => phase[t] = "gone"
      PROVE  (ServersPlanned /\ GoneEmpty)'
  BY <1>1, <1>d DEF ServersPlanned, GoneEmpty
<1>2. ASSUME NEW s \in Sessions, NEW p \in Points, Proceed(s, p), UNCHANGED <<server, num>>,
             pc[s] # "socket", phase[s] # "gone"
      PROVE  (ServersPlanned /\ GoneEmpty)'
  <2>1. (\A t \in Sessions \ {s} : pc'[t] = pc[t]) /\ UNCHANGED <<plans, phase>>
    BY <1>a, <1>2, PcStep DEF Proceed
  <2> QED
    BY <1>1, <1>2, <2>1
<1>3. ASSUME NEW s \in Sessions, NEW x \in Plan, Planned(s, x), UNCHANGED <<server, num>>,
             pc[s] = "socket" => x.vd = num[s], phase[s] # "gone"
      PROVE  (ServersPlanned /\ GoneEmpty)'
  <2>1. /\ \A t \in Sessions \ {s} : pc'[t] = pc[t] /\ plans'[t] = plans[t]
        /\ plans'[s] = Append(plans[s], x) /\ phase' = phase
    BY <1>a, <1>3 DEF Planned, SessionTypes
  <2>2. plans[s] \in Seq(Plan)
    BY <1>a DEF SessionTypes
  <2>3. /\ DOMAIN plans'[s] = DOMAIN plans[s] \cup {Len(plans[s]) + 1}
        /\ plans'[s][Len(plans[s]) + 1] = x
        /\ \A j \in DOMAIN plans[s] : plans'[s][j] = plans[s][j]
    BY <2>1, <2>2
  <2>4. ServersPlanned'
    <3> SUFFICES ASSUME NEW n \in Displays, NEW t \in Sessions, server'[n] = t
                 PROVE  \/ pc'[t] = "socket" /\ num'[t] = n
                        \/ \E i \in DOMAIN plans'[t] : plans'[t][i].vd = n
      BY DEF ServersPlanned
    <3>1. \/ pc[t] = "socket" /\ num[t] = n
          \/ \E i \in DOMAIN plans[t] : plans[t][i].vd = n
      BY <1>3, <1>d DEF ServersPlanned
    <3>2. CASE t # s
      BY <1>3, <2>1, <3>1, <3>2
    <3>3. CASE t = s
      BY <1>3, <2>3, <3>1, <3>3
    <3> QED
      BY <3>2, <3>3
  <2>5. GoneEmpty'
    BY <1>3, <1>d, <2>1 DEF GoneEmpty
  <2> QED
    BY <2>4, <2>5
<1>4. ASSUME NEW s \in Sessions, BeginAdd(s) PROVE (ServersPlanned /\ GoneEmpty)'
  BY <1>2, <1>4, <1>b DEF BeginAdd, WantsMonitor, displayVars, Points
<1>5. ASSUME NEW s \in Sessions, Command(s) PROVE (ServersPlanned /\ GoneEmpty)'
  <2>1. /\ pc[s] \in Adding \cup {"disable"} /\ UNCHANGED <<server, num>>
        /\ phase[s] # "gone"
    BY <1>5, <1>d DEF Command, Enable, Place, Query, Undo, Disable, Adding, displayVars, GoneEmpty
  <2>2. CASE \E p \in Points : Proceed(s, p)
    BY <1>2, <2>1, <2>2 DEF Adding
  <2>3. CASE Query(s) /\ Planned(s, Output(conn[s]))
    <3>1. conn[s] \in Connectors
      BY <1>a, <2>1 DEF OutputTypes
    <3>2. Output(conn[s]) \in Plan
      BY <3>1, PlanFields
    <3> QED
      BY <1>3, <2>1, <2>3, <3>2 DEF Adding
  <2> QED
    BY <1>5, <1>b, <2>2, <2>3 DEF Command, Enable, Place, Query, Undo, Disable, Points
<1>6. ASSUME NEW s \in Sessions, StartDisplay(s) PROVE (ServersPlanned /\ GoneEmpty)'
  <2> DEFINE n == Least(Displays \ sockets)
  <2>1. /\ pc[s] = "display" /\ Proceed(s, "socket") /\ phase[s] # "gone"
        /\ Displays \ sockets # {}
        /\ num' = [num EXCEPT ![s] = n]
        /\ server' = [server EXCEPT ![n] = IF @ = NoOne THEN s ELSE @]
    BY <1>6, <1>d DEF StartDisplay, GoneEmpty
  <2>2. n \in Displays
    <3>1. Displays \ sockets \in SUBSET Nat
      BY DEF Displays
    <3> QED
      BY <2>1, <3>1, LeastIs
  <2> HIDE DEF n
  <2>3. /\ pc'[s] = "socket" /\ (\A t \in Sessions \ {s} : pc'[t] = pc[t])
        /\ UNCHANGED <<plans, phase>>
    BY <1>a, <2>1, PcStep DEF Points, Proceed
  <2>4. /\ num'[s] = n /\ \A t \in Sessions \ {s} : num'[t] = num[t]
    BY <1>a, <2>1 DEF DisplayTypes
  <2>5. \A m \in Displays : server'[m] = server[m] \/ (m = n /\ server'[m] = s)
    BY <1>a, <2>1, <2>2 DEF DisplayTypes
  <2>6. ServersPlanned'
    BY <1>d, <2>1, <2>3, <2>4, <2>5 DEF ServersPlanned
  <2>7. GoneEmpty'
    BY <1>d, <2>1, <2>3 DEF GoneEmpty
  <2> QED
    BY <2>6, <2>7
<1>7. ASSUME NEW s \in Sessions, AwaitSocket(s) PROVE (ServersPlanned /\ GoneEmpty)'
  <2>1. /\ pc[s] = "socket" /\ Planned(s, Display(num[s])) /\ phase[s] # "gone"
        /\ UNCHANGED <<server, num>>
    BY <1>7, <1>d DEF AwaitSocket, GoneEmpty
  <2>2. Display(num[s]) \in Plan /\ Display(num[s]).vd = num[s]
    BY <1>a, <2>1, PlanFields DEF DisplayTypes, Display
  <2> QED
    BY <1>3, <2>1, <2>2
<1>8. ASSUME NEW s \in Sessions, NEW i \in DOMAIN plans[s], pc[s] = "idle", phase[s] # "gone",
             Teardown(s, i)
      PROVE  (ServersPlanned /\ GoneEmpty)'
  <2>1. /\ plans' = [plans EXCEPT ![s] = RemoveAt(plans[s], i)]
        /\ UNCHANGED <<phase, num>>
        /\ \A t \in Sessions : pc'[t] = "socket" <=> pc[t] = "socket"
        /\ \A t \in Sessions \ {s} : pc'[t] = pc[t]
    BY <1>8, <1>a DEF Teardown, StopDisplay, BeginRemove, SessionTypes
  <2>2. /\ plans[s] \in Seq(Plan) /\ i \in 1..Len(plans[s]) /\ plans[s][i] \in Plan
        /\ Len(plans'[s]) = Len(plans[s]) - 1 /\ plans'[s] \in Seq(Plan)
        /\ \A j \in 1..(Len(plans[s]) - 1) : plans'[s][j] = plans[s][IF j < i THEN j ELSE j + 1]
        /\ \A t \in Sessions \ {s} : plans'[t] = plans[t]
    <3>1. plans \in [Sessions -> Seq(Plan)]
      BY <1>a DEF SessionTypes
    <3>2. plans[s] \in Seq(Plan) /\ i \in 1..Len(plans[s])
      BY <3>1
    <3> QED
      BY <2>1, <3>1, <3>2, Removed, ElementOfSeq
  <2>3. ASSUME NEW n, NEW k \in DOMAIN plans[s], k # i, plans[s][k].vd = n
        PROVE  \E j \in DOMAIN plans'[s] : plans'[s][j].vd = n
    <3> DEFINE j == IF k < i THEN k ELSE k - 1
    <3>1. DOMAIN plans'[s] = 1..(Len(plans[s]) - 1) /\ DOMAIN plans[s] = 1..Len(plans[s])
            /\ Len(plans[s]) \in Nat
      BY <2>2
    <3>2. j \in DOMAIN plans'[s] /\ (IF j < i THEN j ELSE j + 1) = k
      BY <2>2, <2>3, <3>1
    <3>3. plans'[s][j] = plans[s][k]
      BY <2>2, <3>1, <3>2
    <3> QED
      BY <2>3, <3>2, <3>3
\* The Xvfb of the plan at i does not run as session s any more.
  <2>4. \A n \in Displays : server'[n] = server[n] \/ server'[n] = NoOne
    BY <1>8, <1>a DEF Teardown, StopDisplay, BeginRemove, DisplayTypes
  <2>5. ASSUME NEW n \in Displays, plans[s][i].vd = n PROVE server'[n] # s
    <3>1. plans[s][i].vout = None /\ n # None
      BY <2>2, <2>5, NoneIsNothing DEF Plan, Output, Display
    <3>2. server' = [server EXCEPT ![n] = IF @ = s THEN NoOne ELSE @]
      BY <1>8, <2>5, <3>1 DEF Teardown, StopDisplay
    <3> QED
      BY <1>a, <3>2, PlansAssumption DEF DisplayTypes
  <2>6. ServersPlanned'
    <3> SUFFICES ASSUME NEW n \in Displays, NEW t \in Sessions, server'[n] = t
                 PROVE  \/ pc'[t] = "socket" /\ num'[t] = n
                        \/ \E j \in DOMAIN plans'[t] : plans'[t][j].vd = n
      BY DEF ServersPlanned
    <3>1. server[n] = t
      BY <2>4, PlansAssumption
    <3>2. \/ pc[t] = "socket" /\ num[t] = n
          \/ \E j \in DOMAIN plans[t] : plans[t][j].vd = n
      BY <3>1, <1>d DEF ServersPlanned
    <3>3. CASE t # s
      BY <2>1, <2>2, <3>2, <3>3
    <3>4. CASE t = s
      <4>1. PICK k \in DOMAIN plans[s] : plans[s][k].vd = n
        BY <1>8, <3>2, <3>4
      <4>2. k # i
        BY <2>5, <3>4, <4>1
      <4> QED
        BY <2>3, <3>4, <4>1, <4>2
    <3> QED
      BY <3>3, <3>4
  <2>7. GoneEmpty'
    BY <1>8, <1>d, <2>1, <2>2 DEF GoneEmpty
  <2> QED
    BY <2>6, <2>7
<1>9. ASSUME NEW s \in Sessions, EnterLoop(s) \/ LeaveLoop(s) PROVE (ServersPlanned /\ GoneEmpty)'
  <2>1. UNCHANGED <<pc, plans, server, num>>
    BY <1>9 DEF EnterLoop, LeaveLoop, displayVars
  <2>2. \A t \in Sessions : phase'[t] = "gone" => phase[t] = "gone"
    BY <1>9, <1>a DEF EnterLoop, LeaveLoop, SessionTypes
  <2> QED
    BY <1>d, <2>1, <2>2 DEF ServersPlanned, GoneEmpty
<1>10. ASSUME NEW s \in Sessions, Shutdown(s), plans[s] = <<>> PROVE (ServersPlanned /\ GoneEmpty)'
  <2>1. UNCHANGED <<pc, plans, server, num>> /\ pc[s] = "idle"
    BY <1>10 DEF Shutdown, displayVars
  <2>2. \A t \in Sessions : phase'[t] = "gone" => phase[t] = "gone" \/ t = s
    BY <1>10, <1>a DEF Shutdown, SessionTypes
  <2> QED
    BY <1>10, <1>d, <2>1, <2>2 DEF ServersPlanned, GoneEmpty
<1>11. CASE UNCHANGED <<phase, pc, plans, server, num>>
  BY <1>d, <1>11 DEF ServersPlanned, GoneEmpty
<1> QED
  <2>1. ASSUME NEW s \in Sessions, Step(s) PROVE (ServersPlanned /\ GoneEmpty)'
    <3>1. CASE RemoveMonitor(s) \/ (Shutdown(s) /\ plans[s] # <<>>)
      <4>1. plans[s] \in Seq(Plan)
        BY <1>a DEF SessionTypes
      <4> QED
        BY <1>8, <3>1, <4>1 DEF RemoveMonitor, Shutdown
    <3> QED
      BY <1>4, <1>5, <1>6, <1>7, <1>9, <1>10, <2>1, <3>1 DEF Step
  <2>2. ASSUME NEW n \in Displays, OpenSocket(n) PROVE (ServersPlanned /\ GoneEmpty)'
    BY <1>11, <2>2 DEF OpenSocket, sessionVars
  <2>3. CASE UNCHANGED vars
    BY <1>11, <2>3 DEF vars, sessionVars, displayVars
  <2> QED
    BY <2>1, <2>2, <2>3 DEF Next

\* When every session is gone and no command has failed, nothing is forced on,
\* nothing is in use and no Xvfb is left.
THEOREM EverythingGivenBack == Spec => []AllGivenBack
<1>1. Init => GivenInv
  BY PlansAssumption DEF Init, GivenInv, ServersPlanned, GoneEmpty
<1>2. Spec => []GivenInv
  <2>1. Spec => []TypeInv
    BY TypeInvInit, TypeInvStep, PTL DEF Spec
  <2> QED
    BY <1>1, <2>1, GivenInvStep, PTL DEF Spec
<1>3. TypeInv /\ GivenInv /\ AccountInv => AllGivenBack
  <2> SUFFICES ASSUME TypeInv, GivenInv, AccountInv, ~failed,
                      \A s \in Sessions : phase[s] = "gone"
               PROVE  forced = {} /\ inUse = {} /\ \A n \in Displays : server[n] = NoOne
    BY DEF AllGivenBack
  <2>1. \A s \in Sessions : pc[s] = "idle" /\ plans[s] = <<>>
    BY DEF GivenInv, GoneEmpty
  <2>2. Held = {} /\ LettingGo = {} /\ ForcingOn = {}
    BY <2>1 DEF Held, LettingGo, ForcingOn
  <2>3. inUse = {} /\ forced = {}
    BY <2>2 DEF AccountInv, PoolAccountsForPlans
  <2>4. \A n \in Displays : server[n] = NoOne
    BY <2>1 DEF GivenInv, ServersPlanned, TypeInv, DisplayTypes
  <2> QED
    BY <2>3, <2>4
<1>4. Spec => []TypeInv
  BY TypeInvInit, TypeInvStep, PTL DEF Spec
<1> QED
  BY <1>2, <1>3, <1>4, AccountInvHolds, PTL

=============================================================================
