------------------------------ MODULE EventLoop ------------------------------
(***************************************************************************)
(* The event loop of a simulation of one thread (Simulation_impl::run): it *)
(* pops the first activity of the vortex and executes it.  Activities are  *)
(* the events of components, the clocks and one-shots that call their      *)
(* handlers one after the other, the Exit object, the stop actions and the *)
(* SyncManager.  A handler may send an event, switch a clock handler of    *)
(* its component on or off, ask for a one-shot, and say OK or DoNotEnd.    *)
(* One step is one activity, or one call of a handler.                     *)
(***************************************************************************)
EXTENDS Exit, Sequences

CONSTANTS Clocks,           \* the clocks in clockMap
          OneShots,         \* the one-shots in oneShotMap
          Period,           \* of each clock
          ClockPriority,    \* of each clock
          Delay,            \* of each one-shot
          Uses,             \* <<component, clock>>: who has which handlers
          Delays,           \* of the events components send themselves
          Starts,           \* cycles of their first events
          Built,            \* the order in which setup inserts activities
          CompOrder,        \* the order in which it registers handlers
          MaxEvents,        \* bound: events a component sends
          MaxShots,         \* bound: one-shots a component asks for
          Horizon,          \* bound: cycle from which components fall silent
          Reopening,        \* components that call DoNotEndSim again
          Configs           \* what a run is started with: see config

Object(k, n, i) == [kind |-> k, name |-> n, nth |-> i]
ClockObj(k) == Object("clock", k, 0)
ShotObj(o) == Object("oneshot", o, 0)
EventObj(c, i) == Object("event", c, i)
ExitObj == Object("exit", NoComp, 0)
SyncObj == Object("sync", NoComp, 0)
EndStop == Object("stop", NoComp, 0)
StopAtObj == Object("stop", NoComp, 1)
Nothing == Object("none", NoComp, 0)

Objects ==
  {ClockObj(k) : k \in Clocks} \cup {ShotObj(o) : o \in OneShots}
  \cup {EventObj(c, i) : c \in Comps, i \in 1 .. MaxEvents}
  \cup {ExitObj, SyncObj, EndStop, StopAtObj}

(* The priorities of activity.h; a clock has its own. *)
ObjPriority ==
  [a \in Objects |->
     CASE a.kind = "clock" -> ClockPriority[a.name]
       [] a.kind = "oneshot" -> 80
       [] OTHER -> Priority[a.kind]]

TV == INSTANCE TimeVortexPQ WITH Activities <- Objects, PriorityOf <- ObjPriority

ASSUME EventLoopAssumption ==
  /\ NumRanks = 1 /\ NumThreads = 1
  /\ Period \in [Clocks -> Nat \ {0}] /\ Delay \in [OneShots -> Nat \ {0}]
  /\ ClockPriority \in [Clocks -> {40, 85}]
  /\ Uses \subseteq Comps \X Clocks /\ Delays \subseteq Nat \ {0}
  /\ Reopening \subseteq Comps
  /\ Configs \subseteq [primary : SUBSET Comps, on : SUBSET Uses,
                        engine : SUBSET Clocks, stop : SimTime]

VARIABLES vortex,           \* timeVortex
          now,              \* currentSimCycle
          prio,             \* currentPriority
          exec,             \* the clock or one-shot whose handlers are being
                            \* called, and the index of the next of them
          handlers,         \* staticHandlerMap, per clock
          cycle,            \* currentCycle, per clock
          scheduled,        \* scheduled, per clock
          shots,            \* m_HandlerVectorMap, per one-shot, newest first
          waiting,          \* m_scheduled, per one-shot
          sent,             \* events each component has sent
          asked,            \* one-shots each component has asked for
          endSim,           \* endSim
          endCycle,         \* endSimCycle
          okAt,             \* history: cycle of a component's last OK
          config            \* command line and configuration, fixed

clockVars == <<handlers, cycle, scheduled>>
shotVars == <<shots, waiting>>
loopVars == <<vortex, now, prio, exec, endSim, endCycle>>
vars == <<loopVars, clockVars, shotVars, sent, asked, okAt, config, exitVars>>

Idle == [what |-> Nothing, at |-> 0]
Thread == <<0, 0>>
Without(s, i) == SubSeq(s, 1, i - 1) \o SubSeq(s, i + 1, Len(s))
Members(s) == {s[i] : i \in DOMAIN s}

TypeOK ==
  /\ ExitTypeOK
  /\ vortex \in TV!Vortices
  /\ now \in SimTime /\ prio \in Nat /\ endSim \in BOOLEAN /\ endCycle \in SimTime
  /\ exec.what \in Objects \cup {Nothing} /\ exec.at \in Nat
  /\ handlers \in [Clocks -> Seq(Comps \cup {NoComp})]
  /\ cycle \in [Clocks -> SimTime] /\ scheduled \in [Clocks -> BOOLEAN]
  /\ \A o \in OneShots : \A i \in DOMAIN shots[o] :
       shots[o][i].time \in SimTime /\ Members(shots[o][i].list) \subseteq Comps
  /\ waiting \in [OneShots -> BOOLEAN]
  /\ sent \in [Comps -> 0 .. MaxEvents] /\ asked \in [Comps -> 0 .. MaxShots]
  /\ okAt \in [Comps -> SimTime]

----------------------------------------------------------------------------
(* Clock::schedule() at cycle t, while an activity of priority p runs: the *)
(* next multiple of the period, or t itself if the clock comes later in    *)
(* the same cycle.  That is so for no clock that stops and starts again:   *)
(* components are called at the priority of clocks or after it, and the    *)
(* later statistics clocks start before cycle 0 (statengine.cc:145).       *)
FirstTick(k, t, p) ==
  IF p < ClockPriority[k] /\ t # 0 /\ t % Period[k] = 0 THEN t
  ELSE Plus((t \div Period[k]) * Period[k], Period[k])

(* fault: a clock that starts again goes on counting where it stopped *)
RegisterCountsOn(c, k, v, hs) ==
  /\ handlers' = [hs EXCEPT ![k] = Append(@, c)]
  /\ scheduled' = [scheduled EXCEPT ![k] = TRUE]
  /\ vortex' = IF scheduled[k] THEN v
               ELSE TV!Insert(v, ClockObj(k), FirstTick(k, now', prio'))
  /\ UNCHANGED cycle

(* registerHandler(c) on clock k, which registerClock has created unless   *)
(* it was there.  v and hs are the vortex and the handlers so far.         *)
Register(c, k, v, hs) ==
  /\ handlers' = [hs EXCEPT ![k] = Append(@, c)]
  /\ scheduled' = [scheduled EXCEPT ![k] = TRUE]
  /\ IF scheduled[k] THEN vortex' = v /\ UNCHANGED cycle
     ELSE /\ cycle' = [cycle EXCEPT ![k] = now' \div Period[k]]
          /\ vortex' = TV!Insert(v, ClockObj(k), FirstTick(k, now', prio'))

(* unregisterHandler(c) on clock k *)
Unregister(c, k, hs) ==
  /\ handlers' = [hs EXCEPT ![k] = SelectSeq(@, LAMBDA h : h # c)]
  /\ UNCHANGED <<cycle, scheduled>>

(* OneShot::registerHandler(c): handlers for the same cycle share a list,  *)
(* and only the oldest list is in the vortex.                              *)
RegisterShot(c, o, v) ==
  LET t == Plus(now', Delay[o])
      s == shots[o]
  IN  /\ shots' = [shots EXCEPT ![o] =
                     IF s # <<>> /\ s[1].time = t
                     THEN [s EXCEPT ![1].list = Append(@, c)]
                     ELSE <<[time |-> t, list |-> <<c>>]>> \o s]
      /\ waiting' = [waiting EXCEPT ![o] = TRUE]
      /\ vortex' = IF waiting[o] THEN v
                   ELSE TV!Insert(v, ShotObj(o), shots'[o][Len(shots'[o])].time)

(* What refDec does to the vortex. *)
AfterOK(v, c) ==
  IF LastOfRank(c) THEN TV!Insert(v, ExitObj, Plus(now', 1)) ELSE v

----------------------------------------------------------------------------
(* A component is called and does one thing.  v is the vortex so far, hs   *)
(* the handlers; busy is the clock whose handlers are being called: its    *)
(* own handler leaves it by what it returns.                               *)
Say(c, v) ==
  \/ /\ c \in config.primary \cup Reopening
     /\ RefDec(c, now')
     /\ okAt' = [okAt EXCEPT ![c] = IF c \in idSet[0] THEN now' ELSE @]
     /\ vortex' = AfterOK(v, c)
  \/ /\ c \in Reopening /\ now' < Horizon
     /\ RefInc(c)
     /\ vortex' = v /\ UNCHANGED okAt

SendEvent(c, v) ==
  \E d \in Delays :
    /\ sent[c] < MaxEvents /\ now' < Horizon
    /\ sent' = [sent EXCEPT ![c] = @ + 1]
    /\ vortex' = TV!Insert(v, EventObj(c, sent'[c]), Plus(now', d))

SwitchClock(c, v, hs, busy) ==
  \E k \in Clocks \ {busy} :
    /\ <<c, k>> \in Uses
    /\ IF c \in Members(hs[k]) THEN Unregister(c, k, hs) /\ vortex' = v
       ELSE now' < Horizon /\ Register(c, k, v, hs)

AskShot(c, v) ==
  \E o \in OneShots :
    /\ asked[c] < MaxShots /\ now' < Horizon
    /\ asked' = [asked EXCEPT ![c] = @ + 1]
    /\ RegisterShot(c, o, v)

(* Something that c has asked for is still to come. *)
StaysAwake(c) ==
  \/ \E a \in TV!In(vortex') : a.kind = "event" /\ a.name = c
  \/ \E k \in Clocks : c \in Members(handlers'[k])
  \/ \E o \in OneShots : \E i \in DOMAIN shots'[o] :
       c \in Members(shots'[o][i].list) /\ shots'[o][i].time > now'

Act(c, v, hs, busy) ==
  /\ \/ /\ vortex' = v /\ handlers' = hs
        /\ UNCHANGED <<cycle, scheduled, shotVars, sent, asked, okAt, exitVars>>
     \/ /\ Say(c, v) /\ handlers' = hs
        /\ UNCHANGED <<cycle, scheduled, shotVars, sent, asked>>
     \/ /\ SendEvent(c, v) /\ handlers' = hs
        /\ UNCHANGED <<cycle, scheduled, shotVars, asked, okAt, exitVars>>
     \/ /\ SwitchClock(c, v, hs, busy)
        /\ UNCHANGED <<shotVars, sent, asked, okAt, exitVars>>
     \/ /\ AskShot(c, v) /\ handlers' = hs
        /\ UNCHANGED <<cycle, scheduled, sent, okAt, exitVars>>
  /\ c \in idSet'[0] => StaysAwake(c)

----------------------------------------------------------------------------
(* The loop pops a, and executes it. *)
Pop(a) ==
  /\ exec = Idle /\ ~endSim
  /\ a = TV!Front(vortex)
  /\ now' = vortex.due[a] /\ prio' = ObjPriority[a]

HandleEvent ==
  \E c \in Comps, i \in 1 .. MaxEvents :
    /\ Pop(EventObj(c, i))
    /\ Act(c, TV!Pop(vortex), handlers, NoComp)
    /\ UNCHANGED <<exec, endSim, endCycle, config>>

(* Clock::execute(): without handlers the clock is not inserted again. *)
Tick ==
  \E k \in Clocks :
    /\ Pop(ClockObj(k))
    /\ vortex' = TV!Pop(vortex)
    /\ IF handlers[k] = <<>>
       THEN /\ scheduled' = [scheduled EXCEPT ![k] = FALSE]
            /\ UNCHANGED <<cycle, exec>>
       ELSE /\ cycle' = [cycle EXCEPT ![k] = Plus(@, 1)]
            /\ exec' = [what |-> ClockObj(k), at |-> 1]
            /\ UNCHANGED scheduled
    /\ UNCHANGED <<endSim, endCycle, handlers, shotVars, sent, asked, okAt,
                   config, exitVars>>

(* One round of its loop: a handler that returns true is erased, and the   *)
(* next one takes its place.  The statistics engine (NoComp) stays.        *)
TickHandler ==
  LET k == exec.what.name
  IN  /\ exec.what.kind = "clock" /\ exec.at \in DOMAIN handlers[k]
      /\ UNCHANGED <<now, prio>>
      /\ \E done \in BOOLEAN :
           LET c == handlers[k][exec.at]
               hs == IF done THEN [handlers EXCEPT ![k] = Without(@, exec.at)]
                     ELSE handlers
           IN  /\ exec' = [exec EXCEPT !.at = IF done THEN @ ELSE @ + 1]
               /\ IF c = NoComp
                  THEN /\ ~done
                       /\ UNCHANGED <<vortex, clockVars, shotVars, sent, asked,
                                      okAt, exitVars>>
                  ELSE /\ now >= Horizon => done
                       /\ Act(c, vortex, hs, k)
      /\ UNCHANGED <<endSim, endCycle, config>>

TickDone ==
  LET k == exec.what.name
  IN  /\ exec.what.kind = "clock" /\ exec.at > Len(handlers[k])
      /\ vortex' = TV!Insert(vortex, ClockObj(k), Plus(now, Period[k]))
      /\ exec' = Idle
      /\ UNCHANGED <<now, prio, endSim, endCycle, clockVars, shotVars, sent,
                     asked, okAt, config, exitVars>>

(* OneShot::execute() *)
Fire ==
  \E o \in OneShots :
    /\ Pop(ShotObj(o))
    /\ vortex' = TV!Pop(vortex)
    /\ exec' = IF shots[o][Len(shots[o])].time = now'
               THEN [what |-> ShotObj(o), at |-> 1] ELSE exec
    /\ UNCHANGED <<endSim, endCycle, clockVars, shotVars, sent, asked, okAt,
                   config, exitVars>>

Firing(o) == shots[o][Len(shots[o])].list

FireHandler ==
  LET o == exec.what.name
  IN  /\ exec.what.kind = "oneshot" /\ exec.at \in DOMAIN Firing(o)
      /\ UNCHANGED <<now, prio>>
      /\ Act(Firing(o)[exec.at], vortex, handlers, NoComp)
      /\ exec' = [exec EXCEPT !.at = @ + 1]
      /\ UNCHANGED <<endSim, endCycle, config>>

(* fault: all lists are dropped *)
FireDoneAll ==
  LET o == exec.what.name
  IN  /\ exec.what.kind = "oneshot" /\ exec.at > Len(Firing(o))
      /\ shots' = [shots EXCEPT ![o] = <<>>]
      /\ waiting' = [waiting EXCEPT ![o] = FALSE]
      /\ exec' = Idle
      /\ UNCHANGED <<vortex, now, prio, endSim, endCycle, clockVars, sent, asked,
                     okAt, config, exitVars>>

(* The list is dropped, and the next oldest takes its place in the vortex. *)
FireDone ==
  LET o == exec.what.name
  IN  /\ exec.what.kind = "oneshot" /\ exec.at > Len(Firing(o))
      /\ LET rest == SubSeq(shots[o], 1, Len(shots[o]) - 1)
         IN  /\ shots' = [shots EXCEPT ![o] = rest]
             /\ waiting' = [waiting EXCEPT ![o] = rest # <<>>]
             /\ vortex' = IF rest = <<>> THEN vortex
                          ELSE TV!Insert(vortex, exec.what, rest[Len(rest)].time)
      /\ exec' = Idle
      /\ UNCHANGED <<now, prio, endSim, endCycle, clockVars, sent, asked, okAt,
                     config, exitVars>>

EndSimulation(t) == endSim' = TRUE /\ endCycle' = t

(* fault: the count is not looked at again *)
ExitUnchecked ==
  /\ Pop(ExitObj)
  /\ vortex' = TV!Pop(vortex)
  /\ CheckExit(Ranks)
  /\ EndSimulation(endTime'[0])
  /\ UNCHANGED <<exec, clockVars, shotVars, sent, asked, okAt, config>>

(* Exit::execute() *)
ExitAction ==
  /\ Pop(ExitObj)
  /\ vortex' = TV!Pop(vortex)
  /\ CheckExit(Ranks)
  /\ IF OpenRanks(Ranks) = 0 THEN EndSimulation(endTime'[0])
     ELSE UNCHANGED <<endSim, endCycle>>
  /\ UNCHANGED <<exec, clockVars, shotVars, sent, asked, okAt, config>>

(* StopAction::execute() *)
Stop ==
  \E a \in {EndStop, StopAtObj} :
    /\ Pop(a)
    /\ vortex' = TV!Pop(vortex)
    /\ SetEndTime(0, now')
    /\ EndSimulation(now')
    /\ UNCHANGED <<exec, clockVars, shotVars, sent, asked, okAt, config>>

(* SyncManager::execute(): alone, it looks at the Exit object and comes    *)
(* back at the end of time.                                                *)
Sync ==
  /\ Pop(SyncObj)
  /\ vortex' = TV!Insert(TV!Pop(vortex), SyncObj, MaxTime)
  /\ CheckExit(Ranks)
  /\ IF OpenRanks(Ranks) = 0 THEN EndSimulation(endTime'[0])
     ELSE UNCHANGED <<endSim, endCycle>>
  /\ UNCHANGED <<exec, clockVars, shotVars, sent, asked, okAt, config>>

Finished == endSim /\ exec = Idle /\ UNCHANGED vars

----------------------------------------------------------------------------
(* Construction and setup insert, in the order Built: the clocks that       *)
(* somebody has a handler on, the SyncManager, the --stop-at action, a     *)
(* first event of every component, and the stop at the end.                *)
Present(g, a) ==
  /\ a.kind = "clock" =>
       a.name \in g.engine \/ \E c \in Comps : <<c, a.name>> \in g.on
  /\ a = StopAtObj => g.stop # 0

FirstDue(g, start, a) ==
  CASE a.kind = "clock" -> Period[a.name]
    [] a.kind = "event" -> start[a.name]
    [] a = StopAtObj -> g.stop
    [] OTHER -> MaxTime

Filled(g, start) ==
  LET fill[i \in 0 .. Len(Built)] ==
        IF i = 0 THEN TV!NewVortex
        ELSE IF ~Present(g, Built[i]) THEN fill[i - 1]
        ELSE TV!Insert(fill[i - 1], Built[i], FirstDue(g, start, Built[i]))
  IN  fill[Len(Built)]

(* The handlers of a clock, in the order of Uses. *)
Registered(g, k) ==
  SelectSeq(CompOrder, LAMBDA c : <<c, k>> \in g.on)
  \o (IF k \in g.engine THEN <<NoComp>> ELSE <<>>)

Init ==
  /\ config \in Configs
  /\ ExitInit(config.primary)
  /\ \E start \in [Comps -> Starts] : vortex = Filled(config, start)
  /\ now = 0 /\ prio = 0 /\ exec = Idle /\ endSim = FALSE /\ endCycle = 0
  /\ handlers = [k \in Clocks |-> Registered(config, k)]
  /\ cycle = [k \in Clocks |-> 0]
  /\ scheduled = [k \in Clocks |-> handlers[k] # <<>>]
  /\ shots = [o \in OneShots |-> <<>>]
  /\ waiting = [o \in OneShots |-> FALSE]
  /\ sent = [c \in Comps |-> 1]
  /\ asked = [c \in Comps |-> 0]
  /\ okAt = [c \in Comps |-> 0]

Next ==
  \/ HandleEvent \/ Tick \/ TickHandler \/ TickDone \/ Fire \/ FireHandler
  \/ FireDone \/ ExitAction \/ Stop \/ Sync \/ Finished

Spec == Init /\ [][Next]_vars

----------------------------------------------------------------------------
(* Properties.                                                             *)

(* What the components of the thread are waiting for.  A clock handler     *)
(* that has been called in this tick waits for the next.                   *)
Appointment(w, c, o, n, t, p) ==
  [what |-> w, who |-> c, of |-> o, nth |-> n, time |-> t, prio |-> p]

TickOf(k, i) ==
  IF exec.what # ClockObj(k) THEN vortex.due[ClockObj(k)]
  ELSE IF i >= exec.at THEN now ELSE now + Period[k]

Appointments ==
  {Appointment("event", a.name, a.name, a.nth, vortex.due[a], 50) :
     a \in {b \in TV!In(vortex) : b.kind = "event"}}
  \cup UNION {{Appointment("clock", handlers[k][i], k, 0, TickOf(k, i),
                           ClockPriority[k]) :
                 i \in {j \in DOMAIN handlers[k] : handlers[k][j] # NoComp}} :
              k \in Clocks}
  \cup UNION {UNION {
         {Appointment("oneshot", shots[o][i].list[j], o, j, shots[o][i].time, 80) :
            j \in {n \in DOMAIN shots[o][i].list :
                     ~(exec.what = ShotObj(o) /\ i = Len(shots[o]) /\ n < exec.at)}} :
         i \in DOMAIN shots[o]} : o \in OneShots}

(* Every event is handled, every clock handler called at each tick and     *)
(* every one-shot at its time, once and in order (clock.cc:88, clock.cc:    *)
(* 104, oneshot.cc:122, oneshot.cc:139).                                   *)
Abs == INSTANCE Agenda WITH agenda <- Appointments, clock <- now
AgendaKept == Abs!Spec

(* The cycle number that handlers are given, and that reregisterClock      *)
(* returns, is that of the time at which they are called (baseComponent.h: *)
(* 312-315), however often the clock has stopped in between.               *)
CycleRight ==
  \A k \in Clocks : scheduled[k] =>
    IF exec.what = ClockObj(k) THEN cycle[k] * Period[k] = now
    ELSE (cycle[k] + 1) * Period[k] = vortex.due[ClockObj(k)]

ClockInv == TypeOK /\ CycleRight

(* The statistics engine samples a cycle when the clock handlers and the   *)
(* events of that cycle are done (statengine.cc:176).                      *)
SampledLast ==
  exec.what.kind = "clock" /\ ClockPriority[exec.what.name] = 85 =>
    \A a \in TV!In(vortex) :
      vortex.due[a] = now => ObjPriority[a] >= 85

(* The loop ends when every component has said OK and none has taken it    *)
(* back, with the cycle of the last OK, or at --stop-at.  Where no         *)
(* component ever holds it open everything is done before the sync at the  *)
(* end of time ends it (exit.cc:140, syncManager.cc:370).                  *)
LastOK == MinTime({t \in SimTime : \A c \in Comps : okAt[c] <= t})

EndsRight ==
  endSim =>
    \/ config.stop # 0 /\ endCycle = config.stop
    \/ /\ idSet[0] = {} /\ refCount[0] = 0 /\ endCycle = LastOK
       /\ LastOK = 0 /\ config.primary = {} => Appointments = {}
=============================================================================
