----------------------------- MODULE MCEventLoop -----------------------------
(* Two components, a clock both use and one of the statistics engine, and a *)
(* one-shot, for the runs of EventLoop.                                    *)
EXTENDS EventLoop, TLC

CONSTANTS c1, c2, clk, stat, shot

MCHome == c1 :> <<0, 0>> @@ c2 :> <<0, 0>>
MCPeriod == clk :> 2 @@ stat :> 3
MCClockPriority == clk :> 40 @@ stat :> 85
MCDelay == shot :> 2
MCUses == {c1, c2} \X {clk}
MCBuilt == <<ClockObj(clk), ClockObj(stat), SyncObj, StopAtObj,
             EventObj(c1, 1), EventObj(c2, 1), EndStop>>
MCCompOrder == <<c1, c2>>

Option(p, on, e, s) == [primary |-> p, on |-> on, engine |-> e, stop |-> s]
Both == {c1, c2}
MCConfigs ==
  {Option({c1, c2}, {<<c1, clk>>}, {stat}, 0),
   Option({c1}, {<<c1, clk>>, <<c2, clk>>}, {}, 0),
   Option({}, {<<c2, clk>>}, {}, 0),
   Option({c1}, {}, {stat}, 4)}
=============================================================================
