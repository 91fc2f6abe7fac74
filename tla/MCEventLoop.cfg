CONSTANTS
  c1 = c1
  c2 = c2
  clk = clk
  stat = stat
  shot = shot
  NoComp = NoComp
  NumRanks = 1
  NumThreads = 1
  MaxTime = 31
  Comps <- Both
  Home <- MCHome
  Clocks = {clk, stat}
  OneShots = {shot}
  Period <- MCPeriod
  ClockPriority <- MCClockPriority
  Delay <- MCDelay
  Uses <- MCUses
  Delays = {1, 2}
  Starts = {2}
  Built <- MCBuilt
  CompOrder <- MCCompOrder
  MaxEvents = 2
  MaxShots = 1
  Horizon = 5
  Reopening = {c1}
  Configs <- MCConfigs
SPECIFICATION Spec
INVARIANTS ClockInv SampledLast EndsRight
PROPERTIES AgendaKept
