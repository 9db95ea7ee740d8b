-------------------------------- MODULE Charts --------------------------------
(***************************************************************************)
(* ui/widgets/HistoryChart.cpp, and what DashboardPage and SensorsPage let *)
(* it sample.  A chart takes a sample in every frame in which its page is  *)
(* drawn and has something to show; nothing else drops its points.         *)
(*                                                                         *)
(* A behaviour follows one chart: of a value that may be unavailable, of   *)
(* the fastest of two network adapters, or of the temperature of drives,   *)
(* whose charts are found by name, so that two drives of one model share   *)
(* one.                                                                    *)
(***************************************************************************)
EXTENDS Integers, Sequences, FiniteSetsExt

CONSTANTS Capacity, Window,   (* 300 points, 90 seconds *)
          MaxTime, MaxValue

VARIABLES
  card,            (* which chart it is                                     *)
  now,             (* steady_clock, at the last frame                       *)
  points,          (* m_points                                              *)
  lastSampleTime,  (* m_lastSampleTime                                      *)
  offered          (* the first value each frame had to show                *)

vars == <<card, now, points, lastSampleTime, offered>>

Cards == {"value", "network", "drives"}
Values == 1 .. MaxValue

Init ==
  /\ card \in Cards
  /\ now = 0 /\ points = <<>> /\ lastSampleTime = -1
  /\ offered = <<>>

-----------------------------------------------------------------------------
(* sample()                                                                *)

(* Points go from the front while there are too many, or the first is old. *)
Popped(p, t) ==
  LET stops == {i \in 1 .. Len(p) : Len(p) - i < Capacity /\ p[i].time >= t - Window}
  IN IF stops = {} THEN <<>> ELSE SubSeq(p, Min(stops), Len(p))

(* Of several samples at one time only the first counts.                   *)
sample(chart, value, t) ==
  IF t <= chart.last THEN chart
  ELSE [points |-> Popped(Append(chart.points, [time |-> t, value |-> value]), t), last |-> t]

-----------------------------------------------------------------------------
(* The pages.                                                              *)

(* Of the adapters that receive anything, the rate of the fastest.         *)
Best(rates) ==
  LET rx == {rates[a] : a \in DOMAIN rates} \ {0} IN IF rx = {} THEN <<>> ELSE <<Max(rx)>>

(* The values a frame may have for a chart, in the order it samples them.  *)
Shown ==
  CASE card = "value"   -> {<<>>} \cup {<<v>> : v \in Values}
    [] card = "network" -> {Best(rates) : rates \in [{1, 2} -> {0} \cup Values]}
    [] card = "drives"  -> {<<>>} \cup {<<v>> : v \in Values} \cup (Values \X Values)

(* A frame; the page may not have been drawn for a while.                  *)
Draw ==
  \E gap \in {1, Window + 1}, values \in Shown :
    /\ now + gap <= MaxTime
    /\ now' = now + gap
    /\ LET chart == [points |-> points, last |-> lastSampleTime]
           after == IF values = <<>> THEN chart
                    ELSE IF Len(values) = 1 THEN sample(chart, values[1], now')
                    ELSE sample(sample(chart, values[1], now'), values[2], now')
       IN points' = after.points /\ lastSampleTime' = after.last
    /\ offered' = IF values = <<>> THEN offered
                  ELSE Append(offered, [time |-> now', value |-> values[1]])
    /\ UNCHANGED card

(* The toolbox is started again; charts are not kept.                      *)
Restart ==
  /\ now' = 0 /\ points' = <<>> /\ lastSampleTime' = -1
  /\ offered' = <<>>
  /\ UNCHANGED card

Next == Draw \/ Restart

Spec == Init /\ [][Next]_vars

-----------------------------------------------------------------------------
(* draw()                                                                  *)

(* The chart is as wide as the time from the first point to the last.      *)
X(i, width) ==
  LET span == points[Len(points)].time - points[1].time
  IN ((points[i].time - points[1].time) * width) \div (IF span > 0 THEN span ELSE 1)

lastValue == IF points = <<>> THEN 0 ELSE points[Len(points)].value
maxInWindow == Max({0} \cup {points[i].value : i \in 1 .. Len(points)})

-----------------------------------------------------------------------------
(* Properties.                                                             *)

Samples == [time : 0 .. MaxTime, value : Values]

(* Types.                                                                  *)
TypeOK ==
  /\ card \in Cards /\ now \in 0 .. MaxTime
  /\ points \in Seq(Samples) /\ Len(points) <= Capacity
  /\ lastSampleTime \in -1 .. MaxTime
  /\ offered \in Seq(Samples)

(* The curve is that of what the frames had to show: the values not older  *)
(* than the window when the last of them came, the latest of these if they *)
(* are too many; whatever gaps there were, and whoever shares the chart.   *)
(* It goes from one side to the other, and the numbers beside it are its   *)
(* last and its highest.  Beside an empty curve they are 0.                *)
CurveIsTheLatest ==
  LET last == offered[Len(offered)]
      n == Len(points)
      dropped == Len(offered) - n
  IN IF offered = <<>>
     THEN points = <<>> /\ lastValue = 0 /\ maxInWindow = 0
     ELSE
       /\ n \in 1 .. Len(offered)
       /\ \A i \in 1 .. n : points[i] = offered[dropped + i]
       /\ \A i \in 1 .. Len(offered) :
            i <= dropped <=> \/ offered[i].time < last.time - Window
                            \/ Len(offered) - i >= Capacity
       /\ lastValue = last.value
       /\ \A i \in 1 .. n : maxInWindow >= points[i].value
       /\ X(1, 10) = 0 /\ (n > 1 => X(n, 10) = 10)

(* No fabricated zero is displayed (docs/architecture.md): the number that *)
(* DashboardPage prints beside the chart of a value that may be            *)
(* unavailable is one there was to show.  Beside an empty chart it prints  *)
(* 0 (ZerosMC).                                                            *)
NothingFabricated ==
  now > 0 /\ card = "value"
    => \E i \in 1 .. Len(offered) : offered[i].value = lastValue
==============================================================================
