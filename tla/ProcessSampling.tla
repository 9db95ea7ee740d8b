---------------------------- MODULE ProcessSampling ----------------------------
(***************************************************************************)
(* The CPU shares of ProcessProvider::refresh.  A sample is one call of    *)
(* NtQuerySystemInformation, which reports the processes alive and the     *)
(* time each has used; a share compares two samples.  The time of the      *)
(* whole system is taken as the sum over the processes alive, so it falls  *)
(* when a process ends, and a process number may belong to somebody else   *)
(* in the next sample.                                                     *)
(*                                                                         *)
(* The idle process, number 0, never ends and uses what the others leave.  *)
(* Shares are whole percents, rounded down.  The IO rates are computed     *)
(* from the same two samples in the same way and are left out.             *)
(***************************************************************************)
EXTENDS Integers, FiniteSets, FiniteSetsExt

CONSTANTS Pids,      (* the process numbers but 0                          *)
          MaxRun,    (* bound: the ticks a process runs in an interval     *)
          MaxTime,   (* bound: the time a process uses in its life         *)
          MaxSamples (* bound: how many samples are taken                  *)

Idle == 0

None == -1

VARIABLES
  time,      (* the time used by the process of each number, None for none *)
  prev,      (* m_impl->prev: its time in the last sample, None for none   *)
  prevTotal, (* m_impl->prevTotalTicks                                     *)
  snapshot,  (* the shares shown, and the total                            *)
  samples,   (* how many samples were taken                                *)
  ran,       (* history: what the present process used since the sample    *)
  churn      (* history: did a process start, or end, since the sample     *)

vars == <<time, prev, prevTotal, snapshot, samples, ran, churn>>

AllPids == Pids \cup {Idle}
Alive == {p \in AllPids : time[p] # None}
Quiet == [started |-> FALSE, ended |-> FALSE]

(* The sum of f over S.                                                    *)
SumOver(S, f) == MapThenSumSet(LAMBDA p : f[p], S)
TotalTicks == SumOver(Alive, time)

Init ==
  /\ time \in [AllPids -> {None, 0, MaxRun}]
  /\ time[Idle] = MaxRun
  /\ prev = [p \in AllPids |-> None] /\ prevTotal = 0
  /\ snapshot = [available |-> FALSE, cpu |-> [p \in AllPids |-> 0], total |-> 0]
  /\ samples = 0
  /\ ran = [p \in AllPids |-> 0] /\ churn = Quiet

-----------------------------------------------------------------------------
(* The system.                                                             *)

Run(p, ticks) ==
  /\ time[p] # None
  /\ time[p] + ticks <= MaxTime
  /\ ran[p] + ticks <= MaxRun
  /\ time' = [time EXCEPT ![p] = @ + ticks]
  /\ ran' = [ran EXCEPT ![p] = @ + ticks]
  /\ UNCHANGED <<prev, prevTotal, snapshot, samples, churn>>

Begin(p) ==
  /\ time[p] = None
  /\ time' = [time EXCEPT ![p] = 0]
  /\ ran' = [ran EXCEPT ![p] = 0]
  /\ churn' = [churn EXCEPT !.started = TRUE]
  /\ UNCHANGED <<prev, prevTotal, snapshot, samples>>

End(p) ==
  /\ p # Idle /\ time[p] # None
  /\ time' = [time EXCEPT ![p] = None]
  /\ ran' = [ran EXCEPT ![p] = 0]
  /\ churn' = [churn EXCEPT !.ended = TRUE]
  /\ UNCHANGED <<prev, prevTotal, snapshot, samples>>

-----------------------------------------------------------------------------
(* refresh().                                                              *)

(* Mutant of Percent: a share is not clamped.                              *)
PercentUnclamped(ticks, total) ==
  IF total = 0 THEN 0 ELSE (100 * ticks) \div total

(* computeProcessCpuPercent: never more than 100.                          *)
Percent(ticks, total) ==
  IF total = 0 THEN 0 ELSE Min({100, (100 * ticks) \div total})

Baseline == prevTotal > 0 /\ TotalTicks > prevTotal

(* Mutant of Delta: the times are subtracted as they are, in uint64.       *)
DeltaWraps(p) ==
  IF ~Baseline \/ time[p] = None \/ prev[p] = None THEN 0
  ELSE (time[p] - prev[p]) % 2 ^ 16

(* The time p used between the samples, 0 when nothing is known of it or   *)
(* when the number has passed to a process with less.                      *)
Delta(p) ==
  IF Baseline /\ time[p] # None /\ prev[p] # None /\ time[p] > prev[p]
  THEN time[p] - prev[p]
  ELSE 0

(* totalCpuPercent: what the idle process did not use.                     *)
TotalPercent(total) ==
  IF total > 0 THEN Max({0, (100 * (total - Delta(Idle))) \div total}) ELSE 0

Sample ==
  /\ samples < MaxSamples
  /\ LET total == IF Baseline THEN TotalTicks - prevTotal ELSE 0
     IN snapshot' = [available |-> TRUE,
                     cpu |-> [p \in AllPids |-> Percent(Delta(p), total)],
                     total |-> TotalPercent(total)]
  /\ prev' = time
  /\ prevTotal' = TotalTicks
  /\ samples' = samples + 1
  /\ ran' = [p \in AllPids |-> 0] /\ churn' = Quiet
  /\ UNCHANGED time

(* The enumeration failed: no processes are shown, and the next sample is  *)
(* compared with the last good one.                                        *)
SampleFails ==
  /\ samples < MaxSamples
  /\ snapshot' = [available |-> FALSE, cpu |-> [p \in AllPids |-> 0], total |-> 0]
  /\ samples' = samples + 1
  /\ UNCHANGED <<time, prev, prevTotal, ran, churn>>

Next ==
  \/ \E p \in AllPids : (\E ticks \in 1 .. MaxRun : Run(p, ticks)) \/ Begin(p) \/ End(p)
  \/ Sample \/ SampleFails

Spec == Init /\ [][Next]_vars

-----------------------------------------------------------------------------
(* Properties.                                                             *)

Percents == 0 .. 100

(* Types; the shares and the total are percents.                           *)
TypeOK ==
  /\ time \in [AllPids -> 0 .. MaxTime \cup {None}]
  /\ prev \in [AllPids -> 0 .. MaxTime \cup {None}]
  /\ prevTotal \in Nat /\ samples \in 0 .. MaxSamples
  /\ snapshot \in [available : BOOLEAN, cpu : [AllPids -> Percents], total : Percents]
  /\ ran \in [AllPids -> 0 .. MaxRun] /\ churn \in [started : BOOLEAN, ended : BOOLEAN]

Sampled == samples' # samples /\ snapshot'.available

(* No process is charged for more than it used itself since the last       *)
(* sample, whoever had its number before.                                  *)
ChargedForItsOwn ==
  [][Sampled => \A p \in AllPids :
       snapshot'.cpu[p] * (prevTotal' - prevTotal) <= 100 * ran[p]]_vars

Shares == SumOver(Pids, snapshot'.cpu)

(* ProcessProvider.h: the shares add up to the use of the system, when no  *)
(* process ended since the last sample: never to more, and to less only    *)
(* by what new processes used and by the rounding.                         *)
SharesAddUp ==
  [][Sampled /\ ~churn.ended =>
       /\ Shares <= snapshot'.total
       /\ ~churn.started => snapshot'.total - Shares <= Cardinality(Pids)]_vars

Tolerance == 10   (* percents, as "approximately" is read *)

(* The same without the condition, as the comment states it, for an        *)
(* interval in which no process started.                                   *)
SharesAlwaysAddUp ==
  [][Sampled /\ ~churn.started => Shares <= snapshot'.total + Tolerance]_vars

==============================================================================
