----------------------------- MODULE NetworkTests -----------------------------
(***************************************************************************)
(* NetworkProvider's ping and DNS tests, and the network page that draws   *)
(* their results while they run.                                           *)
(*                                                                         *)
(* The thread of a test publishes its result object at the beginning, with *)
(* inProgress set, and then fills the very object the page already holds;  *)
(* the page looks at inProgress first and reads the rest when it is clear. *)
(* Only the order of the assignments keeps the page from a half-filled     *)
(* report.                                                                 *)
(*                                                                         *)
(* As AsyncOperation shows, the second test of a program terminates it, so *)
(* a behaviour sees one test, and result is the object of that test.       *)
(* Milliseconds are whole, as the page shows them.                         *)
(***************************************************************************)
EXTENDS Integers

CONSTANTS Count,     (* runPingTest's count: 4 in the page                 *)
          Latencies  (* round-trip times in milliseconds                   *)

kNoMinimum == 1000000000   (* result->minMs = 1e9 *)

VARIABLES
  terminated,   (* std::terminate was called                               *)
  testRunning,  (* m_impl->testRunning                                     *)
  pc,           (* where the thread of the test is                         *)
  kind,         (* which result is published: none, ping or dns            *)
  result,       (* the object                                              *)
  echoes, lost, (* the loop of the ping test                               *)
  page,         (* idle, or reading an object it found finished            *)
  report        (* the latest report the page has drawn                    *)

vars == <<terminated, testRunning, pc, kind, result, echoes, lost, page, report>>

Refused  == {"invalid target", "no ICMP"}
Statuses == {"", "all received", "all lost", "some lost", "resolved", "not resolved"}
              \cup Refused

Fresh == [inProgress |-> TRUE, status |-> "", received |-> 0, avgMs |-> 0,
          minMs |-> 0, maxMs |-> 0, addresses |-> 0]

NoReport == [Fresh EXCEPT !.status = "no report"]

Init ==
  /\ terminated = FALSE /\ testRunning = FALSE /\ pc = "none" /\ kind = "none"
  /\ result = Fresh /\ echoes = 0 /\ lost = 0 /\ page = "idle" /\ report = NoReport

-----------------------------------------------------------------------------
(* The page's buttons: runPingTest and runDnsTest.                         *)

(* Dropped while a test runs; assigning the second thread destroys the     *)
(* first, which nobody joined.                                             *)
Run(k) ==
  /\ ~testRunning /\ ~terminated
  /\ testRunning' = TRUE
  /\ IF pc = "none"
     THEN pc' = k /\ UNCHANGED terminated
     ELSE terminated' = TRUE /\ UNCHANGED pc
  /\ UNCHANGED <<kind, result, echoes, lost, page, report>>

-----------------------------------------------------------------------------
(* The thread of a test.                                                   *)

Step(from, to) == pc = from /\ ~terminated /\ pc' = to

(* The new result is published with inProgress set.                        *)
Publish ==
  /\ \/ Step("ping", "target") /\ kind' = "ping"
     \/ Step("dns", "lookup") /\ kind' = "dns"
  /\ result' = Fresh
  /\ UNCHANGED <<terminated, testRunning, echoes, lost, page, report>>

(* The target is no address, or ICMP cannot be used.                       *)
PingRefused(why) ==
  /\ Step("target", "clear")
  /\ result' = [result EXCEPT !.status = why]
  /\ UNCHANGED <<terminated, testRunning, kind, echoes, lost, page, report>>

PingPrepare ==
  /\ Step("target", "echo")
  /\ result' = [result EXCEPT !.minMs = kNoMinimum]
  /\ echoes' = 0 /\ lost' = 0
  /\ UNCHANGED <<terminated, testRunning, kind, page, report>>

(* One echo: answered after ms, or lost.                                   *)
Echo ==
  /\ Step("echo", "echo")
  /\ echoes < Count
  /\ echoes' = echoes + 1
  /\ \/ \E ms \in Latencies :
          result' = [result EXCEPT !.avgMs = @ + ms, !.received = @ + 1,
                                   !.minMs = IF ms < @ THEN ms ELSE @,
                                   !.maxMs = IF ms > @ THEN ms ELSE @]
        /\ UNCHANGED lost
     \/ lost' = lost + 1 /\ UNCHANGED result
  /\ UNCHANGED <<terminated, testRunning, kind, page, report>>

(* Mutant of Average: inProgress is cleared before the status is known.    *)
AverageClears ==
  /\ Step("echo", "status")
  /\ echoes = Count
  /\ result' = [result EXCEPT !.avgMs = IF result.received > 0 THEN @ \div result.received ELSE @,
                              !.minMs = IF result.received = 0 THEN 0 ELSE @,
                              !.inProgress = FALSE]
  /\ UNCHANGED <<terminated, testRunning, kind, echoes, lost, page, report>>

(* The sum becomes an average, and a minimum nobody set becomes 0.         *)
Average ==
  /\ Step("echo", "status")
  /\ echoes >= Count
  /\ result' = [result EXCEPT !.avgMs = IF result.received > 0 THEN @ \div result.received ELSE @,
                              !.minMs = IF result.received = 0 THEN 0 ELSE @]
  /\ UNCHANGED <<terminated, testRunning, kind, echoes, lost, page, report>>

PingStatus ==
  /\ Step("status", "clear")
  /\ result' = [result EXCEPT !.status = IF lost = 0 THEN "all received"
                                         ELSE IF result.received = 0 THEN "all lost"
                                         ELSE "some lost"]
  /\ UNCHANGED <<terminated, testRunning, kind, echoes, lost, page, report>>

(* GetAddrInfoW returned n addresses, or failed.                           *)
DnsAnswer(n) ==
  /\ Step("lookup", "clear")
  /\ result' = [result EXCEPT !.addresses = n,
                              !.status = IF n > 0 THEN "resolved" ELSE "not resolved"]
  /\ UNCHANGED <<terminated, testRunning, kind, echoes, lost, page, report>>

(* inProgress = false, and the same object is stored again.                *)
ClearInProgress ==
  /\ Step("clear", "free")
  /\ result' = [result EXCEPT !.inProgress = FALSE]
  /\ UNCHANGED <<terminated, testRunning, kind, echoes, lost, page, report>>

(* Mutant of Free: the flag stays set.                                     *)
FreeForgotten ==
  /\ Step("free", "done")
  /\ UNCHANGED <<terminated, testRunning, kind, result, echoes, lost, page, report>>

Free ==
  /\ Step("free", "done")
  /\ testRunning' = FALSE
  /\ UNCHANGED <<terminated, kind, result, echoes, lost, page, report>>

-----------------------------------------------------------------------------
(* NetworkPage::draw.                                                      *)

Look ==
  /\ page = "idle" /\ ~terminated
  /\ kind # "none" /\ ~result.inProgress
  /\ page' = "reading"
  /\ UNCHANGED <<terminated, testRunning, pc, kind, result, echoes, lost, report>>

Read ==
  /\ page = "reading" /\ ~terminated
  /\ page' = "idle"
  /\ report' = result
  /\ UNCHANGED <<terminated, testRunning, pc, kind, result, echoes, lost>>

Thread ==
  \/ Publish
  \/ \E why \in Refused : PingRefused(why)
  \/ PingPrepare \/ Echo \/ Average \/ PingStatus
  \/ \E n \in 0 .. 2 : DnsAnswer(n)
  \/ ClearInProgress \/ Free

Over == terminated /\ UNCHANGED vars

Next == (\E k \in {"ping", "dns"} : Run(k)) \/ Thread \/ Look \/ Read \/ Over

Spec == Init /\ [][Next]_vars

(* IcmpSendEcho and GetAddrInfoW have timeouts: the thread goes on.        *)
Fairness == WF_vars(Thread)

FairSpec == Spec /\ Fairness

-----------------------------------------------------------------------------
(* Properties.                                                             *)

(* Types.                                                                  *)
TypeOK ==
  /\ terminated \in BOOLEAN /\ testRunning \in BOOLEAN
  /\ pc \in {"none", "ping", "dns", "target", "lookup", "echo", "status", "clear",
             "free", "done"}
  /\ kind \in {"none", "ping", "dns"} /\ page \in {"idle", "reading"}
  /\ echoes \in 0 .. Count /\ lost \in 0 .. echoes
  /\ result.status \in Statuses /\ result.inProgress \in BOOLEAN
  /\ {result.avgMs, result.minMs, result.maxMs, result.addresses} \subseteq Nat
  /\ result.received \in 0 .. Count

(* What the page draws as a finished report is finished: its status fits   *)
(* the echoes received or the addresses found, and does not change later.  *)
ReportIsComplete ==
  report # NoReport =>
    /\ report = result
    /\ report.status \in
         IF kind = "dns" THEN {IF report.addresses > 0 THEN "resolved" ELSE "not resolved"}
         ELSE IF report.received = Count THEN {"all received"}
         ELSE IF report.received > 0 THEN {"some lost"}
         ELSE {"all lost"} \cup Refused

(* A drawn report orders its latencies, and shows none when nothing was    *)
(* received: not the initial minimum, nor the sum for the average.         *)
LatenciesOrdered ==
  report # NoReport =>
    IF report.received > 0
    THEN report.minMs <= report.avgMs /\ report.avgMs <= report.maxMs
         /\ {report.minMs, report.maxMs} \subseteq Latencies
    ELSE {report.minMs, report.avgMs, report.maxMs} = {0}

(* When another test may be started, the page no longer shows the old one  *)
(* as being in progress.                                                   *)
NoProgressWhenFree == ~testRunning /\ kind # "none" => ~result.inProgress

(* A test that was started ends.                                           *)
TestEnds == testRunning ~> (~testRunning \/ terminated)
==============================================================================
