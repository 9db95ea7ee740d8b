---------------------------- MODULE ServiceControl ----------------------------
(***************************************************************************)
(* One service of Windows as SystemServiceProvider sees it: refresh with   *)
(* its cache of configurations, the page's buttons and dialog, and the     *)
(* operations doStart, doStop and doRestart on the operation's thread.     *)
(*                                                                         *)
(* The service changes its state by itself, and others start, stop and     *)
(* configure it.  StopService is refused by a service that is not running, *)
(* that takes no stop, or on which others depend.  StartService of a       *)
(* service that has not stopped says that it is already running, or fails. *)
(* Time is counted in Ticks of the cache's age; a poll is a tenth of a     *)
(* second and is not a Tick.                                               *)
(***************************************************************************)
EXTENDS Naturals

CONSTANTS Configs,      (* configurations of the service                   *)
          MaxAge,       (* kConfigMaxAge, in Ticks                         *)
          MaxPolls,     (* the turns of doRestart's loop, 50 in the code   *)
          MaxInstances  (* bound: how often the service starts             *)

None == "none"

VARIABLES
  state, instance,  (* of the service; how often it has started            *)
  config,           (* its configuration                                   *)
  lastTrue,         (* history: how long ago each configuration was true   *)
  cache,            (* m_impl->configCache                                 *)
  shown,            (* the snapshot: the state, and the configuration      *)
  pending,          (* m_pendingOp, while m_pendingName is set             *)
  op, polls, ok,    (* the operation's thread, and its success             *)
  told              (* history: the instance the operation met             *)

service == <<state, instance>>
configuration == <<config, lastTrue, cache>>
thread == <<op, polls, ok, told>>
vars == <<service, configuration, shown, pending, thread>>

States == {"stopped", "starting", "running", "stopping"}
Expired == MaxAge + 1

Init ==
  /\ state \in {"stopped", "running"} /\ instance = 1
  /\ config \in Configs
  /\ lastTrue = [c \in Configs |-> IF c = config THEN 0 ELSE Expired]
  /\ cache = [config |-> None, age |-> Expired]
  /\ shown = [state |-> None, config |-> None]
  /\ pending = None
  /\ op = "free" /\ polls = 0 /\ ok = FALSE /\ told = 0

-----------------------------------------------------------------------------
(* The service and those who use it.                                       *)

Move(from, to) == state = from /\ state' = to

ServiceStarts ==
  /\ instance < MaxInstances
  /\ Move("stopped", "starting")
  /\ instance' = instance + 1

ServiceMoves ==
  /\ \/ Move("starting", "running")
     \/ Move("running", "stopping")
     \/ Move("stopping", "stopped")
     \/ Move("running", "stopped")   (* it crashes *)
  /\ UNCHANGED instance

Others ==
  /\ ServiceStarts \/ ServiceMoves
  /\ UNCHANGED <<configuration, shown, pending, thread>>

Configure(c) ==
  /\ config' = c
  /\ lastTrue' = [lastTrue EXCEPT ![c] = 0]
  /\ UNCHANGED <<service, cache, shown, pending, thread>>

Older(age) == IF age < Expired THEN age + 1 ELSE Expired

Tick ==
  /\ cache' = [cache EXCEPT !.age = Older(@)]
  /\ lastTrue' = [c \in Configs |-> IF c = config THEN 0 ELSE Older(lastTrue[c])]
  /\ UNCHANGED <<service, config, shown, pending, thread>>

-----------------------------------------------------------------------------
(* refresh().                                                              *)

(* loadConfig: a service that cannot be opened leaves cachedAt at its      *)
(* epoch, so that it is asked again; one that cannot be queried does not.  *)
Loads == {[config |-> config, age |-> 0], [config |-> None, age |-> Expired],
          [config |-> None, age |-> 0]}

(* Mutant of Cached: the entry is made young by each use.                  *)
CachedSlides == IF cache.age > MaxAge THEN Loads ELSE {[cache EXCEPT !.age = 0]}

Cached == IF cache.age > MaxAge THEN Loads ELSE {cache}

Refresh ==
  /\ cache' \in Cached
  /\ shown' = [state |-> state, config |-> cache'.config]
  /\ UNCHANGED <<service, config, lastTrue, pending, thread>>

(* The services cannot be enumerated: the page shows none.                 *)
RefreshFails ==
  /\ shown' = [state |-> None, config |-> None]
  /\ UNCHANGED <<service, configuration, pending, thread>>

-----------------------------------------------------------------------------
(* The page, which offers what the snapshot's state allows.                *)

Begin(kind) ==
  /\ pending' = None
  /\ IF op = "free"
     THEN op' = kind /\ polls' = 0 /\ told' = instance
     ELSE UNCHANGED <<op, polls, told>>   (* the request is lost *)
  /\ UNCHANGED <<service, configuration, shown, ok>>

PickStart == pending = None /\ shown.state = "stopped" /\ Begin("start")

Pick(kind) ==
  /\ pending = None
  /\ shown.state \notin {"stopped", None}
  /\ pending' = kind
  /\ UNCHANGED <<service, configuration, shown, thread>>

Confirm == pending # None /\ Begin(pending)

Cancel ==
  /\ pending # None
  /\ pending' = None
  /\ UNCHANGED <<service, configuration, shown, thread>>

-----------------------------------------------------------------------------
(* The operation's thread.                                                 *)

Result(success) ==
  /\ op' = "free" /\ ok' = success
  /\ UNCHANGED <<configuration, shown, pending, polls, told>>

(* The service cannot be opened.                                           *)
Refused == op \in {"start", "stop", "restart"} /\ Result(FALSE) /\ UNCHANGED service

(* StartService, which counts a service already running as started.        *)
CallStart ==
  \/ ServiceStarts /\ Result(TRUE)
  \/ state # "stopped" /\ UNCHANGED service /\ Result(TRUE)
  \/ UNCHANGED service /\ Result(FALSE)

DoStart == op \in {"start", "startAgain"} /\ CallStart

(* ControlService(STOP): a service not active counts as stopped.           *)
DoStop ==
  /\ op = "stop"
  /\ \/ Move("running", "stopping") /\ UNCHANGED instance /\ Result(TRUE)
     \/ state = "stopped" /\ UNCHANGED service /\ Result(TRUE)
     \/ UNCHANGED service /\ Result(FALSE)

(* doRestart's ControlService, whose answer is not looked at.              *)
RestartStop ==
  /\ op = "restart"
  /\ op' = "poll"
  /\ (Move("running", "stopping") /\ UNCHANGED instance) \/ UNCHANGED service
  /\ UNCHANGED <<configuration, shown, pending, polls, ok, told>>

(* One turn of the loop, which is left when the service has stopped, and   *)
(* after the last turn.                                                    *)
Poll ==
  /\ op = "poll"
  /\ polls' = IF state = "stopped" THEN polls ELSE polls + 1
  /\ op' = IF state = "stopped" \/ polls' = MaxPolls THEN "startAgain" ELSE "poll"
  /\ UNCHANGED <<service, configuration, shown, pending, ok, told>>

Thread == Refused \/ DoStart \/ DoStop \/ RestartStop \/ Poll

Next ==
  \/ Others \/ (\E c \in Configs : Configure(c)) \/ Tick
  \/ Refresh \/ RefreshFails
  \/ PickStart \/ (\E kind \in {"stop", "restart"} : Pick(kind)) \/ Confirm \/ Cancel
  \/ Thread

Spec == Init /\ [][Next]_vars

-----------------------------------------------------------------------------
(* Properties.                                                             *)

(* Types.                                                                  *)
TypeOK ==
  /\ state \in States /\ instance \in 1 .. MaxInstances
  /\ config \in Configs /\ lastTrue \in [Configs -> 0 .. Expired]
  /\ cache \in [config : Configs \cup {None}, age : 0 .. Expired]
  /\ shown \in [state : States \cup {None}, config : Configs \cup {None}]
  /\ pending \in {None, "stop", "restart"}
  /\ op \in {"free", "start", "stop", "restart", "poll", "startAgain"}
  /\ polls \in 0 .. MaxPolls /\ ok \in BOOLEAN /\ told \in 0 .. MaxInstances

(* README.md: a configuration is cached for 60 seconds; what a refresh     *)
(* shows was true at most that long ago.                                   *)
ShownConfigIsRecent ==
  [][shown' # shown /\ shown'.config # None => lastTrue'[shown'.config] <= MaxAge]_vars

(* A restart that left the loop early and is reported as done has brought  *)
(* up another instance than the one it met, whoever started it.            *)
SeenStopIsRestart ==
  [][op = "startAgain" /\ op' = "free" /\ ok' /\ polls < MaxPolls
       => instance' # told]_vars

(* The same of every restart reported as done.                             *)
RestartIsDone == [][op = "startAgain" /\ op' = "free" /\ ok' => instance' # told]_vars
==============================================================================
