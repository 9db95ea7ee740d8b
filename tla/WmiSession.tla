------------------------------ MODULE WmiSession ------------------------------
(***************************************************************************)
(* hardware/wmi/WmiSession.cpp and the two providers that keep a session:  *)
(* StorageProvider, which asks for drives, health and buses in three       *)
(* queries, and SensorsProvider.                                           *)
(*                                                                         *)
(* connect(ns) keeps a connection to the same namespace and replaces any   *)
(* other.  query() connects by itself, always to root\cimv2.  A connection *)
(* dies with the WMI service that served it; the session does not notice,  *)
(* and goes on holding the dead proxy.                                     *)
(***************************************************************************)
EXTENDS Naturals

CONSTANT MaxStarts   (* how often the WMI service starts *)

VARIABLES
  up,        (* the WMI service runs                                        *)
  life,      (* how often it has started                                    *)
  session,   (* of each provider: the life of the service that m_services   *)
             (* speaks to (0 for null), and m_namespace                     *)
  at,        (* where StorageProvider::refresh is                           *)
  found,     (* what it has read so far                                     *)
  disks,     (* what the published list of disks tells                      *)
  wmiReady,  (* SensorsProvider's flag                                      *)
  zones,     (* the published readings have a thermal zone                  *)
  quiet      (* how many lists of disks were published since the service    *)
             (* last ended or started, up to 3                              *)

vars == <<up, life, session, at, found, disks, wmiReady, zones, quiet>>

Providers == {"storage", "sensors"}
Namespaces == {"none", "cimv2", "Storage"}
Places == {"idle", "connect", "physical", "bus", "publish"}
Facts == {"drives", "health", "bus", "nvme"}

(* The namespaces the code names, and which of the classes it asks for     *)
(* they have; that of the thermal zones is in root\wmi.                    *)
ClassesOf(ns) ==
  CASE ns = "cimv2"   -> {"Win32_DiskDrive"}
    [] ns = "Storage" -> {"MSFT_PhysicalDisk", "MSFT_Disk"}
    [] OTHER          -> {}

Init ==
  /\ up = FALSE /\ life = 0
  /\ session = [p \in Providers |-> [link |-> 0, ns |-> "none"]]
  /\ at = "idle" /\ found = {} /\ disks = {}
  /\ wmiReady = FALSE /\ zones = FALSE
  /\ quiet = 0

-----------------------------------------------------------------------------
(* The session.                                                            *)

(* connect(ns): m_services is released first, and m_namespace stored only  *)
(* when ConnectServer succeeded.                                           *)
Connected(s, ns, reachable) ==
  IF s.link # 0 /\ s.ns = ns THEN s
  ELSE IF reachable THEN [link |-> life, ns |-> ns] ELSE [s EXCEPT !.link = 0]

(* query() connects to the default namespace of connect().                 *)
Queried(s) == Connected(s, "cimv2", up)

(* The rows of a class reach the caller: the connection is alive, and its  *)
(* namespace has the class.                                                *)
HasRows(s, class) ==
  up /\ Queried(s).link = life /\ class \in ClassesOf(Queried(s).ns)

-----------------------------------------------------------------------------
(* StorageProvider::refresh.                                               *)

Go(from, to) == at = from /\ at' = to

ReadDrives ==
  /\ Go("idle", "connect")
  /\ LET s == Connected(session["storage"], "cimv2", up)
     IN /\ session' = [session EXCEPT !["storage"] = IF s.link = 0 THEN s ELSE Queried(s)]
        /\ found' = IF s.link # 0 /\ HasRows(s, "Win32_DiskDrive") THEN {"drives"} ELSE {}
  /\ UNCHANGED <<up, life, disks, wmiReady, zones, quiet>>

(* Windows may lack the namespace or refuse it.                            *)
ConnectStorage ==
  /\ \E reachable \in {FALSE, up} :
       LET s == Connected(session["storage"], "Storage", reachable)
       IN /\ session' = [session EXCEPT !["storage"] = s]
          /\ Go("connect", IF s.link = 0 THEN "publish" ELSE "physical")
  /\ UNCHANGED <<up, life, found, disks, wmiReady, zones, quiet>>

(* A physical disk that is not among the drives is added to them.          *)
ReadPhysical ==
  /\ Go("physical", "bus")
  /\ session' = [session EXCEPT !["storage"] = Queried(@)]
  /\ found' = IF HasRows(session["storage"], "MSFT_PhysicalDisk")
              THEN found \cup {"drives", "health"} ELSE found
  /\ UNCHANGED <<up, life, disks, wmiReady, zones, quiet>>

ReadBus ==
  /\ Go("bus", "publish")
  /\ session' = [session EXCEPT !["storage"] = Queried(@)]
  /\ found' = IF HasRows(session["storage"], "MSFT_Disk") /\ "drives" \in found
              THEN found \cup {"bus"} ELSE found
  /\ UNCHANGED <<up, life, disks, wmiReady, zones, quiet>>

(* The health log of each drive is asked for, which needs no WMI.          *)
NvmeRead == IF "drives" \in found THEN SUBSET {"nvme"} ELSE {{}}

Publish ==
  /\ Go("publish", "idle")
  /\ \E log \in NvmeRead : disks' = found \cup log
  /\ quiet' = IF quiet < 3 THEN quiet + 1 ELSE 3
  /\ UNCHANGED <<up, life, session, found, wmiReady, zones>>

-----------------------------------------------------------------------------
(* SensorsProvider::refresh, at another time of the same thread: connected *)
(* once, it relies on query().                                             *)
RefreshSensors ==
  /\ at = "idle"
  /\ LET s == IF wmiReady THEN session["sensors"]
              ELSE Connected(session["sensors"], "cimv2", up)
     IN /\ wmiReady' = (wmiReady \/ s.link # 0)
        /\ session' = [session EXCEPT !["sensors"] = IF wmiReady' THEN Queried(s) ELSE s]
        /\ zones' = (wmiReady' /\ HasRows(s, "MSAcpi_ThermalZoneTemperature"))
  /\ UNCHANGED <<up, life, at, found, disks, quiet>>

(* The WMI service.                                                        *)
ServiceStarts ==
  /\ ~up /\ life < MaxStarts
  /\ up' = TRUE /\ life' = life + 1 /\ quiet' = 0
  /\ UNCHANGED <<session, at, found, disks, wmiReady, zones>>

ServiceEnds ==
  /\ up
  /\ up' = FALSE /\ quiet' = 0
  /\ UNCHANGED <<life, session, at, found, disks, wmiReady, zones>>

Next ==
  \/ ReadDrives \/ ConnectStorage \/ ReadPhysical \/ ReadBus \/ Publish
  \/ RefreshSensors
  \/ ServiceStarts \/ ServiceEnds

Spec == Init /\ [][Next]_vars

-----------------------------------------------------------------------------
(* Properties.                                                             *)

(* Types.                                                                  *)
TypeOK ==
  /\ up \in BOOLEAN /\ life \in 0 .. MaxStarts
  /\ session \in [Providers -> [link : 0 .. MaxStarts, ns : Namespaces]]
  /\ at \in Places
  /\ found \subseteq Facts /\ disks \subseteq Facts
  /\ wmiReady \in BOOLEAN /\ zones \in BOOLEAN
  /\ quiet \in 0 .. 3

(* The drives come back after the WMI service was restarted: at the latest *)
(* the second refresh that it does not interrupt (the third list, as one   *)
(* was perhaps half read) has them, although nobody tells the session that *)
(* its connection is dead.  Only the change of namespaces replaces it.     *)
DrivesComeBack == up /\ quiet = 3 => "drives" \in disks

(* The disks are shown with their health (README.md): a query for it, made *)
(* while the session is connected to the namespace that tells it, finds it. *)
HealthIsShown ==
  [][ReadPhysical /\ up /\ session["storage"] = [link |-> life, ns |-> "Storage"]
       => "health" \in found']_vars
==============================================================================
