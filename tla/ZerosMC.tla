------------------------------- MODULE ZerosMC -------------------------------
(***************************************************************************)
(* The three places where the program shows a number before anything was   *)
(* measured, for TLC: the usage of a graphics adapter, the rate of a       *)
(* network adapter, and the number beside a chart of the dashboard.  Each  *)
(* has a thread or a frame of its own, and their steps come in any order.  *)
(***************************************************************************)
EXTENDS UsageSampling

CONSTANTS Indices, MaxOctets,                 (* of NetworkRates *)
          Capacity, Window, MaxTime, MaxValue (* of Charts       *)

VARIABLES
  octets, byIndex, prev, rateShown, measured, carried, counted,
  card, now, points, lastSampleTime, offered

Rates == INSTANCE NetworkRates WITH shown <- rateShown
Chart == INSTANCE Charts

rateVars == <<octets, byIndex, prev, rateShown, measured, carried, counted>>
chartVars == <<card, now, points, lastSampleTime, offered>>

MCInit == Init /\ Rates!Init /\ Chart!Init

MCNext ==
  \/ Next /\ UNCHANGED <<rateVars, chartVars>>
  \/ Rates!Next /\ UNCHANGED <<vars, chartVars>>
  \/ Chart!Next /\ UNCHANGED <<vars, rateVars>>

MCSpec == MCInit /\ [][MCNext]_<<vars, rateVars, chartVars>>

-----------------------------------------------------------------------------
(* Properties.                                                             *)

(* docs/architecture.md: "never display fabricated zeros".  This asks for  *)
(* less, so that one behaviour shows all three: at no moment is the        *)
(* sentence false of the usage, of the rates and of the chart at once.     *)
NotAllFabricated ==
  NoFabricatedZeros \/ Rates!NoFabricatedRates \/ Chart!NothingFabricated
==============================================================================
