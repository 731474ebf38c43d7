----------------------------- MODULE RechargeChain -----------------------------
(***************************************************************************)
(* What the decision node promises about the way to the charger, whatever  *)
(* else it does.  A recharge is a job handed on: the charger pose is read, *)
(* the mower navigates, the mower docks.  A job that ends is followed by   *)
(* the next one or by a published outcome, exactly one of the two; nobody  *)
(* else publishes RECHARGING or touches the recharge status; docking that  *)
(* lacks the map frame is tried twice more, and the count is given back    *)
(* only with the outcome.  RobotDecision implements this specification.    *)
(***************************************************************************)
EXTENDS Naturals

CONSTANT GoalIds

VARIABLES
    mode, status,   \* what is published
    reads,          \* reads of the charger pose under way
    navs, docks,    \* navigation and docking goals under way
    attempts        \* discoveries since the last outcome of a docking

jobs == <<reads, navs, docks>>
chainVars == <<mode, status, jobs, attempts>>

Publish(m, s) == mode' = m /\ status' = s

Init ==
    /\ mode = "FREE" /\ status = "IDLE"
    /\ reads = 0 /\ navs = {} /\ docks = {}
    /\ attempts = 0

NavigationLeaves == \E g \in GoalIds \ navs : navs' = navs \cup {g}

\* The docking goal leaves, or there is no one to dock with.
DockingLeaves ==
    \/ /\ Publish("RECHARGING", "DOCKING")
       /\ \E g \in GoalIds \ docks : docks' = docks \cup {g}
    \/ /\ Publish("FREE", "FAILED")
       /\ UNCHANGED docks

\* A recharge is asked for: with a job at once.
Request ==
    /\ \/ /\ Publish("RECHARGING", "NAVIGATING")
          /\ \/ reads' = reads + 1 /\ UNCHANGED navs
             \/ NavigationLeaves /\ UNCHANGED reads
          /\ UNCHANGED docks
       \/ DockingLeaves /\ UNCHANGED <<reads, navs>>
    /\ UNCHANGED attempts

PoseRead ==
    /\ reads > 0
    /\ reads' = reads - 1
    /\ \/ NavigationLeaves /\ UNCHANGED <<mode, status, docks>>
       \/ DockingLeaves /\ UNCHANGED navs
    /\ UNCHANGED attempts

\* Arrived or not, docking comes next.
NavigationEnds ==
    /\ \E g \in navs : navs' = navs \ {g}
    /\ DockingLeaves
    /\ UNCHANGED <<reads, attempts>>

DockingEnds ==
    /\ \E g \in docks : docks' = docks \ {g}
    /\ \/ Publish("CHARGING", "CHARGING") /\ attempts' = 0
       \/ Publish("FREE", "IDLE") /\ UNCHANGED attempts
       \/ Publish("FREE", "FAILED") /\ UNCHANGED attempts
       \/ attempts = 2 /\ Publish("FREE", "FAILED") /\ attempts' = 0
       \/ attempts < 2 /\ Publish("FREE", status) /\ attempts' = attempts + 1
    /\ UNCHANGED <<reads, navs>>

\* Cancelled jobs run on until they end.
Cancel ==
    /\ Publish("FREE", "IDLE")
    /\ UNCHANGED <<jobs, attempts>>

\* The rest of the node publishes modes of its own.
Elsewhere ==
    /\ mode' # "RECHARGING"
    /\ UNCHANGED <<status, jobs, attempts>>

Next ==
    \/ Request
    \/ PoseRead
    \/ NavigationEnds
    \/ DockingEnds
    \/ Cancel
    \/ Elsewhere

Spec == Init /\ [][Next]_chainVars

-----------------------------------------------------------------------------
(* What follows for whoever reads the published state *)

\* RECHARGING has a job under way.
RechargingHasJob == mode = "RECHARGING" => reads > 0 \/ navs # {} \/ docks # {}

\* NAVIGATING has one that is not the docking yet.
NavigatingHasJob == status = "NAVIGATING" => reads > 0 \/ navs # {}

=============================================================================
