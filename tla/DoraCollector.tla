----------------------------- MODULE DoraCollector -----------------------------
(***************************************************************************)
(* The DORA event collector (hackathon/services/dora_collector/app.py).    *)
(* A request holds one process-wide lock while it commits and answers, so  *)
(* it is one action.  The callers (CI jobs, Alertmanager) are not in the   *)
(* repository: any report may come late, again, or with corrected times,   *)
(* and a caller that lost its answer reports once more.  No caller's clock *)
(* is ahead of the collector's.                                            *)
(*                                                                         *)
(* An instant whose number is a multiple of Second has no fraction of a    *)
(* second, which decides how its text sorts.                               *)
(***************************************************************************)
EXTENDS Integers

CONSTANTS
  DeploymentIds, IncidentIds, Environments,
  Second,      \* instants in a second
  WindowSize,  \* window_days, in instants
  LastInstant  \* bound on the clock

ASSUME DoraAssumption ==
  /\ Second \in Nat \ {0}
  /\ WindowSize \in Nat
  /\ LastInstant \in Nat

\* The name of the environment of a row that does not exist.
ASSUME EnvironmentAssumption == "" \notin Environments

VARIABLES
  deployments,  \* the table: id -> row, NoRow if absent
  incidents,    \* the table: id -> row, NoRow if absent
  clock,        \* utc_now
  starts,       \* history: how often an incident was recorded, up to 2
  toldRecovered \* history: incidents whose recovery was answered with 200

doraVars == <<deployments, incidents, clock, starts, toldRecovered>>

Instants == 0..LastInstant
NoRow == [environment |-> ""]
Unrecovered == -1

DoraInit ==
  /\ deployments = [d \in DeploymentIds |-> NoRow]
  /\ incidents = [i \in IncidentIds |-> NoRow]
  /\ clock = 0
  /\ starts = [i \in IncidentIds |-> 0]
  /\ toldRecovered = {}

-----------------------------------------------------------------------------
(* The requests.  One that is refused changes nothing.                     *)

RecordDeployment(d, environment, deployed, status) ==
  /\ deployments' = [deployments EXCEPT ![d] =
       [environment |-> environment, deployed |-> deployed, status |-> status]]
  /\ UNCHANGED <<incidents, clock, starts, toldRecovered>>

\* ON CONFLICT(id) DO UPDATE takes every column from the report, the recovery too.
\* The deployment need not be known: foreign keys are not enforced.
RecordIncident(i, environment, deployment, started, recovered) ==
  /\ recovered = Unrecovered \/ recovered >= started
  /\ incidents' = [incidents EXCEPT ![i] =
       [environment |-> environment, deployment |-> deployment,
        started |-> started, recovered |-> recovered]]
  /\ starts' = [starts EXCEPT ![i] = IF @ < 2 THEN @ + 1 ELSE 2]
  /\ UNCHANGED <<deployments, clock, toldRecovered>>

\* Mutated form: an UPDATE of no row is answered with 200.
RecoverIncident_OfAny(i, recovered) ==
  /\ incidents[i] # NoRow => recovered >= incidents[i].started
  /\ incidents' = IF incidents[i] = NoRow THEN incidents
                  ELSE [incidents EXCEPT ![i].recovered = recovered]
  /\ toldRecovered' = toldRecovered \cup {i}
  /\ UNCHANGED <<deployments, clock, starts>>

RecoverIncident(i, recovered) ==
  /\ incidents[i] # NoRow
  /\ recovered >= incidents[i].started
  /\ incidents' = [incidents EXCEPT ![i].recovered = recovered]
  /\ toldRecovered' = toldRecovered \cup {i}
  /\ UNCHANGED <<deployments, clock, starts>>

DoraTick ==
  /\ clock < LastInstant
  /\ clock' = clock + 1
  /\ UNCHANGED <<deployments, incidents, starts, toldRecovered>>

\* The clock is bounded; a report may still be repeated then.
DoraNext ==
  \/ \E d \in DeploymentIds, environment \in Environments, deployed \in 0..clock,
        status \in {"success", "failed"} :
       RecordDeployment(d, environment, deployed, status)
  \/ \E i \in IncidentIds, environment \in Environments, deployment \in DeploymentIds,
        started \in 0..clock, recovered \in (0..clock) \cup {Unrecovered} :
       RecordIncident(i, environment, deployment, started, recovered)
  \/ \E i \in IncidentIds, recovered \in 0..clock : RecoverIncident(i, recovered)
  \/ DoraTick

DoraSpec == DoraInit /\ [][DoraNext]_doraVars

-----------------------------------------------------------------------------
(* dora_metrics.  iso() leaves a zero fraction out, and "Z" sorts behind   *)
(* ".": in the text order an instant without fraction is the last one of   *)
(* its second.                                                             *)

TextOrder(t) == IF t % Second = 0 THEN 2 * (t + Second) - 1 ELSE 2 * t

InWindow(t) == TextOrder(t) >= TextOrder(clock - WindowSize)

CountedDeployments(environment) ==
  {d \in DeploymentIds :
     deployments[d].environment = environment /\ InWindow(deployments[d].deployed)}

\* Mutated form: incidents that were recovered no longer count.
CountedIncidents_OpenOnly(environment) ==
  {i \in IncidentIds :
     incidents[i].environment = environment /\ InWindow(incidents[i].started)
     /\ incidents[i].recovered = Unrecovered}

CountedIncidents(environment) ==
  {i \in IncidentIds :
     incidents[i].environment = environment /\ InWindow(incidents[i].started)}

ChangeFailures(environment) ==
  {d \in CountedDeployments(environment) :
     \/ deployments[d].status = "failed"
     \/ \E i \in CountedIncidents(environment) : incidents[i].deployment = d}

-----------------------------------------------------------------------------
(* Properties.                                                             *)

\* A caller that was told of an incident's recovery finds it recovered, unless the
\* incident was recorded more than once: only a repeated report takes a recovery back,
\* a late first one never does.
RecoveryKept == \A i \in toldRecovered :
  starts[i] = 1 => incidents[i].recovered # Unrecovered

\* No order of repeated, corrected and recovering reports makes a time to recovery
\* negative.
RecoveredAfterStart == \A i \in IncidentIds :
  incidents[i] # NoRow /\ incidents[i].recovered # Unrecovered =>
    incidents[i].recovered >= incidents[i].started

\* The two windows of dora_metrics fit: a counted deployment whose incident came after
\* it counts as a failure, except in the one second in which the window begins, where
\* the text order of times is not their order.
FailuresCounted == \A environment \in Environments :
  \A d \in CountedDeployments(environment), i \in IncidentIds :
    /\ incidents[i].environment = environment
    /\ incidents[i].deployment = d
    /\ incidents[i].started >= deployments[d].deployed
    /\ deployments[d].deployed \div Second > (clock - WindowSize) \div Second
    => d \in ChangeFailures(environment)
=============================================================================
