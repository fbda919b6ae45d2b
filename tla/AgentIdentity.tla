----------------------------- MODULE AgentIdentity -----------------------------
(***************************************************************************)
(* The permanent installation id of a machine: identity.json, which every  *)
(* process of the agent (the service, "once", "status", "rotate-token")    *)
(* creates when it does not find it (edge/state.py, edge/runtime.py), and  *)
(* the enrollment of that id at the server.                                *)
(*                                                                         *)
(* Ids are numbered in the order in which they are generated.  Tokens,     *)
(* their rotation and the removal of the token file are in Enrollment; the *)
(* file is taken as still there, since its removal may fail.               *)
(***************************************************************************)
EXTENDS Naturals, FiniteSets

CONSTANTS
  Processes,
  MaxUses,        \* max_uses of the enrollment token
  MaxFailedReads, \* bound on reads that fail although the file is there
  MaxKilled        \* bound on killed processes

ASSUME IdentityAssumption ==
  /\ MaxUses \in Nat /\ MaxFailedReads \in Nat /\ MaxKilled \in Nat
  /\ IsFiniteSet(Processes)

VARIABLES
  identity,    \* the id in identity.json, Missing if there is no file
  credential,  \* the id in credential.json, Missing if there is no file
  enrolled,    \* ids in the server's agent_credentials_v1
  sampled,     \* ids that queued samples carry
  process,     \* process -> its place, the id it is about to write, the id it registers
  made,        \* number of ids generated
  failedReads, killed,
  disturbed    \* history: an id was replaced, or is about to be, for one of two reasons

identityVars ==
  <<identity, credential, enrolled, sampled, process, made, failedReads, killed, disturbed>>

Missing == 0

\* Where ensure_agent_install_id is called.
Callers == {"init", "register", "save", "sample"}
Ended == [at |-> "ended", generated |-> Missing, sent |-> Missing]

IdentityInit ==
  /\ identity = Missing /\ credential = Missing
  /\ enrolled = {} /\ sampled = {}
  /\ process = [p \in Processes |-> Ended]
  /\ made = 0 /\ failedReads = 0 /\ killed = 0
  /\ disturbed = FALSE

GoTo(p, place, sent) ==
  process' = [process EXCEPT ![p] = [at |-> place, generated |-> Missing, sent |-> sent]]

-----------------------------------------------------------------------------
(* ensure_agent_install_id.  What its caller does with the id:             *)

\* save_registration stores the credential only of the id that is the local one.
Ensured(p, id) ==
  CASE process[p].at = "init" -> GoTo(p, "cycle", Missing) /\ UNCHANGED <<credential, sampled>>
    [] process[p].at = "register" -> GoTo(p, "registering", id) /\ UNCHANGED <<credential, sampled>>
    [] process[p].at = "save" ->
         /\ UNCHANGED sampled
         /\ IF id = process[p].sent
            THEN credential' = id /\ GoTo(p, "sample", Missing)
            ELSE UNCHANGED credential /\ GoTo(p, "cycle", Missing)
    [] process[p].at = "sample" ->
         /\ sampled' = sampled \cup {id}
         /\ GoTo(p, "cycle", Missing) /\ UNCHANGED credential

LoadIdentity(p) ==
  /\ process[p].at \in Callers /\ process[p].generated = Missing
  /\ identity # Missing
  /\ Ensured(p, identity)
  /\ UNCHANGED <<identity, enrolled, made, failedReads, killed, disturbed>>

\* No file, or a read that fails: a new id is generated.
Generate(p, failed) ==
  /\ process[p].at \in Callers /\ process[p].generated = Missing
  /\ failed \/ identity = Missing
  /\ failed => identity # Missing /\ failedReads < MaxFailedReads
  /\ made' = made + 1
  /\ process' = [process EXCEPT ![p].generated = made + 1]
  /\ failedReads' = failedReads + (IF failed THEN 1 ELSE 0)
  /\ disturbed' = (disturbed \/ failed)
  /\ UNCHANGED <<identity, credential, enrolled, sampled, killed>>

\* Mutated form: the id is used without being stored.
StoreIdentity_InMemory(p) ==
  /\ process[p].at \in Callers /\ process[p].generated # Missing
  /\ Ensured(p, process[p].generated)
  /\ UNCHANGED <<identity, enrolled, made, failedReads, killed, disturbed>>

\* _atomic_json: whatever another process has stored meanwhile is replaced.
StoreIdentity(p) ==
  /\ process[p].at \in Callers /\ process[p].generated # Missing
  /\ identity' = process[p].generated
  /\ disturbed' = (disturbed \/ identity # Missing)
  /\ Ensured(p, process[p].generated)
  /\ UNCHANGED <<enrolled, made, failedReads, killed>>

-----------------------------------------------------------------------------
StartProcess(p) ==
  /\ process[p].at = "ended"
  /\ GoTo(p, "init", Missing)
  /\ UNCHANGED <<identity, credential, enrolled, sampled, made, failedReads, killed, disturbed>>

\* run_cycle: a credential that is missing, or cannot be read, is registered for.
BeginCycle(p, failed) ==
  /\ process[p].at = "cycle"
  /\ failed => credential # Missing /\ failedReads < MaxFailedReads
  /\ GoTo(p, IF credential = Missing \/ failed THEN "register" ELSE "sample", Missing)
  /\ failedReads' = failedReads + (IF failed THEN 1 ELSE 0)
  /\ UNCHANGED <<identity, credential, enrolled, sampled, made, killed, disturbed>>

\* register_agent refuses an id that is enrolled; the response may be lost.
Register(p, lost) ==
  LET id == process[p].sent
      granted == id \notin enrolled /\ Cardinality(enrolled) < MaxUses
  IN /\ process[p].at = "registering"
     /\ enrolled' = IF granted THEN enrolled \cup {id} ELSE enrolled
     /\ IF granted /\ ~lost THEN GoTo(p, "save", id) ELSE GoTo(p, "cycle", Missing)
     /\ UNCHANGED <<identity, credential, sampled, made, failedReads, killed, disturbed>>

\* "once" ends after its cycle, "status" and "rotate-token" run none.
EndProcess(p) ==
  /\ process[p].at = "cycle"
  /\ process' = [process EXCEPT ![p] = Ended]
  /\ UNCHANGED <<identity, credential, enrolled, sampled, made, failedReads, killed, disturbed>>

\* Killed; _atomic_json leaves the old file or the new one.
KillProcess(p) ==
  /\ process[p].at # "ended" /\ killed < MaxKilled
  /\ process' = [process EXCEPT ![p] = Ended]
  /\ killed' = killed + 1
  /\ UNCHANGED <<identity, credential, enrolled, sampled, made, failedReads, disturbed>>

IdentityNext == \E p \in Processes :
  \/ StartProcess(p) \/ LoadIdentity(p) \/ StoreIdentity(p)
  \/ \E flag \in BOOLEAN : Generate(p, flag) \/ BeginCycle(p, flag) \/ Register(p, flag)
  \/ EndProcess(p) \/ KillProcess(p)

IdentitySpec == IdentityInit /\ [][IdentityNext]_identityVars

-----------------------------------------------------------------------------
(* Properties.                                                             *)

\* Crashes, lost responses, restarts and failed reads of the credential never give a
\* machine a second identity: its credential, its samples and its one use of the
\* enrollment token have the id of identity.json, unless a read of that file failed or
\* two processes created it at the same time.  And whatever happens, an id that is in
\* use has cost a failed read, or is one that a process of a first start generated
\* before it could see another's: restarts alone never add one.
OneIdentity ==
  /\ ~disturbed => /\ enrolled \cup sampled \subseteq {identity}
                   /\ credential \in enrolled \cup {Missing}
  /\ Cardinality(enrolled \cup sampled) <= Cardinality(Processes) + failedReads
=============================================================================
