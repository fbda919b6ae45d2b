------------------------------ MODULE Enrollment ------------------------------
(***************************************************************************)
(* How a machine gets and keeps its credential: registration against an    *)
(* enrollment token and token rotation (agents/registry.py), and the       *)
(* credential file of the machine (edge/state.py), which the service's     *)
(* cycle, the installer's "once" run and the operator's "rotate-token" run *)
(* share without a lock (edge/runtime.py, edge/cli.py).                    *)
(*                                                                         *)
(* The machine's installation id is the machine itself; a token is the     *)
(* number of its issue.  The rate limit of registrations is modelled in    *)
(* Administration.                                                         *)
(***************************************************************************)
EXTENDS Naturals, FiniteSets

CONSTANTS
  Machines,
  Runners,     \* processes that run cycles: the service, "once"
  Operators,   \* processes that run rotate-token
  MaxUses,     \* max_uses of the enrollment token
  MaxTokens,   \* bound: no rotation starts once the server has issued so many tokens
  MaxFaults    \* bound on lost exchanges and crashes

ASSUME EnrollmentAssumption ==
  /\ IsFiniteSet(Machines)
  /\ Runners \cap Operators = {}
  /\ MaxUses \in Nat /\ MaxTokens \in Nat /\ MaxFaults \in Nat

VARIABLES
  enrollment,  \* the row of enrollment_tokens_v1
  credentials, \* agent_credentials_v1: machine -> token and version, NoCredential if absent
  issued,      \* number of tokens the server has handed out
  rotations,   \* agent_token_rotation_events_v1
  file,        \* machine -> contents of credential.json
  tokenFile,   \* machines that still hold the enrollment token file
  proc,        \* machine -> process -> its progress
  network,     \* requests sent, and those that the server has begun
  reply,       \* responses on their way to a waiting process
  harmed,      \* history: machines that lost an exchange or a process
  faults       \* history: number of those losses

server == <<enrollment, credentials, issued, rotations>>
disk == <<file, tokenFile>>
vars == <<server, disk, proc, network, reply, harmed, faults>>

Procs == Runners \cup Operators
NoCredential == [token |-> 0, version |-> 0]

Init ==
  /\ enrollment = [uses |-> 0, expired |-> FALSE]
  /\ credentials = [m \in Machines |-> NoCredential]
  /\ issued = 0
  /\ rotations = {}
  /\ file = [m \in Machines |-> NoCredential]
  /\ tokenFile = Machines
  /\ proc = [m \in Machines |-> [p \in Procs |-> "idle"]]
  /\ network = {} /\ reply = {}
  /\ harmed = {} /\ faults = 0

SetProc(m, p, pc) == proc' = [proc EXCEPT ![m][p] = pc]

Request(m, p, kind, token) ==
  [machine |-> m, proc |-> p, kind |-> kind, token |-> token, version |-> 0, live |-> TRUE]

-----------------------------------------------------------------------------
(* The machine.                                                            *)

\* AgentRuntime.register: only without a credential, only with a token file.
StartRegistration(m, p) ==
  /\ p \in Runners /\ proc[m][p] = "idle"
  /\ file[m] = NoCredential
  /\ m \in tokenFile
  /\ SetProc(m, p, "registering")
  /\ network' = network \cup {Request(m, p, "register", 0)}
  /\ UNCHANGED <<server, disk, reply, harmed, faults>>

\* save_registration, before the token file is removed.
SaveRegistration(m, p) ==
  /\ proc[m][p] = "registering"
  /\ \E r \in reply :
       /\ r.machine = m /\ r.proc = p /\ r.ok
       /\ file' = [file EXCEPT ![m] = [token |-> r.token, version |-> r.version]]
       /\ reply' = reply \ {r}
  /\ SetProc(m, p, "registered")
  /\ UNCHANGED <<server, tokenFile, network, harmed, faults>>

\* _remove_enrollment_token swallows an OSError.
RemoveTokenFile(m, p) ==
  /\ proc[m][p] = "registered"
  /\ tokenFile' \in {tokenFile, tokenFile \ {m}}
  /\ SetProc(m, p, "idle")
  /\ UNCHANGED <<server, file, network, reply, harmed, faults>>

\* AgentRuntime.rotate_token
StartRotation(m, p) ==
  /\ p \in Operators /\ proc[m][p] = "idle"
  /\ file[m] # NoCredential
  /\ issued < MaxTokens
  /\ SetProc(m, p, "rotating")
  /\ network' = network \cup {Request(m, p, "rotate", file[m].token)}
  /\ UNCHANGED <<server, disk, reply, harmed, faults>>

\* The stored version never falls.
Saved(current, r) ==
  [token |-> r.token,
   version |-> IF r.version > current.version THEN r.version ELSE current.version + 1]

\* save_rotated_token reads the file again.
SaveRotation(m, p) ==
  /\ proc[m][p] = "rotating"
  /\ \E r \in reply :
       /\ r.machine = m /\ r.proc = p /\ r.ok
       /\ file' = [file EXCEPT ![m] = Saved(@, r)]
       /\ reply' = reply \ {r}
  /\ SetProc(m, p, "idle")
  /\ UNCHANGED <<server, tokenFile, network, harmed, faults>>

\* Every refusal ends the run or the cycle.
Refused(m, p) ==
  /\ \E r \in reply : r.machine = m /\ r.proc = p /\ ~r.ok /\ reply' = reply \ {r}
  /\ SetProc(m, p, "idle")
  /\ UNCHANGED <<server, disk, network, harmed, faults>>

-----------------------------------------------------------------------------
(* The server.                                                             *)

Respond(req, r) == reply' = IF req.live THEN reply \cup {r} ELSE reply

Granted(req, cred) ==
  [machine |-> req.machine, proc |-> req.proc, ok |-> TRUE,
   token |-> cred.token, version |-> cred.version]
Refusal(req) ==
  [machine |-> req.machine, proc |-> req.proc, ok |-> FALSE, token |-> 0, version |-> 0]

\* register_agent: one transaction; the INSERT of a known installation id fails and
\* takes the counted use with it.
RegisterAgent(m, fresh) ==
  IF \/ enrollment.expired \/ enrollment.uses >= MaxUses
     \/ credentials[m] # NoCredential
  THEN UNCHANGED <<enrollment, credentials>>
  ELSE /\ enrollment' = [enrollment EXCEPT !.uses = @ + 1]
       /\ credentials' = [credentials EXCEPT ![m] = fresh]

ServeRegister(req) ==
  /\ req \in network /\ req.kind = "register"
  /\ LET fresh == [token |-> issued + 1, version |-> 1]
     IN /\ RegisterAgent(req.machine, fresh)
        /\ IF credentials'[req.machine] = fresh
           THEN issued' = issued + 1 /\ Respond(req, Granted(req, fresh))
           ELSE issued' = issued /\ Respond(req, Refusal(req))
  /\ network' = network \ {req}
  /\ UNCHANGED <<rotations, disk, proc, harmed, faults>>

\* Mutated form: the token is not compared.
Authentic_Always(req) == credentials[req.machine] # NoCredential

Authentic(req) == credentials[req.machine].token = req.token

\* rotate_agent_token authenticates outside its transaction ...
BeginRotate(req) ==
  /\ req \in network /\ req.kind = "rotate"
  /\ IF Authentic(req)
     THEN /\ network' = (network \ {req}) \cup
               {[req EXCEPT !.kind = "commit", !.version = credentials[req.machine].version]}
          /\ UNCHANGED reply
     ELSE network' = network \ {req} /\ Respond(req, Refusal(req))
  /\ UNCHANGED <<server, disk, proc, harmed, faults>>

\* Mutated form: UPDATE without token_version=? in its WHERE.
Unchanged_Ignored(req) == TRUE

Unchanged(req) == credentials[req.machine].version = req.version

\* ... and updates only the version that it saw.
CommitRotate(req) ==
  /\ req \in network /\ req.kind = "commit"
  /\ network' = network \ {req}
  /\ IF Unchanged(req)
     THEN LET fresh == [token |-> issued + 1, version |-> req.version + 1]
          IN /\ issued' = issued + 1
             /\ credentials' = [credentials EXCEPT ![req.machine] = fresh]
             /\ rotations' = rotations \cup
                  {[machine |-> req.machine, old |-> req.version, token |-> fresh.token]}
             /\ Respond(req, Granted(req, fresh))
     ELSE Respond(req, Refusal(req)) /\ UNCHANGED <<credentials, issued, rotations>>
  /\ UNCHANGED <<enrollment, disk, proc, harmed, faults>>

\* The enrollment token's expires_at passes.
Expire ==
  /\ ~enrollment.expired
  /\ enrollment' = [enrollment EXCEPT !.expired = TRUE]
  /\ UNCHANGED <<credentials, issued, rotations, disk, proc, network, reply, harmed, faults>>

-----------------------------------------------------------------------------
(* Faults.                                                                 *)

\* A process gives up waiting, or dies: its request may still reach the server, or
\* go on there; its response is lost.
Harm(m, p) ==
  /\ proc[m][p] # "idle"
  /\ faults < MaxFaults
  /\ SetProc(m, p, "idle")
  /\ LET own == {req \in network : req.machine = m /\ req.proc = p /\ req.live}
     IN network' \in {network \ own,
                      (network \ own) \cup {[req EXCEPT !.live = FALSE] : req \in own}}
  /\ reply' = {r \in reply : r.machine # m \/ r.proc # p}
  /\ harmed' = harmed \cup {m}
  /\ faults' = faults + 1
  /\ UNCHANGED <<server, disk>>

\* The number of tokens is bounded: a run ends when every machine has one and nobody
\* starts another rotation.
Horizon ==
  /\ issued >= MaxTokens
  /\ network = {} /\ reply = {}
  /\ \A m \in Machines, p \in Procs : proc[m][p] = "idle"
  /\ UNCHANGED vars

-----------------------------------------------------------------------------
Act(m, p) ==
  \/ StartRegistration(m, p) \/ SaveRegistration(m, p) \/ RemoveTokenFile(m, p)
  \/ StartRotation(m, p) \/ SaveRotation(m, p)
  \/ Refused(m, p) \/ Harm(m, p)

Serve(req) == ServeRegister(req) \/ BeginRotate(req) \/ CommitRotate(req)

Next ==
  \/ \E m \in Machines, p \in Procs : Act(m, p)
  \/ \E req \in network : Serve(req)
  \/ Expire \/ Horizon

Spec == Init /\ [][Next]_vars

-----------------------------------------------------------------------------
(* Properties.                                                             *)

Credential == [token : Nat, version : Nat]

\* The uses of an enrollment token are the machines it enrolled, however often each
\* of them retried.
UsesAreMachines ==
  enrollment.uses = Cardinality({m \in Machines : credentials[m] # NoCredential})

\* The rotation events of a machine are an unbroken chain: every version before the
\* current one was replaced exactly once, by concurrent operators too.
VersionChain == \A m \in Machines :
  LET own == {e \in rotations : e.machine = m}
  IN /\ \A v \in 0..credentials[m].version : (\E e \in own : e.old = v) <=> (v \in 1..(credentials[m].version - 1))
     /\ \A e, f \in own : e.old = f.old => e = f

\* The machine's file is never ahead of the server, and the same version is the
\* same token.
FileFollowsServer == \A m \in Machines :
  /\ file[m].version <= credentials[m].version
  /\ file[m].version = credentials[m].version => file[m] = credentials[m]

\* Only a lost exchange or a killed process can leave a machine with a token that the
\* server no longer accepts, or registered without one.
LockoutOnlyByLoss == \A m \in Machines :
  \/ m \in harmed
  \/ file[m] = credentials[m]
  \/ \E r \in reply : r.ok /\ r.machine = m /\ r.token = credentials[m].token

\* A save never brings an older token back, whoever saves late.
FileNeverGoesBack ==
  [][\A m \in Machines : file'[m] # file[m] => file'[m].token > file[m].token]_vars
=============================================================================
