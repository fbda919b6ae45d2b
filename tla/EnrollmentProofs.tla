--------------------------- MODULE EnrollmentProofs ---------------------------
(***************************************************************************)
(* TLAPS proofs about Enrollment: for any machines, processes, limits and  *)
(* faults, a machine's credential file follows the server, only a loss     *)
(* locks a machine out, and the rotation events are an unbroken chain.     *)
(***************************************************************************)
EXTENDS Enrollment, FiniteSetTheorems, TLAPS

RequestSet == [machine : Machines, proc : Procs, kind : {"register", "rotate", "commit"},
               token : Nat, version : Nat, live : BOOLEAN]
ReplySet == [machine : Machines, proc : Procs, ok : BOOLEAN, token : Nat, version : Nat]
RotationSet == [machine : Machines, old : Nat, token : Nat]

\* The types that the argument needs.
Types ==
  /\ credentials \in [Machines -> Credential] /\ file \in [Machines -> Credential]
  /\ issued \in Nat
  /\ network \subseteq RequestSet /\ reply \subseteq ReplySet

\* A file holds the server's credential or an older one.
Behind == \A m \in Machines :
  /\ credentials[m].token <= issued
  /\ credentials[m].version = 0 <=> credentials[m].token = 0
  /\ file[m].version = 0 <=> file[m].token = 0
  /\ \/ file[m] = credentials[m]
     \/ file[m].token < credentials[m].token /\ file[m].version < credentials[m].version

\* A response on its way carries the server's credential, which the file lacks: no
\* other rotation can have begun from it.
Answers ==
  /\ \A r \in reply : r.ok =>
       /\ r.token = credentials[r.machine].token
       /\ r.version = credentials[r.machine].version
       /\ file[r.machine] # credentials[r.machine]
  /\ \A r, s \in reply : r.ok /\ s.ok /\ r.machine = s.machine => r = s

\* A rotation in progress began from the server's credential only if the file still
\* holds it.
Asked == \A q \in network : q.kind # "register" =>
  /\ 0 < q.token /\ q.token <= credentials[q.machine].token
  /\ q.token = credentials[q.machine].token => file[q.machine] = credentials[q.machine]
  /\ q.kind = "commit" =>
       /\ q.version <= credentials[q.machine].version
       /\ q.version = credentials[q.machine].version => q.token = credentials[q.machine].token

\* An unharmed machine waits for each of its requests.
Waiting == \A q \in network : q.machine \in harmed \/ q.live

\* VersionChain without its bounded quantifier.
Chain == rotations \subseteq RotationSet /\ \A m \in Machines :
  /\ \A e \in rotations : e.machine = m => 0 < e.old /\ e.old < credentials[m].version
  /\ \A v \in Nat : 0 < v /\ v < credentials[m].version =>
       \E e \in rotations : e.machine = m /\ e.old = v
  /\ \A e, f \in rotations : e.machine = m /\ f.machine = m /\ e.old = f.old => e = f

IInv == Types /\ Behind /\ Answers /\ Asked /\ Waiting /\ LockoutOnlyByLoss /\ Chain

-----------------------------------------------------------------------------
\* Nothing is registered and nothing is on its way at first.
LEMMA InitInv == Init => IInv
<1> SUFFICES ASSUME Init PROVE IInv
  OBVIOUS
<1>1. NoCredential \in Credential /\ NoCredential.token = 0 /\ NoCredential.version = 0
  BY DEF NoCredential, Credential
<1>2. Types /\ Behind BY <1>1 DEF Init, Types, Behind
<1>3. Answers /\ Asked /\ Waiting BY DEF Init, Answers, Asked, Waiting
<1>4. LockoutOnlyByLoss BY DEF Init, LockoutOnlyByLoss
<1>5. Chain BY <1>1 DEF Init, Chain
<1> QED BY <1>2, <1>3, <1>4, <1>5 DEF IInv

\* The server hands out a fresh credential to a machine whose file holds the one that
\* it replaces.
LEMMA GrantInv ==
  ASSUME IInv, NEW q \in network, NEW fresh,
         fresh = [token |-> issued + 1, version |-> credentials[q.machine].version + 1],
         file[q.machine] = credentials[q.machine],
         credentials' = [credentials EXCEPT ![q.machine] = fresh],
         issued' = issued + 1,
         network' = network \ {q},
         Respond(q, Granted(q, fresh)),
         UNCHANGED <<file, harmed>>
  PROVE  (Types /\ Behind /\ Answers /\ Asked /\ Waiting /\ LockoutOnlyByLoss)'
<1> DEFINE m == q.machine
           r == Granted(q, fresh)
<1> USE DEF IInv
<1>1. q \in RequestSet /\ m \in Machines /\ issued \in Nat
  BY DEF Types, RequestSet
<1>2. credentials[m] \in Credential /\ credentials[m].version \in Nat
      /\ credentials[m].token \in Nat
  BY <1>1 DEF Types, Credential
<1>3. fresh \in Credential /\ fresh.token = issued + 1
      /\ fresh.version = credentials[m].version + 1
  BY <1>1, <1>2 DEF Credential
<1>4. /\ credentials'[m] = fresh
      /\ \A n \in Machines : n # m => credentials'[n] = credentials[n]
      /\ credentials' \in [Machines -> Credential]
  BY <1>1, <1>3 DEF Types
<1>5. r \in ReplySet /\ r.ok /\ r.machine = m /\ r.token = fresh.token
      /\ r.version = fresh.version
  BY <1>1, <1>3 DEF Granted, ReplySet, RequestSet, Credential
<1> HIDE DEF r
<1>6. reply' = IF q.live THEN reply \cup {r} ELSE reply
  BY DEF Respond, r
<1>7. \A s \in reply : s.ok => s.machine # m
  BY DEF Answers
<1>8. \A n \in Machines : file[n] \in Credential /\ file[n].token \in Nat /\ file[n].version \in Nat
      /\ credentials[n].token \in Nat /\ credentials[n].version \in Nat
  BY DEF Types, Credential
<1>9. \A s \in reply : s.machine \in Machines
  BY DEF Types, ReplySet
<1>10. \A p \in network : p.machine \in Machines /\ p.token \in Nat /\ p.version \in Nat
  BY DEF Types, RequestSet
<1>11. fresh.token > credentials[m].token /\ fresh.version > credentials[m].version
  BY <1>1, <1>2, <1>3 DEF Behind
<1>12. Types'
  BY <1>1, <1>4, <1>5, <1>6 DEF Types
<1>13. Behind'
  BY <1>1, <1>2, <1>3, <1>4, <1>8, <1>11 DEF Behind
<1>14. Answers'
  <2>1. file'[m] # fresh BY <1>1, <1>2, <1>11
  <2>2. \A s \in reply' : s.ok => s = r \/ (s \in reply /\ s.machine # m)
    BY <1>6, <1>7
  <2> QED BY <1>4, <1>5, <1>9, <2>1, <2>2 DEF Answers
<1>15. Asked'
  <2>1. \A p \in network' : p \in network BY DEF Types
  <2>2. SUFFICES ASSUME NEW p \in network', p.kind # "register", p.machine = m
        PROVE /\ 0 < p.token /\ p.token <= fresh.token
              /\ p.token # fresh.token
              /\ p.kind = "commit" => p.version < fresh.version
    <3>1. \A p \in network' : p.kind # "register" =>
            0 < p.token /\ p.token <= credentials[p.machine].token
      BY <2>1 DEF Asked
    <3>2. \A p \in network' : p.kind # "register" /\ p.machine # m =>
            credentials'[p.machine] = credentials[p.machine]
      BY <1>4, <1>10, <2>1
    <3>3. \A p \in network' : p.kind # "register" /\ p.kind = "commit" /\ p.machine = m
             => p.version <= fresh.version /\ p.version # fresh.version
      BY <1>3, <1>2, <1>10, <2>1, <2>2
    <3> QED BY <1>4, <2>1, <2>2, <3>1, <3>2, <3>3 DEF Asked
  <2>3. p.token <= credentials[m].token /\ 0 < p.token
    BY <2>1, <2>2 DEF Asked
  <2>4. p.kind = "commit" => p.version <= credentials[m].version
    BY <2>1, <2>2 DEF Asked
  <2> QED BY <1>2, <1>3, <1>10, <1>11, <1>1, <2>1, <2>3, <2>4
<1>16. Waiting'
  BY DEF Waiting
<1>17. LockoutOnlyByLoss'
  <2>1. ASSUME NEW n \in Machines, n # m
        PROVE  n \in harmed' \/ file'[n] = credentials'[n]
               \/ \E s \in reply' : s.ok /\ s.machine = n /\ s.token = credentials'[n].token
    <3>1. credentials'[n] = credentials[n] BY <1>4, <2>1
    <3>2. reply \subseteq reply' BY <1>6
    <3> QED BY <2>1, <3>1, <3>2 DEF LockoutOnlyByLoss
  <2>2. m \in harmed \/ q.live BY DEF Waiting
  <2>3. m \in harmed' \/ \E s \in reply' : s.ok /\ s.machine = m /\ s.token = credentials'[m].token
    BY <1>4, <1>5, <1>6, <2>2
  <2> QED BY <2>1, <2>3 DEF LockoutOnlyByLoss
<1> QED BY <1>12, <1>13, <1>14, <1>15, <1>16, <1>17

\* A registration or a committed rotation, or a refusal of either.
LEMMA RegisterInv == ASSUME IInv, NEW q \in network, ServeRegister(q) PROVE IInv'
<1> DEFINE fresh == [token |-> issued + 1, version |-> 1]
<1> USE DEF IInv
<1>1. /\ RegisterAgent(q.machine, fresh)
      /\ IF credentials'[q.machine] = fresh
         THEN issued' = issued + 1 /\ Respond(q, Granted(q, fresh))
         ELSE issued' = issued /\ Respond(q, Refusal(q))
      /\ network' = network \ {q}
      /\ UNCHANGED <<rotations, file, harmed>>
  BY DEF ServeRegister, disk
<1>2. q \in RequestSet /\ q.machine \in Machines /\ issued \in Nat
      /\ credentials[q.machine] \in Credential /\ credentials[q.machine].token <= issued
  BY DEF Types, RequestSet, Behind
<1>3. CASE credentials'[q.machine] = fresh
  <2>1. credentials[q.machine] # fresh
    BY <1>2 DEF Credential
  <2>2. /\ credentials[q.machine] = NoCredential
        /\ credentials' = [credentials EXCEPT ![q.machine] = fresh]
    BY <1>1, <1>3, <2>1 DEF RegisterAgent
  <2>3. file[q.machine] = credentials[q.machine]
    BY <1>2, <2>2 DEF Behind, NoCredential, Types, Credential
  <2>4. fresh = [token |-> issued + 1, version |-> credentials[q.machine].version + 1]
    BY <2>2 DEF NoCredential
  <2> HIDE DEF fresh
  <2>5. (Types /\ Behind /\ Answers /\ Asked /\ Waiting /\ LockoutOnlyByLoss)'
    BY <1>1, <1>3, <2>2, <2>3, <2>4, GrantInv
  <2>6. credentials'[q.machine].version = 1 /\ credentials[q.machine].version = 0
    BY <1>2, <1>3, <2>2 DEF NoCredential, fresh
  <2>7. \A n \in Machines : n # q.machine => credentials'[n] = credentials[n]
    BY <2>2 DEF Types
  <2>8. Chain'
    BY <1>1, <1>2, <2>6, <2>7 DEF Chain, RotationSet
  <2> QED BY <2>5, <2>8
<1>4. CASE credentials'[q.machine] # fresh
  <2>1. UNCHANGED credentials
    BY <1>1, <1>2, <1>4 DEF RegisterAgent, Types
  <2>2. issued' = issued /\ reply' \in {reply, reply \cup {Refusal(q)}}
    BY <1>1, <1>4 DEF Respond
  <2>3. Refusal(q) \in ReplySet /\ ~Refusal(q).ok
    BY <1>2 DEF Refusal, ReplySet, RequestSet
  <2> QED BY <1>1, <2>1, <2>2, <2>3
          DEF Types, Behind, Answers, Asked, Waiting, LockoutOnlyByLoss, Chain
<1> QED BY <1>3, <1>4

\* A rotation that authenticates has seen the server's credential.
LEMMA BeginInv == ASSUME IInv, NEW q \in network, BeginRotate(q) PROVE IInv'
<1> DEFINE begun == [q EXCEPT !.kind = "commit", !.version = credentials[q.machine].version]
<1> USE DEF IInv
<1>1. UNCHANGED <<credentials, issued, rotations, file, harmed>> /\ q.kind = "rotate"
  BY DEF BeginRotate, server, disk
<1>2. q \in RequestSet /\ q.machine \in Machines /\ credentials[q.machine].version \in Nat
  BY DEF Types, RequestSet, Credential
<1>3. CASE Authentic(q)
  <2>1. network' = (network \ {q}) \cup {begun} /\ reply' = reply
    BY <1>3 DEF BeginRotate
  <2>2. /\ begun \in RequestSet /\ begun.machine = q.machine /\ begun.token = q.token
        /\ begun.version = credentials[q.machine].version /\ begun.live = q.live
        /\ begun.kind = "commit"
    BY <1>2 DEF RequestSet
  <2> HIDE DEF begun
  <2>3. Asked'
    BY <1>1, <1>2, <1>3, <2>1, <2>2 DEF Asked, Authentic
  <2>4. Types' /\ Waiting'
    BY <1>1, <2>1, <2>2 DEF Types, Waiting
  <2> QED BY <1>1, <2>1, <2>3, <2>4 DEF Behind, Answers, LockoutOnlyByLoss, Chain
<1>4. CASE ~Authentic(q)
  <2>1. network' = network \ {q} /\ reply' \in {reply, reply \cup {Refusal(q)}}
    BY <1>4 DEF BeginRotate, Respond
  <2>2. Refusal(q) \in ReplySet /\ ~Refusal(q).ok
    BY <1>2 DEF Refusal, ReplySet, RequestSet
  <2> QED BY <1>1, <2>1, <2>2
          DEF Types, Behind, Answers, Asked, Waiting, LockoutOnlyByLoss, Chain
<1> QED BY <1>3, <1>4

\* The rotation that commits is the first one from its version.
LEMMA CommitInv == ASSUME IInv, NEW q \in network, CommitRotate(q) PROVE IInv'
<1> DEFINE fresh == [token |-> issued + 1, version |-> q.version + 1]
           event == [machine |-> q.machine, old |-> q.version, token |-> fresh.token]
<1> USE DEF IInv
<1>1. UNCHANGED <<file, harmed>> /\ q.kind = "commit" /\ network' = network \ {q}
  BY DEF CommitRotate, disk
<1>2. q \in RequestSet /\ q.machine \in Machines /\ q.version \in Nat /\ issued \in Nat
      /\ credentials[q.machine] \in Credential /\ q.token \in Nat
  BY DEF Types, RequestSet
<1>3. CASE Unchanged(q)
  <2>1. /\ issued' = issued + 1
        /\ credentials' = [credentials EXCEPT ![q.machine] = fresh]
        /\ rotations' = rotations \cup {event}
        /\ Respond(q, Granted(q, fresh))
    BY <1>3 DEF CommitRotate
  <2>2. q.version = credentials[q.machine].version
    BY <1>3 DEF Unchanged
  <2>3. q.token = credentials[q.machine].token /\ 0 < q.token
    BY <1>1, <2>2 DEF Asked
  <2>4. file[q.machine] = credentials[q.machine] /\ 0 < q.version
    BY <1>1, <1>2, <2>2, <2>3 DEF Asked, Behind
  <2>5. event \in RotationSet /\ event.machine = q.machine /\ event.old = q.version
    BY <1>2 DEF RotationSet
  <2>6. credentials'[q.machine].version = q.version + 1
        /\ \A n \in Machines : n # q.machine => credentials'[n] = credentials[n]
    BY <1>2, <2>1 DEF Types
  <2>7. fresh = [token |-> issued + 1, version |-> credentials[q.machine].version + 1]
    BY <2>2
  <2> HIDE DEF fresh, event
  <2>8. (Types /\ Behind /\ Answers /\ Asked /\ Waiting /\ LockoutOnlyByLoss)'
    BY <1>1, <2>1, <2>4, <2>7, GrantInv
  <2>9. Chain'
    <3>1. rotations' \subseteq RotationSet
      BY <2>1, <2>5 DEF Chain
    <3>2. ASSUME NEW m \in Machines, m # q.machine
          PROVE  \A e \in rotations' : e.machine = m => e \in rotations
      BY <2>1, <2>5, <3>2
    <3>3. ASSUME NEW m \in Machines, NEW e \in rotations', e.machine = m
          PROVE  0 < e.old /\ e.old < credentials'[m].version
      BY <1>2, <2>1, <2>2, <2>4, <2>5, <2>6, <3>2, <3>3 DEF Chain, RotationSet
    <3>4. ASSUME NEW m \in Machines, NEW v \in Nat, 0 < v, v < credentials'[m].version
          PROVE  \E e \in rotations' : e.machine = m /\ e.old = v
      BY <1>2, <2>1, <2>2, <2>5, <2>6, <3>4 DEF Chain
    <3>5. ASSUME NEW m \in Machines, NEW e \in rotations', NEW f \in rotations',
                 e.machine = m, f.machine = m, e.old = f.old
          PROVE  e = f
      <4>1. CASE m # q.machine BY <3>2, <3>5, <4>1 DEF Chain
      <4>2. CASE m = q.machine
        <5>1. \A g \in rotations : g.machine = m => g.old < q.version
          BY <2>2, <4>2 DEF Chain
        <5>2. \A g \in rotations : g.old \in Nat
          BY DEF Chain, RotationSet
        <5>3. (e \in rotations \/ e = event) /\ (f \in rotations \/ f = event)
          BY <2>1
        <5> QED BY <1>2, <2>5, <3>5, <5>1, <5>2, <5>3 DEF Chain
      <4> QED BY <4>1, <4>2
    <3> QED BY <3>1, <3>3, <3>4, <3>5 DEF Chain
  <2> QED BY <2>8, <2>9
<1>4. CASE ~Unchanged(q)
  <2>1. /\ UNCHANGED <<credentials, issued, rotations>>
        /\ reply' \in {reply, reply \cup {Refusal(q)}}
    BY <1>4 DEF CommitRotate, Respond
  <2>2. Refusal(q) \in ReplySet /\ ~Refusal(q).ok
    BY <1>2 DEF Refusal, ReplySet, RequestSet
  <2> QED BY <1>1, <2>1, <2>2
          DEF Types, Behind, Answers, Asked, Waiting, LockoutOnlyByLoss, Chain
<1> QED BY <1>3, <1>4

\* What a save does, for either kind: it writes the server's credential.
LEMMA SaveWritesCredential ==
  ASSUME IInv, NEW m \in Machines, NEW p \in Procs,
         SaveRegistration(m, p) \/ SaveRotation(m, p)
  PROVE  \E r \in reply :
           /\ r.machine = m /\ r.ok
           /\ r.token = credentials[m].token
           /\ file[m].token < r.token
           /\ file' = [file EXCEPT ![m] = credentials[m]]
           /\ reply' = reply \ {r}
<1> USE DEF IInv
<1>1. PICK r \in reply :
        /\ r.machine = m /\ r.ok /\ reply' = reply \ {r}
        /\ \/ file' = [file EXCEPT ![m] = [token |-> r.token, version |-> r.version]]
           \/ file' = [file EXCEPT ![m] =
                [token |-> r.token,
                 version |-> IF r.version > @.version THEN r.version ELSE @.version + 1]]
  BY DEF SaveRegistration, SaveRotation, Saved
<1>2. /\ r.token = credentials[m].token /\ r.version = credentials[m].version
      /\ file[m] # credentials[m]
  BY <1>1 DEF Answers
<1>3. /\ credentials[m] \in Credential /\ file[m] \in Credential
      /\ file[m].token < r.token /\ file[m].version < r.version
  BY <1>2 DEF Types, Behind
<1>4. credentials[m] = [token |-> r.token, version |-> r.version]
  BY <1>2, <1>3 DEF Credential
<1>5. r.version > file[m].version
  BY <1>3 DEF Credential, Types, ReplySet
<1>6. file' = [file EXCEPT ![m] = credentials[m]]
  BY <1>1, <1>4, <1>5 DEF Types
<1> QED BY <1>1, <1>2, <1>3, <1>6

\* Saving makes the file equal to the server's credential.
LEMMA SaveInv ==
  ASSUME IInv, NEW m \in Machines, NEW p \in Procs,
         SaveRegistration(m, p) \/ SaveRotation(m, p)
  PROVE  IInv'
<1> USE DEF IInv
<1>1. PICK r \in reply :
        /\ r.machine = m /\ r.ok /\ r.token = credentials[m].token
        /\ file' = [file EXCEPT ![m] = credentials[m]]
        /\ reply' = reply \ {r}
  BY SaveWritesCredential
<1>2. UNCHANGED <<credentials, issued, rotations, network, harmed>>
  BY DEF SaveRegistration, SaveRotation, server
<1>3. /\ file'[m] = credentials[m]
      /\ \A n \in Machines : n # m => file'[n] = file[n]
      /\ file' \in [Machines -> Credential]
  BY <1>1 DEF Types
<1>4. /\ \A s \in reply' : s \in reply /\ s.machine \in Machines /\ (s.ok => s.machine # m)
      /\ \A q \in network : q.machine \in Machines
  BY <1>1 DEF Answers, Types, ReplySet, RequestSet
<1>5. Types' /\ Behind' /\ Waiting' /\ Chain'
  BY <1>1, <1>2, <1>3 DEF Types, Behind, Waiting, Chain
<1>6. Answers'
  BY <1>2, <1>3, <1>4 DEF Answers
<1>7. Asked'
  BY <1>2, <1>3, <1>4 DEF Asked
<1>8. LockoutOnlyByLoss'
  BY <1>1, <1>2, <1>3, <1>4 DEF LockoutOnlyByLoss
<1> QED BY <1>5, <1>6, <1>7, <1>8

\* A loss can only remove requests and responses of the machine it marks as harmed.
LEMMA HarmInv ==
  ASSUME IInv, NEW m \in Machines, NEW p \in Procs, Harm(m, p)
  PROVE  IInv'
<1> DEFINE own == {req \in network : req.machine = m /\ req.proc = p /\ req.live}
           dead == {[req EXCEPT !.live = FALSE] : req \in own}
<1> USE DEF IInv
<1>1. /\ network' \in {network \ own, (network \ own) \cup dead}
      /\ reply' = {r \in reply : r.machine # m \/ r.proc # p}
      /\ harmed' = harmed \cup {m}
      /\ UNCHANGED <<credentials, issued, rotations, file>>
  BY DEF Harm, server, disk
<1>2. \A d \in dead : \E req \in network :
        /\ d \in RequestSet /\ d.machine = req.machine /\ d.machine = m /\ d.kind = req.kind
        /\ d.token = req.token /\ d.version = req.version
  BY DEF Types, RequestSet
<1> HIDE DEF own, dead
<1>3. \A q \in network' : q \in network \/ q \in dead
  BY <1>1
<1>4. Types' BY <1>1, <1>2, <1>3 DEF Types
<1>5. Asked'
  <2>1. SUFFICES ASSUME NEW q \in network', q.kind # "register"
        PROVE  \E req \in network : /\ req.machine = q.machine /\ req.kind = q.kind
                                    /\ req.token = q.token /\ req.version = q.version
    BY <1>1 DEF Asked
  <2> QED BY <1>2, <1>3, <2>1
<1>6. Waiting' BY <1>1, <1>2, <1>3 DEF Waiting
<1>7. Behind' /\ Answers' /\ Chain' BY <1>1 DEF Behind, Answers, Chain
<1>8. LockoutOnlyByLoss' BY <1>1 DEF LockoutOnlyByLoss
<1> QED BY <1>4, <1>5, <1>6, <1>7, <1>8

\* A new request is live and carries the token of the file.
LEMMA StartInv ==
  ASSUME IInv, NEW m \in Machines, NEW p \in Procs,
         StartRegistration(m, p) \/ StartRotation(m, p)
  PROVE  IInv'
<1> USE DEF IInv
<1>1. PICK q \in {Request(m, p, "register", 0), Request(m, p, "rotate", file[m].token)} :
        /\ network' = network \cup {q}
        /\ q.kind = "rotate" => file[m] # NoCredential
  BY DEF StartRegistration, StartRotation, Request
<1>2. UNCHANGED <<credentials, issued, rotations, file, reply, harmed>>
  BY DEF StartRegistration, StartRotation, server, disk
<1>3. /\ file[m] \in Credential /\ credentials[m] \in Credential
      /\ file[m].token \in Nat /\ credentials[m].token \in Nat
  BY DEF Types, Credential
<1>4. /\ q \in RequestSet /\ q.machine = m /\ q.live
      /\ q.kind \in {"register", "rotate"}
      /\ q.kind = "rotate" => q.token = file[m].token
  <2>1. /\ Request(m, p, "register", 0) \in RequestSet
        /\ Request(m, p, "rotate", file[m].token) \in RequestSet
    BY <1>3 DEF Request, RequestSet
  <2>2. /\ Request(m, p, "register", 0).kind = "register"
        /\ Request(m, p, "rotate", file[m].token).kind = "rotate"
        /\ Request(m, p, "rotate", file[m].token).token = file[m].token
    BY DEF Request
  <2>3. \A k, t : Request(m, p, k, t).machine = m /\ Request(m, p, k, t).live
    BY DEF Request
  <2>4. q = Request(m, p, "register", 0) \/ q = Request(m, p, "rotate", file[m].token)
    BY <1>1
  <2>5. CASE q = Request(m, p, "register", 0) BY <2>1, <2>2, <2>3, <2>5
  <2>6. CASE q = Request(m, p, "rotate", file[m].token) BY <2>1, <2>2, <2>3, <2>6
  <2> QED BY <2>4, <2>5, <2>6
<1>5. Asked'
  <2>1. q.kind = "rotate" => 0 < q.token /\ q.token <= credentials[m].token
          /\ (q.token = credentials[m].token => file[m] = credentials[m])
    <3>1. q.kind = "rotate" => file[m].token # 0
      BY <1>1, <1>3 DEF Behind, NoCredential, Credential
    <3> QED BY <1>3, <1>4, <3>1 DEF Behind
  <2> QED BY <1>1, <1>2, <1>4, <2>1 DEF Asked
<1>6. Types' /\ Waiting' BY <1>1, <1>2, <1>4 DEF Types, Waiting
<1> QED BY <1>2, <1>5, <1>6 DEF Behind, Answers, LockoutOnlyByLoss, Chain

\* A refusal on its way, the token file and the expiry do not matter.
LEMMA QuietInv ==
  ASSUME IInv,
         \/ \E m \in Machines, p \in Procs : RemoveTokenFile(m, p) \/ Refused(m, p)
         \/ Expire \/ UNCHANGED vars
  PROVE  IInv'
<1> USE DEF IInv
<1>1. /\ UNCHANGED <<credentials, issued, rotations, file, network, harmed>>
      /\ reply' = reply \/ \E r \in reply : ~r.ok /\ reply' = reply \ {r}
  BY DEF RemoveTokenFile, Refused, Expire, vars, server, disk
<1>2. Types' /\ Behind' /\ Asked' /\ Waiting' /\ Chain'
  BY <1>1 DEF Types, Behind, Asked, Waiting, Chain
<1>3. Answers' BY <1>1 DEF Answers
<1>4. LockoutOnlyByLoss'
  <2>1. CASE reply' = reply BY <1>1, <2>1 DEF LockoutOnlyByLoss
  <2>2. CASE reply' # reply
    <3>1. PICK r \in reply : ~r.ok /\ reply' = reply \ {r} BY <1>1, <2>2
    <3> QED BY <1>1, <3>1 DEF LockoutOnlyByLoss
  <2> QED BY <2>1, <2>2
<1> QED BY <1>2, <1>3, <1>4

LEMMA NextInv == IInv /\ [Next]_vars => IInv'
<1> SUFFICES ASSUME IInv, [Next]_vars PROVE IInv'
  OBVIOUS
<1>1. ASSUME NEW m \in Machines, NEW p \in Procs, Act(m, p) PROVE IInv'
  BY <1>1, StartInv, SaveInv, HarmInv, QuietInv DEF Act
<1>2. ASSUME NEW q \in network, Serve(q) PROVE IInv'
  BY <1>2, RegisterInv, BeginInv, CommitInv DEF Serve
<1>3. CASE Expire \/ Horizon \/ UNCHANGED vars
  BY <1>3, QuietInv DEF Horizon
<1> QED BY <1>1, <1>2, <1>3 DEF Next

\* A machine's file never holds more than the server knows, and only a loss locks the
\* machine out; every rotation replaced the version before it exactly once
\* (rotate_agent_token, save_rotated_token).  Every variable keeps its type.
THEOREM CredentialSafety == Spec => [](Types /\ FileFollowsServer /\ LockoutOnlyByLoss /\ VersionChain)
<1>1. IInv => FileFollowsServer
  BY DEF IInv, Types, Behind, FileFollowsServer, Credential
<1>2. IInv => VersionChain
  <2> SUFFICES ASSUME IInv, NEW m \in Machines
        PROVE  LET own == {e \in rotations : e.machine = m}
               IN /\ \A v \in 0..credentials[m].version :
                       (\E e \in own : e.old = v) <=> (v \in 1..(credentials[m].version - 1))
                  /\ \A e, f \in own : e.old = f.old => e = f
    BY DEF VersionChain
  <2>2. credentials[m].version \in Nat
    BY DEF IInv, Types, Credential
  <2> QED BY <2>2 DEF IInv, Chain, RotationSet
<1>3. IInv => Types /\ LockoutOnlyByLoss
  BY DEF IInv
<1> QED BY InitInv, NextInv, <1>1, <1>2, <1>3, PTL DEF Spec

\* No step of any process brings an older token back into the file.
THEOREM FileOnlyAdvances == Spec => FileNeverGoesBack
<1> DEFINE Advances == \A m \in Machines : file'[m] # file[m] => file'[m].token > file[m].token
<1>1. IInv /\ [Next]_vars => [Advances]_vars
  <2>1. SUFFICES ASSUME IInv, Next PROVE Advances
    OBVIOUS
  <2>2. CASE UNCHANGED file BY <2>2
  <2>3. ASSUME NEW m \in Machines, NEW p \in Procs,
               SaveRegistration(m, p) \/ SaveRotation(m, p)
        PROVE  Advances
    <3>1. PICK r \in reply : /\ r.token = credentials[m].token /\ file[m].token < r.token
                             /\ file' = [file EXCEPT ![m] = credentials[m]]
      BY <2>1, <2>3, SaveWritesCredential
    <3> QED BY <2>1, <3>1 DEF IInv, Types, Credential, ReplySet
  <2> QED BY <2>1, <2>2, <2>3
          DEF Next, Act, Serve, StartRegistration, RemoveTokenFile, StartRotation, Refused, Harm,
              ServeRegister, BeginRotate, CommitRotate, Expire, Horizon, vars, disk
<1>2. Spec => []IInv
  BY InitInv, NextInv, PTL DEF Spec
<1> QED BY <1>1, <1>2, PTL DEF Spec, FileNeverGoesBack

-----------------------------------------------------------------------------
(* The uses of the enrollment token.                                       *)

Enrolled == {m \in Machines : credentials[m] # NoCredential}

Counted == enrollment.uses \in Nat /\ UsesAreMachines

\* A step that leaves the counter and the enrolled machines alone.
LEMMA CountKept ==
  ASSUME Counted, enrollment'.uses = enrollment.uses, Enrolled' = Enrolled
  PROVE  Counted'
  BY DEF Counted, UsesAreMachines, Enrolled

\* A registration that is granted counts one use and enrolls one machine.
LEMMA CountRegistered ==
  ASSUME IInv, Counted, NEW q \in network, ServeRegister(q) PROVE Counted'
<1> DEFINE m == q.machine
           fresh == [token |-> issued + 1, version |-> 1]
<1>1. m \in Machines BY DEF IInv, Types, RequestSet
<1>2. CASE UNCHANGED <<enrollment, credentials>> BY <1>2, CountKept DEF Enrolled
<1>3. CASE /\ credentials[m] = NoCredential
           /\ enrollment' = [enrollment EXCEPT !.uses = @ + 1]
           /\ credentials' = [credentials EXCEPT ![m] = fresh]
  <2>1. fresh # NoCredential
    <3>1. fresh.version = 1 /\ NoCredential.version = 0 BY DEF NoCredential
    <3> QED BY <3>1
  <2>2. Enrolled' = Enrolled \cup {m} BY <1>1, <1>3, <2>1 DEF Enrolled, IInv, Types
  <2>3. m \notin Enrolled BY <1>3 DEF Enrolled
  <2>4. IsFiniteSet(Enrolled) BY EnrollmentAssumption, FS_Subset DEF Enrolled
  <2>5. Cardinality(Enrolled') = Cardinality(Enrolled) + 1 BY <2>2, <2>3, <2>4, FS_AddElement
  <2>6. enrollment.uses = Cardinality(Enrolled) BY DEF Counted, UsesAreMachines, Enrolled
  <2>7. enrollment'.uses = enrollment.uses + 1 BY <1>3 DEF Counted
  <2> QED BY <2>5, <2>6, <2>7 DEF Counted, UsesAreMachines, Enrolled
<1> QED BY <1>2, <1>3 DEF ServeRegister, RegisterAgent

\* A rotation is granted to a machine that is enrolled and stays so.
LEMMA CountRotated ==
  ASSUME IInv, Counted, NEW q \in network, CommitRotate(q) PROVE Counted'
<1> DEFINE m == q.machine
           fresh == [token |-> issued + 1, version |-> q.version + 1]
<1>1. m \in Machines /\ q.version \in Nat BY DEF IInv, Types, RequestSet
<1>2. CASE credentials' = credentials BY <1>2, CountKept DEF CommitRotate, Enrolled
<1>3. CASE Unchanged(q) /\ credentials' = [credentials EXCEPT ![m] = fresh]
  <2>1. fresh # NoCredential
    <3>1. fresh.version = q.version + 1 /\ NoCredential.version = 0 BY DEF NoCredential
    <3> QED BY <1>1, <3>1
  <2>2. credentials[m] # NoCredential
    <3>1. q.kind = "commit" BY DEF CommitRotate
    <3>2. 0 < q.token /\ q.token = credentials[m].token BY <1>3, <3>1 DEF IInv, Asked, Unchanged
    <3> QED BY <3>2 DEF NoCredential
  <2>3. Enrolled' = Enrolled BY <1>1, <1>3, <2>1, <2>2 DEF Enrolled, IInv, Types
  <2> QED BY <2>3, CountKept DEF CommitRotate
<1> QED BY <1>2, <1>3 DEF CommitRotate

LEMMA CountStep == IInv /\ Counted /\ [Next]_vars => Counted'
<1> SUFFICES ASSUME IInv, Counted, [Next]_vars PROVE Counted'
  OBVIOUS
<1>1. CASE UNCHANGED server
  <2>1. enrollment' = enrollment /\ credentials' = credentials BY <1>1 DEF server
  <2> QED BY <2>1, CountKept DEF Enrolled
<1>2. ASSUME NEW q \in network, Serve(q) PROVE Counted'
  BY <1>1, <1>2, CountRegistered, CountRotated DEF Serve, BeginRotate
<1>3. CASE Expire BY <1>3, CountKept DEF Expire, Enrolled, Counted
<1>4. ASSUME NEW m \in Machines, NEW p \in Procs, Act(m, p) PROVE UNCHANGED server
  BY <1>4 DEF Act, StartRegistration, SaveRegistration, RemoveTokenFile, StartRotation,
     SaveRotation, Refused, Harm
<1> QED BY <1>1, <1>2, <1>3, <1>4 DEF Next, Horizon, vars

\* The uses of an enrollment token are the machines it enrolled, however often each of
\* them retried a registration whose response was lost: register_agent counts the use
\* in the transaction whose INSERT refuses a known installation id.
THEOREM UsesSafety == Spec => []UsesAreMachines
<1>1. Init => Counted
  <2> SUFFICES ASSUME Init PROVE Counted
    OBVIOUS
  <2>1. {m \in Machines : credentials[m] # NoCredential} = {} BY DEF Init
  <2> QED BY <2>1, FS_EmptySet DEF Init, Counted, UsesAreMachines
<1>2. Counted => UsesAreMachines BY DEF Counted
<1> QED BY <1>1, <1>2, InitInv, NextInv, CountStep, PTL DEF Spec
=============================================================================
