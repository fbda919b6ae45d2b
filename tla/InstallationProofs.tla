-------------------------- MODULE InstallationProofs --------------------------
(***************************************************************************)
(* What an installation guarantees: a server's start for any number of     *)
(* containers, migrations and kills (FirstStart), the installation id of   *)
(* an agent for any number of processes, kills and failed reads            *)
(* (AgentIdentity), and the upgrade of a server for any number of releases *)
(* and cuts, whichever command fails (ServerUpgrade).                      *)
(***************************************************************************)
EXTENDS FirstStart, AgentIdentity, ServerUpgrade, FiniteSetTheorems, TLAPS

\* A process that is past "open" has opened the file; before there is a file every
\* process runs a first start; a process that logs a migration has run its script; a
\* process that found no user is alone and still right, unless two counted.
Started ==
  /\ \A c \in Containers : At(c, "down") \/ At(c, "open") \/ file
  /\ ~file => \A c \in Containers : At(c, "down") \/ container[c].first
  /\ \A c \in Containers : At(c, "script") => container[c].migration \in Migrations
  /\ \A c \in Containers : At(c, "log") => container[c].migration \in Migrations \cap executed
  /\ \A c \in Containers : At(c, "serving") => logged = Migrations /\ admins # {}

Alone ==
  /\ \A o, p \in admins : o = p
  /\ \A c \in Containers : At(c, "insert") => admins = {}
  /\ \A c, d \in Containers : At(c, "insert") /\ At(d, "insert") => c = d

IInv == StartTypeOK /\ LoggedWasExecuted /\ Started /\ (countedTwice \/ Alone) /\ AdminIsComing

-----------------------------------------------------------------------------
\* Become changes one process.
LEMMA Changed ==
  ASSUME StartTypeOK, NEW c \in Containers, NEW p \in Process, Become(c, p)
  PROVE  /\ container' \in [Containers -> Process]
         /\ container'[c] = p
         /\ \A d \in Containers : d # c => container'[d] = container[d]
  BY DEF StartTypeOK, Become

\* Proceed changes what the process does next, and nothing else of it.
LEMMA Proceeded ==
  ASSUME StartTypeOK, NEW c \in Containers,
         NEW pc \in {"migrate", "script", "log", "insert", "health", "serving"}, Proceed(c, pc)
  PROVE  /\ container' \in [Containers -> Process]
         /\ container'[c].pc = pc
         /\ container'[c].first = container[c].first
         /\ container'[c].migration = container[c].migration
         /\ \A d \in Containers : d # c => container'[d] = container[d]
<1> DEFINE p == [container[c] EXCEPT !.pc = pc]
<1>1. container[c] \in Process BY DEF StartTypeOK
<1>2. /\ p \in Process /\ p.pc = pc
      /\ p.first = container[c].first /\ p.migration = container[c].migration
  BY <1>1 DEF Process
<1>3. Become(c, p) BY DEF Proceed
<1> HIDE DEF p
<1> QED BY <1>2, <1>3, Changed

-----------------------------------------------------------------------------
(* One lemma for each action.                                              *)

LEMMA StartStep ==
  ASSUME IInv, NEW c \in Containers, StartContainer(c)
  PROVE  IInv'
<1> DEFINE p == [pc |-> "open", first |-> FirstStart, migration |-> 1]
<1>1. p \in Process /\ p.pc = "open" /\ p.first = ~file
  BY StartAssumption DEF Process, FirstStart, IInv, StartTypeOK
<1>2. Become(c, p) BY DEF StartContainer
<1> HIDE DEF p
<1>3. /\ container' \in [Containers -> Process] /\ container'[c] = p
      /\ \A d \in Containers : d # c => container'[d] = container[d]
  BY <1>1, <1>2, Changed DEF IInv
<1>4. At(c, "down") /\ UNCHANGED <<file, executed, logged, admins, broken, countedTwice, deaths>>
  BY DEF StartContainer
<1>5. StartTypeOK' BY <1>3, <1>4 DEF IInv, StartTypeOK
<1>6. Started' BY <1>1, <1>3, <1>4 DEF IInv, Started, At
<1>7. LoggedWasExecuted' BY <1>4 DEF IInv, LoggedWasExecuted
<1>8. (countedTwice \/ Alone)' BY <1>1, <1>3, <1>4 DEF IInv, Alone, At
<1>9. AdminIsComing' BY <1>3, <1>4 DEF IInv, AdminIsComing, Starting, At
<1> QED BY <1>5, <1>6, <1>7, <1>8, <1>9 DEF IInv

LEMMA OpenStep ==
  ASSUME IInv, NEW c \in Containers, Open(c)
  PROVE  IInv'
<1>1. /\ At(c, "open") /\ file' = TRUE /\ Proceed(c, "migrate")
      /\ UNCHANGED <<executed, logged, admins, broken, countedTwice, deaths>>
  BY DEF Open
<1>2. /\ container' \in [Containers -> Process]
      /\ container'[c].pc = "migrate" /\ container'[c].first = container[c].first
      /\ \A d \in Containers : d # c => container'[d] = container[d]
  BY <1>1, Proceeded DEF IInv
<1>3. StartTypeOK' BY <1>1, <1>2 DEF IInv, StartTypeOK
<1>4. Started' BY <1>1, <1>2 DEF IInv, Started, At
<1>5. LoggedWasExecuted' BY <1>1 DEF IInv, LoggedWasExecuted
<1>6. (countedTwice \/ Alone)' BY <1>1, <1>2 DEF IInv, Alone, At
<1>7. AdminIsComing'
  BY <1>1, <1>2 DEF IInv, AdminIsComing, Starting, Started, At
<1> QED BY <1>3, <1>4, <1>5, <1>6, <1>7 DEF IInv

\* A container that exits keeps nothing; if it was a first start, that is recorded.
LEMMA ExitStep ==
  ASSUME IInv, NEW c \in Containers, Exit(c), deaths' \in Nat, ~At(c, "down"),
         UNCHANGED <<file, executed, logged, admins>>, countedTwice' \in BOOLEAN,
         countedTwice => countedTwice'
  PROVE  IInv'
<1>1. Down \in Process /\ Down.pc = "down" BY StartAssumption DEF Down, Process
<1>2. /\ container' \in [Containers -> Process] /\ container'[c] = Down
      /\ \A d \in Containers : d # c => container'[d] = container[d]
  BY <1>1, Changed DEF IInv, Exit
<1>3. broken' = (broken \/ container[c].first) BY DEF Exit
<1>4. container[c].first \in BOOLEAN BY DEF IInv, StartTypeOK, Process
<1>5. StartTypeOK'
  <2>1. broken' \in BOOLEAN BY <1>3
  <2> QED BY <1>2, <2>1 DEF IInv, StartTypeOK
<1>6. Started' BY <1>1, <1>2 DEF IInv, Started, At
<1>7. LoggedWasExecuted' BY DEF IInv, LoggedWasExecuted
<1>8. (countedTwice \/ Alone)' BY <1>1, <1>2 DEF IInv, Alone, At
<1>9. AdminIsComing' BY <1>2, <1>3 DEF IInv, AdminIsComing, Starting, At
<1> QED BY <1>5, <1>6, <1>7, <1>8, <1>9 DEF IInv
\* The next migration: of the process only its place in the list changes, and it
\* reads the log again.
LEMMA FollowingStep ==
  ASSUME IInv, NEW c \in Containers, container[c].migration \in Migrations,
         ~At(c, "down"), ~At(c, "open"),
         NEW p \in Process, Become(c, p), p.pc = "migrate", p.first = container[c].first,
         UNCHANGED <<file, executed, admins, broken, countedTwice, deaths>>,
         logged \subseteq logged', logged' \subseteq executed
  PROVE  IInv'
<1>1. /\ container' \in [Containers -> Process] /\ container'[c] = p
      /\ \A d \in Containers : d # c => container'[d] = container[d]
  BY Changed DEF IInv
<1>2. executed \subseteq Migrations BY DEF IInv, StartTypeOK
<1>3. StartTypeOK' BY <1>1, <1>2 DEF IInv, StartTypeOK
<1>4. Started' BY <1>1, <1>2 DEF IInv, Started, At
<1>5. LoggedWasExecuted' BY DEF LoggedWasExecuted
<1>6. (countedTwice \/ Alone)' BY <1>1 DEF IInv, Alone, At
<1>7. AdminIsComing' BY <1>1 DEF IInv, AdminIsComing, Starting, At
<1> QED BY <1>3, <1>4, <1>5, <1>6, <1>7 DEF IInv

\* The process goes on to what its guard allows; scripts may have run meanwhile.
LEMMA ProceedStep ==
  ASSUME IInv, NEW c \in Containers, ~At(c, "down"), ~At(c, "open"),
         NEW pc \in {"script", "log", "health", "serving"}, Proceed(c, pc),
         pc = "script" => container[c].migration \in Migrations,
         pc = "log" => container[c].migration \in Migrations \cap executed',
         pc = "serving" => logged = Migrations /\ admins # {},
         executed \subseteq executed', executed' \subseteq Migrations,
         UNCHANGED <<file, logged, admins, broken, countedTwice, deaths>>
  PROVE  IInv'
<1>1. /\ container' \in [Containers -> Process]
      /\ container'[c].pc = pc /\ container'[c].first = container[c].first
      /\ container'[c].migration = container[c].migration
      /\ \A d \in Containers : d # c => container'[d] = container[d]
  BY Proceeded DEF IInv
<1>2. file BY DEF IInv, Started
<1>3. StartTypeOK' BY <1>1, <1>2 DEF IInv, StartTypeOK
<1>4. Started' BY <1>1, <1>2 DEF IInv, Started, At
<1>5. LoggedWasExecuted' BY DEF IInv, LoggedWasExecuted
<1>6. (countedTwice \/ Alone)' BY <1>1 DEF IInv, Alone, At
<1>7. AdminIsComing' BY <1>1 DEF IInv, AdminIsComing, Starting, At
<1> QED BY <1>3, <1>4, <1>5, <1>6, <1>7 DEF IInv

LEMMA CountStep ==
  ASSUME IInv, NEW c \in Containers, At(c, "migrate"), Proceed(c, "insert"), Fresh,
         countedTwice' = (countedTwice \/ \E d \in Containers : At(d, "insert")),
         UNCHANGED <<file, executed, logged, admins, broken, deaths>>
  PROVE  IInv'
<1>1. /\ container' \in [Containers -> Process]
      /\ container'[c].pc = "insert" /\ container'[c].first = container[c].first
      /\ \A d \in Containers : d # c => container'[d] = container[d]
  BY Proceeded DEF IInv
<1>2. file BY DEF IInv, Started, At
<1>3. countedTwice' \in BOOLEAN BY DEF IInv, StartTypeOK
<1>4. StartTypeOK' BY <1>1, <1>2, <1>3 DEF IInv, StartTypeOK
<1>5. Started' BY <1>1, <1>2 DEF IInv, Started, At
<1>6. LoggedWasExecuted' BY DEF IInv, LoggedWasExecuted
<1>7. (countedTwice \/ Alone)'
  <2>1. CASE countedTwice \/ \E d \in Containers : At(d, "insert") BY <2>1
  <2>2. CASE ~(countedTwice \/ \E d \in Containers : At(d, "insert"))
    BY <2>2, <1>1 DEF IInv, Alone, At, Fresh
  <2> QED BY <2>1, <2>2
<1>8. AdminIsComing' BY <1>1 DEF IInv, AdminIsComing, Starting, At
<1> QED BY <1>4, <1>5, <1>6, <1>7, <1>8 DEF IInv

LEMMA InsertStep ==
  ASSUME IInv, NEW c \in Containers, NEW o \in Organizations, At(c, "insert"),
         Proceed(c, "health"), admins' = admins \cup {o},
         UNCHANGED <<file, executed, logged, broken, countedTwice, deaths>>
  PROVE  IInv'
<1>1. /\ container' \in [Containers -> Process]
      /\ container'[c].pc = "health" /\ container'[c].first = container[c].first
      /\ \A d \in Containers : d # c => container'[d] = container[d]
  BY Proceeded DEF IInv
<1>2. file BY DEF IInv, Started, At
<1>3. StartTypeOK' BY <1>1, <1>2 DEF IInv, StartTypeOK
<1>4. Started' BY <1>1, <1>2 DEF IInv, Started, At
<1>5. LoggedWasExecuted' BY DEF IInv, LoggedWasExecuted
<1>6. (countedTwice \/ Alone)'
  <2>1. CASE countedTwice BY <2>1
  <2>2. CASE Alone
    <3>1. admins = {} BY <2>2 DEF Alone
    <3>2. \A d \in Containers : d # c => ~At(d, "insert") BY <2>2 DEF Alone
    <3>3. \A d \in Containers : ~At(d, "insert")' BY <1>1, <3>2 DEF At
    <3> QED BY <3>1, <3>3 DEF Alone
  <2> QED BY <2>1, <2>2 DEF IInv
<1>7. AdminIsComing' BY DEF AdminIsComing
<1> QED BY <1>3, <1>4, <1>5, <1>6, <1>7 DEF IInv

-----------------------------------------------------------------------------
LEMMA Invariance == IInv /\ [StartNext]_startVars => IInv'
<1> SUFFICES ASSUME IInv, [StartNext]_startVars PROVE IInv'
  OBVIOUS
<1>1. CASE UNCHANGED startVars
  BY <1>1 DEF startVars, IInv, StartTypeOK, LoggedWasExecuted, Started, Alone, AdminIsComing, Starting, At
<1>2. ASSUME NEW c \in Containers, StartContainer(c) PROVE IInv' BY <1>2, StartStep
<1>3. ASSUME NEW c \in Containers, Open(c) PROVE IInv' BY <1>3, OpenStep
<1>4. ASSUME NEW c \in Containers, ReadLog(c) PROVE IInv'
  <2>1. /\ At(c, "migrate") /\ container[c].migration \in Migrations
        /\ UNCHANGED <<file, executed, logged, admins, broken, countedTwice, deaths>>
    BY <1>4 DEF ReadLog
  <2>2. CASE container[c].migration \in logged
    <3> DEFINE p == [container[c] EXCEPT !.migration = Following(@)]
    <3>1. container[c] \in Process BY DEF IInv, StartTypeOK
    <3>2. p \in Process /\ p.pc = container[c].pc /\ p.first = container[c].first
      BY <2>1, <3>1, StartAssumption DEF Process, Following, Migrations
    <3>3. Become(c, p) BY <1>4, <2>2 DEF ReadLog
    <3> HIDE DEF p
    <3>4. p.pc = "migrate" /\ ~At(c, "down") /\ ~At(c, "open") BY <2>1, <3>2 DEF At
    <3> QED BY <2>1, <3>2, <3>3, <3>4, FollowingStep DEF IInv, LoggedWasExecuted
  <2>3. CASE container[c].migration \notin logged
    <3>1. Proceed(c, "script") BY <1>4, <2>3 DEF ReadLog
    <3>2. ~At(c, "down") /\ ~At(c, "open") BY <2>1 DEF At
    <3>3. executed \subseteq Migrations BY DEF IInv, StartTypeOK
    <3> QED BY <2>1, <3>1, <3>2, <3>3, ProceedStep
  <2> QED BY <2>2, <2>3
<1>5. ASSUME NEW c \in Containers, RunScript(c) PROVE IInv'
  <2>1. /\ At(c, "script") /\ executed' = executed \cup {container[c].migration}
        /\ Proceed(c, "log")
        /\ UNCHANGED <<file, logged, admins, broken, countedTwice, deaths>>
    BY <1>5 DEF RunScript, Script
  <2>2. container[c].migration \in Migrations BY <2>1 DEF IInv, Started
  <2>3. ~At(c, "down") /\ ~At(c, "open") BY <2>1 DEF At
  <2>4. executed \subseteq executed' /\ executed' \subseteq Migrations
    BY <2>1, <2>2 DEF IInv, StartTypeOK
  <2> QED BY <2>1, <2>2, <2>3, <2>4, ProceedStep
<1>6. ASSUME NEW c \in Containers, LogMigration(c) PROVE IInv'
  <2>1. At(c, "log") /\ UNCHANGED <<file, executed, admins, countedTwice, deaths>>
    BY <1>6 DEF LogMigration
  <2>2. ~At(c, "down") /\ ~At(c, "open") BY <2>1 DEF At
  <2>3. countedTwice \in BOOLEAN /\ deaths \in Nat BY DEF IInv, StartTypeOK
  <2>4. container[c].migration \in Migrations \cap executed BY <2>1 DEF IInv, Started
  <2>5. CASE Exit(c) /\ UNCHANGED logged BY <2>1, <2>2, <2>3, <2>5, ExitStep
  <2>6. CASE /\ logged' = logged \cup {container[c].migration} /\ UNCHANGED broken
             /\ Become(c, [container[c] EXCEPT !.pc = "migrate", !.migration = Following(@)])
    <3> DEFINE q == [container[c] EXCEPT !.pc = "migrate"]
    <3> DEFINE p == [q EXCEPT !.migration = Following(@)]
    <3>1. container[c] \in Process BY DEF IInv, StartTypeOK
    <3>2. /\ q \in Process /\ q.pc = "migrate" /\ q.first = container[c].first
          /\ q.migration = container[c].migration
      BY <3>1 DEF Process
    <3>3. [container[c] EXCEPT !.pc = "migrate", !.migration = Following(@)] = p BY <3>1 DEF Process
    <3> HIDE DEF q
    <3>4. p \in Process /\ p.pc = q.pc /\ p.first = q.first
      BY <2>4, <3>2, StartAssumption DEF Process, Following, Migrations
    <3>5. Become(c, p) BY <2>6, <3>3
    <3> HIDE DEF p
    <3>6. logged' \subseteq executed BY <2>4, <2>6 DEF IInv, LoggedWasExecuted
    <3> QED BY <2>1, <2>2, <2>4, <2>6, <3>2, <3>4, <3>5, <3>6, FollowingStep
  <2> QED BY <1>6, <2>5, <2>6 DEF LogMigration
<1>7. ASSUME NEW c \in Containers, Count(c) PROVE IInv'
  <2>1. /\ At(c, "migrate") /\ UNCHANGED <<file, executed, logged, admins, deaths>>
        /\ countedTwice' = (countedTwice \/ (container'[c].pc = "insert" /\ \E d \in Containers : At(d, "insert")))
    BY <1>7 DEF Count
  <2>2. ~At(c, "down") /\ ~At(c, "open") BY <2>1 DEF At
  <2>3. countedTwice \in BOOLEAN /\ deaths \in Nat /\ executed \subseteq Migrations BY DEF IInv, StartTypeOK
  <2>4. countedTwice' \in BOOLEAN /\ (countedTwice => countedTwice') BY <2>1, <2>3
  <2>5. CASE Exit(c) BY <2>1, <2>2, <2>3, <2>4, <2>5, ExitStep
  <2>6. CASE Proceed(c, "health") /\ UNCHANGED broken
    <3>1. container'[c].pc = "health" BY <2>6, Proceeded DEF IInv
    <3>2. UNCHANGED countedTwice BY <2>1, <2>3, <3>1
    <3> QED BY <2>1, <2>2, <2>3, <2>6, <3>2, ProceedStep
  <2>7. CASE Fresh /\ Proceed(c, "insert") /\ UNCHANGED broken
    <3>1. container'[c].pc = "insert" BY <2>7, Proceeded DEF IInv
    <3>2. countedTwice' = (countedTwice \/ \E d \in Containers : At(d, "insert"))
      BY <2>1, <3>1
    <3> QED BY <2>1, <2>7, <3>2, CountStep
  <2> QED BY <1>7, <2>5, <2>6, <2>7 DEF Count
<1>8. ASSUME NEW c \in Containers, NEW o \in Organizations, InsertAdmin(c, o) PROVE IInv'
  <2>1. At(c, "insert") /\ UNCHANGED <<file, executed, logged, countedTwice, deaths>>
    BY <1>8 DEF InsertAdmin
  <2>2. ~At(c, "down") BY <2>1 DEF At
  <2>3. countedTwice \in BOOLEAN /\ deaths \in Nat BY DEF IInv, StartTypeOK
  <2>4. CASE Exit(c) /\ UNCHANGED admins BY <2>1, <2>2, <2>3, <2>4, ExitStep
  <2>5. CASE admins' = admins \cup {o} /\ Proceed(c, "health") /\ UNCHANGED broken
    BY <2>1, <2>5, InsertStep
  <2> QED BY <1>8, <2>4, <2>5 DEF InsertAdmin
<1>9. ASSUME NEW c \in Containers, CheckHealth(c) PROVE IInv'
  <2>1. At(c, "health") /\ UNCHANGED <<file, executed, logged, admins, countedTwice, deaths>>
    BY <1>9 DEF CheckHealth
  <2>2. ~At(c, "down") /\ ~At(c, "open") BY <2>1 DEF At
  <2>3. countedTwice \in BOOLEAN /\ deaths \in Nat /\ executed \subseteq Migrations BY DEF IInv, StartTypeOK
  <2>4. CASE Exit(c) BY <2>1, <2>2, <2>3, <2>4, ExitStep
  <2>5. CASE Healthy /\ Proceed(c, "serving") /\ UNCHANGED broken
    BY <2>1, <2>2, <2>3, <2>5, ProceedStep DEF Healthy
  <2> QED BY <1>9, <2>4, <2>5 DEF CheckHealth
<1>10. ASSUME NEW c \in Containers, Die(c) PROVE IInv'
  <2>1. deaths' \in Nat /\ countedTwice \in BOOLEAN BY <1>10 DEF Die, IInv, StartTypeOK
  <2> QED BY <1>10, <2>1, ExitStep DEF Die
<1>11. ASSUME NEW c \in Containers, Serve(c) PROVE IInv' BY <1>11, <1>1 DEF Serve
<1> QED
  BY <1>1, <1>2, <1>3, <1>4, <1>5, <1>6, <1>7, <1>8, <1>9, <1>10, <1>11 DEF StartNext, Advance

LEMMA Initially == StartInit => IInv
<1> SUFFICES ASSUME StartInit PROVE IInv
  OBVIOUS
<1>1. Down \in Process /\ Down.pc = "down" BY StartAssumption DEF Down, Process
<1>2. StartTypeOK BY <1>1 DEF StartInit, StartTypeOK
<1>3. Started BY <1>1 DEF StartInit, Started, At
<1>4. LoggedWasExecuted BY DEF StartInit, LoggedWasExecuted
<1>5. Alone BY <1>1 DEF StartInit, Alone, At
<1>6. AdminIsComing BY DEF StartInit, AdminIsComing
<1> QED BY <1>2, <1>3, <1>4, <1>5, <1>6 DEF IInv

LEMMA Follows == IInv => ServesWithAdmin /\ BootstrapOnce
<1> SUFFICES ASSUME IInv PROVE ServesWithAdmin /\ BootstrapOnce
  OBVIOUS
<1>1. ServesWithAdmin BY DEF ServesWithAdmin, IInv, Started, LoggedWasExecuted
<1>2. BootstrapOnce
  <2>1. CASE admins = {} BY <2>1, FS_EmptySet DEF BootstrapOnce
  <2>2. CASE Alone /\ admins # {}
    <3>1. PICK o \in admins : admins = {o} BY <2>2 DEF Alone
    <3>2. Cardinality(admins) = 1 BY <3>1, FS_Singleton
    <3> QED BY <3>2 DEF BootstrapOnce
  <2> QED BY <2>1, <2>2 DEF IInv, BootstrapOnce
<1> QED BY <1>1, <1>2

\* However many containers share the volume, and whichever of them are killed: the
\* migration log claims only scripts that ran (run_all_migrations), no container
\* serves without all of them and an administrator (_prepare_database), and unless
\* two first starts counted users at once one organization is bootstrapped.
THEOREM StartSafety ==
  StartSpec => [](StartTypeOK /\ LoggedWasExecuted /\ ServesWithAdmin /\ BootstrapOnce /\ AdminIsComing)
<1>1. IInv => StartTypeOK /\ LoggedWasExecuted /\ ServesWithAdmin /\ BootstrapOnce /\ AdminIsComing
  BY Follows DEF IInv
<1> QED BY Initially, Invariance, <1>1, PTL DEF StartSpec

-----------------------------------------------------------------------------
(* AgentIdentity.                                                          *)

Places == Callers \cup {"ended", "cycle", "registering"}

IdentityTypes ==
  /\ identity \in Nat /\ credential \in Nat /\ made \in Nat
  /\ process \in [Processes -> [at : Places, generated : Nat, sent : Nat]]

\* Every use of an id is a use of this one; a process that waits for the response to a
\* registration sent it, and one that saves the response has it enrolled.
Agree(id) ==
  /\ enrolled \cup sampled \subseteq {id} \ {Missing}
  /\ credential \in enrolled \cup {Missing}
  /\ \A p \in Processes :
       /\ process[p].at \in {"registering", "save"} => process[p].sent = id /\ id # Missing
       /\ process[p].at = "save" => id \in enrolled

IdentityInv == IdentityTypes /\ (~disturbed => Agree(identity))

LEMMA Went ==
  ASSUME IdentityTypes, NEW p \in Processes, NEW place \in Places, NEW sent \in Nat,
         GoTo(p, place, sent)
  PROVE  /\ process' \in [Processes -> [at : Places, generated : Nat, sent : Nat]]
         /\ process'[p].at = place /\ process'[p].sent = sent
         /\ \A q \in Processes : q # p => process'[q] = process[q]
  BY DEF IdentityTypes, GoTo, Missing

\* Whatever place called for the id, all agree on it afterwards.
LEMMA EnsuredAgrees ==
  ASSUME IdentityTypes, NEW p \in Processes, NEW id \in Nat, id # Missing,
         process[p].at \in Callers, Ensured(p, id), UNCHANGED <<enrolled, made>>,
         identity' = id
  PROVE  IdentityTypes' /\ (Agree(id) => Agree(identity)')
<1>1. CASE process[p].at = "init"
  <2>1. GoTo(p, "cycle", Missing) /\ UNCHANGED <<credential, sampled>> BY <1>1 DEF Ensured
  <2> QED BY <2>1, Went DEF Places, Callers, Missing, IdentityTypes, Agree
<1>2. CASE process[p].at = "register"
  <2>1. GoTo(p, "registering", id) /\ UNCHANGED <<credential, sampled>> BY <1>2 DEF Ensured
  <2> QED BY <2>1, Went DEF Places, Callers, Missing, IdentityTypes, Agree
<1>3. CASE process[p].at = "save" /\ id = process[p].sent
  <2>1. GoTo(p, "sample", Missing) /\ credential' = id /\ UNCHANGED sampled BY <1>3 DEF Ensured
  <2>2. /\ process' \in [Processes -> [at : Places, generated : Nat, sent : Nat]]
        /\ process'[p].at = "sample"
        /\ \A q \in Processes : q # p => process'[q] = process[q]
    BY <2>1, Went DEF Places, Callers, Missing
  <2>3. IdentityTypes' BY <2>1, <2>2 DEF IdentityTypes
  <2>4. ASSUME Agree(id) PROVE Agree(identity)'
    <3>1. id \in enrolled BY <1>3, <2>4 DEF Agree
    <3> QED BY <2>1, <2>2, <2>4, <3>1 DEF Agree
  <2> QED BY <2>3, <2>4
<1>4. CASE process[p].at = "save" /\ id # process[p].sent
  <2>1. GoTo(p, "cycle", Missing) /\ UNCHANGED <<credential, sampled>> BY <1>4 DEF Ensured
  <2> QED BY <2>1, Went DEF Places, Callers, Missing, IdentityTypes, Agree
<1>5. CASE process[p].at = "sample"
  <2>1. /\ GoTo(p, "cycle", Missing) /\ UNCHANGED credential
        /\ sampled' = sampled \cup {id}
    BY <1>5 DEF Ensured
  <2> QED BY <2>1, Went DEF Places, Callers, Missing, IdentityTypes, Agree
<1> QED BY <1>1, <1>2, <1>3, <1>4, <1>5 DEF Callers

LEMMA LoadStep ==
  ASSUME IdentityInv, NEW p \in Processes, LoadIdentity(p) PROVE IdentityInv'
<1>1. IdentityTypes' /\ (Agree(identity) => Agree(identity)')
  BY EnsuredAgrees DEF LoadIdentity, IdentityInv, IdentityTypes
<1> QED BY <1>1 DEF LoadIdentity, IdentityInv

\* The first id that is stored finds nothing to disagree with.
LEMMA StoreStep ==
  ASSUME IdentityInv, NEW p \in Processes, StoreIdentity(p) PROVE IdentityInv'
<1> DEFINE id == process[p].generated
<1>1. id \in Nat /\ process[p].at \in Places BY DEF IdentityInv, IdentityTypes
<1>2. /\ id # Missing /\ identity' = id /\ Ensured(p, id)
      /\ UNCHANGED <<enrolled, made>>
      /\ disturbed' = (disturbed \/ identity # Missing)
  BY DEF StoreIdentity
<1>3. process[p].at \in Callers BY DEF StoreIdentity
<1>4. IdentityTypes' /\ (Agree(id) => Agree(identity)')
  BY <1>1, <1>2, <1>3, EnsuredAgrees DEF IdentityInv
<1>5. ASSUME ~disturbed' PROVE Agree(id)
  <2>1. ~disturbed /\ identity = Missing BY <1>2, <1>5
  <2> QED BY <2>1 DEF IdentityInv, Agree, Missing
<1> QED BY <1>4, <1>5 DEF IdentityInv

\* A step of one process that uses no id.
LEMMA MoveStep ==
  ASSUME IdentityInv, NEW p \in Processes,
         NEW place \in Places \ {"registering", "save"}, GoTo(p, place, Missing),
         UNCHANGED <<identity, credential, sampled, made, disturbed>>,
         enrolled' = enrolled \/ enrolled' = enrolled \cup {process[p].sent},
         enrolled' # enrolled => process[p].at = "registering"
  PROVE  IdentityInv'
<1>1. /\ process' \in [Processes -> [at : Places, generated : Nat, sent : Nat]]
      /\ process'[p].at = place
      /\ \A q \in Processes : q # p => process'[q] = process[q]
  BY Went DEF IdentityInv, Missing
<1>2. IdentityTypes' BY <1>1 DEF IdentityInv, IdentityTypes
<1>3. ASSUME ~disturbed PROVE Agree(identity)'
  <2>1. Agree(identity) BY <1>3 DEF IdentityInv
  <2>2. enrolled' \subseteq {identity} \ {Missing} /\ enrolled \subseteq enrolled'
    BY <2>1 DEF Agree
  <2> QED BY <1>1, <2>1, <2>2 DEF Agree
<1> QED BY <1>2, <1>3 DEF IdentityInv

LEMMA IdentityInvariance == IdentityInv /\ [IdentityNext]_identityVars => IdentityInv'
<1> SUFFICES ASSUME IdentityInv, [IdentityNext]_identityVars PROVE IdentityInv'
  OBVIOUS
<1>1. CASE UNCHANGED identityVars
  BY <1>1 DEF identityVars, IdentityInv, IdentityTypes, Agree
<1> SUFFICES ASSUME NEW p \in Processes, NEW flag \in BOOLEAN,
                    \/ StartProcess(p) \/ LoadIdentity(p) \/ StoreIdentity(p)
                    \/ Generate(p, flag) \/ BeginCycle(p, flag) \/ Register(p, flag)
                    \/ EndProcess(p) \/ KillProcess(p)
             PROVE  IdentityInv'
  BY <1>1 DEF IdentityNext
<1>2. CASE StartProcess(p) BY <1>2, MoveStep DEF StartProcess, Places, Callers
<1>3. CASE LoadIdentity(p) BY <1>3, LoadStep
<1>4. CASE StoreIdentity(p) BY <1>4, StoreStep
<1>5. CASE Generate(p, flag)
  <2>1. /\ made' \in Nat
        /\ process' = [process EXCEPT ![p].generated = made + 1]
        /\ UNCHANGED <<identity, credential, enrolled, sampled>>
    BY <1>5 DEF Generate, IdentityInv, IdentityTypes
  <2>2. /\ process' \in [Processes -> [at : Places, generated : Nat, sent : Nat]]
        /\ \A q \in Processes : process'[q].at = process[q].at /\ process'[q].sent = process[q].sent
    BY <2>1 DEF IdentityInv, IdentityTypes
  <2>3. ASSUME ~disturbed' PROVE ~disturbed BY <1>5, <2>3, Zenon DEF Generate
  <2>4. ASSUME ~disturbed PROVE Agree(identity)'
    <3>1. Agree(identity) BY <2>4 DEF IdentityInv
    <3> QED BY <2>1, <2>2, <3>1 DEF Agree
  <2>5. IdentityTypes' BY <2>1, <2>2 DEF IdentityInv, IdentityTypes
  <2> QED BY <2>3, <2>4, <2>5 DEF IdentityInv
<1>6. CASE BeginCycle(p, flag)
  <2>1. CASE GoTo(p, "register", Missing)
    BY <1>6, <2>1, MoveStep DEF BeginCycle, Places, Callers
  <2>2. CASE GoTo(p, "sample", Missing)
    BY <1>6, <2>2, MoveStep DEF BeginCycle, Places, Callers
  <2> QED BY <1>6, <2>1, <2>2 DEF BeginCycle
<1>7. CASE Register(p, flag)
  <2> DEFINE id == process[p].sent
  <2>1. /\ process[p].at = "registering" /\ id \in Nat
        /\ enrolled' = enrolled \/ enrolled' = enrolled \cup {id}
        /\ UNCHANGED <<identity, credential, sampled, made, disturbed>>
    BY <1>7 DEF Register, IdentityInv, IdentityTypes
  <2>2. CASE GoTo(p, "cycle", Missing) BY <2>1, <2>2, MoveStep DEF Places, Callers
  <2>3. CASE GoTo(p, "save", id) /\ enrolled' = enrolled \cup {id}
    <3>1. /\ process' \in [Processes -> [at : Places, generated : Nat, sent : Nat]]
          /\ process'[p].at = "save" /\ process'[p].sent = id
          /\ \A q \in Processes : q # p => process'[q] = process[q]
      BY <2>1, <2>3, Went DEF IdentityInv, Places, Callers
    <3>2. IdentityTypes' BY <2>1, <3>1 DEF IdentityInv, IdentityTypes
    <3>3. ASSUME ~disturbed PROVE Agree(identity)'
      <4>1. Agree(identity) BY <3>3 DEF IdentityInv
      <4>2. id = identity /\ identity # Missing BY <2>1, <4>1 DEF Agree
      <4> QED BY <2>1, <2>3, <3>1, <4>1, <4>2 DEF Agree
    <3> QED BY <2>1, <3>2, <3>3 DEF IdentityInv
  <2> QED BY <1>7, <2>2, <2>3 DEF Register
<1>8. CASE EndProcess(p) \/ KillProcess(p)
  <2>1. GoTo(p, "ended", Missing)
    BY <1>8 DEF EndProcess, KillProcess, GoTo, Ended
  <2> QED BY <1>8, <2>1, MoveStep DEF EndProcess, KillProcess, Places, Callers
<1> QED BY <1>2, <1>3, <1>4, <1>5, <1>6, <1>7, <1>8

-----------------------------------------------------------------------------
(* How many ids there can be.                                              *)

Used == (enrolled \cup sampled) \cup (({identity} \cup {process[p].sent : p \in Processes}) \ {Missing})
Generating == {p \in Processes : process[p].generated # Missing}

\* An id that is generated while there is none is one of a process of its own; each
\* other one has cost a failed read.
CountInv ==
  /\ failedReads \in Nat /\ IsFiniteSet(Used)
  /\ \A p \in Processes : process[p].at = "registering" => process[p].sent # Missing
  /\ identity = Missing => Used = {}
  /\ Cardinality(Used) + Cardinality(Generating) <= Cardinality(Processes) + failedReads

LEMMA GeneratingCounts ==
  ASSUME NEW S, S \subseteq Processes
  PROVE  IsFiniteSet(S) /\ Cardinality(S) \in Nat /\ Cardinality(Processes) \in Nat
         /\ Cardinality(S) <= Cardinality(Processes)
  BY IdentityAssumption, FS_Subset, FS_CardinalityType

\* A step that neither generates an id nor uses a new one.
LEMMA NothingNew ==
  ASSUME CountInv, Used' \subseteq Used, Generating' \subseteq Generating,
         identity' = identity, failedReads' = failedReads \/ failedReads' = failedReads + 1,
         \A p \in Processes : process'[p].at = "registering" => process'[p].sent # Missing
  PROVE  CountInv'
<1>1. IsFiniteSet(Used') /\ Cardinality(Used') \in Nat /\ Cardinality(Used) \in Nat
      /\ Cardinality(Used') <= Cardinality(Used)
  BY FS_Subset, FS_CardinalityType DEF CountInv
<1>2. Generating \subseteq Processes BY DEF Generating
<1>3. IsFiniteSet(Generating) /\ Cardinality(Generating) \in Nat /\ Cardinality(Processes) \in Nat
  BY <1>2, GeneratingCounts
<1>4. Cardinality(Generating') \in Nat /\ Cardinality(Generating') <= Cardinality(Generating)
  BY <1>3, FS_Subset, FS_CardinalityType
<1>5. failedReads \in Nat /\ failedReads' \in Nat /\ failedReads <= failedReads' BY DEF CountInv
<1>6. Cardinality(Used) + Cardinality(Generating) <= Cardinality(Processes) + failedReads
  BY DEF CountInv
<1> DEFINE u == Cardinality(Used)
           v == Cardinality(Used')
           g == Cardinality(Generating)
           h == Cardinality(Generating')
           n == Cardinality(Processes)
<1>7. v + h <= n + failedReads'
  <2> HIDE DEF u, v, g, h, n
  <2> QED BY <1>1, <1>3, <1>4, <1>5, <1>6 DEF u, v, g, h, n
<1> QED BY <1>1, <1>5, <1>7 DEF CountInv

\* What a caller does with an id uses no other one.
LEMMA EnsuredUses ==
  ASSUME IdentityTypes, CountInv, NEW p \in Processes, NEW id \in Nat, id # Missing,
         process[p].at \in Callers, Ensured(p, id), UNCHANGED enrolled, identity' = id
  PROVE  /\ Used' \subseteq Used \cup {id}
         /\ Generating' = Generating \ {p}
         /\ \A q \in Processes : process'[q].at = "registering" => process'[q].sent # Missing
<1>1. PICK place \in Places, sent \in {Missing, id} :
        /\ GoTo(p, place, sent) /\ (place = "registering" => sent = id)
        /\ sampled' \subseteq sampled \cup {id}
  BY DEF Ensured, Callers, Places
<1>2. sent \in Nat BY <1>1 DEF Missing
<1>3. /\ process'[p].at = place /\ process'[p].sent = sent
      /\ \A q \in Processes : q # p => process'[q] = process[q]
  BY <1>1, <1>2, Went
<1>4. process'[p].generated = Missing BY <1>1 DEF GoTo, IdentityTypes
<1>5. Used' \subseteq Used \cup {id}
  <2>1. \A q \in Processes : process'[q].sent \in {process[q].sent, Missing, id} BY <1>1, <1>3
  <2> QED BY <1>1, <2>1 DEF Used
<1>6. Generating' = Generating \ {p} BY <1>3, <1>4 DEF Generating
<1> QED BY <1>1, <1>3, <1>5, <1>6 DEF CountInv

LEMMA StoreCounted ==
  ASSUME IdentityTypes, CountInv, NEW p \in Processes, StoreIdentity(p) PROVE CountInv'
<1> DEFINE id == process[p].generated
           u == Cardinality(Used)
           v == Cardinality(Used')
           g == Cardinality(Generating)
           h == Cardinality(Generating')
           n == Cardinality(Processes)
<1>1. /\ id \in Nat /\ id # Missing /\ identity' = id /\ failedReads' = failedReads
      /\ Used' \subseteq Used \cup {id} /\ Generating' = Generating \ {p}
      /\ \A q \in Processes : process'[q].at = "registering" => process'[q].sent # Missing
  BY EnsuredUses DEF StoreIdentity, IdentityTypes
<1>2. p \in Generating /\ Generating \subseteq Processes BY <1>1 DEF Generating
<1>3. h = g - 1 /\ g \in Nat /\ n \in Nat BY <1>1, <1>2, GeneratingCounts, FS_RemoveElement
<1>4. /\ IsFiniteSet(Used \cup {id})
      /\ Cardinality(Used \cup {id}) = u \/ Cardinality(Used \cup {id}) = u + 1
  <2> HIDE DEF id
  <2> QED BY FS_AddElement DEF CountInv
<1>5. u \in Nat BY FS_CardinalityType DEF CountInv
<1>6. /\ IsFiniteSet(Used') /\ v \in Nat
      /\ Cardinality(Used \cup {id}) \in Nat /\ v <= Cardinality(Used \cup {id})
  BY <1>1, <1>4, FS_Subset, FS_CardinalityType
<1>7. u + g <= n + failedReads /\ failedReads \in Nat BY DEF CountInv
<1>8. v + h <= n + failedReads
  <2> HIDE DEF u, v, g, h, n
  <2>1. v <= u + 1 BY <1>4, <1>5, <1>6
  <2> QED BY <1>3, <1>5, <1>6, <1>7, <2>1
<1> HIDE DEF id
<1> QED BY <1>1, <1>6, <1>7, <1>8 DEF CountInv

LEMMA GenerateCounted ==
  ASSUME IdentityTypes, CountInv, NEW p \in Processes, NEW failed \in BOOLEAN, Generate(p, failed)
  PROVE  CountInv'
<1> DEFINE u == Cardinality(Used)
           g == Cardinality(Generating)
           h == Cardinality(Generating')
           n == Cardinality(Processes)
<1>1. /\ process' = [process EXCEPT ![p].generated = made + 1]
      /\ UNCHANGED <<identity, enrolled, sampled>>
      /\ failedReads' = failedReads + (IF failed THEN 1 ELSE 0)
      /\ failed \/ identity = Missing
  BY DEF Generate
<1>2. \A q \in Processes : /\ process'[q].at = process[q].at /\ process'[q].sent = process[q].sent
                           /\ q # p => process'[q] = process[q]
  BY <1>1 DEF IdentityTypes
<1>3. Used' = Used
  <2>1. {process'[q].sent : q \in Processes} = {process[q].sent : q \in Processes} BY <1>2
  <2> QED BY <1>1, <2>1 DEF Used
<1>4. /\ Generating' \subseteq Generating \cup {p} /\ Generating' \subseteq Processes
      /\ Generating \subseteq Processes
  BY <1>2 DEF Generating
<1>5. /\ IsFiniteSet(Generating) /\ g \in Nat /\ n \in Nat /\ h \in Nat /\ h <= n
  BY <1>4, GeneratingCounts
<1>6. /\ IsFiniteSet(Generating \cup {p})
      /\ Cardinality(Generating \cup {p}) = g \/ Cardinality(Generating \cup {p}) = g + 1
  BY <1>5, FS_AddElement
<1>7. h <= Cardinality(Generating \cup {p}) BY <1>4, <1>6, FS_Subset
<1>8. h <= g + 1
  <2> HIDE DEF g, h
  <2> QED BY <1>5, <1>6, <1>7
<1>9. u \in Nat /\ failedReads \in Nat /\ failedReads' \in Nat /\ u + g <= n + failedReads
  BY <1>1, FS_CardinalityType DEF CountInv
<1>10. u + h <= n + failedReads'
  <2>1. CASE failed
    <3> HIDE DEF u, g, h, n
    <3> QED BY <1>1, <1>5, <1>8, <1>9, <2>1
  <2>2. CASE ~failed
    <3>1. u = 0 BY <1>1, <2>2, FS_EmptySet DEF CountInv
    <3> HIDE DEF u, g, h, n
    <3> QED BY <1>1, <1>5, <1>9, <2>2, <3>1
  <2> QED BY <2>1, <2>2
<1>11. Cardinality(Used)' = u /\ IsFiniteSet(Used)' BY <1>3 DEF CountInv
<1> QED BY <1>1, <1>2, <1>3, <1>9, <1>10, <1>11 DEF CountInv

LEMMA CountInvariance ==
  IdentityInv /\ CountInv /\ [IdentityNext]_identityVars => CountInv'
<1> SUFFICES ASSUME IdentityInv, CountInv, [IdentityNext]_identityVars PROVE CountInv'
  OBVIOUS
<1> USE DEF IdentityInv
<1>1. CASE UNCHANGED identityVars
  BY <1>1 DEF identityVars, CountInv, Used, Generating
<1> SUFFICES ASSUME NEW p \in Processes, NEW flag \in BOOLEAN,
                    \/ StartProcess(p) \/ LoadIdentity(p) \/ StoreIdentity(p)
                    \/ Generate(p, flag) \/ BeginCycle(p, flag) \/ Register(p, flag)
                    \/ EndProcess(p) \/ KillProcess(p)
             PROVE  CountInv'
  BY <1>1 DEF IdentityNext
<1>2. ASSUME NEW place \in Places \ {"registering"},
             NEW sent \in {Missing, process[p].sent},
             GoTo(p, place, sent), UNCHANGED <<identity, sampled>>,
             enrolled' \subseteq enrolled \cup ({process[p].sent} \ {Missing}),
             failedReads' = failedReads \/ failedReads' = failedReads + 1
      PROVE  CountInv'
  <2>1. sent \in Nat BY DEF IdentityTypes, Missing
  <2>2. /\ process'[p].at = place /\ process'[p].sent = sent
        /\ \A q \in Processes : q # p => process'[q] = process[q]
    BY <1>2, <2>1, Went
  <2>3. process'[p].generated = Missing BY <1>2 DEF GoTo, IdentityTypes
  <2>4. Used' \subseteq Used
    <3>1. \A q \in Processes : process'[q].sent \in {process[q].sent, Missing} BY <2>2
    <3> QED BY <1>2, <3>1 DEF Used
  <2>5. Generating' \subseteq Generating BY <2>2, <2>3 DEF Generating
  <2>6. \A q \in Processes : process'[q].at = "registering" => process'[q].sent # Missing
    BY <2>2 DEF CountInv
  <2> QED BY <1>2, <2>4, <2>5, <2>6, NothingNew
<1>3. CASE StartProcess(p) BY <1>2, <1>3 DEF StartProcess, Places, Callers
<1>4. CASE LoadIdentity(p)
  <2>1. identity \in Nat /\ identity # Missing /\ identity' = identity /\ failedReads' = failedReads
    BY <1>4 DEF LoadIdentity, IdentityTypes
  <2>2. /\ Used' \subseteq Used \cup {identity} /\ Generating' = Generating \ {p}
        /\ \A q \in Processes : process'[q].at = "registering" => process'[q].sent # Missing
    BY <1>4, <2>1, EnsuredUses DEF LoadIdentity
  <2>3. identity \in Used BY <2>1 DEF Used
  <2> QED BY <2>1, <2>2, <2>3, NothingNew
<1>5. CASE StoreIdentity(p) BY <1>5, StoreCounted
<1>6. CASE Generate(p, flag) BY <1>6, GenerateCounted
<1>7. CASE BeginCycle(p, flag)
  <2>1. /\ UNCHANGED <<identity, enrolled, sampled>>
        /\ failedReads' = failedReads \/ failedReads' = failedReads + 1
        /\ GoTo(p, "register", Missing) \/ GoTo(p, "sample", Missing)
    BY <1>7 DEF BeginCycle, CountInv
  <2> QED BY <1>2, <2>1 DEF Places, Callers
<1>8. CASE Register(p, flag)
  <2>1. /\ UNCHANGED <<identity, sampled, failedReads>>
        /\ enrolled' \subseteq enrolled \cup {process[p].sent}
        /\ GoTo(p, "save", process[p].sent) \/ GoTo(p, "cycle", Missing)
        /\ process[p].sent # Missing
    BY <1>8 DEF Register, CountInv
  <2> QED BY <1>2, <2>1 DEF Places, Callers
<1>9. CASE EndProcess(p) \/ KillProcess(p)
  <2>1. GoTo(p, "ended", Missing) BY <1>9 DEF EndProcess, KillProcess, GoTo, Ended
  <2> QED BY <1>2, <1>9, <2>1 DEF EndProcess, KillProcess, Places, Callers
<1> QED BY <1>3, <1>4, <1>5, <1>6, <1>7, <1>8, <1>9

\* Unless a read of identity.json failed or two processes created it at once, the
\* credential, the samples and the one enrollment of a machine have the same id, and in
\* any case no more ids come in use than there are processes and failed reads, for any
\* number of processes, kills and lost responses: CredentialStore, AgentRuntime.
THEOREM IdentitySafety == IdentitySpec => []OneIdentity
<1>1. IdentityInit => IdentityInv
  BY DEF IdentityInit, IdentityInv, IdentityTypes, Agree, Ended, Missing, Places
<1>2. IdentityInit => CountInv
  <2> SUFFICES ASSUME IdentityInit PROVE CountInv
    OBVIOUS
  <2>1. Used = {} /\ Generating = {} BY DEF IdentityInit, Used, Generating, Ended, Missing
  <2>2. IsFiniteSet({}) /\ Cardinality({}) = 0 BY FS_EmptySet
  <2>3. Cardinality(Processes) \in Nat BY GeneratingCounts
  <2> QED BY <2>1, <2>2, <2>3 DEF IdentityInit, CountInv, Ended
<1>3. IdentityInv /\ CountInv => OneIdentity
  <2> SUFFICES ASSUME IdentityInv, CountInv PROVE OneIdentity
    OBVIOUS
  <2>1. Generating \subseteq Processes /\ enrolled \cup sampled \subseteq Used BY DEF Generating, Used
  <2>2. Cardinality(Generating) \in Nat /\ Cardinality(Processes) \in Nat BY <2>1, GeneratingCounts
  <2>3. /\ Cardinality(enrolled \cup sampled) \in Nat /\ Cardinality(Used) \in Nat
        /\ Cardinality(enrolled \cup sampled) <= Cardinality(Used)
    BY <2>1, FS_Subset, FS_CardinalityType DEF CountInv
  <2>4. Cardinality(Used) + Cardinality(Generating) <= Cardinality(Processes) + failedReads
        /\ failedReads \in Nat
    BY DEF CountInv
  <2>5. Cardinality(enrolled \cup sampled) <= Cardinality(Processes) + failedReads
    BY <2>2, <2>3, <2>4
  <2> QED BY <2>5 DEF IdentityInv, Agree, OneIdentity
<1> QED BY <1>1, <1>2, <1>3, IdentityInvariance, CountInvariance, PTL DEF IdentitySpec

-----------------------------------------------------------------------------
(* ServerUpgrade: a script that was killed anywhere, and the rollback of one that *)
(* failed anywhere, for any number of releases.                                   *)

Setting == {"certificate", "key", "json"}
Settings == [certificate : Nat, key : Nat, json : Nat]
Data == [there : BOOLEAN, schema : Nat, admin : BOOLEAN, writes : Nat]

\* Where the script has not touched the database, and where it rolls back.
Untouched == {"prepare", "certificate", "key", "json", "backup"}
Filling == {"migrate", "create", "bootstrap", "health"}
Restoring == {"restore", "json back", "certificate back", "key back", "pointer", "restart"}
Points == {"idle", "stop", "start", "watch", "clean"} \cup Untouched \cup Filling \cup Restoring
ScriptRun == [pc : Points, release : Nat, old : Nat, existed : BOOLEAN,
              copy : SUBSET Settings, backup : SUBSET Data, ok : BOOLEAN]

UpgradeTypes ==
  /\ pointer \in Nat /\ installed \in SUBSET Nat /\ settings \in Settings
  /\ data \in Data /\ running \in Nat /\ script \in ScriptRun
  /\ before \in [pointer : Nat, settings : Settings, data : Data]
  /\ accepted \in Nat /\ undone \in BOOLEAN

\* A release that the pointer names, or that serves, has its database.
Based ==
  /\ pointer <= script.release /\ \A release \in installed : release \in 1..script.release
  /\ pointer \in installed => data.there
  /\ running # 0 => data.there /\ script.pc \in {"idle", "stop", "watch", "clean"}
  /\ data.admin => data.there
  /\ ~data.there => data.writes = 0

\* What the script noted about the pointer and the database stays true.
Noted ==
  ~In("idle") =>
    /\ script.old < script.release
    /\ script.old \in installed => script.existed
    /\ In("stop") => script.existed = data.there /\ script.copy = {} /\ script.backup = {}
    /\ script.pc \in {"stop"} \cup Untouched \cup Filling => pointer = script.old
    /\ script.pc \in {"restart", "clean"} =>
         pointer = IF script.old \in installed THEN script.old ELSE 0

Working == ~In("idle") /\ ~In("stop")

\* Either the database is as the script found it or there is a backup of it.
Backed ==
  Working =>
    /\ before.pointer = script.old /\ before.data.there = script.existed
    /\ ~script.existed => before.data.writes = 0 /\ script.backup = {}
    /\ \A d \in script.backup : d = before.data
    /\ running = 0 => undone \/ before.data.writes = accepted
    /\ script.pc \in Untouched => data = before.data
    /\ script.pc \in Restoring /\ script.existed /\ script.backup = {} => data = before.data
    /\ script.pc \in {"migrate", "health", "start", "watch"} /\ script.existed =>
         script.backup # {}
    /\ script.pc \in {"create", "bootstrap"} => ~script.existed
    /\ script.existed \/ In("bootstrap") => data.there
    /\ script.pc \in {"backup", "migrate"} => script.existed
    /\ script.pc \in Restoring \ {"restore"} /\ script.existed /\ script.ok =>
         data = before.data
    /\ In("restart") => script.ok /\ script.old \in installed
    /\ In("clean") /\ ~script.existed => running = 0

Keeps(setting) == before.settings[setting] \in {0, settings[setting]}

\* Settings that are replaced were copied, and come back one after the other.
Copied ==
  Working =>
    /\ script.copy = {} \/ script.copy = {before.settings}
    /\ In("prepare") => script.copy = {}
    /\ script.copy = {} =>
         \/ before.settings = NoSettings
         \/ settings = before.settings /\ script.pc \in Restoring \cup {"prepare", "clean"}
    /\ script.pc \in Restoring \ {"restore", "json back"} => Keeps("json")
    /\ script.pc \in {"key back", "pointer", "restart"} => Keeps("certificate")
    /\ script.pc \in {"pointer", "restart"} => Keeps("key")
    /\ In("prepare") => settings = before.settings

UpgradeInv == UpgradeTypes /\ Based /\ Noted /\ Backed /\ Copied /\ WritesKept

-----------------------------------------------------------------------------
\* Then moves the script and changes nothing else of it.
LEMMA ThenIs ==
  ASSUME script \in ScriptRun, NEW pc \in Points, Then(pc)
  PROVE  /\ script' \in ScriptRun /\ script'.pc = pc /\ script'.release = script.release
         /\ script'.old = script.old /\ script'.existed = script.existed
         /\ script'.copy = script.copy /\ script'.backup = script.backup
         /\ script'.ok = script.ok
  BY DEF ScriptRun, Then

LEMMA IdlingIs ==
  ASSUME NEW n \in Nat
  PROVE  /\ Idling(n) \in ScriptRun /\ Idling(n).pc = "idle" /\ Idling(n).release = n
         /\ Idling(n).copy = {} /\ Idling(n).backup = {} /\ Idling(n).ok
  BY DEF Idling, ScriptRun, Points

LEMMA MigratedIs ==
  ASSUME data \in Data, NEW n \in Nat
  PROVE  /\ Migrated(n) \in Data /\ Migrated(n).there = data.there
         /\ Migrated(n).admin = data.admin /\ Migrated(n).writes = data.writes
  BY DEF Migrated, Data

\* A start of the service migrates a database that is there, and keeps what it holds.
LEMMA BroughtUp ==
  ASSUME UpgradeTypes, Based, BringUp
  PROVE  /\ running' \in Nat /\ (running' # 0 => data.there)
         /\ data' \in Data /\ data'.there = data.there /\ data'.admin = data.admin
         /\ data'.writes = data.writes
<1> DEFINE new == Migrated(pointer)
<1>1. /\ pointer \in Nat /\ data \in Data /\ (Launched => data.there)
      /\ running' = IF Startable THEN pointer ELSE 0
      /\ data' = IF Launched THEN [new EXCEPT !.there = TRUE] ELSE data
  BY DEF UpgradeTypes, Based, BringUp, Launched
<1>2. /\ new \in Data /\ new.there = data.there /\ new.admin = data.admin
      /\ new.writes = data.writes
  BY <1>1, MigratedIs
<1>3. Startable => Launched BY DEF Startable
<1> HIDE DEF new
<1> QED BY <1>1, <1>2, <1>3 DEF Data

\* What holds while the script is idle: between two runs, and after a kill.
LEMMA IdleStep ==
  ASSUME UpgradeInv, NEW n \in Nat, script' = Idling(n), script.release <= n,
         UNCHANGED <<pointer, settings, before, accepted, undone>>,
         installed' \subseteq installed,
         running' \in Nat /\ data' \in Data /\ (running' # 0 => data'.there),
         data'.admin => data'.there,
         ~data'.there => data'.writes = 0,
         pointer \in installed' => data'.there,
         undone \/ data'.writes = accepted
  PROVE  UpgradeInv'
<1>1. script' \in ScriptRun /\ script'.pc = "idle" /\ script'.release = n BY IdlingIs
<1>2. UpgradeTypes' BY <1>1 DEF UpgradeInv, UpgradeTypes
<1>3. Based'
  <2>1. pointer \in Nat /\ script.release \in Nat /\ pointer <= script.release
    BY DEF UpgradeInv, UpgradeTypes, Based, ScriptRun
  <2>2. \A r \in installed' : r \in 1..n
    <3> TAKE r \in installed'
    <3>1. r \in 1..script.release BY DEF UpgradeInv, Based
    <3> QED BY <2>1, <3>1
  <2>3. pointer' <= n BY <2>1
  <2> QED BY <1>1, <2>2, <2>3 DEF Based
<1>4. Noted' /\ Backed' /\ Copied' BY <1>1 DEF Noted, Backed, Copied, Working, In
<1>5. WritesKept' BY DEF WritesKept
<1> QED BY <1>2, <1>3, <1>4, <1>5 DEF UpgradeInv

\* What one may assume of the database at any point of the script.
LEMMA UpgradeFacts ==
  ASSUME UpgradeInv
  PROVE  /\ pointer \in Nat /\ script.release \in Nat /\ script.old \in Nat
         /\ script.pc \in Points /\ running \in Nat /\ accepted \in Nat
         /\ data \in Data /\ data.writes \in Nat /\ undone \in BOOLEAN
         /\ script \in ScriptRun /\ settings \in Settings
         /\ script.existed \in BOOLEAN /\ script.ok \in BOOLEAN
         /\ before.data \in Data /\ before.settings \in Settings
         /\ script.backup \in SUBSET Data /\ script.copy \in SUBSET Settings
  BY DEF UpgradeInv, UpgradeTypes, ScriptRun, Data

LEMMA WriteStep == UpgradeInv /\ Write => UpgradeInv'
<1> SUFFICES ASSUME UpgradeInv, Write PROVE UpgradeInv'
  OBVIOUS
<1>1. /\ running # 0 /\ accepted' = accepted + 1
      /\ data' = [data EXCEPT !.writes = @ + 1]
      /\ UNCHANGED <<pointer, installed, settings, running, script, before, undone>>
  BY DEF Write, onDisk
<1>2. /\ data' \in Data /\ data'.there = data.there /\ data'.admin = data.admin
      /\ data'.writes = data.writes + 1
  BY <1>1, UpgradeFacts DEF Data
<1>3. data.there /\ script.pc \in {"idle", "stop", "watch", "clean"}
  BY <1>1 DEF UpgradeInv, Based
<1>4. UpgradeTypes' BY <1>1, <1>2 DEF UpgradeInv, UpgradeTypes
<1>5. Based' BY <1>1, <1>2, <1>3 DEF UpgradeInv, Based
<1>6. Noted' BY <1>1, <1>2 DEF UpgradeInv, Noted, In
<1>7. Backed'
  BY <1>1, <1>2, <1>3 DEF UpgradeInv, Backed, Working, In, Untouched, Restoring
<1>8. Copied' BY <1>1 DEF UpgradeInv, Copied, Working, In, Keeps
<1>9. WritesKept' BY <1>1, <1>2, UpgradeFacts DEF UpgradeInv, WritesKept
<1> QED BY <1>4, <1>5, <1>6, <1>7, <1>8, <1>9 DEF UpgradeInv

LEMMA BeginStep == UpgradeInv /\ BeginInstall => UpgradeInv'
<1> SUFFICES ASSUME UpgradeInv, BeginInstall PROVE UpgradeInv'
  OBVIOUS
<1> DEFINE s1 == [Idling(script.release + 1) EXCEPT !.pc = "stop"]
           s2 == [s1 EXCEPT !.old = pointer]
           s3 == [s2 EXCEPT !.existed = data.there]
<1>1. Idling(script.release + 1) \in ScriptRun BY UpgradeFacts, IdlingIs
<1>2. script' = s3
  BY <1>1 DEF BeginInstall, ScriptRun
<1>3. /\ s1 \in ScriptRun /\ s1.pc = "stop" /\ s1.release = script.release + 1
      /\ s1.copy = {} /\ s1.backup = {}
  BY <1>1, IdlingIs, UpgradeFacts DEF ScriptRun, Points
<1> HIDE DEF s1
<1>4. /\ s2 \in ScriptRun /\ s2.pc = "stop" /\ s2.release = script.release + 1
      /\ s2.old = pointer /\ s2.copy = {} /\ s2.backup = {}
  BY <1>3, UpgradeFacts DEF ScriptRun
<1> HIDE DEF s2
<1>5. /\ s3 \in ScriptRun /\ s3.pc = "stop" /\ s3.release = script.release + 1
      /\ s3.old = pointer /\ s3.existed = data.there /\ s3.copy = {} /\ s3.backup = {}
  BY <1>4, UpgradeFacts DEF ScriptRun, Data
<1> HIDE DEF s3
<1>6. UNCHANGED <<pointer, installed, settings, data, running, before, accepted, undone>>
  BY DEF BeginInstall, onDisk, upgradeHistory
<1>7. UpgradeTypes' BY <1>2, <1>5, <1>6 DEF UpgradeInv, UpgradeTypes
<1>8. Based'
  <2>1. \A r \in installed : r \in 1..script.release + 1
    BY UpgradeFacts DEF UpgradeInv, Based
  <2>2. pointer <= script.release + 1 BY UpgradeFacts DEF UpgradeInv, Based
  <2> QED BY <1>2, <1>5, <1>6, <2>1, <2>2 DEF UpgradeInv, Based
<1>9. Noted'
  <2>1. pointer < script.release + 1 /\ (pointer \in installed => data.there)
    BY UpgradeFacts DEF UpgradeInv, Based
  <2> QED BY <1>2, <1>5, <1>6, <2>1 DEF Noted, In
<1>10. Backed' /\ Copied' BY <1>2, <1>5 DEF Backed, Copied, Working, In
<1>11. WritesKept' BY <1>6 DEF UpgradeInv, WritesKept
<1> QED BY <1>7, <1>8, <1>9, <1>10, <1>11 DEF UpgradeInv

LEMMA StopStep == UpgradeInv /\ StopServer => UpgradeInv'
<1> SUFFICES ASSUME UpgradeInv, StopServer PROVE UpgradeInv'
  OBVIOUS
<1>1. /\ In("stop") /\ Then("prepare") /\ running' = 0
      /\ before' = [pointer |-> pointer, settings |-> settings, data |-> data]
      /\ UNCHANGED <<pointer, installed, settings, data, accepted, undone>>
  BY DEF StopServer, Found, onDisk
<1>2. /\ script' \in ScriptRun /\ script'.pc = "prepare" /\ script'.release = script.release
      /\ script'.old = script.old /\ script'.existed = script.existed
      /\ script'.copy = script.copy /\ script'.backup = script.backup
  BY <1>1, ThenIs, UpgradeFacts DEF Points, Untouched
<1>3. /\ script.existed = data.there /\ script.copy = {} /\ script.backup = {}
      /\ pointer = script.old
  BY <1>1 DEF UpgradeInv, Noted, In
<1>4. /\ before'.pointer = pointer /\ before'.settings = settings /\ before'.data = data
      /\ before' \in [pointer : Nat, settings : Settings, data : Data]
  BY <1>1 DEF UpgradeInv, UpgradeTypes
<1>5. UpgradeTypes' BY <1>1, <1>2, <1>4 DEF UpgradeInv, UpgradeTypes
<1>6. Based' BY <1>1, <1>2 DEF UpgradeInv, Based
<1>7. Noted' BY <1>1, <1>2 DEF UpgradeInv, Noted, In
<1>8. Backed'
  <2>1. data.there \/ data.writes = 0 BY DEF UpgradeInv, Based
  <2>2. undone \/ data.writes = accepted BY DEF UpgradeInv, WritesKept
  <2> QED BY <1>1, <1>2, <1>3, <1>4, <2>1, <2>2 DEF Backed, Working, In, Untouched, Restoring
<1>9. Copied' BY <1>1, <1>2, <1>3, <1>4 DEF Copied, Working, In, Keeps, Restoring
<1>10. WritesKept' BY <1>1 DEF UpgradeInv, WritesKept
<1> QED BY <1>5, <1>6, <1>7, <1>8, <1>9, <1>10 DEF UpgradeInv

LEMMA PrepareStep == UpgradeInv /\ Prepare => UpgradeInv'
<1> SUFFICES ASSUME UpgradeInv, Prepare PROVE UpgradeInv'
  OBVIOUS
<1> DEFINE kept == IF settings = NoSettings THEN {} ELSE {settings}
           s1 == [script EXCEPT !.pc = "certificate"]
           s2 == [s1 EXCEPT !.copy = kept]
<1>1. /\ script.pc = "prepare" /\ installed' = installed \cup {script.release}
      /\ UNCHANGED <<pointer, settings, data, running, before, accepted, undone>>
  BY DEF Prepare, In, upgradeHistory
<1>2. script' = s2 BY UpgradeFacts DEF Prepare, ScriptRun
<1>3. /\ s1 \in ScriptRun /\ s1.pc = "certificate" /\ s1.release = script.release
      /\ s1.old = script.old /\ s1.existed = script.existed /\ s1.backup = script.backup
      /\ s1.ok = script.ok
  BY UpgradeFacts DEF ScriptRun, Points, Untouched
<1> HIDE DEF s1
<1>4. kept \in SUBSET Settings /\ (kept = {} => settings = NoSettings)
      /\ (kept = {} \/ kept = {settings})
  BY UpgradeFacts
<1> HIDE DEF kept
<1>5. /\ s2 \in ScriptRun /\ s2.pc = "certificate" /\ s2.release = script.release
      /\ s2.old = script.old /\ s2.existed = script.existed /\ s2.backup = script.backup
      /\ s2.ok = script.ok /\ s2.copy = kept
  BY <1>3, <1>4 DEF ScriptRun
<1> HIDE DEF s2
<1>6. /\ script.old < script.release /\ (script.old \in installed => script.existed)
      /\ pointer = script.old /\ running = 0
  BY <1>1 DEF UpgradeInv, Noted, Based, In, Untouched
<1>7. UpgradeTypes' BY <1>1, <1>2, <1>5, UpgradeFacts DEF UpgradeInv, UpgradeTypes
<1>8. Based'
  <2>1. script.release \in 1..script.release BY <1>6, UpgradeFacts
  <2>2. pointer # script.release BY <1>6, UpgradeFacts
  <2> QED BY <1>1, <1>2, <1>5, <1>6, <2>1, <2>2 DEF UpgradeInv, Based
<1>9. Noted'
  <2>1. script.old # script.release BY <1>6, UpgradeFacts
  <2> QED BY <1>1, <1>2, <1>5, <1>6, <2>1 DEF Noted, In
<1>10. Backed'
  BY <1>1, <1>2, <1>5 DEF UpgradeInv, Backed, Working, In, Untouched, Restoring
<1>11. Copied'
  BY <1>1, <1>2, <1>4, <1>5 DEF UpgradeInv, Copied, Working, In, Keeps, Restoring
<1>12. WritesKept' BY <1>1 DEF UpgradeInv, WritesKept
<1> QED BY <1>7, <1>8, <1>9, <1>10, <1>11, <1>12 DEF UpgradeInv

\* One setting is replaced: before the database is touched.
LEMMA InstallSettingStep ==
  ASSUME UpgradeInv, NEW setting \in Setting, NEW following \in Points,
         InstallSetting(setting, following),
         \/ following \in {"key", "json"}
         \/ following = "backup" /\ script.existed
         \/ following = "create" /\ ~script.existed
  PROVE  UpgradeInv'
<1>1. /\ script.pc = setting /\ Then(following)
      /\ settings' = [settings EXCEPT ![setting] = script.release]
      /\ UNCHANGED <<pointer, installed, data, running, before, accepted, undone>>
  BY DEF InstallSetting, In, upgradeHistory
<1>2. /\ script' \in ScriptRun /\ script'.pc = following /\ script'.release = script.release
      /\ script'.old = script.old /\ script'.existed = script.existed
      /\ script'.copy = script.copy /\ script'.backup = script.backup
      /\ script'.ok = script.ok
  BY <1>1, ThenIs, UpgradeFacts
<1>3. settings' \in Settings
  <2>1. CASE setting = "certificate" BY <1>1, <2>1, UpgradeFacts DEF Settings
  <2>2. CASE setting = "key" BY <1>1, <2>2, UpgradeFacts DEF Settings
  <2>3. CASE setting = "json" BY <1>1, <2>3, UpgradeFacts DEF Settings
  <2> QED BY <2>1, <2>2, <2>3 DEF Setting
<1>4. script.pc \in {"certificate", "key", "json"} BY <1>1 DEF Setting
<1>5. UpgradeTypes' BY <1>1, <1>2, <1>3 DEF UpgradeInv, UpgradeTypes
<1>6. Based' BY <1>1, <1>2, <1>4 DEF UpgradeInv, Based
<1>7. Noted' BY <1>1, <1>2, <1>4 DEF UpgradeInv, Noted, In, Untouched, Filling
<1>8. Backed'
  BY <1>1, <1>2, <1>4 DEF UpgradeInv, Backed, Working, In, Untouched, Restoring
<1>9. Copied'
  BY <1>1, <1>2, <1>4 DEF UpgradeInv, Copied, Working, In, Keeps, Restoring
<1>10. WritesKept' BY <1>1 DEF UpgradeInv, WritesKept
<1> QED BY <1>5, <1>6, <1>7, <1>8, <1>9, <1>10 DEF UpgradeInv

LEMMA InstallSettingsStep == UpgradeInv /\ InstallSettings => UpgradeInv'
<1> SUFFICES ASSUME UpgradeInv, InstallSettings PROVE UpgradeInv'
  OBVIOUS
<1>1. CASE InstallSetting("certificate", "key")
  BY <1>1, InstallSettingStep DEF Setting, Points, Untouched
<1>2. CASE InstallSetting("key", "json")
  BY <1>2, InstallSettingStep DEF Setting, Points, Untouched
<1>3. CASE InstallSetting("json", IF script.existed THEN "backup" ELSE "create")
  <2>1. CASE script.existed
    BY <1>3, <2>1, InstallSettingStep DEF Setting, Points, Untouched
  <2>2. CASE ~script.existed
    BY <1>3, <2>2, InstallSettingStep DEF Setting, Points, Filling
  <2> QED BY <2>1, <2>2
<1> QED BY <1>1, <1>2, <1>3 DEF InstallSettings

LEMMA BackUpStep == UpgradeInv /\ BackUp => UpgradeInv'
<1> SUFFICES ASSUME UpgradeInv, BackUp PROVE UpgradeInv'
  OBVIOUS
<1> DEFINE s1 == [script EXCEPT !.pc = "migrate"]
           s2 == [s1 EXCEPT !.backup = {data}]
<1>1. /\ script.pc = "backup"
      /\ UNCHANGED <<pointer, installed, settings, data, running, before, accepted, undone>>
  BY DEF BackUp, In, onDisk, upgradeHistory
<1>2. script' = s2 BY UpgradeFacts DEF BackUp, ScriptRun
<1>3. /\ s1 \in ScriptRun /\ s1.pc = "migrate" /\ s1.release = script.release
      /\ s1.old = script.old /\ s1.existed = script.existed /\ s1.copy = script.copy
      /\ s1.ok = script.ok
  BY UpgradeFacts DEF ScriptRun, Points, Filling
<1> HIDE DEF s1
<1>4. /\ s2 \in ScriptRun /\ s2.pc = "migrate" /\ s2.release = script.release
      /\ s2.old = script.old /\ s2.existed = script.existed /\ s2.copy = script.copy
      /\ s2.ok = script.ok /\ s2.backup = {data}
  BY <1>3, UpgradeFacts DEF ScriptRun
<1> HIDE DEF s2
<1>5. UpgradeTypes' BY <1>1, <1>2, <1>4 DEF UpgradeInv, UpgradeTypes
<1>6. Based' BY <1>1, <1>2, <1>4 DEF UpgradeInv, Based
<1>7. Noted' BY <1>1, <1>2, <1>4 DEF UpgradeInv, Noted, In, Untouched, Filling
<1>8. Backed'
  BY <1>1, <1>2, <1>4 DEF UpgradeInv, Backed, Working, In, Untouched, Restoring
<1>9. Copied'
  BY <1>1, <1>2, <1>4 DEF UpgradeInv, Copied, Working, In, Keeps, Restoring
<1>10. WritesKept' BY <1>1 DEF UpgradeInv, WritesKept
<1> QED BY <1>5, <1>6, <1>7, <1>8, <1>9, <1>10 DEF UpgradeInv

\* A migration or a bootstrap keeps what clients committed.
LEMMA FillStep ==
  ASSUME UpgradeInv, NEW pc \in {"migrate", "create", "bootstrap"},
         NEW following \in {"bootstrap", "health"}, NEW d \in Data, DataStep(pc, following, d),
         following = "bootstrap" => pc = "create" /\ d.there,
         following = "health" => pc # "create",
         d.writes = data.writes, data.there => d.there, d.admin => d.there
  PROVE  UpgradeInv'
<1>1. /\ script.pc = pc /\ Then(following) /\ data' = d
      /\ UNCHANGED <<pointer, installed, settings, running, before, accepted, undone>>
  BY DEF DataStep, In, onDisk, upgradeHistory
<1>2. /\ script' \in ScriptRun /\ script'.pc = following /\ script'.release = script.release
      /\ script'.old = script.old /\ script'.existed = script.existed
      /\ script'.copy = script.copy /\ script'.backup = script.backup
      /\ script'.ok = script.ok
  BY <1>1, ThenIs, UpgradeFacts DEF Points, Filling
<1>3. UpgradeTypes' BY <1>1, <1>2 DEF UpgradeInv, UpgradeTypes
<1>4. Based' BY <1>1, <1>2 DEF UpgradeInv, Based
<1>5. Noted' BY <1>1, <1>2 DEF UpgradeInv, Noted, In, Untouched, Filling
<1>6. Backed'
  BY <1>1, <1>2 DEF UpgradeInv, Backed, Working, In, Untouched, Restoring
<1>7. Copied' BY <1>1, <1>2 DEF UpgradeInv, Copied, Working, In, Keeps, Restoring
<1>8. WritesKept' BY <1>1 DEF UpgradeInv, WritesKept
<1> QED BY <1>3, <1>4, <1>5, <1>6, <1>7, <1>8 DEF UpgradeInv

LEMMA FillDatabaseStep == UpgradeInv /\ FillDatabase => UpgradeInv'
<1> SUFFICES ASSUME UpgradeInv, FillDatabase PROVE UpgradeInv'
  OBVIOUS
<1> DEFINE new == Migrated(script.release)
<1>1. /\ new \in Data /\ new.there = data.there /\ new.admin = data.admin
      /\ new.writes = data.writes
  BY UpgradeFacts, MigratedIs
<1>2. data.admin => data.there BY DEF UpgradeInv, Based
<1>3. CASE DataStep("migrate", "health", new)
  BY <1>1, <1>2, <1>3, FillStep
<1>4. CASE DataStep("create", "bootstrap", [new EXCEPT !.there = TRUE])
  <2> DEFINE d == [new EXCEPT !.there = TRUE]
  <2> HIDE DEF new
  <2>1. d \in Data /\ d.there /\ d.writes = data.writes BY <1>1 DEF Data
  <2> HIDE DEF d
  <2> QED BY <1>4, <2>1, FillStep DEF d
<1>5. CASE DataStep("bootstrap", "health", [data EXCEPT !.admin = TRUE])
  <2> DEFINE d == [data EXCEPT !.admin = TRUE]
  <2>1. d \in Data /\ d.there = data.there /\ d.writes = data.writes
    BY UpgradeFacts DEF Data
  <2>2. data.there BY <1>5 DEF DataStep, In, UpgradeInv, Backed, Working
  <2> HIDE DEF d
  <2> QED BY <1>5, <2>1, <2>2, FillStep DEF d
<1> QED BY <1>3, <1>4, <1>5 DEF FillDatabase

LEMMA SwitchStep == UpgradeInv /\ SwitchPointer => UpgradeInv'
<1> SUFFICES ASSUME UpgradeInv, SwitchPointer PROVE UpgradeInv'
  OBVIOUS
<1>1. /\ script.pc = "health" /\ Then("start") /\ data.admin /\ pointer' = script.release
      /\ UNCHANGED <<installed, settings, data, running, before, accepted, undone>>
  BY DEF SwitchPointer, In, upgradeHistory
<1>2. /\ script' \in ScriptRun /\ script'.pc = "start" /\ script'.release = script.release
      /\ script'.old = script.old /\ script'.existed = script.existed
      /\ script'.copy = script.copy /\ script'.backup = script.backup
      /\ script'.ok = script.ok
  BY <1>1, ThenIs, UpgradeFacts DEF Points
<1>3. UpgradeTypes' BY <1>1, <1>2, UpgradeFacts DEF UpgradeInv, UpgradeTypes
<1>4. Based'
  <2>1. script.release <= script.release BY UpgradeFacts
  <2> QED BY <1>1, <1>2, <2>1 DEF UpgradeInv, Based
<1>5. Noted' BY <1>1, <1>2 DEF UpgradeInv, Noted, In, Untouched, Filling
<1>6. Backed'
  BY <1>1, <1>2 DEF UpgradeInv, Backed, Working, In, Untouched, Restoring
<1>7. Copied' BY <1>1, <1>2 DEF UpgradeInv, Copied, Working, In, Keeps, Restoring
<1>8. WritesKept' BY <1>1 DEF UpgradeInv, WritesKept
<1> QED BY <1>3, <1>4, <1>5, <1>6, <1>7, <1>8 DEF UpgradeInv

\* The new release starts, or the old one again.
LEMMA StartServerStep ==
  ASSUME UpgradeInv, NEW pc \in {"start", "restart"}, NEW following \in {"watch", "clean"},
         following = "watch" <=> pc = "start", StartServer(pc, following)
  PROVE  UpgradeInv'
<1>1. /\ script.pc = pc /\ Then(following) /\ BringUp
      /\ UNCHANGED <<pointer, installed, settings, before, accepted, undone>>
  BY DEF StartServer, In, onDisk, upgradeHistory
<1>2. /\ script' \in ScriptRun /\ script'.pc = following /\ script'.release = script.release
      /\ script'.old = script.old /\ script'.existed = script.existed
      /\ script'.copy = script.copy /\ script'.backup = script.backup
      /\ script'.ok = script.ok
  BY <1>1, ThenIs, UpgradeFacts DEF Points
<1>3. /\ running' \in Nat /\ (running' # 0 => data.there)
      /\ data' \in Data /\ data'.there = data.there /\ data'.admin = data.admin
      /\ data'.writes = data.writes
  BY <1>1, BroughtUp DEF UpgradeInv
<1>4. running = 0 BY <1>1 DEF UpgradeInv, Based
<1>5. UpgradeTypes' BY <1>1, <1>2, <1>3 DEF UpgradeInv, UpgradeTypes
<1>6. Based' BY <1>1, <1>2, <1>3 DEF UpgradeInv, Based
<1>7. Noted' BY <1>1, <1>2, <1>3 DEF UpgradeInv, Noted, In, Untouched, Filling
<1>8. Backed'
  <2>1. pc = "restart" => script.existed
    BY <1>1 DEF UpgradeInv, Backed, Noted, Working, In
  <2> QED BY <1>1, <1>2, <1>3, <1>4, <2>1
          DEF UpgradeInv, Backed, Working, In, Untouched, Restoring
<1>9. Copied' BY <1>1, <1>2 DEF UpgradeInv, Copied, Working, In, Keeps, Restoring
<1>10. WritesKept' BY <1>1, <1>3 DEF UpgradeInv, WritesKept
<1> QED BY <1>5, <1>6, <1>7, <1>8, <1>9, <1>10 DEF UpgradeInv

LEMMA SucceedStep == UpgradeInv /\ Succeed => UpgradeInv'
<1> SUFFICES ASSUME UpgradeInv, Succeed PROVE UpgradeInv'
  OBVIOUS
<1>1. /\ script' = Idling(script.release)
      /\ UNCHANGED <<pointer, installed, settings, data, running, before, accepted, undone>>
  BY DEF Succeed, onDisk, upgradeHistory
<1>2. /\ (running # 0 => data.there) /\ (data.admin => data.there)
      /\ (data.there \/ data.writes = 0) /\ (pointer \in installed => data.there)
  BY DEF UpgradeInv, Based
<1>3. undone \/ data.writes = accepted BY DEF UpgradeInv, WritesKept
<1>4. script.release <= script.release BY UpgradeFacts
<1> QED BY <1>1, <1>2, <1>3, <1>4, IdleStep, UpgradeFacts

LEMMA CutStep == UpgradeInv /\ Cut => UpgradeInv'
<1> SUFFICES ASSUME UpgradeInv, Cut PROVE UpgradeInv'
  OBVIOUS
<1>1. /\ script' = Idling(script.release)
      /\ BringUp \/ UNCHANGED <<running, data>>
      /\ UNCHANGED <<pointer, installed, settings, before, accepted, undone>>
  BY DEF Cut, onDisk
<1>2. /\ (running # 0 => data.there) /\ (data.admin => data.there)
      /\ (data.there \/ data.writes = 0) /\ (pointer \in installed => data.there)
  BY DEF UpgradeInv, Based
<1>3. undone \/ data.writes = accepted BY DEF UpgradeInv, WritesKept
<1>4. /\ running' \in Nat /\ (running' # 0 => data.there)
      /\ data' \in Data /\ data'.there = data.there /\ data'.admin = data.admin
      /\ data'.writes = data.writes
  <2>1. CASE BringUp BY <2>1, BroughtUp DEF UpgradeInv
  <2>2. CASE UNCHANGED <<running, data>> BY <1>2, <2>2, UpgradeFacts
  <2> QED BY <1>1, <2>1, <2>2
<1>5. script.release <= script.release BY UpgradeFacts
<1> QED BY <1>1, <1>2, <1>3, <1>4, <1>5, IdleStep, UpgradeFacts

LEMMA FailStep == UpgradeInv /\ Fail => UpgradeInv'
<1> SUFFICES ASSUME UpgradeInv, Fail PROVE UpgradeInv'
  OBVIOUS
<1>1. /\ script.pc \in Trapped /\ running' = 0 /\ undone' = (undone \/ running # 0)
      /\ UNCHANGED <<pointer, installed, settings, data, before, accepted>>
  BY DEF Fail, onDisk
<1>2. PICK kept \in {script.backup} \cup (IF In("backup") THEN {{data}} ELSE {}) :
        script' = [script EXCEPT !.pc = "restore", !.backup = kept]
  BY DEF Fail
<1> DEFINE s1 == [script EXCEPT !.pc = "restore"]
           s2 == [s1 EXCEPT !.backup = kept]
<1>3. /\ kept \in SUBSET Data
      /\ kept = script.backup \/ (In("backup") /\ kept = {data})
  <2>1. CASE kept = script.backup BY <2>1, UpgradeFacts
  <2>2. CASE kept # script.backup
    <3>1. kept \in (IF In("backup") THEN {{data}} ELSE {}) BY <1>2, <2>2
    <3>2. In("backup") /\ kept = {data} BY <3>1
    <3> QED BY <3>2, UpgradeFacts
  <2> QED BY <2>1, <2>2
<1>4. script' = s2 BY <1>2, UpgradeFacts DEF ScriptRun
<1>5. /\ s1 \in ScriptRun /\ s1.pc = "restore" /\ s1.release = script.release
      /\ s1.old = script.old /\ s1.existed = script.existed /\ s1.copy = script.copy
      /\ s1.ok = script.ok
  BY UpgradeFacts DEF ScriptRun, Points, Restoring
<1> HIDE DEF s1
<1>6. /\ s2 \in ScriptRun /\ s2.pc = "restore" /\ s2.release = script.release
      /\ s2.old = script.old /\ s2.existed = script.existed /\ s2.copy = script.copy
      /\ s2.ok = script.ok /\ s2.backup = kept
  BY <1>3, <1>5, UpgradeFacts DEF ScriptRun
<1> HIDE DEF s2
<1>7. Working /\ script.pc # "clean" /\ script.pc \notin Restoring
  BY <1>1 DEF Trapped, Working, In, Restoring
<1>8. UpgradeTypes' BY <1>1, <1>4, <1>6, UpgradeFacts DEF UpgradeInv, UpgradeTypes
<1>9. Based' BY <1>1, <1>4, <1>6 DEF UpgradeInv, Based
<1>10. Noted' BY <1>1, <1>4, <1>6, <1>7 DEF UpgradeInv, Noted, In, Working, Untouched, Filling
<1>11. Backed'
  <2>1. /\ before.pointer = script.old /\ before.data.there = script.existed
        /\ (~script.existed => before.data.writes = 0 /\ script.backup = {})
        /\ \A d \in script.backup : d = before.data
        /\ (running = 0 => undone \/ before.data.writes = accepted)
        /\ (In("backup") => data = before.data /\ script.existed)
        /\ (script.existed => data.there)
    BY <1>7 DEF UpgradeInv, Backed, In, Untouched
  <2>2. script.existed /\ script.backup = {} => data = before.data
    <3> SUFFICES ASSUME script.existed, script.backup = {} PROVE data = before.data
      OBVIOUS
    <3> QED BY <1>1, <1>7 DEF UpgradeInv, Backed, Trapped, Untouched
  <2> QED BY <1>1, <1>3, <1>4, <1>6, <2>1, <2>2
          DEF Backed, Working, In, Untouched, Restoring
<1>12. Copied'
  BY <1>1, <1>4, <1>6, <1>7 DEF UpgradeInv, Copied, Working, In, Keeps, Restoring
<1>13. WritesKept' BY <1>1, UpgradeFacts DEF UpgradeInv, WritesKept
<1> QED BY <1>8, <1>9, <1>10, <1>11, <1>12, <1>13 DEF UpgradeInv

LEMMA RestoreDataStep == UpgradeInv /\ RestoreData => UpgradeInv'
<1> SUFFICES ASSUME UpgradeInv, RestoreData PROVE UpgradeInv'
  OBVIOUS
<1>1. /\ script.pc = "restore" /\ running = 0
      /\ UNCHANGED <<pointer, installed, settings, running, before, accepted, undone>>
  BY DEF RestoreData, DataStep, In, onDisk, upgradeHistory, UpgradeInv, Based
<1>2. /\ before.data.there = script.existed
      /\ (~script.existed => before.data.writes = 0 /\ script.backup = {})
      /\ \A d \in script.backup : d = before.data
      /\ undone \/ before.data.writes = accepted
      /\ (script.existed /\ script.backup = {} => data = before.data)
  BY <1>1 DEF UpgradeInv, Backed, Working, In, Restoring
<1>3. /\ script' \in ScriptRun /\ script'.pc = "json back" /\ script'.release = script.release
      /\ script'.old = script.old /\ script'.existed = script.existed
      /\ script'.copy = script.copy /\ script'.backup = script.backup
      /\ \/ script'.ok = script.ok /\ (script.existed => data' = before.data)
                                   /\ (~script.existed => data' = data)
         \/ ~script'.ok /\ data' = data
  <2>1. CASE DataStep("restore", "json back", IF script.backup = {} THEN data
                                              ELSE CHOOSE d \in script.backup : TRUE)
    <3>1. script.backup # {} => (CHOOSE d \in script.backup : TRUE) = before.data BY <1>2
    <3>2. /\ Then("json back")
          /\ data' = IF script.backup = {} THEN data ELSE CHOOSE d \in script.backup : TRUE
      BY <2>1 DEF DataStep
    <3>3. (script.existed => data' = before.data) /\ (~script.existed => data' = data)
      BY <1>2, <3>1, <3>2
    <3>4. "json back" \in Points BY DEF Points, Restoring
    <3> QED BY <3>2, <3>3, <3>4, ThenIs, UpgradeFacts
  <2>2. CASE /\ script' = [script EXCEPT !.pc = "json back", !.ok = FALSE]
             /\ UNCHANGED data
    <3> DEFINE s1 == [script EXCEPT !.pc = "json back"]
               s2 == [s1 EXCEPT !.ok = FALSE]
    <3>1. script' = s2 BY <2>2, UpgradeFacts DEF ScriptRun
    <3>2. /\ s1 \in ScriptRun /\ s1.pc = "json back" /\ s1.release = script.release
          /\ s1.old = script.old /\ s1.existed = script.existed
          /\ s1.copy = script.copy /\ s1.backup = script.backup
      BY UpgradeFacts DEF ScriptRun, Points, Restoring
    <3> HIDE DEF s1
    <3>3. /\ s2 \in ScriptRun /\ s2.pc = "json back" /\ s2.release = script.release
          /\ s2.old = script.old /\ s2.existed = script.existed
          /\ s2.copy = script.copy /\ s2.backup = script.backup /\ ~s2.ok
      BY <3>2 DEF ScriptRun
    <3> HIDE DEF s2
    <3> QED BY <2>2, <3>1, <3>3
  <2> QED BY <2>1, <2>2 DEF RestoreData, onDisk
<1>4. data' \in Data BY <1>3, UpgradeFacts
<1>5. UpgradeTypes' BY <1>1, <1>3, <1>4 DEF UpgradeInv, UpgradeTypes
<1>6. Based'
  <2>1. script.existed => before.data.there BY <1>2
  <2>2. data' = data \/ (data' = before.data /\ script.existed) BY <1>3
  <2> QED BY <1>1, <1>3, <2>1, <2>2 DEF UpgradeInv, Based
<1>7. Noted' BY <1>1, <1>3 DEF UpgradeInv, Noted, In, Untouched, Filling
<1>8. Backed'
  BY <1>1, <1>2, <1>3 DEF UpgradeInv, Backed, Working, In, Untouched, Restoring
<1>9. Copied' BY <1>1, <1>3 DEF UpgradeInv, Copied, Working, In, Keeps, Restoring
<1>10. WritesKept'
  <2>1. data' = data \/ data' = before.data BY <1>3, UpgradeFacts
  <2> QED BY <1>1, <1>2, <2>1 DEF UpgradeInv, WritesKept
<1> QED BY <1>5, <1>6, <1>7, <1>8, <1>9, <1>10 DEF UpgradeInv

\* A setting that there was is back as soon as its step is done.
LEMMA PutBackKeeps ==
  ASSUME UpgradeInv, NEW setting \in Setting, script.pc \in Restoring,
         settings' = [settings EXCEPT ![setting] = PutBack(setting)],
         UNCHANGED before
  PROVE  /\ settings' \in Settings /\ Keeps(setting)'
         /\ \A other \in Setting : Keeps(other) => Keeps(other)'
         /\ script.copy = {} => settings' = settings
<1>1. /\ settings \in Settings /\ before.settings \in Settings
      /\ before.settings[setting] \in Nat /\ settings[setting] \in Nat
  BY UpgradeFacts DEF Settings, Setting
<1>2. /\ script.copy = {} \/ script.copy = {before.settings}
      /\ script.copy = {} => before.settings = NoSettings \/ settings = before.settings
  BY DEF UpgradeInv, Copied, Working, In, Restoring
<1>3. /\ PutBack(setting) \in {settings[setting], before.settings[setting]}
      /\ script.copy = {} => PutBack(setting) = settings[setting]
      /\ before.settings[setting] \in {0, PutBack(setting)}
  <2>1. CASE script.copy = {}
    <3>1. PutBack(setting) = settings[setting] BY <2>1 DEF PutBack
    <3>2. before.settings[setting] = 0 \/ before.settings[setting] = settings[setting]
      BY <1>2, <2>1 DEF NoSettings, Setting
    <3> QED BY <3>1, <3>2
  <2>2. CASE script.copy = {before.settings}
    <3>1. (CHOOSE copy \in script.copy : TRUE) = before.settings BY <2>2
    <3>2. PutBack(setting) = IF before.settings[setting] # 0 THEN before.settings[setting]
                             ELSE settings[setting]
      BY <2>2, <3>1 DEF PutBack
    <3> QED BY <2>2, <3>2
  <2> QED BY <1>2, <2>1, <2>2
<1> DEFINE value == PutBack(setting)
<1>4. value \in Nat /\ settings' = [settings EXCEPT ![setting] = value] BY <1>1, <1>3
<1>5. value = settings[setting] \/ value = before.settings[setting] BY <1>3
<1>6. /\ script.copy = {} => value = settings[setting]
      /\ before.settings[setting] \in {0, value}
  BY <1>3
<1> HIDE DEF value
<1>7. settings \in [Setting -> Nat] BY <1>1 DEF Settings, Setting
<1>8. /\ settings' \in [Setting -> Nat] /\ settings'[setting] = value
      /\ \A other \in Setting \ {setting} : settings'[other] = settings[other]
  BY <1>4, <1>7
<1>9. settings' \in Settings
  <2>1. CASE setting = "certificate" BY <1>1, <1>4, <2>1 DEF Settings
  <2>2. CASE setting = "key" BY <1>1, <1>4, <2>2 DEF Settings
  <2>3. CASE setting = "json" BY <1>1, <1>4, <2>3 DEF Settings
  <2> QED BY <2>1, <2>2, <2>3 DEF Setting
<1>10. Keeps(setting)' BY <1>6, <1>8 DEF Keeps
<1>11. \A other \in Setting : Keeps(other) => Keeps(other)'
  <2> TAKE other \in Setting
  <2>1. CASE other = setting BY <1>10, <2>1
  <2>2. CASE other # setting BY <1>8, <2>2 DEF Keeps
  <2> QED BY <2>1, <2>2
<1>12. ASSUME script.copy = {} PROVE settings' = settings
  BY <1>4, <1>6, <1>7, <1>12
<1> QED BY <1>9, <1>10, <1>11, <1>12

LEMMA RestoreSettingStep ==
  ASSUME UpgradeInv, NEW setting \in Setting, NEW pc \in Points, NEW following \in Points,
         RestoreSetting(setting, pc, following),
         \/ setting = "json" /\ pc = "json back" /\ following = "certificate back"
         \/ setting = "certificate" /\ pc = "certificate back" /\ following = "key back"
         \/ setting = "key" /\ pc = "key back" /\ following = "pointer"
  PROVE  UpgradeInv'
<1>1. /\ script.pc = pc /\ Then(following)
      /\ settings' = [settings EXCEPT ![setting] = PutBack(setting)]
      /\ UNCHANGED <<pointer, installed, data, running, before, accepted, undone>>
  BY DEF RestoreSetting, In, upgradeHistory
<1>2. /\ script' \in ScriptRun /\ script'.pc = following /\ script'.release = script.release
      /\ script'.old = script.old /\ script'.existed = script.existed
      /\ script'.copy = script.copy /\ script'.backup = script.backup
      /\ script'.ok = script.ok
  BY <1>1, ThenIs, UpgradeFacts
<1>3. script.pc \in Restoring BY <1>1 DEF Restoring
<1>4. /\ settings' \in Settings /\ Keeps(setting)'
      /\ \A other \in Setting : Keeps(other) => Keeps(other)'
      /\ script.copy = {} => settings' = settings
  BY <1>1, <1>3, PutBackKeeps
<1>5. UpgradeTypes' BY <1>1, <1>2, <1>4 DEF UpgradeInv, UpgradeTypes
<1>6. Based'
  <2>1. running = 0 BY <1>1 DEF UpgradeInv, Based
  <2> QED BY <1>1, <1>2, <2>1 DEF UpgradeInv, Based
<1>7. Noted' BY <1>1, <1>2 DEF UpgradeInv, Noted, In, Untouched, Filling
<1>8. Backed'
  BY <1>1, <1>2 DEF UpgradeInv, Backed, Working, In, Untouched, Restoring
<1>9. Copied'
  <2>1. /\ Keeps("json") => Keeps("json")'
        /\ Keeps("certificate") => Keeps("certificate")'
        /\ Keeps("key") => Keeps("key")'
    BY <1>4 DEF Setting
  <2>2. /\ script.copy = {} \/ script.copy = {before.settings}
        /\ script.copy = {} => before.settings = NoSettings \/ settings = before.settings
        /\ pc # "json back" => Keeps("json")
        /\ pc = "key back" => Keeps("certificate")
    BY <1>1 DEF UpgradeInv, Copied, Working, In, Restoring
  <2> HIDE DEF Keeps
  <2> QED BY <1>1, <1>2, <1>4, <2>1, <2>2 DEF Copied, Working, In, Restoring
<1>10. WritesKept' BY <1>1 DEF UpgradeInv, WritesKept
<1> QED BY <1>5, <1>6, <1>7, <1>8, <1>9, <1>10 DEF UpgradeInv

LEMMA RestorePointerStep == UpgradeInv /\ RestorePointer => UpgradeInv'
<1> SUFFICES ASSUME UpgradeInv, RestorePointer PROVE UpgradeInv'
  OBVIOUS
<1> DEFINE following == IF script.old \in installed /\ Restored THEN "restart" ELSE "clean"
<1>1. /\ script.pc = "pointer" /\ Then(following)
      /\ pointer' = IF script.old \in installed THEN script.old ELSE 0
      /\ UNCHANGED <<installed, settings, data, running, before, accepted, undone>>
  BY DEF RestorePointer, In, upgradeHistory
<1>2. /\ following \in {"restart", "clean"}
      /\ following = "restart" => script.ok /\ script.old \in installed
  BY DEF Restored
<1> HIDE DEF following
<1>3. /\ script' \in ScriptRun /\ script'.pc = following /\ script'.release = script.release
      /\ script'.old = script.old /\ script'.existed = script.existed
      /\ script'.copy = script.copy /\ script'.backup = script.backup
      /\ script'.ok = script.ok
  BY <1>1, <1>2, ThenIs, UpgradeFacts DEF Points, Restoring
<1>4. /\ script.old < script.release /\ (script.old \in installed => script.existed)
      /\ running = 0
  BY <1>1 DEF UpgradeInv, Noted, Based, In
<1>5. script.existed => data.there BY <1>1 DEF UpgradeInv, Backed, Working, In
<1>6. UpgradeTypes' BY <1>1, <1>3, UpgradeFacts DEF UpgradeInv, UpgradeTypes
<1>7. Based'
  <2>1. pointer' <= script.release BY <1>1, <1>4, UpgradeFacts
  <2>2. 0 \notin installed BY UpgradeFacts DEF UpgradeInv, Based
  <2> QED BY <1>1, <1>3, <1>4, <1>5, <2>1, <2>2 DEF UpgradeInv, Based
<1>8. Noted' BY <1>1, <1>2, <1>3, <1>4 DEF Noted, In, Untouched, Filling
<1>9. Backed'
  BY <1>1, <1>2, <1>3, <1>4 DEF UpgradeInv, Backed, Working, In, Untouched, Restoring
<1>10. Copied'
  BY <1>1, <1>2, <1>3 DEF UpgradeInv, Copied, Working, In, Keeps, Restoring
<1>11. WritesKept' BY <1>1 DEF UpgradeInv, WritesKept
<1> QED BY <1>6, <1>7, <1>8, <1>9, <1>10, <1>11 DEF UpgradeInv

LEMMA CleanStep == UpgradeInv /\ CleanUp => UpgradeInv'
<1> SUFFICES ASSUME UpgradeInv, CleanUp PROVE UpgradeInv'
  OBVIOUS
<1>1. /\ script.pc = "clean" /\ data' = (IF ~script.existed THEN NoData ELSE data)
      /\ installed' = installed \ {script.release} /\ script' = Idling(script.release)
      /\ UNCHANGED <<pointer, settings, running, before, accepted, undone>>
  BY DEF CleanUp, Removed, In, upgradeHistory
<1>2. /\ script.old < script.release /\ (script.old \in installed => script.existed)
      /\ pointer = IF script.old \in installed THEN script.old ELSE 0
  BY <1>1 DEF UpgradeInv, Noted, In
<1>3. /\ running # 0 => data.there
      /\ data.admin => data.there
      /\ ~data.there => data.writes = 0
      /\ pointer \in installed => data.there
      /\ 0 \notin installed
  BY UpgradeFacts DEF UpgradeInv, Based
<1>4. ~script.existed => /\ running = 0 /\ before.data.writes = 0
                         /\ undone \/ before.data.writes = accepted
  BY <1>1 DEF UpgradeInv, Backed, Working, In
<1>5. /\ NoData \in Data /\ ~NoData.there /\ ~NoData.admin /\ NoData.writes = 0
  BY DEF NoData, Data
<1>6. undone \/ data.writes = accepted BY DEF UpgradeInv, WritesKept
<1>7. CASE script.existed
  <2>1. data' = data BY <1>1, <1>7
  <2>2. script.release <= script.release /\ running \in Nat /\ data \in Data BY UpgradeFacts
  <2> QED BY <1>1, <1>3, <1>6, <2>1, <2>2, IdleStep, UpgradeFacts
<1>8. CASE ~script.existed
  <2>1. data' = NoData /\ pointer \notin installed' /\ running' = 0 BY <1>1, <1>2, <1>3, <1>4, <1>8
  <2>2. undone \/ data'.writes = accepted BY <1>4, <1>5, <1>8, <2>1
  <2>3. script.release <= script.release BY UpgradeFacts
  <2>4. data' \in Data /\ ~data'.admin /\ data'.writes = 0 BY <1>5, <2>1
  <2> QED BY <1>1, <2>1, <2>2, <2>3, <2>4, IdleStep, UpgradeFacts
<1> QED BY <1>7, <1>8, UpgradeFacts

LEMMA UpgradeInvariance == UpgradeInv /\ [UpgradeNext]_upgradeVars => UpgradeInv'
<1> SUFFICES ASSUME UpgradeInv, [UpgradeNext]_upgradeVars PROVE UpgradeInv'
  OBVIOUS
<1>1. CASE UNCHANGED upgradeVars
  <2>1. UNCHANGED <<pointer, installed, settings, data, running, script, before, accepted,
                    undone>>
    BY <1>1 DEF upgradeVars, onDisk, upgradeHistory
  <2>2. UpgradeTypes' BY <2>1 DEF UpgradeInv, UpgradeTypes
  <2>3. Based' BY <2>1 DEF UpgradeInv, Based
  <2>4. Noted' BY <2>1 DEF UpgradeInv, Noted, In
  <2>5. Backed' BY <2>1 DEF UpgradeInv, Backed, Working, In
  <2>6. Copied' BY <2>1 DEF UpgradeInv, Copied, Working, In, Keeps
  <2>7. WritesKept' BY <2>1 DEF UpgradeInv, WritesKept
  <2> QED BY <2>2, <2>3, <2>4, <2>5, <2>6, <2>7 DEF UpgradeInv
<1>2. CASE Install
  <2>1. CASE StartServer("start", "watch") BY <2>1, StartServerStep
  <2> QED BY <1>2, <2>1, BeginStep, StopStep, PrepareStep, InstallSettingsStep, BackUpStep,
             FillDatabaseStep, SwitchStep, SucceedStep DEF Install
<1>3. CASE Rollback
  <2>1. CASE StartServer("restart", "clean") BY <2>1, StartServerStep
  <2>2. CASE RestoreSettings
    BY <2>2, RestoreSettingStep DEF RestoreSettings, Setting, Points, Restoring
  <2> QED BY <1>3, <2>1, <2>2, FailStep, RestoreDataStep, RestorePointerStep, CleanStep
          DEF Rollback
<1> QED BY <1>1, <1>2, <1>3, WriteStep, CutStep DEF UpgradeNext, UpgradeHorizon

\* A first install finds no database, no settings and no pointer.
LEMMA UpgradeInitially == UpgradeInit => UpgradeInv
<1> SUFFICES ASSUME UpgradeInit PROVE UpgradeInv
  OBVIOUS
<1>1. /\ NoData \in Data /\ ~NoData.there /\ ~NoData.admin /\ NoData.writes = 0
      /\ NoSettings \in Settings
  BY DEF NoData, Data, NoSettings, Settings
<1>2. /\ pointer = 0 /\ installed = {} /\ settings = NoSettings /\ data = NoData
      /\ running = 0 /\ script = Idling(0) /\ accepted = 0 /\ undone = FALSE
      /\ before = [pointer |-> pointer, settings |-> settings, data |-> data]
  BY DEF UpgradeInit, Found
<1>3. script \in ScriptRun /\ script.pc = "idle" /\ script.release = 0 BY <1>2, IdlingIs
<1>4. UpgradeTypes BY <1>1, <1>2, <1>3 DEF UpgradeTypes
<1>5. Based BY <1>1, <1>2, <1>3 DEF Based
<1>6. Noted /\ Backed /\ Copied BY <1>3 DEF Noted, Backed, Copied, Working, In
<1>7. WritesKept BY <1>1, <1>2 DEF WritesKept
<1> QED BY <1>4, <1>5, <1>6, <1>7 DEF UpgradeInv

LEMMA UpgradeInvariant == UpgradeSpec => []UpgradeInv
  BY UpgradeInitially, UpgradeInvariance, PTL DEF UpgradeSpec

\* Before the rollback starts the old release, all that was copied is back.
LEMMA BackBeforeRestart == UpgradeInv => RollbackRestores
<1> SUFFICES ASSUME UpgradeInv, In("restart") PROVE RollbackRestores
  BY DEF UpgradeInv, RollbackRestores
<1>1. /\ pointer = before.pointer /\ (before.data.there => data = before.data)
  BY DEF UpgradeInv, Noted, Backed, Working, In, Restoring
<1>2. Keeps("json") /\ Keeps("certificate") /\ Keeps("key")
  BY DEF UpgradeInv, Copied, Working, In, Restoring
<1>3. DOMAIN settings = Setting BY UpgradeFacts DEF Settings, Setting
<1> QED BY <1>1, <1>2, <1>3 DEF RollbackRestores, Setting, Keeps

\* However commands fail and the script is killed and run again: a rollback that starts
\* the old release has put back its pointer, its database and its settings: the ERR trap
\* of install-commercial-server.sh.
THEOREM UpgradeSafety == UpgradeSpec => []RollbackRestores
  BY UpgradeInvariant, BackBeforeRestart, PTL

\* The database holds every commit that clients were told of, whatever fails, is killed or
\* is run again, unless a release that had served was rolled back.
THEOREM CommitSafety == UpgradeSpec => []WritesKept
<1>1. UpgradeInv => WritesKept BY DEF UpgradeInv
<1> QED BY <1>1, UpgradeInvariant, PTL
=============================================================================
