----------------------------- MODULE ReportProofs -----------------------------
(***************************************************************************)
(* What the tools beside the server guarantee: the evidence ledger for any *)
(* plan and any number of recorders, results and killed commands           *)
(* (EvidenceLedger), the DORA collector for any tables and orders of       *)
(* reports (DoraCollector), the private mirror for any number of runs and  *)
(* of changes by others (PrivateMirror), and the identity report for any   *)
(* table (IdentityResolver).                                               *)
(***************************************************************************)
EXTENDS EvidenceLedger, DoraCollector, PrivateMirror, IdentityResolver, SequenceTheorems,
        FiniteSetTheorems, WellFoundedInduction, TLAPS

Result == [id : Nat, step : RequiredSteps, passed : BOOLEAN]
Document == [state : {"whole", "empty", "mixed"}, events : Seq(Result), certified : BOOLEAN]
Command == [pc : {"idle", "open", "verify", "fill", "replace"}, document : Document,
            handle : {"none", "draft", "ledger", "gone"}]

LedgerTypeOK ==
  /\ ledger \in Document /\ draft \subseteq Document
  /\ writer \in [Recorders -> Command]
  /\ results \in Nat /\ crowded \in BOOLEAN

At(o, pc) == writer[o].pc = pc
Writing(o) == At(o, "fill") \/ At(o, "replace")

\* The facts s are in the ledger, in what every command is going to write, and, while
\* somebody writes, in the draft: a draft that a killed command left is truncated.
Holds(document, s) == document.state = "whole" => s \subseteq Facts(document)
Kept(s) ==
  /\ Holds(ledger, s)
  /\ \A o \in Recorders : Working(o) =>
       writer[o].document.state = "whole" /\ s \subseteq Facts(writer[o].document)
  /\ \A o \in Recorders : Writing(o) => \A d \in draft : Holds(d, s)

\* What holds while no two commands were active at once.
Ready(document) == document.certified => IsComplete(document)
Alone ==
  /\ \A o, p \in Recorders : Working(o) /\ Working(p) => o = p
  /\ ledger.state = "whole" /\ Ready(ledger)
  /\ \A o \in Recorders : At(o, "verify") => writer[o].document = Written(ledger.events, TRUE)
  /\ \A o \in Recorders : At(o, "open") \/ Writing(o) => Ready(writer[o].document)
  /\ \A o \in Recorders : At(o, "fill") =>
       writer[o].handle = "draft" /\ draft = {Unreadable("empty")}
  /\ \A o \in Recorders : At(o, "replace") => draft = {writer[o].document}

IInv == LedgerTypeOK /\ Kept(settled) /\ (crowded \/ Alone)

-----------------------------------------------------------------------------
\* What a quiet ledger adds to the settled facts it holds itself.
LEMMA Observed ==
  ASSUME NEW s, s = settled, Observe, Kept(s)'
  PROVE  Kept(settled)'
<1>1. CASE Quiet /\ ledger'.state = "whole"
  <2>1. settled' = s \cup Facts(ledger') BY <1>1 DEF Observe
  <2>2. \A o \in Recorders : ~Working(o)' /\ ~Writing(o)'
    BY <1>1 DEF Quiet, Working, Writing, At
  <2> QED BY <2>1, <2>2 DEF Kept, Holds, Facts
<1>2. CASE ~(Quiet /\ ledger'.state = "whole")
  <2>1. settled' = s BY <1>2 DEF Observe
  <2> QED BY <2>1 DEF Kept, Holds
<1> QED BY <1>1, <1>2

\* Continue changes one command.
LEMMA Continued ==
  ASSUME LedgerTypeOK, NEW o \in Recorders, NEW c \in Command, Continue(o, c)
  PROVE  /\ writer' \in [Recorders -> Command]
         /\ writer'[o] = c
         /\ \A p \in Recorders : p # o => writer'[p] = writer[p]
BY DEF LedgerTypeOK, Continue

\* A document that is written may be certified, and is read back as it was.
LEMMA Documents ==
  /\ \A events \in Seq(Result), certified \in BOOLEAN :
       LET d == Written(events, certified)
       IN /\ d \in Document /\ d.state = "whole"
          /\ d.events = events /\ d.certified = certified
  /\ \A state \in {"empty", "mixed"} :
       Unreadable(state) \in Document /\ Unreadable(state).state = state
         /\ ~Unreadable(state).certified
  /\ NoCommand \in Command /\ NoCommand.pc = "idle"
<1>1. \A events \in Seq(Result), certified \in BOOLEAN :
        Written(events, certified) \in Document
  BY DEF Written, Document
<1>2. <<>> \in Seq(Result) OBVIOUS
<1>3. \A state \in {"empty", "mixed"} : Unreadable(state) \in Document
  BY <1>2 DEF Unreadable, Document
<1>4. NoCommand \in Command BY <1>3 DEF NoCommand, Command
<1> QED BY <1>1, <1>3, <1>4 DEF Written, Unreadable, NoCommand

\* Another result adds a fact and takes none away, except a certificate.
LEMMA Extended ==
  ASSUME NEW d \in Document, NEW r \in Result, ~d.certified
  PROVE  LET n == Written(Append(d.events, r), FALSE)
         IN n \in Document /\ Facts(d) \subseteq Facts(n)
<1> DEFINE e == Append(d.events, r)
<1>1. d.events \in Seq(Result) BY DEF Document
<1>2. e \in Seq(Result) /\ Len(e) = Len(d.events) + 1
      /\ \A i \in 1..Len(d.events) : e[i] = d.events[i]
  BY <1>1
<1>3. DOMAIN d.events = 1..Len(d.events) /\ DOMAIN e = 1..Len(e) BY <1>1, <1>2
<1>4. Len(d.events) \in Nat BY <1>1
<1>5. \A i \in DOMAIN d.events : i \in DOMAIN e /\ e[i] = d.events[i] BY <1>2, <1>3, <1>4
<1> HIDE DEF e
<1>6. Written(e, FALSE).events = e /\ ~Written(e, FALSE).certified BY DEF Written
<1>7. Facts(d) \subseteq Facts(Written(e, FALSE)) BY <1>5, <1>6 DEF Facts
<1> QED BY <1>2, <1>7, Documents DEF e

\* Alone after a step, part by part.
LEMMA AloneNext ==
  ASSUME \A o, p \in Recorders : Working(o)' /\ Working(p)' => o = p,
         ledger'.state = "whole", Ready(ledger'),
         \A o \in Recorders : At(o, "verify")' => writer'[o].document = Written(ledger'.events, TRUE),
         \A o \in Recorders : At(o, "open")' \/ Writing(o)' => Ready(writer'[o].document),
         \A o \in Recorders : At(o, "fill")' =>
           writer'[o].handle = "draft" /\ draft' = {Unreadable("empty")},
         \A o \in Recorders : At(o, "replace")' => draft' = {writer'[o].document}
  PROVE  Alone'
BY ZenonT(60) DEF Alone, Writing, At, Working, Ready, IsComplete, Passed, Written, Unreadable

-----------------------------------------------------------------------------
(* One lemma for each action.                                              *)

LEMMA LoadStep ==
  ASSUME IInv, NEW o \in Recorders, NEW pc \in {"open", "verify"},
         NEW d \in Document, Load(o, pc, d), results' \in Nat,
         d.state = "whole", Facts(ledger) \subseteq Facts(d),
         pc = "open" => Ready(d),
         pc = "verify" => d = Written(ledger.events, TRUE)
  PROVE  IInv'
<1> DEFINE c == [pc |-> pc, document |-> d, handle |-> "none"]
<1>1. c \in Command /\ c.pc = pc /\ c.document = d BY DEF Command
<1>2. /\ writer' \in [Recorders -> Command] /\ writer'[o] = c
      /\ \A p \in Recorders : p # o => writer'[p] = writer[p]
  BY <1>1, Continued DEF Load, IInv
<1> HIDE DEF c
<1>3. ledger' = ledger /\ draft' = draft /\ Observe /\ ledger.state = "whole" BY DEF Load
<1>4. crowded' = (crowded \/ \E p \in Recorders : Working(p)) BY DEF Load
<1>5. LedgerTypeOK' BY <1>2, <1>3, <1>4 DEF IInv, LedgerTypeOK
<1>6. ASSUME NEW s, s = settled PROVE Kept(s)'
  <2>1. s \subseteq Facts(ledger) BY <1>3, <1>6 DEF IInv, Kept, Holds
  <2>2. s \subseteq Facts(d) BY <2>1
  <2>3. \A p \in Recorders : Writing(p)' => Writing(p)
    BY <1>1, <1>2 DEF Writing, At
  <2>4. \A p \in Recorders : Working(p)' =>
          writer'[p].document.state = "whole" /\ s \subseteq Facts(writer'[p].document)
    BY <1>1, <1>2, <1>6, <2>2 DEF IInv, Kept, Working
  <2>5. \A p \in Recorders : Writing(p)' => \A t \in draft' : Holds(t, s)
    BY <1>3, <1>6, <2>3 DEF IInv, Kept
  <2>6. Holds(ledger', s) BY <1>3, <2>1 DEF Holds
  <2> QED BY <2>4, <2>5, <2>6 DEF Kept, Holds
<1>7. Kept(settled)' BY <1>3, <1>6, Observed
<1>8. ASSUME ~crowded' PROVE Alone'
  <2>1. Alone /\ \A p \in Recorders : ~Working(p) BY <1>4, <1>8 DEF IInv
  <2>2. \A p \in Recorders : p # o => ~Working(p)' /\ writer'[p].pc = "idle"
    BY <1>2, <2>1 DEF Working
  <2>3. \A p \in Recorders : Working(p)' => p = o BY <2>2
  <2>4. ledger'.state = "whole" /\ Ready(ledger') BY <1>3, <2>1 DEF Alone
  <2>5. \A p \in Recorders : At(p, "verify")' => writer'[p].document = Written(ledger'.events, TRUE)
    BY <1>1, <1>2, <1>3, <2>2 DEF At
  <2>6. \A p \in Recorders : ~Writing(p)' BY <1>1, <1>2, <2>2 DEF Writing, At
  <2>7. \A p \in Recorders : At(p, "open")' => Ready(writer'[p].document)
    BY <1>1, <1>2, <2>2 DEF At
  <2> QED BY <2>3, <2>4, <2>5, <2>6, <2>7, AloneNext DEF Writing
<1> QED BY <1>5, <1>7, <1>8 DEF IInv

LEMMA ResultStep ==
  ASSUME IInv, NEW o \in Recorders, NEW step \in RequiredSteps, NEW passed \in BOOLEAN,
         BeginResult(o, step, passed)
  PROVE  IInv'
<1> DEFINE r == [id |-> results + 1, step |-> step, passed |-> passed]
           d == Written(Append(ledger.events, r), FALSE)
<1>1. r \in Result /\ results' \in Nat BY DEF BeginResult, IInv, LedgerTypeOK, Result
<1>2. Load(o, "open", d) BY DEF BeginResult
<1>3. ledger \in Document /\ ~ledger.certified
  BY <1>2 DEF Load, IInv, LedgerTypeOK
<1>4. d \in Document /\ Facts(ledger) \subseteq Facts(d) BY <1>1, <1>3, Extended
<1>5. d.state = "whole" /\ ~d.certified BY DEF Written
<1> HIDE DEF d
<1>6. Ready(d) BY <1>5 DEF Ready
<1> QED BY <1>1, <1>2, <1>4, <1>5, <1>6, LoadStep

LEMMA CertificateStep ==
  ASSUME IInv, NEW o \in Recorders, BeginCertificate(o)
  PROVE  IInv'
<1> DEFINE d == Written(ledger.events, TRUE)
<1>1. Load(o, "verify", d) /\ results' \in Nat
  BY DEF BeginCertificate, IInv, LedgerTypeOK
<1>2. ledger.events \in Seq(Result) /\ ~ledger.certified
  BY <1>1 DEF Load, IInv, LedgerTypeOK, Document
<1>3. d \in Document /\ d.state = "whole" /\ d.events = ledger.events BY <1>2, Documents
<1>4. Facts(ledger) \subseteq Facts(d) BY <1>2, <1>3 DEF Facts
<1> HIDE DEF d
<1> QED BY <1>1, <1>3, <1>4, LoadStep DEF d

\* A command that goes on without a change to the files or to its document.
LEMMA MoveStep ==
  ASSUME IInv, NEW o \in Recorders, NEW c \in Command, Continue(o, c),
         ledger' = ledger, draft' = draft, crowded' = crowded, results' = results, Observe,
         Working(o), c.document = writer[o].document \/ c.pc = "idle",
         c.pc = "open" => crowded \/ Ready(c.document),
         c.pc \in {"idle", "open"}
  PROVE  IInv'
<1>1. /\ writer' \in [Recorders -> Command] /\ writer'[o] = c
      /\ \A p \in Recorders : p # o => writer'[p] = writer[p]
  BY Continued DEF IInv
<1>2. LedgerTypeOK' BY <1>1 DEF IInv, LedgerTypeOK
<1>3. \A p \in Recorders : Working(p)' => Working(p) BY <1>1 DEF Working
<1>4. \A p \in Recorders : Writing(p)' => Writing(p) BY <1>1 DEF Writing, At
<1>5. ASSUME NEW s, s = settled PROVE Kept(s)'
  <2>1. Kept(s) BY <1>5 DEF IInv
  <2>2. \A p \in Recorders : Working(p)' => writer'[p].document = writer[p].document
    BY <1>1 DEF Working
  <2>3. \A p \in Recorders : Working(p)' =>
          writer'[p].document.state = "whole" /\ s \subseteq Facts(writer'[p].document)
    BY <1>3, <2>1, <2>2 DEF Kept
  <2>4. \A p \in Recorders : Writing(p)' => \A t \in draft' : Holds(t, s)
    BY <1>4, <2>1 DEF Kept
  <2>5. Holds(ledger', s) BY <2>1 DEF Kept
  <2> QED BY <2>3, <2>4, <2>5 DEF Kept, Holds
<1>6. Kept(settled)' BY <1>5, Observed
<1>7. ASSUME ~crowded' PROVE Alone'
  <2>1. Alone /\ ~crowded BY <1>7 DEF IInv
  <2>2. \A p \in Recorders : p # o => At(p, "idle") BY <2>1 DEF Alone, Working, At
  <2>3. \A p \in Recorders : p # o => At(p, "idle")' BY <1>1, <2>2 DEF At
  <2>4. \A p, q \in Recorders : Working(p)' /\ Working(q)' => p = q
    BY <2>3 DEF Working, At
  <2>5. ledger'.state = "whole" /\ Ready(ledger') BY <2>1 DEF Alone
  <2>6. \A p \in Recorders : ~At(p, "verify")' /\ ~Writing(p)'
    BY <1>1, <2>3 DEF Writing, At
  <2>7. \A p \in Recorders : At(p, "open")' => Ready(writer'[p].document)
    BY <1>1, <2>1, <2>3 DEF At
  <2> QED BY <2>4, <2>5, <2>6, <2>7, AloneNext DEF Writing
<1> QED BY <1>2, <1>6, <1>7 DEF IInv

LEMMA VerifyStep ==
  ASSUME IInv, NEW o \in Recorders, VerifyEvidence(o)
  PROVE  IInv'
<1>1. /\ Working(o) /\ At(o, "verify") /\ writer[o] \in Command
      /\ ledger' = ledger /\ draft' = draft /\ crowded' = crowded /\ results' = results /\ Observe
  BY DEF VerifyEvidence, Working, At, IInv, LedgerTypeOK
<1>2. CASE ~IsComplete(ledger)
  <2>1. Continue(o, NoCommand) BY <1>2 DEF VerifyEvidence
  <2>2. NoCommand \in Command /\ NoCommand.pc = "idle" BY Documents
  <2> QED BY <1>1, <2>1, <2>2, MoveStep
<1>3. CASE IsComplete(ledger)
  <2> DEFINE c == [writer[o] EXCEPT !.pc = "open"]
  <2>1. Continue(o, c) BY <1>3 DEF VerifyEvidence
  <2>2. c \in Command /\ c.pc = "open" /\ c.document = writer[o].document
    BY <1>1 DEF Command
  <2> HIDE DEF c
  <2>3. ASSUME ~crowded PROVE Ready(c.document)
    <3>1. c.document = Written(ledger.events, TRUE) /\ ledger.state = "whole"
      BY <1>1, <2>2, <2>3 DEF IInv, Alone
    <3>2. c.document.events = ledger.events /\ c.document.state = "whole"
      BY <3>1 DEF Written
    <3> QED BY <1>3, <3>2 DEF Ready, IsComplete, Passed
  <2> QED BY <1>1, <2>1, <2>2, <2>3, MoveStep
<1> QED BY <1>2, <1>3

LEMMA InterruptStep ==
  ASSUME IInv, NEW o \in Recorders, Interrupt(o)
  PROVE  IInv'
<1>1. NoCommand \in Command /\ NoCommand.pc = "idle" BY Documents
<1> QED BY <1>1, MoveStep DEF Interrupt

\* The draft is truncated for everyone who has it open.
LEMMA OpenStep ==
  ASSUME IInv, NEW o \in Recorders, OpenDraft(o)
  PROVE  IInv'
<1> DEFINE n == [writer[o] EXCEPT !.pc = "fill"]
           c == [n EXCEPT !.handle = "draft"]
           e == Unreadable("empty")
<1>1. writer[o] \in Command /\ At(o, "open") /\ Working(o)
  BY DEF OpenDraft, IInv, LedgerTypeOK, At, Working
<1>2. n \in Command /\ n.pc = "fill" /\ n.document = writer[o].document BY <1>1 DEF Command
<1>3. [writer[o] EXCEPT !.pc = "fill", !.handle = "draft"] = c BY <1>1 DEF Command
<1> HIDE DEF n
<1>4. /\ c \in Command /\ c.pc = "fill" /\ c.handle = "draft"
      /\ c.document = writer[o].document
  BY <1>2 DEF Command
<1>5. Continue(o, c) BY <1>3 DEF OpenDraft
<1> HIDE DEF c
<1>6. /\ writer' \in [Recorders -> Command] /\ writer'[o] = c
      /\ \A p \in Recorders : p # o => writer'[p] = writer[p]
  BY <1>4, <1>5, Continued DEF IInv
<1>7. e \in Document /\ e.state = "empty" BY Documents
<1>8. ledger' = ledger /\ draft' = {e} /\ crowded' = crowded /\ results' = results /\ Observe
  BY DEF OpenDraft
<1> HIDE DEF e
<1>9. LedgerTypeOK' BY <1>6, <1>7, <1>8 DEF IInv, LedgerTypeOK
<1>10. \A p \in Recorders : writer'[p].document = writer[p].document BY <1>4, <1>6
<1>11. \A p \in Recorders : Working(p)' => Working(p) BY <1>1, <1>6 DEF Working
<1>12. ASSUME NEW s, s = settled PROVE Kept(s)'
  <2>1. Kept(s) BY <1>12 DEF IInv
  <2>2. \A p \in Recorders : Working(p)' =>
          writer'[p].document.state = "whole" /\ s \subseteq Facts(writer'[p].document)
    BY <1>10, <1>11, <2>1 DEF Kept
  <2>3. \A t \in draft' : Holds(t, s) BY <1>7, <1>8 DEF Holds
  <2>4. Holds(ledger', s) BY <1>8, <2>1 DEF Kept
  <2> QED BY <2>2, <2>3, <2>4 DEF Kept, Holds
<1>13. Kept(settled)' BY <1>8, <1>12, Observed
<1>14. ASSUME ~crowded' PROVE Alone'
  <2>1. Alone BY <1>8, <1>14 DEF IInv
  <2>2. \A p \in Recorders : p # o => At(p, "idle")' BY <1>1, <1>6, <2>1 DEF Alone, Working, At
  <2>3. \A p, q \in Recorders : Working(p)' /\ Working(q)' => p = q BY <2>2 DEF Working, At
  <2>4. ledger'.state = "whole" /\ Ready(ledger') BY <1>8, <2>1 DEF Alone
  <2>5. \A p \in Recorders : ~At(p, "verify")' /\ ~At(p, "open")' /\ ~At(p, "replace")'
    BY <1>4, <1>6, <2>2 DEF At
  <2>6. \A p \in Recorders : At(p, "fill")' => p = o BY <2>2 DEF At
  <2>7. Ready(writer'[o].document) BY <1>1, <1>10, <2>1 DEF Alone
  <2>8. writer'[o].handle = "draft" /\ draft' = {Unreadable("empty")} BY <1>4, <1>6, <1>8 DEF e
  <2> QED BY <2>3, <2>4, <2>5, <2>6, <2>7, <2>8, AloneNext DEF Writing
<1> QED BY <1>9, <1>13, <1>14 DEF IInv

\* What is written is whole, and then keeps the settled facts, or cannot be read.
LEMMA FilledIs ==
  ASSUME NEW f \in Document, NEW d \in Document, NEW text \in Filled(f, d)
  PROVE  text \in Document /\ (text = d \/ text.state = "mixed")
BY Documents DEF Filled

LEMMA FillStep ==
  ASSUME IInv, NEW o \in Recorders, FillDraft(o)
  PROVE  IInv'
<1> DEFINE c == [writer[o] EXCEPT !.pc = "replace"]
           d == writer[o].document
<1>1. writer[o] \in Command /\ At(o, "fill") /\ Working(o) /\ Writing(o)
  BY DEF FillDraft, IInv, LedgerTypeOK, At, Working, Writing
<1>2. c \in Command /\ c.pc = "replace" /\ c.document = d /\ d \in Document BY <1>1 DEF Command
<1>3. Continue(o, c) BY DEF FillDraft
<1> HIDE DEF c
<1>4. /\ writer' \in [Recorders -> Command] /\ writer'[o] = c
      /\ \A p \in Recorders : p # o => writer'[p] = writer[p]
  BY <1>2, <1>3, Continued DEF IInv
<1>5. crowded' = crowded /\ results' = results /\ Observe BY DEF FillDraft
<1>6. \/ /\ writer[o].handle = "draft" /\ ledger' = ledger
         /\ \E f \in draft : \E text \in Filled(f, d) : draft' = {text}
      \/ /\ writer[o].handle = "ledger" /\ draft' = draft /\ ledger' \in Filled(ledger, d)
      \/ writer[o].handle \notin {"draft", "ledger"} /\ ledger' = ledger /\ draft' = draft
  BY DEF FillDraft
<1>7. /\ draft' = draft \/ \E t \in Document : draft' = {t} /\ (t = d \/ t.state = "mixed")
      /\ ledger' = ledger
           \/ (ledger' \in Document /\ (ledger' = d \/ ledger'.state = "mixed"))
  <2>1. ledger \in Document /\ draft \subseteq Document BY DEF IInv, LedgerTypeOK
  <2> QED BY <1>2, <1>6, <2>1, FilledIs
<1>8. LedgerTypeOK' BY <1>4, <1>5, <1>7 DEF IInv, LedgerTypeOK
<1>9. \A p \in Recorders : writer'[p].document = writer[p].document BY <1>2, <1>4
<1>10. \A p \in Recorders : Working(p)' => Working(p) BY <1>1, <1>4 DEF Working
<1>11. ASSUME NEW s, s = settled PROVE Kept(s)'
  <2>1. Kept(s) BY <1>11 DEF IInv
  <2>2. s \subseteq Facts(d) /\ \A t \in draft : Holds(t, s) BY <1>1, <2>1 DEF Kept
  <2>3. \A t : t = d \/ t.state = "mixed" => Holds(t, s) BY <2>2 DEF Holds
  <2>4. Holds(ledger', s) /\ \A t \in draft' : Holds(t, s) BY <1>7, <2>1, <2>2, <2>3 DEF Kept
  <2>5. \A p \in Recorders : Working(p)' =>
          writer'[p].document.state = "whole" /\ s \subseteq Facts(writer'[p].document)
    BY <1>9, <1>10, <2>1 DEF Kept
  <2> QED BY <2>4, <2>5 DEF Kept, Holds
<1>12. Kept(settled)' BY <1>5, <1>11, Observed
<1>13. ASSUME ~crowded' PROVE Alone'
  <2>1. Alone BY <1>5, <1>13 DEF IInv
  <2>2. \A p \in Recorders : p # o => At(p, "idle")' BY <1>1, <1>4, <2>1 DEF Alone, Working, At
  <2>3. \A p, q \in Recorders : Working(p)' /\ Working(q)' => p = q BY <2>2 DEF Working, At
  <2>4. /\ writer[o].handle = "draft" /\ draft = {Unreadable("empty")} /\ Ready(d)
        /\ ledger.state = "whole" /\ Ready(ledger)
    BY <1>1, <2>1 DEF Alone
  <2>5. ledger' = ledger /\ draft' = {d}
    <3>1. Unreadable("empty").state = "empty" BY Documents
    <3> QED BY <1>6, <2>4, <3>1 DEF Filled
  <2>6. \A p \in Recorders : ~At(p, "verify")' /\ ~At(p, "open")' /\ ~At(p, "fill")'
    BY <1>2, <1>4, <2>2 DEF At
  <2>7. \A p \in Recorders : At(p, "replace")' => p = o BY <2>2 DEF At
  <2>8. Ready(writer'[o].document) /\ draft' = {writer'[o].document} BY <1>9, <2>4, <2>5
  <2>9. ledger'.state = "whole" /\ Ready(ledger') BY <2>4, <2>5
  <2> QED BY <2>3, <2>6, <2>7, <2>8, <2>9, AloneNext DEF Writing
<1> QED BY <1>8, <1>12, <1>13 DEF IInv

\* What is renamed over the ledger keeps the settled facts or cannot be read, and that
\* takes two commands.
LEMMA ReplaceStep ==
  ASSUME IInv, NEW o \in Recorders, ReplaceLedger(o)
  PROVE  IInv'
<1>1. /\ writer[o] \in Command /\ At(o, "replace") /\ Working(o) /\ Writing(o)
      /\ draft' = {} /\ crowded' = crowded /\ results' = results /\ Observe
  BY DEF ReplaceLedger, IInv, LedgerTypeOK, At, Working, Writing
<1>2. NoCommand \in Command /\ NoCommand.pc = "idle" BY Documents
<1>3. /\ writer' \in [Recorders -> Command] /\ writer'[o] = NoCommand
      /\ \A p \in Recorders : p # o =>
           writer'[p].pc = writer[p].pc /\ writer'[p].document = writer[p].document
  <2>1. CASE draft = {}
    <3>1. Continue(o, NoCommand) BY <2>1 DEF ReplaceLedger
    <3> QED BY <1>2, <3>1, Continued DEF IInv
  <2>2. CASE draft # {}
    <3>1. writer' = [p \in Recorders |-> IF p = o THEN NoCommand
                                         ELSE [writer[p] EXCEPT !.handle = Moved(@)]]
      BY <2>2 DEF ReplaceLedger
    <3>2. \A h \in {"none", "draft", "ledger", "gone"} : Moved(h) \in {"none", "draft", "ledger", "gone"}
      BY DEF Moved
    <3>3. \A w \in Command : LET v == [w EXCEPT !.handle = Moved(@)]
                             IN v \in Command /\ v.pc = w.pc /\ v.document = w.document
      BY <3>2 DEF Command
    <3>4. \A p \in Recorders : writer[p] \in Command BY DEF IInv, LedgerTypeOK
    <3> QED BY <1>2, <3>1, <3>3, <3>4
  <2> QED BY <2>1, <2>2
<1>4. ledger' = ledger \/ ledger' \in draft BY DEF ReplaceLedger
<1>5. LedgerTypeOK' BY <1>1, <1>3, <1>4 DEF IInv, LedgerTypeOK
<1>6. ASSUME NEW s, s = settled PROVE Kept(s)'
  <2>1. Kept(s) BY <1>6 DEF IInv
  <2>2. Holds(ledger', s) BY <1>1, <1>4, <2>1 DEF Kept
  <2>3. \A p \in Recorders : Working(p)' =>
          Working(p) /\ writer'[p].document = writer[p].document
    BY <1>2, <1>3 DEF Working
  <2>4. \A p \in Recorders : Working(p)' =>
          writer'[p].document.state = "whole" /\ s \subseteq Facts(writer'[p].document)
    BY <2>1, <2>3 DEF Kept
  <2> QED BY <1>1, <2>2, <2>4 DEF Kept, Holds
<1>7. Kept(settled)' BY <1>1, <1>6, Observed
<1>8. ASSUME ~crowded' PROVE Alone'
  <2>1. Alone BY <1>1, <1>8 DEF IInv
  <2>2. \A p \in Recorders : At(p, "idle")'
    BY <1>1, <1>2, <1>3, <2>1 DEF Alone, Working, At
  <2>3. \A p \in Recorders : ~Working(p)' /\ ~Writing(p)' /\ ~At(p, "verify")' /\ ~At(p, "open")'
                               /\ ~At(p, "fill")' /\ ~At(p, "replace")'
    BY <2>2 DEF Working, Writing, At
  <2>4. draft = {writer[o].document} /\ Ready(writer[o].document) BY <1>1, <2>1 DEF Alone
  <2>5. writer[o].document.state = "whole" BY <1>1 DEF IInv, Kept
  <2>6. ledger'.state = "whole" /\ Ready(ledger') BY <1>4, <2>1, <2>4, <2>5 DEF Alone
  <2> QED BY <2>3, <2>6, AloneNext
<1> QED BY <1>5, <1>7, <1>8 DEF IInv

-----------------------------------------------------------------------------
LEMMA StutterStep ==
  ASSUME IInv, UNCHANGED ledgerVars
  PROVE  IInv'
<1>1. /\ ledger' = ledger /\ draft' = draft /\ writer' = writer /\ results' = results
      /\ settled' = settled /\ crowded' = crowded
  BY DEF ledgerVars
<1>2. LedgerTypeOK' BY <1>1 DEF IInv, LedgerTypeOK
<1>3. Kept(settled)' BY <1>1 DEF IInv, Kept, Holds, Facts, Working, Writing, At
<1>4. ASSUME Alone PROVE Alone'
  <2>1. \A o \in Recorders : At(o, "verify")' => writer'[o].document = Written(ledger'.events, TRUE)
    BY <1>1, <1>4 DEF Alone, At
  <2>2. \A o \in Recorders : At(o, "open")' \/ Writing(o)' => Ready(writer'[o].document)
    BY <1>1, <1>4 DEF Alone, At, Writing
  <2>3. \A o \in Recorders : At(o, "fill")' =>
          writer'[o].handle = "draft" /\ draft' = {Unreadable("empty")}
    BY <1>1, <1>4 DEF Alone, At
  <2>4. \A o \in Recorders : At(o, "replace")' => draft' = {writer'[o].document}
    BY <1>1, <1>4 DEF Alone, At
  <2>5. ledger'.state = "whole" /\ Ready(ledger') BY <1>1, <1>4 DEF Alone
  <2>6. \A o, p \in Recorders : Working(o)' /\ Working(p)' => o = p
    BY <1>1, <1>4 DEF Alone, Working
  <2> QED BY <2>1, <2>2, <2>3, <2>4, <2>5, <2>6, AloneNext
<1> QED BY <1>1, <1>2, <1>3, <1>4 DEF IInv

LEMMA InductiveStep == IInv /\ [LedgerNext]_ledgerVars => IInv'
<1> SUFFICES ASSUME IInv, [LedgerNext]_ledgerVars PROVE IInv'
  OBVIOUS
<1>1. CASE UNCHANGED ledgerVars BY <1>1, StutterStep
<1>2. ASSUME NEW o \in Recorders, LedgerStep(o) PROVE IInv'
  BY <1>2, ResultStep, CertificateStep, VerifyStep, OpenStep, FillStep, ReplaceStep,
     InterruptStep DEF LedgerStep
<1> QED BY <1>1, <1>2 DEF LedgerNext, LedgerHorizon

LEMMA InitInductive == LedgerInit => IInv
<1> SUFFICES ASSUME LedgerInit PROVE IInv
  OBVIOUS
<1>1. <<>> \in Seq(Result) OBVIOUS
<1>2. /\ ledger \in Document /\ ledger.state = "whole" /\ ~ledger.certified
  BY <1>1, Documents DEF LedgerInit
<1>3. LedgerTypeOK BY <1>2, Documents DEF LedgerInit, LedgerTypeOK
<1>4. \A o \in Recorders : At(o, "idle") BY Documents DEF LedgerInit, At
<1>5. \A o \in Recorders : ~Working(o) /\ ~Writing(o) /\ ~At(o, "verify") /\ ~At(o, "open")
                             /\ ~At(o, "fill") /\ ~At(o, "replace")
  BY <1>4 DEF Working, Writing, At
<1>6. Kept(settled) BY <1>5 DEF Kept, Holds, LedgerInit
<1>7. Alone BY <1>2, <1>5 DEF Alone, Ready
<1> QED BY <1>3, <1>6, <1>7 DEF IInv

\* However commands overlap and are killed, what was in the ledger while nobody worked
\* on it stays there while the ledger can be read, and one that cannot be read takes two
\* commands at once; without overlap only a complete ledger is certified.
THEOREM LedgerSafety == LedgerSpec => [](LedgerKeepsSettled /\ CertifiedIsComplete)
<1>1. IInv => LedgerKeepsSettled /\ CertifiedIsComplete
  BY DEF IInv, Kept, Holds, Alone, Ready, LedgerKeepsSettled, CertifiedIsComplete
<1> QED BY <1>1, InitInductive, InductiveStep, PTL DEF LedgerSpec

-----------------------------------------------------------------------------
(* DoraCollector.                                                          *)

DeploymentRow ==
  [environment : Environments, deployed : Nat, status : {"success", "failed"}]
IncidentRow ==
  [environment : Environments, deployment : DeploymentIds,
   started : Nat, recovered : Nat \cup {Unrecovered}]

\* An incident is a row once it was recorded, and is recorded before it is recovered.
DoraInv ==
  /\ clock \in Nat
  /\ deployments \in [DeploymentIds -> DeploymentRow \cup {NoRow}]
  /\ incidents \in [IncidentIds -> IncidentRow \cup {NoRow}]
  /\ starts \in [IncidentIds -> 0..2]
  /\ \A i \in IncidentIds : incidents[i] # NoRow => starts[i] >= 1
  /\ \A i \in toldRecovered : i \in IncidentIds /\ starts[i] >= 1
  /\ RecoveryKept /\ RecoveredAfterStart

LEMMA DeploymentStep ==
  ASSUME DoraInv, NEW d \in DeploymentIds, NEW environment \in Environments,
         NEW deployed \in 0..clock, NEW status \in {"success", "failed"},
         RecordDeployment(d, environment, deployed, status)
  PROVE  DoraInv'
<1> DEFINE row == [environment |-> environment, deployed |-> deployed, status |-> status]
<1>1. row \in DeploymentRow BY DEF DeploymentRow, DoraInv
<1>2. deployments' = [deployments EXCEPT ![d] = row] BY DEF RecordDeployment
<1> HIDE DEF row
<1>3. deployments' \in [DeploymentIds -> DeploymentRow \cup {NoRow}] BY <1>1, <1>2 DEF DoraInv
<1> QED BY <1>3 DEF DoraInv, RecordDeployment, RecoveryKept, RecoveredAfterStart

LEMMA IncidentStep ==
  ASSUME DoraInv, NEW i \in IncidentIds, NEW environment \in Environments,
         NEW deployment \in DeploymentIds, NEW started \in 0..clock,
         NEW recovered \in (0..clock) \cup {Unrecovered},
         RecordIncident(i, environment, deployment, started, recovered)
  PROVE  DoraInv'
<1> DEFINE row == [environment |-> environment, deployment |-> deployment,
                   started |-> started, recovered |-> recovered]
<1>1. row \in IncidentRow /\ row.started = started /\ row.recovered = recovered
  BY DEF IncidentRow, DoraInv
<1>2. /\ recovered = Unrecovered \/ recovered >= started
      /\ incidents' = [incidents EXCEPT ![i] = row]
      /\ starts' = [starts EXCEPT ![i] = IF @ < 2 THEN @ + 1 ELSE 2]
      /\ UNCHANGED <<deployments, clock, toldRecovered>>
  BY DEF RecordIncident
<1> HIDE DEF row
<1>3. /\ incidents' \in [IncidentIds -> IncidentRow \cup {NoRow}]
      /\ incidents'[i] = row
      /\ \A j \in IncidentIds : j # i => incidents'[j] = incidents[j]
  BY <1>1, <1>2 DEF DoraInv
<1>4. /\ starts' \in [IncidentIds -> 0..2]
      /\ starts'[i] >= 1 /\ (starts[i] >= 1 => starts'[i] = 2)
      /\ \A j \in IncidentIds : j # i => starts'[j] = starts[j]
  BY <1>2 DEF DoraInv
<1>5. RecoveryKept' BY <1>2, <1>3, <1>4 DEF DoraInv, RecoveryKept
<1>6. RecoveredAfterStart' BY <1>1, <1>2, <1>3 DEF DoraInv, RecoveredAfterStart
<1> QED BY <1>2, <1>3, <1>4, <1>5, <1>6 DEF DoraInv

LEMMA RecoverStep ==
  ASSUME DoraInv, NEW i \in IncidentIds, NEW recovered \in 0..clock,
         RecoverIncident(i, recovered)
  PROVE  DoraInv'
<1> DEFINE row == [incidents[i] EXCEPT !.recovered = recovered]
<1>1. incidents[i] \in IncidentRow BY DEF RecoverIncident, DoraInv
<1>2. /\ row \in IncidentRow /\ row.recovered = recovered /\ recovered # Unrecovered
      /\ row.started = incidents[i].started
  BY <1>1 DEF IncidentRow, DoraInv, Unrecovered
<1>3. incidents' = [incidents EXCEPT ![i] = row] BY DEF RecoverIncident
<1> HIDE DEF row
<1>4. /\ incidents' \in [IncidentIds -> IncidentRow \cup {NoRow}]
      /\ incidents'[i] = row
      /\ \A j \in IncidentIds : j # i => incidents'[j] = incidents[j]
  BY <1>2, <1>3 DEF DoraInv
<1>5. /\ incidents[i] # NoRow /\ recovered >= incidents[i].started
      /\ toldRecovered' = toldRecovered \cup {i}
      /\ UNCHANGED <<deployments, clock, starts>>
  BY DEF RecoverIncident
<1>6. RecoveryKept' BY <1>2, <1>4, <1>5 DEF DoraInv, RecoveryKept
<1>7. RecoveredAfterStart' BY <1>2, <1>4, <1>5 DEF DoraInv, RecoveredAfterStart
<1> QED BY <1>4, <1>5, <1>6, <1>7 DEF DoraInv

LEMMA DoraInvariance == DoraInv /\ [DoraNext]_doraVars => DoraInv'
<1> SUFFICES ASSUME DoraInv, [DoraNext]_doraVars PROVE DoraInv'
  OBVIOUS
<1>1. CASE UNCHANGED doraVars
  BY <1>1 DEF doraVars, DoraInv, RecoveryKept, RecoveredAfterStart
<1>2. CASE DoraTick
  BY <1>2 DEF DoraTick, DoraInv, RecoveryKept, RecoveredAfterStart
<1> QED BY <1>1, <1>2, DeploymentStep, IncidentStep, RecoverStep DEF DoraNext

\* In whatever order reports come, late, again or corrected: a caller that was told of
\* a recovery finds it (recover_incident), unless the incident is recorded again, and
\* no time to recovery is negative (record_incident).
THEOREM DoraSafety == DoraSpec => [](RecoveryKept /\ RecoveredAfterStart)
<1>1. DoraInit => DoraInv
  BY DEF DoraInit, DoraInv, RecoveryKept, RecoveredAfterStart
<1>2. DoraInv => RecoveryKept /\ RecoveredAfterStart BY DEF DoraInv
<1> QED BY <1>1, <1>2, DoraInvariance, PTL DEF DoraSpec

LEMMA SecondIsPositive == Second \in Int /\ Second > 0 BY DoraAssumption

\* An instant is its second and a fraction.
LEMMA Instant ==
  ASSUME NEW s \in Int
  PROVE  /\ s \div Second \in Int /\ Second * (s \div Second) \in Int
         /\ s % Second \in 0..(Second - 1)
         /\ s = Second * (s \div Second) + (s % Second)
<1> DEFINE n == Second
<1>1. n \in Int /\ n > 0 BY SecondIsPositive
<1> HIDE DEF n
<1>2. /\ s \div n \in Int /\ n * (s \div n) \in Int
      /\ s % n \in 0..(n - 1)
      /\ s = n * (s \div n) + (s % n)
  BY <1>1
<1> QED BY <1>2 DEF n

LEMMA Multiples ==
  ASSUME NEW p \in Int, NEW q \in Int, q > p
  PROVE  Second * q >= Second * p + Second
<1> DEFINE n == Second
<1>1. n \in Int /\ n > 0 BY SecondIsPositive
<1> HIDE DEF n
<1>2. n * q >= n * p + n
  <2>1. q = (p + 1) + (q - p - 1) /\ q - p - 1 \in Nat BY DEF n
  <2>2. n * q = n * (p + 1) + n * (q - p - 1) BY <1>1
  <2>3. n * (q - p - 1) >= 0 BY <1>1, <2>1
  <2>4. n * (p + 1) = n * p + n BY <1>1
  <2>5. n * q \in Int /\ n * p \in Int /\ n * (p + 1) \in Int /\ n * (q - p - 1) \in Int BY <1>1
  <2> QED BY <1>1, <2>2, <2>3, <2>4, <2>5
<1> QED BY <1>2 DEF n

\* The text of an instant is in the order within the texts of its second.
LEMMA Texts ==
  ASSUME NEW s \in Int
  PROVE  /\ TextOrder(s) \in Int
         /\ TextOrder(s) >= 2 * (Second * (s \div Second))
         /\ TextOrder(s) <= 2 * (Second * (s \div Second)) + 2 * Second - 1
<1> DEFINE a == Second * (s \div Second)
           f == s % Second
<1>1. a \in Int /\ f \in 0..(Second - 1) /\ s = a + f BY Instant
<1>2. TextOrder(s) = IF f = 0 THEN 2 * (s + Second) - 1 ELSE 2 * s BY DEF TextOrder
<1> HIDE DEF a, f
<1>3. /\ TextOrder(s) \in Int
      /\ TextOrder(s) >= 2 * a
      /\ TextOrder(s) <= 2 * a + 2 * Second - 1
  BY <1>1, <1>2, SecondIsPositive
<1> QED BY <1>3 DEF a

\* What started in a later second than the window has a later text than the window's.
LEMMA LaterCounted ==
  ASSUME NEW start \in Int, NEW deployed \in Int, NEW started \in Int,
         started >= deployed, deployed \div Second > start \div Second
  PROVE  TextOrder(started) >= TextOrder(start)
<1> DEFINE n == Second
           b == n * (start \div n)
           d == n * (deployed \div n)
           s == n * (started \div n)
<1>1. n \in Int /\ n > 0 BY SecondIsPositive
<1>2. d >= b + n BY Instant, Multiples
<1>3. /\ d <= deployed /\ d \in Int /\ s \in Int /\ b \in Int /\ started < s + n
      /\ started \div n \in Int /\ start \div n \in Int
  <2>1. d \in Int /\ deployed = d + (deployed % n) /\ deployed % n \in 0..(n - 1) BY Instant
  <2>2. s \in Int /\ started = s + (started % n) /\ started % n \in 0..(n - 1) BY Instant
  <2>3. b \in Int /\ started \div n \in Int /\ start \div n \in Int BY Instant
  <2> HIDE DEF n, b, d, s
  <2> QED BY <1>1, <2>1, <2>2, <2>3
<1>4. s >= b + n
  <2>1. CASE started \div n > start \div n BY <1>3, <2>1, Multiples
  <2>2. CASE ~(started \div n > start \div n)
    <3>1. start \div n = started \div n \/ start \div n > started \div n BY <1>3, <2>2
    <3>2. b = s \/ b >= s + n BY <1>3, <3>1, Multiples
    <3> HIDE DEF n, b, d, s
    <3> QED BY <1>1, <1>2, <1>3, <3>2
  <2> QED BY <2>1, <2>2
<1>5. TextOrder(started) \in Int /\ TextOrder(started) >= 2 * s BY Texts
<1>6. TextOrder(start) \in Int /\ TextOrder(start) <= 2 * b + 2 * n - 1 BY Texts
<1> HIDE DEF n, b, d, s
<1> QED BY <1>1, <1>3, <1>4, <1>5, <1>6

\* For every window, resolution of the clock and set of rows: the incident of a counted
\* deployment is counted too, unless the deployment is in the second in which the
\* window begins (dora_metrics compares the texts of the times).
THEOREM FailuresSafety == DoraSpec => []FailuresCounted
<1>1. ASSUME DoraInv PROVE FailuresCounted
  <2> SUFFICES ASSUME NEW environment \in Environments,
                      NEW d \in CountedDeployments(environment), NEW i \in IncidentIds,
                      incidents[i].environment = environment,
                      incidents[i].deployment = d,
                      incidents[i].started >= deployments[d].deployed,
                      deployments[d].deployed \div Second > (clock - WindowSize) \div Second
               PROVE  d \in ChangeFailures(environment)
    BY DEF FailuresCounted
  <2>1. d \in DeploymentIds /\ deployments[d].environment = environment
    BY DEF CountedDeployments
  <2>2. environment # NoRow.environment
    <3>1. NoRow.environment = "" BY DEF NoRow
    <3>2. environment # "" BY EnvironmentAssumption, Zenon
    <3> QED BY <3>1, <3>2, Zenon
  <2> DEFINE started == incidents[i].started
             deployed == deployments[d].deployed
             start == clock - WindowSize
  <2>3. started \in Int
    BY <1>1, <2>2 DEF DoraInv, IncidentRow
  <2>4. deployed \in Int
    BY <1>1, <2>1, <2>2 DEF DoraInv, DeploymentRow
  <2>5. start \in Int BY <1>1, DoraAssumption DEF DoraInv
  <2>6. TextOrder(started) >= TextOrder(start)
    <3>1. started >= deployed /\ deployed \div Second > start \div Second OBVIOUS
    <3> HIDE DEF started, deployed, start
    <3> QED BY <2>3, <2>4, <2>5, <3>1, LaterCounted
  <2>7. InWindow(started) BY <2>6 DEF InWindow
  <2>8. i \in CountedIncidents(environment) BY <2>7 DEF CountedIncidents
  <2> QED BY <2>8 DEF ChangeFailures
<1>2. DoraInit => DoraInv
  BY DEF DoraInit, DoraInv, RecoveryKept, RecoveredAfterStart
<1> QED BY <1>1, <1>2, DoraInvariance, PTL DEF DoraSpec

-----------------------------------------------------------------------------
(* PrivateMirror.                                                          *)

Repository == [visibility : {"ABSENT", "PRIVATE", "INTERNAL", "PUBLIC"}, branch : Nat]
Using == {"push", "configure", "verify", "last view", "issue"}
Steps == Using \cup {"idle", "fetch", "view", "view again", "create", "view target"}

MirrorInv ==
  /\ target \in Repository
  /\ phase \in [Runs -> Steps]
  /\ expected \in [Runs -> Nat]
  /\ opened \subseteq Runs
  /\ PrivateWhenUsed

\* A run goes on while the target stays as it is, or becomes private.
LEMMA GoneOn ==
  ASSUME MirrorInv, NEW r \in Runs, NEW from \in Steps, NEW to \in Steps, Goes(r, from, to)
  PROVE  /\ phase' \in [Runs -> Steps] /\ phase[r] = from /\ phase'[r] = to
         /\ \A s \in Runs : s # r => phase'[s] = phase[s]
  BY DEF MirrorInv, Goes

\* To use the target after a look at it is no different from using it before.
LEMMA PassesStep ==
  ASSUME MirrorInv, NEW r \in Runs, NEW from \in Steps, NEW to \in Steps,
         Passes(r, from, to), to \in Using => from \in Using
  PROVE  MirrorInv'
  BY GoneOn DEF Passes, MirrorInv, PrivateWhenUsed, Using

LEMMA ViewStep ==
  ASSUME MirrorInv, NEW r \in Runs, NEW from \in Steps, NEW to \in Steps, View(r, from, to)
  PROVE  MirrorInv'
<1>1. target.visibility = "PRIVATE" BY DEF View, Accepted
<1>2. phase' \in [Runs -> Steps] BY GoneOn DEF View
<1> QED BY <1>1, <1>2 DEF View, MirrorInv, PrivateWhenUsed

LEMMA Rebranched ==
  ASSUME NEW repository \in Repository, NEW commit \in Nat
  PROVE  /\ [repository EXCEPT !.branch = commit] \in Repository
         /\ [repository EXCEPT !.branch = commit].visibility = repository.visibility
  BY DEF Repository

LEMMA Repainted ==
  ASSUME NEW repository \in Repository, NEW visibility \in {"PRIVATE", "INTERNAL", "PUBLIC"}
  PROVE  [repository EXCEPT !.visibility = visibility] \in Repository
  BY DEF Repository

LEMMA SyncStep ==
  ASSUME MirrorInv, NEW r \in Runs, Sync(r)
  PROVE  MirrorInv'
<1>1. ASSUME NEW commit \in Commits, BeginSync(r, commit) PROVE MirrorInv'
  <2>1. /\ phase' \in [Runs -> Steps] /\ phase'[r] = "fetch"
        /\ \A s \in Runs : s # r => phase'[s] = phase[s]
    BY <1>1, GoneOn DEF BeginSync, Using, Steps
  <2>2. commit \in Nat BY MirrorAssumption DEF Commits
  <2> QED BY <1>1, <2>1, <2>2 DEF BeginSync, MirrorInv, PrivateWhenUsed
<1>2. CASE FetchSource(r) BY <1>2, PassesStep DEF FetchSource, Using, Steps
<1>3. CASE FindNoTarget(r) BY <1>3, PassesStep DEF FindNoTarget, Using, Steps
<1>4. CASE CreateTarget(r)
  <2>1. phase' \in [Runs -> Steps] BY <1>4, GoneOn DEF CreateTarget, Using, Steps
  <2> QED BY <1>4, <2>1 DEF CreateTarget, MirrorInv, PrivateWhenUsed, Repository, NoCommit
<1>5. CASE View(r, "view", "push") \/ View(r, "view again", "push") \/ View(r, "last view", "idle")
  BY <1>5, ViewStep DEF Using, Steps
<1>6. CASE PushCommit(r)
  <2>1. /\ phase' \in [Runs -> Steps] /\ phase[r] = "push"
        /\ \A s \in Runs : s # r => phase'[s] = phase[s]
    BY <1>6, GoneOn DEF PushCommit, Using, Steps
  <2>2. expected[r] \in Nat /\ target' = [target EXCEPT !.branch = expected[r]]
    BY <1>6 DEF PushCommit, MirrorInv
  <2>3. target' \in Repository /\ target'.visibility = target.visibility
    BY <2>2, Rebranched DEF MirrorInv
  <2> QED BY <1>6, <2>1, <2>3 DEF PushCommit, MirrorInv, PrivateWhenUsed
<1>7. CASE ConfigureTarget(r) BY <1>7, PassesStep DEF ConfigureTarget, Using, Steps
<1>8. CASE VerifyCommit(r) BY <1>8, PassesStep DEF VerifyCommit, Using, Steps
<1> QED BY <1>1, <1>2, <1>3, <1>4, <1>5, <1>6, <1>7, <1>8 DEF Sync

LEMMA MirrorInvariance == MirrorInv /\ [MirrorNext]_mirrorVars => MirrorInv'
<1> SUFFICES ASSUME MirrorInv, [MirrorNext]_mirrorVars PROVE MirrorInv'
  OBVIOUS
<1>1. CASE UNCHANGED mirrorVars BY <1>1 DEF mirrorVars, MirrorInv, PrivateWhenUsed
<1>2. ASSUME NEW r \in Runs, Issue(r) PROVE MirrorInv'
  BY <1>2, PassesStep, ViewStep DEF Issue, BeginIssue, IssueToken, Using, Steps
<1>3. ASSUME NEW r \in Runs, FailRun(r) PROVE MirrorInv'
  <2> DEFINE from == phase[r]
  <2>1. from \in Steps /\ from # "idle" /\ Passes(r, from, "idle")
    BY <1>3 DEF FailRun, MirrorInv
  <2>2. "idle" \in Steps /\ "idle" \notin Using BY DEF Steps, Using
  <2> HIDE DEF from
  <2> QED BY <2>1, <2>2, PassesStep
<1>4. CASE Develop BY <1>4 DEF Develop, MirrorInv, PrivateWhenUsed
<1>5. CASE ChangeTarget
  <2>1. target' \in Repository
    <3>1. CASE target' = NoTarget BY <3>1 DEF NoTarget, NoCommit, Repository
    <3>2. CASE target' # NoTarget
      <4>1. PICK visibility \in {"PRIVATE", "INTERNAL", "PUBLIC"} :
              target' = [target EXCEPT !.visibility = visibility]
        BY <1>5, <3>2 DEF ChangeTarget
      <4> QED BY <4>1, Repainted DEF MirrorInv
    <3> QED BY <3>1, <3>2
  <2>2. opened' = Runs /\ UNCHANGED <<phase, expected>> BY <1>5 DEF ChangeTarget
  <2> QED BY <2>1, <2>2 DEF MirrorInv, PrivateWhenUsed
<1>6. CASE PushToTarget
  <2>1. PICK commit \in Commits \cup {ForeignCommit} : target' = [target EXCEPT !.branch = commit]
    BY <1>6 DEF PushToTarget
  <2>2. commit \in Nat BY <2>1, MirrorAssumption DEF Commits, ForeignCommit
  <2>3. /\ target' \in Repository
        /\ target'.visibility = target.visibility
    BY <2>1, <2>2, Rebranched DEF MirrorInv
  <2> QED BY <1>6, <2>3 DEF PushToTarget, MirrorInv, PrivateWhenUsed
<1> QED BY <1>1, <1>2, <1>3, <1>4, <1>5, <1>6, SyncStep DEF MirrorNext

\* For any number of overlapping runs, of failures and of changes that others make: a
\* run pushes, or issues a token, only while the target is private, unless it was
\* changed after that run's own look at it (_target_visibility).
THEOREM MirrorSafety == MirrorSpec => []PrivateWhenUsed
<1>1. MirrorInit => MirrorInv
  BY DEF MirrorInit, MirrorInv, PrivateWhenUsed, NoTarget, NoCommit, Repository, Steps
<1>2. MirrorInv => PrivateWhenUsed BY DEF MirrorInv
<1> QED BY <1>1, <1>2, MirrorInvariance, PTL DEF MirrorSpec
-----------------------------------------------------------------------------
(* The identity report (IdentityResolver).  The provers have no induction  *)
(* rule for a recursive function: that the naturals are well founded gives *)
(* one for sets (SetInduction), and with it that a function defined step   *)
(* by step exists (StepsExist), that every row of a forest whose ranks     *)
(* grow upwards has one root (OneRoot), what a union does to the groups    *)
(* (UnionJoins), and so what the whole merge does (ResolvedJoins).         *)

Below == {ss \in Nat \X Nat : ss[1] < ss[2]}

\* The order of the naturals is well founded.
LEMMA BelowIs == IsWellFoundedOn(Below, Nat)
<1>1. Below = OpToRel(<, Nat) BY Zenon DEF OpToRel, Below
<1> QED BY <1>1, NatLessThanWellFounded, Zenon

\* A set of naturals that is not empty has a least element.
LEMMA LeastExists ==
  ASSUME NEW S, S \subseteq Nat, S # {}
  PROVE  \E x \in S : \A y \in S : x <= y
<1>1. PICK x \in S : \A y \in S : <<y, x>> \notin Below BY WFMin, BelowIs
<1>2. \A y \in S : ~(y < x)
  BY <1>1 DEF Below
<1> QED BY <1>1, <1>2

\* A set that holds 0 and every successor of its elements holds every natural.
LEMMA SetInduction ==
  ASSUME NEW T, 0 \in T, \A n \in Nat : n \in T => n + 1 \in T
  PROVE  Nat \subseteq T
<1> DEFINE S == Nat \ T
<1> SUFFICES ASSUME S # {} PROVE FALSE
  OBVIOUS
<1>1. PICK x \in S : \A y \in S : x <= y
  <2> HIDE DEF S
  <2>1. S \subseteq Nat BY DEF S
  <2> QED BY <2>1, LeastExists
<1>2. x \in Nat /\ x # 0 OBVIOUS
<1>3. x - 1 \in Nat /\ ~(x <= x - 1) BY <1>2
<1>4. x - 1 \in T BY <1>1, <1>3
<1> QED BY <1>2, <1>3, <1>4

Stepwise(f, S, first, K, step) ==
  f \in [0..K -> S] /\ f[0] = first /\ \A k \in 1..K : f[k] = step[<<f[k - 1], k>>]

\* What is defined step by step exists.
LEMMA StepsExist ==
  ASSUME NEW S, NEW first \in S, NEW K \in Nat, NEW step \in [S \X (1..K) -> S]
  PROVE  \E f : Stepwise(f, S, first, K, step)
<1> DEFINE Upto(n, f) == /\ f \in [0..n -> S] /\ f[0] = first
                         /\ \A k \in 1..n : f[k] = step[<<f[k - 1], k>>]
           T == {n \in Nat : n <= K => \E f : Upto(n, f)}
<1>1. 0 \in T
  <2>1. Upto(0, [k \in 0..0 |-> first]) OBVIOUS
  <2> QED BY <2>1
<1>2. ASSUME NEW n \in Nat, n \in T PROVE n + 1 \in T
  <2> SUFFICES ASSUME n + 1 <= K PROVE \E f : Upto(n + 1, f)
    OBVIOUS
  <2>1. PICK f : Upto(n, f) BY <1>2
  <2> DEFINE g == [k \in 0..(n + 1) |-> IF k = n + 1 THEN step[<<f[n], n + 1>>] ELSE f[k]]
  <2>2. n + 1 \in 1..K /\ f[n] \in S BY <2>1
  <2>3. step[<<f[n], n + 1>>] \in S BY <2>2
  <2>4. \A k \in 0..n : k # n + 1 /\ k \in 0..(n + 1) /\ g[k] = f[k] OBVIOUS
  <2>5. g[n + 1] = step[<<f[n], n + 1>>] OBVIOUS
  <2>6. g \in [0..(n + 1) -> S] BY <2>1, <2>3
  <2> HIDE DEF g
  <2>7. ASSUME NEW k \in 1..(n + 1) PROVE g[k] = step[<<g[k - 1], k>>]
    <3>1. CASE k = n + 1 BY <2>4, <2>5, <3>1
    <3>2. CASE k # n + 1
      <4>1. k \in 1..n /\ k \in 0..n /\ k - 1 \in 0..n BY <3>2
      <4> QED BY <2>1, <2>4, <4>1
    <3> QED BY <3>1, <3>2
  <2>8. g[0] = first BY <2>1, <2>4
  <2>9. Upto(n + 1, g) BY <2>6, <2>7, <2>8
  <2> QED BY <2>9
<1>3. K \in T BY <1>1, <1>2, SetInduction
<1> QED BY <1>3 DEF Stepwise

-----------------------------------------------------------------------------
Forest(A) == [parent : [A -> A], rank : [A -> Nat]]

\* Ranks grow towards the roots, and are bounded.
Sound(uf, A) ==
  /\ uf \in Forest(A)
  /\ \A m \in A : uf.parent[m] # m => uf.rank[m] < uf.rank[uf.parent[m]]
  /\ \E b \in Nat : \A m \in A : uf.rank[m] <= b

\* Induction from the roots down.
LEMMA DownInduction ==
  ASSUME NEW A, NEW uf, Sound(uf, A), NEW T,
         \A m \in A : (uf.parent[m] = m \/ uf.parent[m] \in T) => m \in T
  PROVE  A \subseteq T
<1>1. PICK b \in Nat : \A m \in A : uf.rank[m] <= b BY DEF Sound
<1>2. \A m \in A : uf.parent[m] \in A /\ uf.rank[m] \in Nat BY DEF Sound, Forest
<1> DEFINE N == {k \in Nat : \A m \in A : uf.rank[m] + k >= b => m \in T}
<1>3. 0 \in N
  <2> SUFFICES ASSUME NEW m \in A, uf.rank[m] >= b PROVE m \in T
    BY <1>2
  <2>1. uf.parent[m] = m
    <3> SUFFICES ASSUME uf.parent[m] # m PROVE FALSE
      OBVIOUS
    <3>1. uf.rank[m] < uf.rank[uf.parent[m]] BY DEF Sound
    <3>2. uf.rank[uf.parent[m]] <= b /\ uf.rank[uf.parent[m]] \in Nat BY <1>1, <1>2
    <3> QED BY <1>2, <3>1, <3>2
  <2> QED BY <2>1
<1>4. ASSUME NEW k \in Nat, k \in N PROVE k + 1 \in N
  <2> SUFFICES ASSUME NEW m \in A, uf.rank[m] + (k + 1) >= b PROVE m \in T
    OBVIOUS
  <2>1. CASE uf.parent[m] = m BY <2>1
  <2>2. CASE uf.parent[m] # m
    <3>1. uf.rank[m] < uf.rank[uf.parent[m]] BY <2>2 DEF Sound
    <3>2. uf.parent[m] \in A /\ uf.rank[uf.parent[m]] \in Nat /\ uf.rank[m] \in Nat BY <1>2
    <3>3. uf.rank[uf.parent[m]] + k >= b BY <3>1, <3>2
    <3>4. uf.parent[m] \in T BY <1>4, <3>2, <3>3
    <3> QED BY <3>4
  <2> QED BY <2>1, <2>2
<1>5. b \in N BY <1>3, <1>4, SetInduction
<1>6. \A m \in A : uf.rank[m] + b >= b BY <1>2
<1> QED BY <1>5, <1>6

\* The recursive function in Path.
PathsBy(paths, uf) ==
  [m \in DOMAIN uf.parent |->
     {m} \cup (IF uf.parent[m] = m THEN {} ELSE paths[uf.parent[m]])]
Paths(uf) == CHOOSE paths : paths = PathsBy(paths, uf)

\* A path is a value of the function that its recursion defines.
LEMMA PathIs == ASSUME NEW uf, NEW n PROVE Path(uf, n) = Paths(uf)[n]
  BY DEF Path, Paths, PathsBy

\* A path is its row and the path above, the least set with the row that is closed upwards.
LEMMA PathSteps ==
  ASSUME NEW A, NEW uf \in Forest(A), NEW m \in A
  PROVE  Path(uf, m) = {m} \cup (IF uf.parent[m] = m THEN {} ELSE Path(uf, uf.parent[m]))
<1> DEFINE p == uf.parent
           Above(S) == \A y \in S : p[y] \in S
           Reach(n) == {x \in A : \A S \in SUBSET A : n \in S /\ Above(S) => x \in S}
           paths == [n \in A |-> Reach(n)]
<1>1. p \in [A -> A] BY DEF Forest
<1> HIDE DEF p
<1>2. ASSUME NEW n \in A PROVE Reach(n) = {n} \cup (IF p[n] = n THEN {} ELSE Reach(p[n]))
  <2>1. CASE p[n] = n
    <3>1. {n} \in SUBSET A /\ Above({n}) BY <2>1
    <3> QED BY <2>1, <3>1
  <2>2. CASE p[n] # n
    <3>1. p[n] \in A BY <1>1
    <3>2. Reach(p[n]) \subseteq Reach(n) OBVIOUS
    <3> DEFINE U == {n} \cup Reach(p[n])
    <3>3. p[n] \in Reach(p[n]) BY <3>1
    <3>4. \A y \in Reach(p[n]) : p[y] \in Reach(p[n]) BY <1>1
    <3>5. U \in SUBSET A /\ n \in U /\ Above(U) BY <3>3, <3>4
    <3>6. Reach(n) \subseteq U BY <3>5
    <3>7. n \in Reach(n) OBVIOUS
    <3> HIDE DEF Reach
    <3> QED BY <2>2, <3>2, <3>6, <3>7
  <2> QED BY <2>1, <2>2
<1>3. paths = PathsBy(paths, uf)
  <2>1. DOMAIN uf.parent = A BY <1>1 DEF p
  <2>2. \A n \in A : p[n] \in A BY <1>1
  <2> HIDE DEF Reach
  <2>3. \A n \in A : paths[n] = {n} \cup (IF p[n] = n THEN {} ELSE paths[p[n]]) BY <1>2, <2>2
  <2> QED BY <2>1, <2>3 DEF PathsBy, p
<1> HIDE DEF paths
<1>4. Paths(uf) = PathsBy(Paths(uf), uf) BY <1>3 DEF Paths
<1>5. m \in DOMAIN uf.parent BY DEF Forest
<1>6. Paths(uf)[m] = {m} \cup (IF uf.parent[m] = m THEN {} ELSE Paths(uf)[uf.parent[m]])
  BY <1>4, <1>5 DEF PathsBy
<1> QED BY <1>6, PathIs

\* Every row has one root.
Rooted(uf, A, m) ==
  LET root == Root(uf, m)
  IN /\ root \in Path(uf, m) /\ uf.parent[root] = root
     /\ \A x \in Path(uf, m) : uf.parent[x] = x => x = root
     /\ Path(uf, m) \subseteq A
     /\ root = (IF uf.parent[m] = m THEN m ELSE Root(uf, uf.parent[m]))
     /\ uf.rank[m] <= uf.rank[root] /\ (root # m => uf.rank[m] < uf.rank[root])
     /\ \A x \in Path(uf, m) : Root(uf, x) = root

\* Every row of a sound forest has one root, which the row above it shares (find).
LEMMA OneRoot == ASSUME NEW A, NEW uf, Sound(uf, A) PROVE \A m \in A : Rooted(uf, A, m)
<1> DEFINE T == {m \in A : Rooted(uf, A, m)}
<1>1. uf \in Forest(A) /\ (\A m \in A : uf.parent[m] \in A /\ uf.rank[m] \in Nat)
  BY DEF Sound, Forest
<1>2. ASSUME NEW m \in A, uf.parent[m] = m \/ uf.parent[m] \in T PROVE Rooted(uf, A, m)
  <2>1. CASE uf.parent[m] = m
    <3>1. Path(uf, m) = {m} BY <1>1, <2>1, PathSteps
    <3>2. Root(uf, m) = m BY <2>1, <3>1 DEF Root
    <3> QED BY <1>1, <2>1, <3>1, <3>2 DEF Rooted
  <2>2. CASE uf.parent[m] # m
    <3> DEFINE q == uf.parent[m]
    <3>1. Rooted(uf, A, q) /\ q \in A BY <1>1, <1>2, <2>2
    <3>2. Path(uf, m) = {m} \cup Path(uf, q) BY <1>1, <2>2, PathSteps
    <3> DEFINE r == Root(uf, q)
    <3>3. /\ r \in Path(uf, m) /\ uf.parent[r] = r
          /\ \A x \in Path(uf, m) : uf.parent[x] = x => x = r
      BY <2>2, <3>1, <3>2 DEF Rooted
    <3>4. Root(uf, m) = r BY <3>3 DEF Root
    <3>5. uf.rank[m] < uf.rank[q] BY <2>2 DEF Sound
    <3>6. uf.rank[q] <= uf.rank[r] /\ r \in A BY <3>1 DEF Rooted
    <3>7. uf.rank[m] < uf.rank[r] BY <1>1, <3>1, <3>5, <3>6
    <3>8. uf.rank[m] <= uf.rank[r] BY <1>1, <3>6, <3>7
    <3>9. \A x \in Path(uf, m) : Root(uf, x) = r BY <3>1, <3>2, <3>4 DEF Rooted
    <3> HIDE DEF r
    <3>10. r = Root(uf, q) BY DEF r
    <3> QED BY <2>2, <3>1, <3>2, <3>3, <3>4, <3>7, <3>8, <3>9, <3>10 DEF Rooted
  <2> QED BY <2>1, <2>2
<1>3. A \subseteq T
  <2> HIDE DEF T
  <2>1. \A m \in A : (uf.parent[m] = m \/ uf.parent[m] \in T) => m \in T BY <1>2 DEF T
  <2> QED BY <2>1, DownInduction
<1> QED BY <1>3

\* The roots are the only function that follows the parents.
LEMMA RootsAre ==
  ASSUME NEW A, NEW uf, Sound(uf, A), NEW R,
         \A m \in A : R[m] = IF uf.parent[m] = m THEN m ELSE R[uf.parent[m]]
  PROVE  \A m \in A : Root(uf, m) = R[m]
<1> DEFINE T == {m \in A : Root(uf, m) = R[m]}
<1>1. ASSUME NEW m \in A, uf.parent[m] = m \/ uf.parent[m] \in T PROVE m \in T
  <2>1. Root(uf, m) = (IF uf.parent[m] = m THEN m ELSE Root(uf, uf.parent[m]))
    BY OneRoot DEF Rooted
  <2> QED BY <1>1, <2>1
<1>2. A \subseteq T
  <2> HIDE DEF T
  <2> QED BY <1>1, DownInduction
<1> QED BY <1>2

\* Rows with one root.
Same(uf, x, y) == Root(uf, x) = Root(uf, y)

\* What find hangs below a root keeps that root.
LEMMA CompressedSound ==
  ASSUME NEW A, NEW uf, Sound(uf, A), NEW n \in A
  PROVE  /\ Sound(Compressed(uf, n), A)
         /\ Compressed(uf, n).rank = uf.rank
         /\ \A m \in A : Root(Compressed(uf, n), m) = Root(uf, m)
<1> DEFINE root == Root(uf, n)
           path == Path(uf, n)
           p == [m \in A |-> IF m \in path THEN root ELSE uf.parent[m]]
           new == [parent |-> p, rank |-> uf.rank]
<1>1. uf \in Forest(A) BY DEF Sound
<1>2. \A m \in A : Rooted(uf, A, m) BY OneRoot
<1>3. path \subseteq A /\ root \in A /\ uf.parent[root] = root
  BY <1>2 DEF Rooted
<1>4. \A m \in path : Root(uf, m) = root BY <1>2 DEF Rooted
<1>5. Compressed(uf, n) = new
  BY <1>1 DEF Compressed, Forest
<1> HIDE DEF root, path
<1>6. new \in Forest(A) BY <1>1, <1>3 DEF Forest
<1>7. \A m \in A : p[m] = IF m \in path THEN root ELSE uf.parent[m] OBVIOUS
<1>8. new.parent = p /\ new.rank = uf.rank OBVIOUS
<1> HIDE DEF new, p
<1>9. ASSUME NEW m \in A, p[m] # m PROVE uf.rank[m] < uf.rank[p[m]]
  <2>1. CASE m \in path
    <3>1. Root(uf, m) = root /\ root # m /\ p[m] = root BY <1>4, <1>7, <1>9, <2>1
    <3> QED BY <1>2, <3>1 DEF Rooted
  <2>2. CASE m \notin path BY <1>7, <1>9, <2>2 DEF Sound
  <2> QED BY <2>1, <2>2
<1>10. Sound(new, A)
  <2>1. \E b \in Nat : \A m \in A : uf.rank[m] <= b BY DEF Sound
  <2> QED BY <1>6, <1>8, <1>9, <2>1 DEF Sound
<1>11. \A m \in A : Root(new, m) = Root(uf, m)
  <2> DEFINE R == [m \in A |-> Root(uf, m)]
  <2>1. \A m \in A : R[m] = Root(uf, m) OBVIOUS
  <2> HIDE DEF R
  <2>2. ASSUME NEW m \in A PROVE R[m] = IF new.parent[m] = m THEN m ELSE R[new.parent[m]]
    <3>1. R[m] = (IF uf.parent[m] = m THEN m ELSE R[uf.parent[m]])
      <4>1. uf.parent[m] \in A BY <1>1 DEF Forest
      <4> QED BY <1>2, <2>1, <4>1 DEF Rooted
    <3>2. CASE m \in path
      <4>1. new.parent[m] = root /\ R[m] = root BY <1>4, <1>7, <1>8, <2>1, <3>2
      <4>2. R[root] = root BY <1>2, <1>3, <2>1 DEF Rooted
      <4> QED BY <4>1, <4>2
    <3>3. CASE m \notin path BY <1>7, <1>8, <3>1, <3>3
    <3> QED BY <3>2, <3>3
  <2>3. \A m \in A : Root(new, m) = R[m] BY <1>10, <2>2, RootsAre
  <2> QED BY <2>1, <2>3
<1> QED BY <1>5, <1>8, <1>10, <1>11

\* The group of one of two roots is hung below the other.
Hung(A, uf, next, a, b) ==
  \E low, high \in {a, b} :
    /\ {low, high} = {a, b}
    /\ \A x \in A : Root(next, x) = IF Root(uf, x) = low THEN high ELSE Root(uf, x)

\* union hangs one of the two roots below the other.
LEMMA UnionHangs ==
  ASSUME NEW A, NEW uf, Sound(uf, A), NEW m \in A, NEW n \in A
  PROVE  /\ Sound(Union(uf, m, n), A)
         /\ Hung(A, uf, Union(uf, m, n), Root(uf, m), Root(uf, n))
<1> DEFINE found == Compressed(Compressed(uf, m), n)
           a == Root(uf, m)
           b == Root(uf, n)
           high == IF uf.rank[a] < uf.rank[b] THEN b ELSE a
           low == IF high = a THEN b ELSE a
           grown == IF uf.rank[a] = uf.rank[b] THEN found.rank[high] + 1 ELSE found.rank[high]
           hung == [found EXCEPT !.parent[low] = high]
           new == [hung EXCEPT !.rank[high] = grown]
<1>1. /\ Sound(found, A) /\ found.rank = uf.rank
      /\ \A x \in A : Root(found, x) = Root(uf, x)
  BY CompressedSound
<1>2. Union(uf, m, n) = IF a = b THEN found ELSE
        [found EXCEPT !.parent[low] = high,
                      !.rank[high] = IF uf.rank[a] = uf.rank[b] THEN @ + 1 ELSE @]
  BY DEF Union
<1>3. \A x \in A : Rooted(found, A, x) BY <1>1, OneRoot
<1>4. a \in A /\ b \in A /\ found.parent[a] = a /\ found.parent[b] = b
  BY <1>1, <1>3 DEF Rooted
<1>5. found \in Forest(A) BY <1>1 DEF Sound
<1>6. CASE a = b
  <2>1. \A x \in A : Root(found, x) = IF Root(uf, x) = low THEN high ELSE Root(uf, x)
    BY <1>1, <1>6
  <2>2. low \in {a, b} /\ high \in {a, b} /\ {low, high} = {a, b} BY <1>6
  <2> HIDE DEF low, high
  <2> QED BY <1>1, <1>2, <1>6, <2>1, <2>2 DEF Hung
<1>7. CASE a # b
  <2>1. /\ low \in {a, b} /\ high \in {a, b} /\ {low, high} = {a, b} /\ low # high
        /\ low \in A /\ high \in A
    BY <1>4, <1>7
  <2>2. /\ found.rank[low] \in Nat /\ found.rank[high] \in Nat
        /\ found.rank[low] <= found.rank[high]
        /\ found.rank[low] < grown /\ grown \in Nat /\ found.rank[high] <= grown
        /\ grown <= found.rank[high] + 1
    <3>1. uf.rank[a] \in Nat /\ uf.rank[b] \in Nat BY <1>1, <1>4, <1>5 DEF Forest
    <3> QED BY <1>1, <1>7, <3>1
  <2>3. Union(uf, m, n) = new
    <3>1. found.parent \in [A -> A] /\ found.rank \in [A -> Nat]
          /\ found = [parent |-> found.parent, rank |-> found.rank]
      BY <1>5 DEF Forest
    <3> HIDE DEF found
    <3> QED BY <1>2, <1>7, <3>1
  <2> HIDE DEF low, high, grown, found
  <2>4. /\ new.parent = [found.parent EXCEPT ![low] = high]
        /\ new.rank = [found.rank EXCEPT ![high] = grown]
        /\ new \in Forest(A)
    BY <1>5, <2>1, <2>2 DEF Forest
  <2> HIDE DEF new
  <2>5. /\ new.parent[low] = high /\ \A x \in A \ {low} : new.parent[x] = found.parent[x]
        /\ new.rank[high] = grown /\ \A x \in A \ {high} : new.rank[x] = found.rank[x]
    BY <1>5, <2>1, <2>4 DEF Forest
  <2>6. \A x \in A : found.parent[x] \in A /\ found.rank[x] \in Nat BY <1>5 DEF Forest
  <2>7. found.parent[low] = low /\ found.parent[high] = high BY <1>4, <2>1
  <2>8. ASSUME NEW x \in A, new.parent[x] # x PROVE new.rank[x] < new.rank[new.parent[x]]
    <3>1. CASE x = low BY <2>1, <2>2, <2>5, <3>1
    <3>2. CASE x # low
      <4>1. new.parent[x] = found.parent[x] /\ found.parent[x] # x /\ x # high
        BY <2>5, <2>7, <2>8, <3>2
      <4>2. found.rank[x] < found.rank[found.parent[x]] BY <1>1, <4>1 DEF Sound
      <4>3. new.rank[x] = found.rank[x] BY <2>5, <4>1
      <4>4. found.rank[found.parent[x]] <= new.rank[found.parent[x]] /\ new.rank[found.parent[x]] \in Nat
        BY <2>2, <2>5, <2>6
      <4> QED BY <2>6, <4>1, <4>2, <4>3, <4>4
    <3> QED BY <3>1, <3>2
  <2>9. \E k \in Nat : \A x \in A : new.rank[x] <= k
    <3>1. PICK k \in Nat : \A x \in A : found.rank[x] <= k BY <1>1 DEF Sound
    <3>2. \A x \in A : new.rank[x] <= k + 1
      BY <2>1, <2>2, <2>5, <2>6, <3>1
    <3> QED BY <3>2
  <2>10. Sound(new, A) BY <2>4, <2>8, <2>9 DEF Sound
  <2> DEFINE R == [x \in A |-> IF Root(uf, x) = low THEN high ELSE Root(uf, x)]
  <2>11. \A x \in A : R[x] = IF Root(uf, x) = low THEN high ELSE Root(uf, x) OBVIOUS
  <2> HIDE DEF R
  <2>12. ASSUME NEW x \in A PROVE R[x] = IF new.parent[x] = x THEN x ELSE R[new.parent[x]]
    <3>1. Root(uf, x) = (IF found.parent[x] = x THEN x ELSE Root(uf, found.parent[x]))
      BY <1>1, <1>3, <2>6 DEF Rooted
    <3>2. CASE x = low
      <4>1. Root(uf, low) = low /\ Root(uf, high) = high
        BY <1>1, <1>3, <2>1, <2>6, <2>7 DEF Rooted
      <4>2. R[low] = high /\ R[high] = high BY <2>1, <2>11, <4>1
      <4> QED BY <2>1, <2>5, <3>2, <4>2
    <3>3. CASE x # low
      <4>1. new.parent[x] = found.parent[x] BY <2>5, <3>3
      <4> QED BY <2>6, <2>11, <3>1, <3>3, <4>1
    <3> QED BY <3>2, <3>3
  <2>13. \A x \in A : Root(new, x) = R[x] BY <2>10, <2>12, RootsAre
  <2>14. \A x \in A : Root(new, x) = IF Root(uf, x) = low THEN high ELSE Root(uf, x)
    BY <2>11, <2>13
  <2> QED BY <2>1, <2>3, <2>10, <2>14 DEF Hung
<1> QED BY <1>6, <1>7

\* A forest whose groups are joined into larger ones; groups within the classes of C.
Coarser(A, uf, next) == \A x, y \in A : Same(uf, x, y) => Same(next, x, y)
Within(A, uf, C) == \A x, y \in A : Same(uf, x, y) => C[x] = C[y]

\* A union joins the groups of its two rows, parts no row from another, and leaves the
\* groups within any partition that puts the two rows together.
LEMMA UnionJoins ==
  ASSUME NEW A, NEW uf, Sound(uf, A), NEW m \in A, NEW n \in A
  PROVE  /\ Sound(Union(uf, m, n), A)
         /\ Coarser(A, uf, Union(uf, m, n))
         /\ Same(Union(uf, m, n), m, n)
         /\ \A C : Within(A, uf, C) /\ C[m] = C[n] => Within(A, Union(uf, m, n), C)
<1>1. PICK low, high \in {Root(uf, m), Root(uf, n)} :
        /\ {low, high} = {Root(uf, m), Root(uf, n)}
        /\ \A x \in A : Root(Union(uf, m, n), x) =
             IF Root(uf, x) = low THEN high ELSE Root(uf, x)
  <2>1. Hung(A, uf, Union(uf, m, n), Root(uf, m), Root(uf, n)) BY UnionHangs
  <2> QED BY <2>1 DEF Hung
<1>2. Same(Union(uf, m, n), m, n) BY <1>1 DEF Same
<1>3. ASSUME NEW C, Within(A, uf, C), C[m] = C[n], NEW x \in A, NEW y \in A,
             Same(Union(uf, m, n), x, y)
      PROVE  C[x] = C[y]
  <2>1. CASE Same(uf, x, y) BY <1>3, <2>1 DEF Within
  <2>2. CASE ~Same(uf, x, y)
    <3>1. {Root(uf, x), Root(uf, y)} = {Root(uf, m), Root(uf, n)}
      BY <1>1, <1>3, <2>2 DEF Same
    <3>2. \/ Same(uf, x, m) /\ Same(uf, y, n)
          \/ Same(uf, x, n) /\ Same(uf, y, m)
      BY <2>2, <3>1 DEF Same
    <3> QED BY <1>3, <3>2 DEF Within
  <2> QED BY <2>1, <2>2
<1>4. Coarser(A, uf, Union(uf, m, n)) BY <1>1 DEF Coarser, Same
<1> QED BY <1>2, <1>3, <1>4, UnionHangs DEF Within

\* The quotient and the remainder of a natural.
LEMMA Division ==
  ASSUME NEW N \in Nat, NEW a \in Nat, NEW b \in 0..(N - 1)
  PROVE  (a * N + b) \div N = a /\ (a * N + b) % N = b
  OBVIOUS

\* Products of naturals are naturals.
LEMMA Products ==
  ASSUME NEW N \in Nat, NEW a \in 0..(N - 1)
  PROVE  a * N \in Nat /\ a * N + N <= N * N /\ N * N \in Nat
  OBVIOUS

\* Every pair of rows has its turn.
LEMMA PairTurn ==
  ASSUME NEW N \in Nat, NEW m \in 1..N, NEW n \in 1..N
  PROVE  \E k \in 1..N * N : 1 + ((k - 1) \div N) = m /\ 1 + ((k - 1) % N) = n
<1> DEFINE k == (m - 1) * N + n
<1>1. m - 1 \in 0..(N - 1) /\ n - 1 \in 0..(N - 1) OBVIOUS
<1>2. (m - 1) * N \in Nat /\ (m - 1) * N + N <= N * N /\ N * N \in Nat BY <1>1, Products
<1>3. ((m - 1) * N + (n - 1)) \div N = m - 1 /\ ((m - 1) * N + (n - 1)) % N = n - 1
  <2> DEFINE a == m - 1
             b == n - 1
  <2>1. a \in Nat /\ b \in 0..(N - 1) BY <1>1
  <2> HIDE DEF a, b
  <2>2. (a * N + b) \div N = a /\ (a * N + b) % N = b BY <2>1, Division
  <2> QED BY <2>2 DEF a, b
<1> DEFINE x == (m - 1) * N
<1>4. x \in Nat /\ x + N <= N * N BY <1>2
<1> HIDE DEF x
<1>5. k - 1 = x + (n - 1) /\ k \in 1..N * N BY <1>2, <1>4 DEF x
<1> QED BY <1>3, <1>5 DEF x

\* A chain of coarser forests ends in one that is coarser than each.
LEMMA ChainJoins ==
  ASSUME NEW A, NEW K \in Nat, NEW g, \A k \in 1..K : Coarser(A, g[k - 1], g[k])
  PROVE  \A j \in 0..K : Coarser(A, g[j], g[K])
<1> SUFFICES ASSUME NEW j \in 0..K PROVE Coarser(A, g[j], g[K])
  OBVIOUS
<1> DEFINE T == {k \in Nat : j <= k /\ k <= K => Coarser(A, g[j], g[k])}
<1>1. 0 \in T
  <2> SUFFICES ASSUME j <= 0 PROVE Coarser(A, g[j], g[0])
    OBVIOUS
  <2>1. j = 0 OBVIOUS
  <2> QED BY <2>1 DEF Coarser
<1>2. ASSUME NEW k \in Nat, k \in T PROVE k + 1 \in T
  <2> SUFFICES ASSUME j <= k + 1, k + 1 <= K PROVE Coarser(A, g[j], g[k + 1])
    OBVIOUS
  <2>1. CASE j = k + 1 BY <2>1 DEF Coarser
  <2>2. CASE j # k + 1
    <3>1. Coarser(A, g[j], g[k]) BY <1>2, <2>2
    <3>2. k + 1 \in 1..K /\ (k + 1) - 1 = k OBVIOUS
    <3>3. Coarser(A, g[k], g[k + 1]) BY <3>2
    <3> QED BY <3>1, <3>3 DEF Coarser
  <2> QED BY <2>1, <2>2
<1>3. K \in T BY <1>1, <1>2, SetInduction
<1> QED BY <1>3

\* What every step keeps holds at the end.
LEMMA ChainKeeps ==
  ASSUME NEW K \in Nat, NEW g, NEW S, g[0] \in S, \A k \in 1..K : g[k - 1] \in S => g[k] \in S
  PROVE  \A k \in 0..K : g[k] \in S
<1> DEFINE T == {k \in Nat : k <= K => g[k] \in S}
<1>1. 0 \in T OBVIOUS
<1>2. ASSUME NEW k \in Nat, k \in T PROVE k + 1 \in T
  <2> SUFFICES ASSUME k + 1 <= K PROVE g[k + 1] \in S
    OBVIOUS
  <2>1. g[k] \in S BY <1>2
  <2>2. k + 1 \in 1..K /\ (k + 1) - 1 = k OBVIOUS
  <2> QED BY <2>1, <2>2
<1>3. Nat \subseteq T BY <1>1, <1>2, SetInduction
<1> QED BY <1>3

\* The recursive function in Merged.
Joined(u, N, pairs, k) ==
  LET m == 1 + ((k - 1) \div N)
      n == 1 + ((k - 1) % N)
  IN IF <<m, n>> \in pairs THEN Union(u, m, n) ELSE u

MergedBy(after, uf, N, pairs) ==
  [k \in 0..N * N |-> IF k = 0 THEN uf ELSE Joined(after[k - 1], N, pairs, k)]
MergedSteps(uf, N, pairs) == CHOOSE after : after = MergedBy(after, uf, N, pairs)

\* The pairs are united one after the other.
LEMMA MergedIs ==
  ASSUME NEW uf, NEW N, NEW pairs PROVE Merged(uf, N, pairs) = MergedSteps(uf, N, pairs)[N * N]
  BY DEF Merged, MergedSteps, MergedBy, Joined

SoundForests(A) == {u \in Forest(A) : Sound(u, A)}

\* Uniting pairs in their order.
LEMMA MergedJoins ==
  ASSUME NEW A, NEW uf, Sound(uf, A), NEW N \in Nat, A \subseteq 1..N,
         NEW pairs \in SUBSET (A \X A)
  PROVE  LET next == Merged(uf, N, pairs)
         IN /\ Sound(next, A)
            /\ Coarser(A, uf, next)
            /\ \A p \in pairs : Same(next, p[1], p[2])
            /\ \A C : Within(A, uf, C) /\ (\A p \in pairs : C[p[1]] = C[p[2]])
                        => Within(A, next, C)
<1> DEFINE K == N * N
           G == SoundForests(A)
           step == [z \in G \X (1..K) |-> Joined(z[1], N, pairs, z[2])]
           g == MergedSteps(uf, N, pairs)
<1>1. K \in Nat OBVIOUS
<1>2. \A u \in G : Sound(u, A) BY DEF SoundForests
<1>3. \A u : Sound(u, A) => u \in G BY DEF SoundForests, Sound
<1> HIDE DEF G
<1>4. ASSUME NEW u \in G, NEW m, NEW n, <<m, n>> \in pairs
      PROVE  /\ m \in A /\ n \in A /\ Sound(u, A) /\ Union(u, m, n) \in G
             /\ Coarser(A, u, Union(u, m, n)) /\ Same(Union(u, m, n), m, n)
             /\ \A C : Within(A, u, C) /\ C[m] = C[n] => Within(A, Union(u, m, n), C)
  <2>1. m \in A /\ n \in A /\ Sound(u, A) BY <1>2, <1>4
  <2> QED BY <1>3, <2>1, UnionJoins
<1>5. \A u \in G, k \in 1..K : Joined(u, N, pairs, k) \in G
  BY <1>4 DEF Joined
<1>6. step \in [G \X (1..K) -> G] BY <1>5
<1>7. uf \in G BY <1>3
<1>8. PICK f \in [0..K -> G] : f[0] = uf /\ \A k \in 1..K : f[k] = step[<<f[k - 1], k>>]
  <2> HIDE DEF step, K
  <2>1. \E f : Stepwise(f, G, uf, K, step) BY <1>1, <1>6, <1>7, StepsExist
  <2> QED BY <2>1 DEF Stepwise
<1>9. \A u \in G, k \in 1..K : step[<<u, k>>] = Joined(u, N, pairs, k)
  OBVIOUS
<1> HIDE DEF step
<1>10. ASSUME NEW k \in 1..K PROVE f[k] = Joined(f[k - 1], N, pairs, k)
  <2>1. k - 1 \in 0..K BY <1>1
  <2>2. f[k - 1] \in G BY <1>8, <2>1
  <2> QED BY <1>8, <1>9, <2>2
<1>11. f = MergedBy(f, uf, N, pairs)
  <2>1. \A k \in 0..K : f[k] = IF k = 0 THEN uf ELSE Joined(f[k - 1], N, pairs, k)
    BY <1>1, <1>8, <1>10
  <2> QED BY <1>8, <2>1 DEF MergedBy
<1>12. g = MergedBy(g, uf, N, pairs) BY <1>11 DEF MergedSteps
<1> HIDE DEF g
<1>13. g[0] = uf /\ \A k \in 1..K : g[k] = Joined(g[k - 1], N, pairs, k)
  <2>1. \A k \in 0..K : g[k] = IF k = 0 THEN uf ELSE Joined(g[k - 1], N, pairs, k)
    BY <1>12 DEF MergedBy
  <2>2. 0 \in 0..K /\ \A k \in 1..K : k \in 0..K /\ k # 0 BY <1>1
  <2> HIDE DEF K
  <2> QED BY <2>1, <2>2
<1> HIDE DEF K
<1>14. \A k \in 0..K : g[k] \in G
  <2>1. g[0] \in G BY <1>7, <1>13
  <2>2. \A k \in 1..K : g[k - 1] \in G => g[k] \in G BY <1>5, <1>13
  <2> QED BY <1>1, <2>1, <2>2, ChainKeeps
<1>15. \A k \in 1..K : k - 1 \in 0..K /\ g[k - 1] \in G BY <1>1, <1>14
<1>16. \A k \in 1..K : Coarser(A, g[k - 1], g[k])
  <2> SUFFICES ASSUME NEW k \in 1..K PROVE Coarser(A, g[k - 1], g[k])
    OBVIOUS
  <2>1. g[k] = Joined(g[k - 1], N, pairs, k) /\ g[k - 1] \in G BY <1>13, <1>15
  <2>2. CASE g[k] = g[k - 1] BY <2>2 DEF Coarser
  <2> QED BY <1>4, <2>1, <2>2 DEF Joined
<1>17. \A j \in 0..K : Coarser(A, g[j], g[K]) BY <1>1, <1>16, ChainJoins
<1>18. ASSUME NEW p \in pairs PROVE Same(g[K], p[1], p[2])
  <2>1. p[1] \in A /\ p[2] \in A /\ p = <<p[1], p[2]>> OBVIOUS
  <2>2. p[1] \in 1..N /\ p[2] \in 1..N BY <2>1
  <2>3. PICK k \in 1..K : 1 + ((k - 1) \div N) = p[1] /\ 1 + ((k - 1) % N) = p[2]
    BY <2>2, PairTurn DEF K
  <2>4. g[k] = Union(g[k - 1], p[1], p[2]) BY <1>13, <2>1, <2>3 DEF Joined
  <2>5. g[k - 1] \in G /\ <<p[1], p[2]>> \in pairs BY <1>15, <2>1
  <2>6. Same(g[k], p[1], p[2]) BY <1>4, <2>4, <2>5
  <2>7. Coarser(A, g[k], g[K]) BY <1>1, <1>17
  <2> QED BY <2>1, <2>6, <2>7 DEF Coarser
<1>19. ASSUME NEW C, Within(A, uf, C), \A p \in pairs : C[p[1]] = C[p[2]]
       PROVE  Within(A, g[K], C)
  <2> DEFINE S == {u \in G : Within(A, u, C)}
  <2>1. g[0] \in S BY <1>7, <1>13, <1>19
  <2>2. ASSUME NEW k \in 1..K, g[k - 1] \in S PROVE g[k] \in S
    <3>1. g[k] = Joined(g[k - 1], N, pairs, k) /\ g[k - 1] \in G BY <1>13, <1>15
    <3>2. CASE g[k] = g[k - 1] BY <2>2, <3>2
    <3>3. ASSUME NEW m, NEW n, <<m, n>> \in pairs, g[k] = Union(g[k - 1], m, n)
          PROVE  g[k] \in S
      <4>1. C[m] = C[n] BY <1>19, <3>3
      <4> QED BY <1>4, <2>2, <3>1, <3>3, <4>1
    <3> QED BY <3>1, <3>2, <3>3 DEF Joined
  <2> HIDE DEF S
  <2>3. \A k \in 0..K : g[k] \in S BY <1>1, <2>1, <2>2, ChainKeeps
  <2>4. g[K] \in S BY <1>1, <2>3
  <2> QED BY <2>4 DEF S
<1>20. Merged(uf, N, pairs) = g[K] BY MergedIs DEF g, K
<1>21. Sound(g[K], A) /\ Coarser(A, uf, g[K])
  <2>1. 0 \in 0..K /\ K \in 0..K BY <1>1
  <2> QED BY <1>2, <1>13, <1>14, <1>17, <2>1
<1> QED BY <1>18, <1>19, <1>20, <1>21

Linked(rs, m, n) == SameAgent(rs, m, n) \/ SameHardware(rs, m, n, Quarantined(rs))

\* What the rows of a table are.
LEMMA RowTypes ==
  ASSUME NEW rs \in Seq(Record)
  PROVE  /\ Len(rs) \in Nat /\ DOMAIN rs = 1..Len(rs) /\ Active(rs) \subseteq 1..Len(rs)
         /\ Active(rs) \subseteq Nat
         /\ \A n \in 1..Len(rs) :
              rs[n] \in Record /\ rs[n].permanent \in Nat /\ rs[n].hostname \in Nat
<1>1. Len(rs) \in Nat /\ DOMAIN rs = 1..Len(rs) /\ \A n \in 1..Len(rs) : rs[n] \in Record
  OBVIOUS
<1>2. \A r \in Record : r.permanent \in Nat /\ r.hostname \in Nat
  <2>1. 0 \in Nat /\ PermanentIds \subseteq Nat /\ Hostnames \subseteq Nat BY ResolverAssumption
  <2>2. \A r \in Record : r.permanent \in PermanentIds \cup {0} /\ r.hostname \in Hostnames \cup {0}
    BY DEF Record, Unknown
  <2> QED BY <2>1, <2>2
<1>3. Active(rs) \subseteq 1..Len(rs) BY <1>1 DEF Active
<1> QED BY <1>1, <1>2, <1>3

\* Links go both ways.
LEMMA LinksSymmetric ==
  ASSUME NEW rs, NEW m, NEW n, Linked(rs, m, n)
  PROVE  Linked(rs, n, m)
  BY DEF Linked, SameAgent, SameHardware

\* At first every row is a group.
LEMMA SingletonsSound ==
  ASSUME NEW rs
  PROVE  /\ Sound(Singletons(rs), Active(rs))
         /\ \A C : Within(Active(rs), Singletons(rs), C)
<1> DEFINE A == Active(rs)
           uf == Singletons(rs)
<1>1. uf.parent = [n \in A |-> n] /\ uf.rank = [n \in A |-> 0] /\ uf \in Forest(A)
  BY DEF Singletons, Forest
<1> HIDE DEF uf, A
<1>2. \A m \in A : uf.parent[m] = m /\ uf.rank[m] = 0 BY <1>1
<1>3. Sound(uf, A) BY <1>1, <1>2 DEF Sound
<1>4. \A m \in A : Root(uf, m) = m BY <1>2, <1>3, OneRoot DEF Rooted
<1> QED BY <1>3, <1>4 DEF Within, Same, uf, A

\* The recursive function in Resolved.
FirstOf(rs, f) == f \in Active(rs) /\ \A e \in Active(rs) : e < f => rs[e].hostname # rs[f].hostname
ResolvedWith(u, rs, f) ==
  IF FirstOf(rs, f) THEN Merged(u, Len(rs), Matching(rs, rs[f].hostname, Quarantined(rs))) ELSE u
ResolvedBy(after, rs) ==
  [f \in 0..Len(rs) |->
     IF f = 0 THEN Merged(Singletons(rs), Len(rs), Anchored(rs)) ELSE ResolvedWith(after[f - 1], rs, f)]
ResolvedSteps(rs) == CHOOSE after : after = ResolvedBy(after, rs)

\* The hostnames are worked through one after the other.
LEMMA ResolvedIs == ASSUME NEW rs PROVE Resolved(rs) = ResolvedSteps(rs)[Len(rs)]
  BY DEF Resolved, ResolvedSteps, ResolvedBy, ResolvedWith, FirstOf

\* What the rules unite, and nothing else.
LEMMA ResolvedJoins ==
  ASSUME NEW rs \in Seq(Record)
  PROVE  LET A == Active(rs)
             next == Resolved(rs)
         IN /\ Sound(next, A)
            /\ \A p \in Anchored(rs) : Same(next, p[1], p[2])
            /\ \A m, n \in A : m < n /\ SameHardware(rs, m, n, Quarantined(rs)) => Same(next, m, n)
            /\ \A C : (\A m, n \in A : Linked(rs, m, n) => C[m] = C[n]) => Within(A, next, C)
<1> DEFINE A == Active(rs)
           N == Len(rs)
           G == SoundForests(A)
           start == Merged(Singletons(rs), N, Anchored(rs))
           step == [z \in G \X (1..N) |-> ResolvedWith(z[1], rs, z[2])]
           g == ResolvedSteps(rs)
           Pairs(f) == Matching(rs, rs[f].hostname, Quarantined(rs))
<1>1. N \in Nat /\ A \subseteq 1..N /\ A \subseteq Nat /\ \A n \in A : rs[n].hostname \in Nat
  BY RowTypes
<1>2. \A u \in G : Sound(u, A) BY DEF SoundForests
<1>3. \A u : Sound(u, A) => u \in G BY DEF SoundForests, Sound
<1>4. Anchored(rs) \in SUBSET (A \X A) /\ \A f : Pairs(f) \in SUBSET (A \X A)
  BY DEF Anchored, Matching
<1>5. Sound(Singletons(rs), A) /\ \A C : Within(A, Singletons(rs), C) BY SingletonsSound
<1>6. \A C : (\A m, n \in A : Linked(rs, m, n) => C[m] = C[n]) =>
        /\ \A p \in Anchored(rs) : C[p[1]] = C[p[2]]
        /\ \A f : \A p \in Pairs(f) : C[p[1]] = C[p[2]]
  BY DEF Linked, Anchored, Matching
<1> HIDE DEF A, N, G, Pairs
<1>8. /\ start \in G /\ \A p \in Anchored(rs) : Same(start, p[1], p[2])
      /\ \A C : (\A m, n \in A : Linked(rs, m, n) => C[m] = C[n]) => Within(A, start, C)
  <2>1. LET next == start
        IN /\ Sound(next, A) /\ Coarser(A, Singletons(rs), next)
           /\ \A p \in Anchored(rs) : Same(next, p[1], p[2])
           /\ \A C : Within(A, Singletons(rs), C) /\ (\A p \in Anchored(rs) : C[p[1]] = C[p[2]])
                       => Within(A, next, C)
    BY <1>1, <1>4, <1>5, MergedJoins
  <2> HIDE DEF start
  <2> QED BY <1>3, <1>5, <1>6, <2>1
<1>9. ASSUME NEW u \in G, NEW f
      PROVE  LET next == Merged(u, N, Pairs(f))
             IN /\ next \in G /\ Coarser(A, u, next)
                /\ \A p \in Pairs(f) : Same(next, p[1], p[2])
                /\ \A C : (\A m, n \in A : Linked(rs, m, n) => C[m] = C[n]) /\ Within(A, u, C)
                            => Within(A, next, C)
  <2> DEFINE next == Merged(u, N, Pairs(f))
  <2>1. /\ Sound(next, A) /\ Coarser(A, u, next)
        /\ \A p \in Pairs(f) : Same(next, p[1], p[2])
        /\ \A C : Within(A, u, C) /\ (\A p \in Pairs(f) : C[p[1]] = C[p[2]]) => Within(A, next, C)
    <3>1. Sound(u, A) /\ Pairs(f) \in SUBSET (A \X A) BY <1>2, <1>4
    <3> QED BY <1>1, <3>1, MergedJoins
  <2> HIDE DEF next
  <2>2. next \in G BY <1>3, <2>1
  <2>3. \A C : (\A m, n \in A : Linked(rs, m, n) => C[m] = C[n]) /\ Within(A, u, C)
                 => Within(A, next, C)
    BY <1>6, <2>1
  <2> QED BY <2>1, <2>2, <2>3 DEF next
<1>10. ASSUME NEW u, NEW f
       PROVE  ResolvedWith(u, rs, f) = IF FirstOf(rs, f) THEN Merged(u, N, Pairs(f)) ELSE u
  BY DEF ResolvedWith, N, Pairs
<1>11. \A u \in G, f \in 1..N : ResolvedWith(u, rs, f) \in G BY <1>9, <1>10
<1>12. step \in [G \X (1..N) -> G] BY <1>11
<1>13. \A u \in G, f \in 1..N : step[<<u, f>>] = ResolvedWith(u, rs, f) OBVIOUS
<1>14. PICK h : Stepwise(h, G, start, N, step)
  <2> HIDE DEF step, start
  <2> QED BY <1>1, <1>8, <1>12, StepsExist
<1> HIDE DEF step
<1>15. h = ResolvedBy(h, rs)
  <2>1. h \in [0..N -> G] /\ h[0] = start /\ \A k \in 1..N : h[k] = step[<<h[k - 1], k>>]
    BY <1>14 DEF Stepwise
  <2>2. ASSUME NEW k \in 1..N PROVE h[k] = ResolvedWith(h[k - 1], rs, k)
    <3>1. k - 1 \in 0..N BY <1>1
    <3> QED BY <1>13, <2>1, <3>1
  <2>3. \A k \in 0..N : h[k] = IF k = 0 THEN start ELSE ResolvedWith(h[k - 1], rs, k)
    BY <1>1, <2>1, <2>2
  <2> QED BY <2>1, <2>3 DEF ResolvedBy, N
<1>16. g = ResolvedBy(g, rs) BY <1>15 DEF ResolvedSteps
<1> HIDE DEF g
<1>17. g[0] = start /\ \A k \in 1..N : g[k] = ResolvedWith(g[k - 1], rs, k)
  <2>1. \A k \in 0..N : g[k] = IF k = 0 THEN start ELSE ResolvedWith(g[k - 1], rs, k)
    BY <1>16 DEF ResolvedBy, N
  <2>2. 0 \in 0..N /\ \A k \in 1..N : k \in 0..N /\ k # 0 BY <1>1
  <2> QED BY <2>1, <2>2
<1> HIDE DEF start
<1>18. \A k \in 0..N : g[k] \in G
  <2>1. g[0] \in G BY <1>8, <1>17
  <2>2. \A k \in 1..N : g[k - 1] \in G => g[k] \in G BY <1>11, <1>17
  <2> QED BY <1>1, <2>1, <2>2, ChainKeeps
<1>19. \A k \in 1..N : k - 1 \in 0..N /\ g[k - 1] \in G BY <1>1, <1>18
<1>20. \A k \in 1..N : Coarser(A, g[k - 1], g[k])
  <2> SUFFICES ASSUME NEW k \in 1..N PROVE Coarser(A, g[k - 1], g[k])
    OBVIOUS
  <2>1. g[k] = IF FirstOf(rs, k) THEN Merged(g[k - 1], N, Pairs(k)) ELSE g[k - 1]
    BY <1>10, <1>17
  <2>2. CASE FirstOf(rs, k) BY <1>9, <1>19, <2>1, <2>2
  <2>3. CASE ~FirstOf(rs, k) BY <2>1, <2>3 DEF Coarser
  <2> QED BY <2>2, <2>3
<1>21. \A j \in 0..N : Coarser(A, g[j], g[N]) BY <1>1, <1>20, ChainJoins
<1>22. ASSUME NEW p \in Anchored(rs) PROVE Same(g[N], p[1], p[2])
  <2>1. p[1] \in A /\ p[2] \in A BY <1>4
  <2>2. Same(start, p[1], p[2]) BY <1>8
  <2>3. Coarser(A, start, g[N])
    <3>1. 0 \in 0..N BY <1>1
    <3> QED BY <1>17, <1>21, <3>1
  <2> QED BY <2>1, <2>2, <2>3 DEF Coarser
<1>23. ASSUME NEW m \in A, NEW n \in A, m < n, SameHardware(rs, m, n, Quarantined(rs))
       PROVE  Same(g[N], m, n)
  <2> DEFINE S == {k \in A : rs[k].hostname = rs[m].hostname}
  <2>1. PICK f \in S : \A k \in S : f <= k
    <3>1. S \subseteq Nat /\ m \in S BY <1>1
    <3> HIDE DEF S
    <3> QED BY <3>1, LeastExists
  <2>2. f \in A /\ f \in 1..N /\ f - 1 \in 0..N /\ f \in 0..N /\ rs[f].hostname = rs[m].hostname
    BY <1>1, <2>1
  <2>3. FirstOf(rs, f)
    <3>1. ASSUME NEW e \in A, e < f, rs[e].hostname = rs[f].hostname PROVE FALSE
      <4>1. e \in S BY <2>2, <3>1
      <4>2. f <= e BY <2>1, <4>1
      <4> QED BY <1>1, <2>2, <3>1, <4>2
    <3> QED BY <2>2, <3>1 DEF FirstOf, A
  <2>4. <<m, n>> \in Pairs(f) BY <1>23, <2>2 DEF Pairs, Matching, A
  <2>5. g[f] = Merged(g[f - 1], N, Pairs(f)) BY <1>10, <1>17, <2>2, <2>3
  <2>6. Same(g[f], m, n)
    <3>1. g[f - 1] \in G BY <1>19, <2>2
    <3>2. \A p \in Pairs(f) : Same(g[f], p[1], p[2]) BY <1>9, <2>5, <3>1
    <3> QED BY <2>4, <3>2
  <2>7. Coarser(A, g[f], g[N]) BY <1>21, <2>2
  <2> QED BY <2>6, <2>7 DEF Coarser
<1>24. ASSUME NEW C, \A m, n \in A : Linked(rs, m, n) => C[m] = C[n] PROVE Within(A, g[N], C)
  <2> DEFINE S == {u \in G : Within(A, u, C)}
  <2>1. g[0] \in S BY <1>8, <1>17, <1>24
  <2>2. ASSUME NEW k \in 1..N, g[k - 1] \in S PROVE g[k] \in S
    <3>1. g[k] = IF FirstOf(rs, k) THEN Merged(g[k - 1], N, Pairs(k)) ELSE g[k - 1]
      BY <1>10, <1>17
    <3>2. CASE ~FirstOf(rs, k) BY <2>2, <3>1, <3>2
    <3>3. CASE FirstOf(rs, k)
      <4>1. g[k - 1] \in G /\ Within(A, g[k - 1], C) BY <2>2
      <4>2. g[k] \in G /\ Within(A, g[k], C) BY <1>9, <1>24, <3>1, <3>3, <4>1
      <4> QED BY <4>2
    <3> QED BY <3>2, <3>3
  <2> HIDE DEF S
  <2>3. \A k \in 0..N : g[k] \in S BY <1>1, <2>1, <2>2, ChainKeeps
  <2>4. N \in 0..N BY <1>1
  <2> QED BY <2>3, <2>4 DEF S
<1>25. Resolved(rs) = g[N] BY ResolvedIs DEF g, N
<1>26. Sound(g[N], A)
  <2>1. N \in 0..N BY <1>1
  <2> QED BY <1>2, <1>18, <2>1
<1> QED BY <1>22, <1>23, <1>24, <1>25, <1>26 DEF A

\* Linked rows get one root.
LEMMA LinksUnite ==
  ASSUME NEW rs \in Seq(Record), NEW m \in Active(rs), NEW n \in Active(rs), Linked(rs, m, n)
  PROVE  Same(Resolved(rs), m, n)
<1> DEFINE A == Active(rs)
           uf == Resolved(rs)
<1>1. /\ \A p \in Anchored(rs) : Same(uf, p[1], p[2])
      /\ \A i, j \in A : i < j /\ SameHardware(rs, i, j, Quarantined(rs)) => Same(uf, i, j)
  BY ResolvedJoins
<1>2. A \subseteq Nat BY RowTypes
<1> HIDE DEF uf, A
<1>3. m \in A /\ n \in A BY DEF A
<1>4. CASE SameAgent(rs, m, n)
  <2> DEFINE S == {k \in A : SameAgent(rs, k, m)}
  <2>1. m \in S /\ n \in S BY <1>3, <1>4 DEF SameAgent
  <2>2. PICK a \in S : \A k \in S : a <= k
    <3>1. S \subseteq Nat /\ S # {} BY <1>2, <2>1
    <3> HIDE DEF S
    <3> QED BY <3>1, LeastExists
  <2>3. ASSUME NEW x \in S PROVE Same(uf, a, x)
    <3>1. CASE a = x BY <3>1 DEF Same
    <3>2. CASE a # x
      <4>1. a \in A /\ x \in A /\ a < x BY <1>2, <2>2, <3>2
      <4>2. SameAgent(rs, a, x) BY DEF SameAgent
      <4>3. \A k \in A : SameAgent(rs, k, x) => k \in S BY DEF SameAgent
      <4>4. <<a, x>> \in Anchored(rs) BY <2>2, <4>1, <4>2, <4>3 DEF Anchored, A
      <4> DEFINE p == <<a, x>>
      <4>5. Same(uf, p[1], p[2]) BY <1>1, <4>4
      <4> QED BY <4>5
    <3> QED BY <3>1, <3>2
  <2> HIDE DEF S
  <2>4. Same(uf, a, m) /\ Same(uf, a, n) BY <2>1, <2>3
  <2> QED BY <2>4 DEF Same, uf
<1>5. CASE SameHardware(rs, m, n, Quarantined(rs))
  <2>1. SameHardware(rs, n, m, Quarantined(rs)) BY <1>5 DEF SameHardware
  <2>2. m = n \/ m < n \/ n < m BY <1>2, <1>3
  <2>3. Same(uf, m, n) \/ Same(uf, n, m) \/ m = n BY <1>1, <1>3, <1>5, <2>1, <2>2
  <2> QED BY <2>3 DEF Same, uf
<1> QED BY <1>4, <1>5 DEF Linked

ResolverInv ==
  records \in Seq(Record) /\ Len(records) <= MaxRows /\ forest = Resolved(records)

\* The table read is one of at most MaxRows rows, and the forest is the one resolved from it.
LEMMA ResolverInvariant == ResolverSpec => []ResolverInv
<1>1. ResolverInit => ResolverInv
  <2> SUFFICES ASSUME ResolverInit PROVE ResolverInv
    OBVIOUS
  <2>1. records = <<>> /\ forest = Resolved(records) BY DEF ResolverInit
  <2>2. records \in Seq(Record) /\ Len(records) = 0 BY <2>1
  <2> QED BY <2>1, <2>2, ResolverAssumption DEF ResolverInv
<1>2. ASSUME ResolverInv, [ResolverNext]_resolverVars PROVE ResolverInv'
  <2>1. CASE UNCHANGED resolverVars
    <3>1. records' = records /\ forest' = forest BY <2>1 DEF resolverVars
    <3>2. (Resolved(records))' = Resolved(records')
      BY DEF Resolved, Merged, Singletons, Anchored, Matching, Quarantined, Active, SameAgent, SameHardware
    <3> QED BY <1>2, <3>1 DEF ResolverInv
  <2>2. ASSUME NEW record \in Record, Read(record) PROVE ResolverInv'
    <3>1. records' \in Seq(Record) /\ Len(records') = Len(records) + 1
      BY <1>2, <2>2 DEF Read, ResolverInv
    <3>2. Len(records) < MaxRows /\ Len(records) \in Nat
      BY <1>2, <2>2 DEF Read, ResolverInv
    <3>3. forest' = Resolved(records') BY <2>2 DEF Read
    <3> QED BY <3>1, <3>2, <3>3, ResolverAssumption DEF ResolverInv
  <2>3. CASE ReadAgain
    <3>1. records' = <<>> /\ forest' = Resolved(records') BY <2>3 DEF ReadAgain
    <3>2. records' \in Seq(Record) /\ Len(records') = 0 BY <3>1
    <3> QED BY <3>1, <3>2, ResolverAssumption DEF ResolverInv
  <2> QED BY <1>2, <2>1, <2>2, <2>3 DEF ResolverNext
<1> QED BY <1>1, <1>2, PTL DEF ResolverSpec

\* The recursive function in Client.
Wider(near) == near \cup {m \in Active(records) : \E l \in near : Linked(records, l, m)}
ReachBy(reach, n) == [k \in 0..MaxRows |-> IF k = 0 THEN {n} ELSE Wider(reach[k - 1])]
ReachSteps(n) == CHOOSE reach : reach = ReachBy(reach, n)

\* The rows that a chain reaches are found one link after the other.
LEMMA ClientIs == ASSUME NEW n PROVE Client(n) = ReachSteps(n)[MaxRows]
  BY DEF Client, ReachSteps, ReachBy, Wider, Linked

Linkable(S) == \A l \in S, m \in Active(records) : Linked(records, l, m) => m \in S

\* A client is the least set with its row that no link leaves: the rows that a chain can
\* reach grow until they do, and there are no more than MaxRows.
LEMMA ClientLeast ==
  ASSUME ResolverInv, NEW n \in Active(records)
  PROVE  /\ n \in Client(n) /\ Client(n) \subseteq Active(records) /\ Linkable(Client(n))
         /\ \A S : n \in S /\ Linkable(S) => Client(n) \subseteq S
<1> DEFINE A == Active(records)
           K == MaxRows
           G == SUBSET A
           step == [z \in G \X (1..K) |-> Wider(z[1])]
           g == ReachSteps(n)
<1>1. /\ K \in Nat /\ n \in A /\ IsFiniteSet(A) /\ Cardinality(A) \in Nat
      /\ Cardinality(A) <= K
  <2>1. /\ records \in Seq(Record) /\ A \subseteq 1..Len(records) /\ Len(records) \in Nat
        /\ Len(records) <= MaxRows /\ MaxRows \in Nat
    BY RowTypes, ResolverAssumption DEF ResolverInv
  <2> HIDE DEF A
  <2>2. IsFiniteSet(1..Len(records)) /\ Cardinality(1..Len(records)) = Len(records)
    <3> DEFINE N == Len(records)
    <3>1. N \in Nat BY <2>1
    <3> HIDE DEF N
    <3>2. 1 \in Int /\ N \in Int BY <3>1
    <3>3. IsFiniteSet(1..N) /\ Cardinality(1..N) = IF 1 > N THEN 0 ELSE N - 1 + 1
      BY <3>2, FS_Interval
    <3>4. (IF 1 > N THEN 0 ELSE N - 1 + 1) = N BY <3>1
    <3>5. IsFiniteSet(1..N) /\ Cardinality(1..N) = N BY <3>3, <3>4
    <3> QED BY <3>5 DEF N
  <2>3. IsFiniteSet(A) /\ Cardinality(A) <= Len(records) BY <2>1, <2>2, FS_Subset
  <2>4. Cardinality(A) \in Nat BY <2>3, FS_CardinalityType
  <2> QED BY <2>1, <2>3, <2>4 DEF A
<1>2. \A u \in G : Wider(u) \in G /\ u \subseteq Wider(u) BY DEF Wider
<1>3. \A u \in G : Wider(u) = u => Linkable(u) BY DEF Wider, Linkable
<1>4. \A S, u : Linkable(S) /\ u \subseteq S => Wider(u) \subseteq S BY DEF Wider, Linkable
<1> HIDE DEF A, K
<1>5. step \in [G \X (1..K) -> G] BY <1>2
<1>6. \A u \in G, k \in 1..K : step[<<u, k>>] = Wider(u) OBVIOUS
<1>7. {n} \in G BY <1>1
<1>8. PICK h : Stepwise(h, G, {n}, K, step)
  <2> HIDE DEF step, G
  <2> QED BY <1>1, <1>5, <1>7, StepsExist
<1> HIDE DEF step
<1>9. h = ReachBy(h, n)
  <2>1. h \in [0..K -> G] /\ h[0] = {n} /\ \A k \in 1..K : h[k] = step[<<h[k - 1], k>>]
    BY <1>8 DEF Stepwise
  <2>2. ASSUME NEW k \in 1..K PROVE h[k] = Wider(h[k - 1])
    <3>1. k - 1 \in 0..K BY <1>1
    <3>2. h[k - 1] \in G BY <2>1, <3>1
    <3> HIDE DEF G
    <3> QED BY <1>6, <2>1, <3>2
  <2>3. \A k \in 0..K : h[k] = IF k = 0 THEN {n} ELSE Wider(h[k - 1])
    BY <1>1, <2>1, <2>2
  <2> HIDE DEF G
  <2> QED BY <2>1, <2>3 DEF ReachBy, K
<1>10. g = ReachBy(g, n) BY <1>9 DEF ReachSteps
<1> HIDE DEF g
<1>11. g[0] = {n} /\ \A k \in 1..K : g[k] = Wider(g[k - 1])
  <2>1. \A k \in 0..K : g[k] = IF k = 0 THEN {n} ELSE Wider(g[k - 1])
    BY <1>10 DEF ReachBy, K
  <2>2. 0 \in 0..K /\ \A k \in 1..K : k \in 0..K /\ k # 0 BY <1>1
  <2> QED BY <2>1, <2>2
<1>12. \A k \in 0..K : g[k] \in G
  <2>1. g[0] \in G BY <1>7, <1>11
  <2>2. \A k \in 1..K : g[k - 1] \in G => g[k] \in G BY <1>2, <1>11
  <2> HIDE DEF G
  <2> QED BY <1>1, <2>1, <2>2, ChainKeeps
<1>13. K \in 0..K BY <1>1
<1>14. n \in g[K]
  <2> DEFINE S == {u \in G : n \in u}
  <2>1. g[0] \in S BY <1>7, <1>11
  <2>2. \A k \in 1..K : g[k - 1] \in S => g[k] \in S BY <1>2, <1>11
  <2> HIDE DEF S
  <2>3. g[K] \in S BY <1>1, <1>13, <2>1, <2>2, ChainKeeps
  <2> QED BY <2>3 DEF S
<1>15. ASSUME NEW S, n \in S, Linkable(S) PROVE g[K] \subseteq S
  <2> DEFINE U == {u \in G : u \subseteq S}
  <2>1. g[0] \in U BY <1>7, <1>11, <1>15
  <2>2. \A k \in 1..K : g[k - 1] \in U => g[k] \in U BY <1>2, <1>4, <1>11, <1>15
  <2> HIDE DEF U
  <2>3. g[K] \in U BY <1>1, <1>13, <2>1, <2>2, ChainKeeps
  <2> QED BY <2>3 DEF U
<1>16. \A u \in G : IsFiniteSet(u) /\ Cardinality(u) \in Nat /\ Cardinality(u) <= K
  <2> TAKE u \in G
  <2>1. IsFiniteSet(u) /\ Cardinality(u) <= Cardinality(A) BY <1>1, FS_Subset
  <2>2. Cardinality(u) \in Nat BY <2>1, FS_CardinalityType
  <2> QED BY <1>1, <2>1, <2>2
<1>17. Wider(g[K]) = g[K]
  <2> DEFINE T == {k \in Nat : k <= K => Wider(g[k]) = g[k] \/ k + 1 <= Cardinality(g[k])}
  <2>1. 0 \in T
    <3>1. Cardinality({n}) = 1 BY FS_Singleton
    <3> QED BY <1>11, <3>1
  <2>2. ASSUME NEW k \in Nat, k \in T PROVE k + 1 \in T
    <3> SUFFICES ASSUME k + 1 <= K, Wider(g[k + 1]) # g[k + 1]
                 PROVE  k + 2 <= Cardinality(g[k + 1])
      OBVIOUS
    <3>1. k \in 0..K /\ k + 1 \in 0..K /\ k + 1 \in 1..K /\ (k + 1) - 1 = k BY <1>1
    <3>2. g[k + 1] = Wider(g[k]) BY <1>11, <3>1
    <3>3. Wider(g[k]) # g[k] BY <3>2
    <3>4. k + 1 <= Cardinality(g[k]) BY <1>1, <2>2, <3>3
    <3>5. g[k] \in G /\ g[k + 1] \in G BY <1>12, <3>1
    <3>6. PICK x \in g[k + 1] : x \notin g[k] BY <1>2, <3>2, <3>3, <3>5
    <3>7. g[k] \cup {x} \subseteq g[k + 1] BY <1>2, <3>2, <3>5, <3>6
    <3>8. Cardinality(g[k] \cup {x}) = Cardinality(g[k]) + 1
      BY <1>16, <3>5, <3>6, FS_AddElement
    <3>9. Cardinality(g[k] \cup {x}) <= Cardinality(g[k + 1])
      BY <1>16, <3>5, <3>7, FS_Subset
    <3>10. Cardinality(g[k]) \in Nat /\ Cardinality(g[k + 1]) \in Nat BY <1>16, <3>5
    <3> QED BY <3>4, <3>8, <3>9, <3>10
  <2>3. K \in T
    <3> HIDE DEF T
    <3> QED BY <1>1, <2>1, <2>2, SetInduction
  <2>4. g[K] \in G BY <1>12, <1>13
  <2>5. Cardinality(g[K]) \in Nat /\ Cardinality(g[K]) <= K BY <1>16, <2>4
  <2> QED BY <1>1, <2>3, <2>5
<1>18. g[K] \in G /\ Linkable(g[K]) BY <1>3, <1>12, <1>13, <1>17
<1>19. Client(n) = g[K] BY ClientIs DEF g, K
<1> QED BY <1>14, <1>15, <1>18, <1>19 DEF A

\* The clients are disjoint.
LEMMA ClientsDisjoint ==
  ASSUME ResolverInv, NEW n \in Active(records), NEW m \in Client(n)
  PROVE  Client(m) = Client(n)
<1>1. m \in Active(records) BY ClientLeast
<1>2. /\ n \in Client(n) /\ Linkable(Client(n)) /\ m \in Client(m) /\ Linkable(Client(m))
      /\ Client(n) \subseteq Active(records)
      /\ \A S : n \in S /\ Linkable(S) => Client(n) \subseteq S
      /\ \A S : m \in S /\ Linkable(S) => Client(m) \subseteq S
  BY <1>1, ClientLeast
<1>3. Client(m) \subseteq Client(n) BY <1>2
<1>4. n \in Client(m)
  <2> SUFFICES ASSUME n \notin Client(m) PROVE FALSE
    OBVIOUS
  <2> DEFINE S == Active(records) \ Client(m)
  <2>1. Linkable(S)
    <3> SUFFICES ASSUME NEW x \in S, NEW y \in Active(records), Linked(records, x, y),
                        y \in Client(m)
                 PROVE  FALSE
      BY DEF Linkable
    <3>1. Linked(records, y, x) BY LinksSymmetric
    <3> QED BY <1>2, <3>1 DEF Linkable
  <2>2. Client(n) \subseteq S BY <1>2, <2>1
  <2> QED BY <1>2, <2>2
<1>5. Client(n) \subseteq Client(m) BY <1>2, <1>4
<1> QED BY <1>3, <1>5

\* The groups of the union-find are the clients.
LEMMA GroupIsClient ==
  ASSUME ResolverInv, NEW n \in Active(records) PROVE GroupOf(n) = Client(n)
<1> DEFINE A == Active(records)
<1>1. records \in Seq(Record) /\ forest = Resolved(records) BY DEF ResolverInv
<1>2. \A m \in A : m \in GroupOf(n) <=> Same(Resolved(records), m, n)
  BY <1>1 DEF GroupOf, Same
<1>3. Linkable(GroupOf(n))
  <2> SUFFICES ASSUME NEW x \in GroupOf(n), NEW y \in A, Linked(records, x, y)
               PROVE  y \in GroupOf(n)
    BY DEF Linkable
  <2>1. x \in A BY DEF GroupOf
  <2>2. Same(Resolved(records), x, y) /\ Same(Resolved(records), x, n)
    BY <1>1, <1>2, <2>1, LinksUnite
  <2> QED BY <1>2, <2>2 DEF Same
<1>4. n \in GroupOf(n) BY DEF GroupOf
<1>5. Client(n) \subseteq GroupOf(n) BY <1>3, <1>4, ClientLeast
<1> DEFINE C == [k \in A |-> Client(k)]
<1>6. \A k \in A : C[k] = Client(k) OBVIOUS
<1> HIDE DEF C
<1>7. ASSUME NEW x \in A, NEW y \in A, Linked(records, x, y) PROVE C[x] = C[y]
  <2>1. y \in Client(x) BY <1>7, ClientLeast DEF Linkable
  <2>2. Client(y) = Client(x) BY <2>1, ClientsDisjoint
  <2> QED BY <1>6, <2>2
<1>8. Within(A, Resolved(records), C) BY <1>1, <1>7, ResolvedJoins
<1>9. ASSUME NEW m \in GroupOf(n) PROVE m \in Client(n)
  <2>1. m \in A /\ n \in A BY DEF GroupOf
  <2>2. C[m] = C[n] BY <1>2, <1>8, <2>1 DEF Within
  <2>3. m \in Client(m) BY <2>1, ClientLeast
  <2> QED BY <1>6, <2>1, <2>2, <2>3
<1> QED BY <1>5, <1>9

\* The least element of a set of naturals is in it.
LEMMA MinIn == ASSUME NEW S, S \subseteq Nat, S # {} PROVE Min(S) \in S
<1>1. \E x \in S : \A y \in S : x <= y BY LeastExists
<1> QED BY <1>1 DEF Min

\* Clients with one canonical id are one client.
LEMMA KeysAreClients ==
  ASSUME ResolverInv, NEW m \in Active(records), NEW n \in Active(records),
         Canonical(Client(m)) = Canonical(Client(n))
  PROVE  Client(m) = Client(n)
<1> DEFINE ids(g) == {records[x].permanent : x \in g} \ {Unknown}
<1>1. /\ m \in Client(m) /\ n \in Client(n)
      /\ Client(m) \subseteq Active(records) /\ Client(n) \subseteq Active(records)
  BY ClientLeast
<1>2. Active(records) \subseteq Nat /\ \A x \in Active(records) : records[x].permanent \in Nat
  <2>1. records \in Seq(Record) BY DEF ResolverInv
  <2> QED BY <2>1, RowTypes
<1>3. ids(Client(m)) \subseteq Nat /\ ids(Client(n)) \subseteq Nat BY <1>1, <1>2
<1>4. \A x \in Client(m), y \in Client(n) : x = y \/ Linked(records, x, y) => Client(m) = Client(n)
  <2> SUFFICES ASSUME NEW x \in Client(m), NEW y \in Client(n), x = y \/ Linked(records, x, y)
               PROVE  Client(m) = Client(n)
    OBVIOUS
  <2>1. y \in Client(m) BY <1>1, ClientLeast DEF Linkable
  <2>2. Client(y) = Client(m) /\ Client(y) = Client(n) BY <2>1, ClientsDisjoint
  <2> QED BY <2>2
<1>5. \A g : Canonical(g) = IF ids(g) = {} THEN <<"legacy", Min(g)>> ELSE <<"agent", Min(ids(g))>>
  BY DEF Canonical
<1>6. \A x \in ids(Client(m)) : \E y \in Client(m) : records[y].permanent = x /\ x # Unknown
  OBVIOUS
<1>7. \A x \in ids(Client(n)) : \E y \in Client(n) : records[y].permanent = x /\ x # Unknown
  OBVIOUS
<1> HIDE DEF ids
<1>8. CASE ids(Client(m)) = {} /\ ids(Client(n)) = {}
  <2>1. Min(Client(m)) = Min(Client(n)) BY <1>5, <1>8
  <2>2. Min(Client(m)) \in Client(m) /\ Min(Client(n)) \in Client(n) BY <1>1, <1>2, MinIn
  <2> QED BY <1>4, <2>1, <2>2
<1>9. CASE ids(Client(m)) # {} /\ ids(Client(n)) # {}
  <2>1. Min(ids(Client(m))) = Min(ids(Client(n))) BY <1>5, <1>9
  <2>2. Min(ids(Client(m))) \in ids(Client(m)) /\ Min(ids(Client(n))) \in ids(Client(n))
    BY <1>3, <1>9, MinIn
  <2>3. PICK x \in Client(m) : records[x].permanent = Min(ids(Client(m))) /\ Min(ids(Client(m))) # Unknown
    BY <1>6, <2>2
  <2>4. PICK y \in Client(n) : records[y].permanent = Min(ids(Client(n))) BY <1>7, <2>2
  <2>5. Linked(records, x, y) BY <2>1, <2>3, <2>4 DEF Linked, SameAgent
  <2> QED BY <1>4, <2>5
<1>10. (ids(Client(m)) = {}) <=> (ids(Client(n)) = {}) BY <1>5
<1> QED BY <1>8, <1>9, <1>10

\* Two rows get one canonical id if and only if a chain of links joins them, and the
\* audit counts every client once, as online while any of its rows is: for any table, any
\* order of its rows and any identifiers (resolve_identities, shadow.py).
THEOREM ClientsSafety == ResolverSpec => []AuditCountsClients
<1> SUFFICES ASSUME ResolverInv PROVE AuditCountsClients
  <2>1. ResolverInv => AuditCountsClients OBVIOUS
  <2> QED BY <2>1, ResolverInvariant, PTL
<1> DEFINE A == Active(records)
<1>1. \A n \in A : GroupOf(n) = Client(n) BY GroupIsClient
<1>2. \A n \in A : n \in Client(n) /\ Client(n) \subseteq A BY ClientLeast
<1>3. GroupsAreClients
  <2> DEFINE key == [n \in A |-> Canonical(GroupOf(n))]
  <2>1. \A n \in A : key[n] = Canonical(Client(n)) BY <1>1
  <2> HIDE DEF key
  <2>2. ASSUME NEW n \in A PROVE {m \in A : key[m] = key[n]} = Client(n)
    <3>1. ASSUME NEW m \in A, key[m] = key[n] PROVE m \in Client(n)
      <4>1. Client(m) = Client(n) BY <2>1, <3>1, KeysAreClients
      <4> QED BY <1>2, <4>1
    <3>2. ASSUME NEW m \in Client(n) PROVE m \in A /\ key[m] = key[n]
      <4>1. m \in A /\ Client(m) = Client(n) BY <1>2, ClientsDisjoint
      <4> QED BY <2>1, <4>1
    <3> QED BY <3>1, <3>2
  <2> QED BY <2>2 DEF GroupsAreClients, key
<1> DEFINE clients == {Client(n) : n \in A}
           groups == {GroupOf(n) : n \in A}
<1>4. groups = clients BY <1>1
<1>5. ASSUME NEW updated \in [A -> {0, 1}], NEW g \in clients
      PROVE  updated[Newest(g, updated)] = 1 <=> \E n \in g : updated[n] = 1
  <2>1. g # {} /\ \A n \in g : updated[n] \in {0, 1} BY <1>2
  <2>2. \E n \in g : \A m \in g : updated[m] <= updated[n]
    <3>1. CASE \E n \in g : updated[n] = 1
      <4>1. PICK n \in g : updated[n] = 1 BY <3>1
      <4>2. \A m \in g : updated[m] <= updated[n] BY <2>1, <4>1
      <4> QED BY <4>2
    <3>2. CASE ~\E n \in g : updated[n] = 1
      <4>1. \A m \in g : updated[m] = 0 BY <2>1, <3>2
      <4>2. PICK n \in g : TRUE BY <2>1
      <4>3. \A m \in g : updated[m] <= updated[n] BY <4>1
      <4> QED BY <4>3
    <3> QED BY <3>1, <3>2
  <2>3. Newest(g, updated) \in g /\ \A m \in g : updated[m] <= updated[Newest(g, updated)]
    BY <2>2 DEF Newest
  <2> QED BY <2>1, <2>3
<1>6. ASSUME NEW updated \in [A -> {0, 1}]
      PROVE  {g \in groups : updated[Newest(g, updated)] = 1}
               = {c \in clients : \E n \in c : updated[n] = 1}
  BY <1>4, <1>5
<1>7. ASSUME NEW updated \in [A -> {0, 1}]
      PROVE  LET report == Audit(groups, updated)
             IN /\ report.physical = Cardinality(clients)
                /\ report.online = Cardinality({c \in clients : \E n \in c : updated[n] = 1})
  <2>1. Audit(groups, updated) =
          [physical |-> Cardinality(groups),
           online |-> Cardinality({g \in groups : updated[Newest(g, updated)] = 1})]
    BY DEF Audit
  <2> DEFINE report == Audit(groups, updated)
             up == {g \in groups : updated[Newest(g, updated)] = 1}
             some == {c \in clients : \E n \in c : updated[n] = 1}
  <2>2. report.physical = Cardinality(groups) BY <2>1
  <2>3. report.online = Cardinality(up) BY <2>1
  <2>4. up = some BY <1>6
  <2> HIDE DEF groups, clients, up, some, report
  <2>5. report.physical = Cardinality(clients) BY <1>4, <2>2
  <2>6. report.online = Cardinality(some) BY <2>3, <2>4
  <2> QED BY <2>5, <2>6 DEF report, some, groups, clients
<1> QED BY <1>3, <1>7 DEF AuditCountsClients
=============================================================================
