---------------------------- MODULE EvidenceLedger ----------------------------
(***************************************************************************)
(* The ledger of a physical certification (certification/evidence.py): one *)
(* JSON file that every command loads, extends and writes back through one *)
(* temporary file beside it, without a lock.  A result is a step of the    *)
(* plan, passed or failed; a certificate closes a complete ledger.         *)
(*                                                                         *)
(* The hash chain follows the order of the results, so a document is their *)
(* sequence.  A process that has the temporary file open keeps it when     *)
(* another process renames it over the ledger.                             *)
(***************************************************************************)
EXTENDS Naturals, Sequences

CONSTANTS
  Recorders,      \* processes that run a command
  RequiredSteps,  \* steps of the plan, each required
  MaxResults,     \* bound on results
  MaxInterrupts   \* bound on killed commands

ASSUME LedgerAssumption == MaxResults \in Nat /\ MaxInterrupts \in Nat

VARIABLES
  ledger,      \* the evidence file
  draft,       \* the temporary file: {} or {its contents}
  writer,      \* recorder -> its command
  results,     \* number of results so far
  settled,     \* history: what the ledger held whenever no command was active
  crowded,     \* history: two commands were active at once
  interrupts

ledgerVars == <<ledger, draft, writer, results, settled, crowded, interrupts>>

\* A file is written in two steps: it is truncated, and then it is filled; "mixed"
\* is what two writers of one file may leave.
Written(events, certified) == [state |-> "whole", events |-> events, certified |-> certified]
Unreadable(state) == [state |-> state, events |-> <<>>, certified |-> FALSE]

NoCommand == [pc |-> "idle", document |-> Unreadable("empty"), handle |-> "none"]

\* initialize_evidence
LedgerInit ==
  /\ ledger = Written(<<>>, FALSE) /\ draft = {}
  /\ writer = [o \in Recorders |-> NoCommand]
  /\ results = 0 /\ settled = {} /\ crowded = FALSE /\ interrupts = 0

-----------------------------------------------------------------------------
\* latest_step_results, and that all of them passed.
Passed(document, step) ==
  LET own == {i \in DOMAIN document.events : document.events[i].step = step}
  IN \E i \in own : document.events[i].passed /\ \A j \in own : j <= i

IsComplete(document) ==
  document.state = "whole" /\ \A step \in RequiredSteps : Passed(document, step)

\* The results by their numbers, and 0 for the certificate.
Facts(document) ==
  {document.events[i].id : i \in DOMAIN document.events}
    \cup (IF document.certified THEN {0} ELSE {})

Working(o) == writer[o].pc # "idle"
Quiet == \A o \in Recorders : ~Working(o)'

\* Every step notes what a quiet ledger holds.
Observe ==
  settled' = IF Quiet /\ ledger'.state = "whole" THEN settled \cup Facts(ledger') ELSE settled

Continue(o, c) == writer' = [writer EXCEPT ![o] = c]

\* load_evidence, and the refusal of a ledger that is certified.
Load(o, pc, document) ==
  /\ ~Working(o)
  /\ ledger.state = "whole" /\ ~ledger.certified
  /\ Continue(o, [pc |-> pc, document |-> document, handle |-> "none"])
  /\ crowded' = (crowded \/ \E p \in Recorders : Working(p))
  /\ UNCHANGED <<ledger, draft, interrupts>> /\ Observe

\* _append_event: attachments are copied between the load and the write.
BeginResult(o, step, passed) ==
  /\ results < MaxResults
  /\ results' = results + 1
  /\ Load(o, "open", Written(Append(ledger.events,
       [id |-> results + 1, step |-> step, passed |-> passed]), FALSE))

\* finalize_evidence
BeginCertificate(o) ==
  /\ UNCHANGED results
  /\ Load(o, "verify", Written(ledger.events, TRUE))

\* verify_evidence loads the file again.
VerifyEvidence(o) ==
  /\ writer[o].pc = "verify"
  /\ Continue(o, IF IsComplete(ledger) THEN [writer[o] EXCEPT !.pc = "open"] ELSE NoCommand)
  /\ UNCHANGED <<ledger, draft, results, crowded, interrupts>> /\ Observe

-----------------------------------------------------------------------------
(* _write.                                                                 *)

\* Mutated form: the ledger itself is opened and written.
OpenDraft_InPlace(o) ==
  /\ writer[o].pc = "open"
  /\ ledger' = Unreadable("empty") /\ UNCHANGED draft
  /\ Continue(o, [writer[o] EXCEPT !.pc = "fill", !.handle = "ledger"])
  /\ UNCHANGED <<results, crowded, interrupts>> /\ Observe

OpenDraft(o) ==
  /\ writer[o].pc = "open"
  /\ draft' = {Unreadable("empty")}
  /\ Continue(o, [writer[o] EXCEPT !.pc = "fill", !.handle = "draft"])
  /\ UNCHANGED <<ledger, results, crowded, interrupts>> /\ Observe

\* A shorter text over a longer one leaves the end of the longer one.
Filled(file, document) ==
  IF file.state = "empty" THEN {document} ELSE {document, Unreadable("mixed")}

FillDraft(o) ==
  /\ writer[o].pc = "fill"
  /\ CASE writer[o].handle = "draft" ->
            /\ \E file \in draft : \E text \in Filled(file, writer[o].document) : draft' = {text}
            /\ UNCHANGED ledger
       [] writer[o].handle = "ledger" ->
            ledger' \in Filled(ledger, writer[o].document) /\ UNCHANGED draft
       [] OTHER -> UNCHANGED <<ledger, draft>>
  /\ Continue(o, [writer[o] EXCEPT !.pc = "replace"])
  /\ UNCHANGED <<results, crowded, interrupts>> /\ Observe

\* What a process has open once the draft has become the ledger.
Moved(handle) ==
  CASE handle = "draft" -> "ledger" [] handle = "ledger" -> "gone" [] OTHER -> handle

\* os.replace; a draft that another process has renamed already is an error.
ReplaceLedger(o) ==
  /\ writer[o].pc = "replace"
  /\ IF draft = {}
     THEN Continue(o, NoCommand) /\ UNCHANGED ledger
     ELSE /\ ledger' \in draft
          /\ writer' = [p \in Recorders |->
               IF p = o THEN NoCommand ELSE [writer[p] EXCEPT !.handle = Moved(@)]]
  /\ draft' = {}
  /\ UNCHANGED <<results, crowded, interrupts>> /\ Observe

Interrupt(o) ==
  /\ Working(o) /\ interrupts < MaxInterrupts
  /\ interrupts' = interrupts + 1
  /\ Continue(o, NoCommand)
  /\ UNCHANGED <<ledger, draft, results, crowded>> /\ Observe

\* The results are bounded: a certification may end here.
LedgerHorizon == (\A o \in Recorders : ~Working(o)) /\ UNCHANGED ledgerVars

-----------------------------------------------------------------------------
LedgerStep(o) ==
  \/ \E step \in RequiredSteps, passed \in BOOLEAN : BeginResult(o, step, passed)
  \/ BeginCertificate(o) \/ VerifyEvidence(o)
  \/ OpenDraft(o) \/ FillDraft(o) \/ ReplaceLedger(o) \/ Interrupt(o)

LedgerNext == LedgerHorizon \/ \E o \in Recorders : LedgerStep(o)

LedgerSpec == LedgerInit /\ [][LedgerNext]_ledgerVars

-----------------------------------------------------------------------------
(* Properties.                                                             *)

\* A result or certificate that was in the ledger while nobody worked on it stays
\* there as long as the ledger can be read, however commands overlap and are killed.
\* A killed command alone never leaves a ledger that cannot be read; commands that
\* overlap can.
LedgerKeepsSettled ==
  \/ ledger.state # "whole" /\ crowded
  \/ ledger.state = "whole" /\ settled \subseteq Facts(ledger)

\* A ledger is certified only when the latest result of every step is a pass, unless
\* results were recorded while it was finalized.
CertifiedIsComplete == crowded \/ (ledger.certified => IsComplete(ledger))
=============================================================================
