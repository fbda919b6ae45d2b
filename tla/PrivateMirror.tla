----------------------------- MODULE PrivateMirror -----------------------------
(***************************************************************************)
(* The private staging mirror (staging/mirror.py): sync_private_mirror,    *)
(* which pushes a certified commit of the source repository to a private   *)
(* target, and issue_runner_registration_token.  Every gh and git command  *)
(* is a step; the owner of the target, its other pushers and the source's  *)
(* developers work in between.                                             *)
(*                                                                         *)
(* The source's commits are numbered along its branch; a commit that only  *)
(* the target has is ForeignCommit.                                       *)
(***************************************************************************)
EXTENDS Naturals

CONSTANTS
  Runs,       \* runs of the two commands, by different people or repeated
  LastCommit, \* bound on the source's branch
  MaxChanges  \* bound on changes that others make to the target

ASSUME MirrorAssumption == LastCommit \in Nat \ {0} /\ MaxChanges \in Nat

VARIABLES
  head,    \* the source's branch
  target,  \* the repository at its host: visibility and branch
  phase,   \* run -> its next command
  expected,\* run -> expected_source_commit
  changes, \* number of changes by others
  opened   \* history: runs since whose latest look others changed the visibility

mirrorVars == <<head, target, phase, expected, changes, opened>>

NoCommit == 0
ForeignCommit == LastCommit + 1
Commits == 1..LastCommit
NoTarget == [visibility |-> "ABSENT", branch |-> NoCommit]

MirrorInit ==
  /\ head = 1 /\ target = NoTarget
  /\ phase = [r \in Runs |-> "idle"]
  /\ expected = [r \in Runs |-> NoCommit]
  /\ changes = 0 /\ opened = {}

Goes(r, from, to) == phase[r] = from /\ phase' = [phase EXCEPT ![r] = to]

\* A command that changes nothing but the progress of its run.
Passes(r, from, to) ==
  Goes(r, from, to) /\ UNCHANGED <<head, target, expected, changes, opened>>

-----------------------------------------------------------------------------
(* sync_private_mirror                                                     *)

\* The expected commit was certified some time ago.
BeginSync(r, commit) ==
  /\ commit <= head
  /\ Goes(r, "idle", "fetch")
  /\ expected' = [expected EXCEPT ![r] = commit]
  /\ UNCHANGED <<head, target, changes, opened>>

FetchSource(r) == expected[r] = head /\ Passes(r, "fetch", "view")

\* Mutated form: a target that this run created is not looked at again.
Accepted_AsCreated(r) == target.visibility = "PRIVATE" \/ phase[r] = "view again"

\* _target_visibility
Accepted(r) == target.visibility = "PRIVATE"

View(r, from, to) ==
  /\ target # NoTarget
  /\ Accepted(r)
  /\ Goes(r, from, to)
  /\ opened' = opened \ {r}
  /\ UNCHANGED <<head, target, expected, changes>>

FindNoTarget(r) == target = NoTarget /\ Passes(r, "view", "create")

\* gh repo create fails when somebody else was faster.
CreateTarget(r) ==
  /\ target = NoTarget
  /\ Goes(r, "create", "view again")
  /\ target' = [visibility |-> "PRIVATE", branch |-> NoCommit]
  /\ opened' = opened \ {r}
  /\ UNCHANGED <<head, expected, changes>>

\* git push refuses what is not a descendant of the branch.
PushCommit(r) ==
  /\ target # NoTarget
  /\ target.branch <= expected[r]
  /\ Goes(r, "push", "configure")
  /\ target' = [target EXCEPT !.branch = expected[r]]
  /\ UNCHANGED <<head, expected, changes, opened>>

\* The default branch and the environment.
ConfigureTarget(r) == target # NoTarget /\ Passes(r, "configure", "verify")

VerifyCommit(r) == target.branch = expected[r] /\ Passes(r, "verify", "last view")

\* A command or a check that fails ends the run, and so does its user.
FailRun(r) == phase[r] # "idle" /\ Passes(r, phase[r], "idle")

Sync(r) ==
  \/ \E commit \in Commits : BeginSync(r, commit)
  \/ FetchSource(r) \/ FindNoTarget(r) \/ CreateTarget(r)
  \/ View(r, "view", "push") \/ View(r, "view again", "push")
  \/ PushCommit(r) \/ ConfigureTarget(r) \/ VerifyCommit(r)
  \/ View(r, "last view", "idle")

-----------------------------------------------------------------------------
(* issue_runner_registration_token                                         *)

BeginIssue(r) == Passes(r, "idle", "view target")

IssueToken(r) == target # NoTarget /\ Passes(r, "issue", "idle")

Issue(r) == BeginIssue(r) \/ View(r, "view target", "issue") \/ IssueToken(r)

-----------------------------------------------------------------------------
(* The others.                                                             *)

Develop ==
  /\ head < LastCommit
  /\ head' = head + 1
  /\ UNCHANGED <<target, phase, expected, changes, opened>>

\* Created, opened, closed or deleted.
ChangeTarget ==
  /\ changes < MaxChanges
  /\ \/ target' = NoTarget
     \/ \E visibility \in {"PRIVATE", "INTERNAL", "PUBLIC"} :
          target' = [target EXCEPT !.visibility = visibility]
  /\ changes' = changes + 1
  /\ opened' = Runs
  /\ UNCHANGED <<head, phase, expected>>

PushToTarget ==
  /\ changes < MaxChanges
  /\ target # NoTarget
  /\ \E commit \in Commits \cup {ForeignCommit} : target' = [target EXCEPT !.branch = commit]
  /\ changes' = changes + 1
  /\ UNCHANGED <<head, phase, expected, opened>>

MirrorNext ==
  \/ \E r \in Runs : Sync(r) \/ Issue(r) \/ FailRun(r)
  \/ Develop \/ ChangeTarget \/ PushToTarget

MirrorSpec == MirrorInit /\ [][MirrorNext]_mirrorVars

-----------------------------------------------------------------------------
\* A run pushes, or issues a token for a runner, only while the target is private,
\* unless somebody changed the target after that run's own latest look at it.
PrivateWhenUsed == \A r \in Runs :
  phase[r] \in {"push", "configure", "verify", "last view", "issue"} /\ r \notin opened
    => target.visibility = "PRIVATE"
=============================================================================
