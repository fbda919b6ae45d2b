--------------------------- MODULE IdentityResolver ---------------------------
(***************************************************************************)
(* resolve_identities (identity/resolver.py): which rows of the latest     *)
(* table are one physical client.  The code merges with a union-find, by   *)
(* rank and with path compression, in the order of the rows; a client is   *)
(* what the rules of its docstring link together.                          *)
(*                                                                         *)
(* Rows are numbered in the order in which the SELECT returns them.  An id *)
(* of 0 is one that _valid rejects; a row without a hostname is invalid.   *)
(***************************************************************************)
EXTENDS Naturals, Sequences, FiniteSets, FiniteSetsExt

CONSTANTS
  MaxRows,
  Hostnames,
  PermanentIds,
  Tokens      \* hardware identifiers

ASSUME ResolverAssumption ==
  MaxRows \in Nat /\ PermanentIds \subseteq Nat \ {0} /\ Hostnames \subseteq Nat \ {0}

VARIABLES
  records,   \* the rows read, each what its machine last reported
  forest     \* the union-find once every pair is united

resolverVars == <<records, forest>>

Unknown == 0
\* An invalid row is passed over, whatever identifiers it has: here all of them.
Record == [hostname : Hostnames, permanent : PermanentIds \cup {Unknown}, tokens : SUBSET Tokens]
          \cup [hostname : {Unknown}, permanent : PermanentIds, tokens : {Tokens}]

-----------------------------------------------------------------------------
Active(rs) == {n \in DOMAIN rs : rs[n].hostname # Unknown}

\* Identifiers seen under more than one hostname.
Quarantined(rs) ==
  {t \in Tokens : \E m, n \in Active(rs) :
     t \in rs[m].tokens \cap rs[n].tokens /\ rs[m].hostname # rs[n].hostname}

SameAgent(rs, m, n) ==
  /\ rs[m].permanent = rs[n].permanent
  /\ rs[m].permanent # Unknown

SameHardware(rs, m, n, quarantined) ==
  /\ rs[m].hostname = rs[n].hostname
  /\ (rs[m].tokens \cap rs[n].tokens) \ quarantined # {}

-----------------------------------------------------------------------------
(* _UnionFind.                                                             *)

Singletons(rs) == [parent |-> [n \in Active(rs) |-> n], rank |-> [n \in Active(rs) |-> 0]]

\* The rows on the way up from a row, and the last of them.
Path(uf, n) ==
  LET path[m \in DOMAIN uf.parent] == {m} \cup (IF uf.parent[m] = m THEN {} ELSE path[uf.parent[m]])
  IN path[n]

Root(uf, n) == CHOOSE m \in Path(uf, n) : uf.parent[m] = m

\* find hangs every row on the path below the root.
Compressed(uf, n) ==
  LET path == Path(uf, n)
      root == Root(uf, n)
  IN [uf EXCEPT !.parent = [m \in DOMAIN @ |-> IF m \in path THEN root ELSE @[m]]]

\* Mutated form: the second row alone is hung below the first's root.
Union_NoRoots(uf, m, n) == [uf EXCEPT !.parent[n] = Root(uf, m)]

Union(uf, m, n) ==
  LET found == Compressed(Compressed(uf, m), n)
      a == Root(uf, m)
      b == Root(uf, n)
      high == IF uf.rank[a] < uf.rank[b] THEN b ELSE a
      low == IF high = a THEN b ELSE a
  IN IF a = b THEN found
     ELSE [found EXCEPT !.parent[low] = high,
                        !.rank[high] = IF uf.rank[a] = uf.rank[b] THEN @ + 1 ELSE @]

-----------------------------------------------------------------------------
\* The pairs are united in the order of the rows.
Merged(uf, N, pairs) ==
  LET after[k \in 0..N * N] ==
        IF k = 0 THEN uf
        ELSE LET u == after[k - 1]
                 m == 1 + ((k - 1) \div N)
                 n == 1 + ((k - 1) % N)
             IN IF <<m, n>> \in pairs THEN Union(u, m, n) ELSE u
  IN after[N * N]

\* The first row of an agent is the anchor of the others.
Anchored(rs) ==
  {p \in Active(rs) \X Active(rs) :
     /\ p[1] < p[2] /\ SameAgent(rs, p[1], p[2])
     /\ \A k \in Active(rs) : SameAgent(rs, k, p[2]) => p[1] <= k}

Matching(rs, hostname, quarantined) ==
  {p \in Active(rs) \X Active(rs) :
     /\ p[1] < p[2] /\ rs[p[1]].hostname = hostname
     /\ SameHardware(rs, p[1], p[2], quarantined)}

\* Hostnames come in the order of their first rows.
Resolved(rs) ==
  LET quarantined == Quarantined(rs)
      IsFirst(f) == f \in Active(rs) /\ \A e \in Active(rs) : e < f => rs[e].hostname # rs[f].hostname
      after[f \in 0..Len(rs)] ==
        IF f = 0 THEN Merged(Singletons(rs), Len(rs), Anchored(rs))
        ELSE LET before == after[f - 1]
             IN IF IsFirst(f) THEN Merged(before, Len(rs), Matching(rs, rs[f].hostname, quarantined)) ELSE before
  IN after[Len(rs)]

ResolverInit == records = <<>> /\ forest = Resolved(<<>>)

\* The table read may have one more row.
Read(record) ==
  /\ Len(records) < MaxRows
  /\ records' = Append(records, record)
  /\ forest' = Resolved(records')

\* Each report reads the table anew.
ReadAgain ==
  /\ records # <<>>
  /\ records' = <<>> /\ forest' = Resolved(<<>>)

ResolverNext == ReadAgain \/ \E record \in Record : Read(record)

ResolverSpec == ResolverInit /\ [][ResolverNext]_resolverVars

-----------------------------------------------------------------------------
\* A group: the active rows with one root.
GroupOf(n) == {m \in Active(records) : Root(forest, m) = Root(forest, n)}

Canonical(group) ==
  LET ids == {records[n].permanent : n \in group} \ {Unknown}
  IN IF ids = {} THEN <<"legacy", Min(group)>> ELSE <<"agent", Min(ids)>>

-----------------------------------------------------------------------------
(* The audit report over the groups (identity/shadow.py).  A row was       *)
(* updated at 1, within offline_seconds, or at 0: before, or at a time     *)
(* that cannot be parsed.                                                  *)

Newest(group, updated) == CHOOSE n \in group : \A m \in group : updated[m] <= updated[n]

Audit(groups, updated) ==
  [physical |-> Cardinality(groups),
   online |-> Cardinality({g \in groups : updated[Newest(g, updated)] = 1})]

-----------------------------------------------------------------------------
(* The rules of the docstring: rows are one client when a chain of links   *)
(* leads from one to the other.                                            *)

Client(n) ==
  LET quarantined == Quarantined(records)
      reach[k \in 0..MaxRows] ==
        IF k = 0 THEN {n}
        ELSE LET near == reach[k - 1]
             IN near \cup {m \in Active(records) : \E l \in near : SameAgent(records, l, m) \/ SameHardware(records, l, m, quarantined)}
  IN reach[MaxRows]

\* In whatever order the rows come, the groups are exactly the clients: two rows get
\* the same canonical id if and only if a chain of links leads from one to the other.
GroupsAreClients ==
  LET key == [n \in Active(records) |-> Canonical(GroupOf(n))]
  IN \A n \in Active(records) : {m \in Active(records) : key[m] = key[n]} = Client(n)

\* The audit counts every physical client once, and as online whichever of its rows
\* is the one that its machine still reports under.
AuditCountsClients ==
  /\ GroupsAreClients
  /\ LET clients == {Client(n) : n \in Active(records)}
         groups == {GroupOf(n) : n \in Active(records)}
     IN \A updated \in [Active(records) -> {0, 1}] :
          LET report == Audit(groups, updated)
          IN /\ report.physical = Cardinality(clients)
             /\ report.online = Cardinality({c \in clients : \E n \in c : updated[n] = 1})
=============================================================================
