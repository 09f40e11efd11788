------------------------------- MODULE Regdom -------------------------------
(***************************************************************************)
(* The registered domain of a host name (regdom.c): rules read from the    *)
(* public suffix list into a table, and the walk over the suffixes of a    *)
(* name that decides with the first one the table holds.                   *)
(*                                                                         *)
(* A name is the sequence of its labels in lower case, in the form the     *)
(* table has it (regdom_idna has been applied).  A line of the file is     *)
(* [kind, name]: kind "normal" for x, "wildcard" for *.x, "exception" for  *)
(* !x.                                                                     *)
(***************************************************************************)
EXTENDS Integers, Sequences, FiniteSetsExt

NoDomain == <<>>
Suffix(name, i) == SubSeq(name, i, Len(name))

(***************************************************************************)
(* regdom_load_rules: one entry for a name, whatever its kind.  The second *)
(* line for a name ends the program (log_die).                             *)
(***************************************************************************)

Loads(lines) == \A a, b \in lines : a.name = b.name => a = b
Table(lines) ==
  [n \in {l.name : l \in lines} |-> (CHOOSE l \in lines : l.name = n).kind]

\* The suffix before the one at i, or NULL.
Before(name, i) == IF i > 1 THEN Suffix(name, i - 1) ELSE NoDomain

\* Mutant of RegisteredDomain: a wildcard stands for its own name only.
RegisteredDomainFlat(table, name) ==
  LET hits == {i \in DOMAIN name : Suffix(name, i) \in DOMAIN table}
      i == Min(hits)
      n == Len(name)
  IN  IF hits = {} THEN Before(name, n)
      ELSE IF table[Suffix(name, i)] = "exception" THEN Suffix(name, i)
      ELSE Before(name, i)

\* regdom.  The first suffix that is in the table decides; with a wildcard prev is
\* returned, two suffixes back, and with a normal rule curr, one suffix back.
RegisteredDomain(table, name) ==
  LET hits == {i \in DOMAIN name : Suffix(name, i) \in DOMAIN table}
      i == Min(hits)
      n == Len(name)
  IN  IF hits = {} THEN Before(name, n)
      ELSE IF table[Suffix(name, i)] = "exception" THEN Suffix(name, i)
      ELSE IF table[Suffix(name, i)] = "wildcard"
           THEN IF i > 1 THEN Before(name, i - 1) ELSE NoDomain
      ELSE Before(name, i)

(***************************************************************************)
(* Reference: the algorithm of publicsuffix.org.  Every rule that matches  *)
(* is considered; an exception prevails, then the rule of most labels,     *)
(* then "*".  The registered domain is the public suffix and one label.    *)
(***************************************************************************)

EndsWith(name, s) == \E i \in DOMAIN name : s = Suffix(name, i)
Labels(l) == Len(l.name) + (IF l.kind = "wildcard" THEN 1 ELSE 0)
Matches(l, name) ==
  /\ Labels(l) <= Len(name)
  /\ EndsWith(name, l.name)

PublicSuffixLength(lines, name) ==
  LET matching == {l \in lines : Matches(l, name)}
      exceptions == {l \in matching : l.kind = "exception"}
  IN  IF exceptions # {} THEN Max({Labels(l) : l \in exceptions}) - 1
      ELSE Max({Labels(l) : l \in matching} \cup {1})

Reference(lines, name) ==
  LET n == PublicSuffixLength(lines, name)
  IN  IF n < Len(name) THEN Suffix(name, Len(name) - n) ELSE NoDomain

\* regdom's answer is the reference's, with two exceptions: the name a wildcard hangs
\* below (kobe.jp of *.kobe.jp) is given none, and below an exception a longer rule
\* would win.
RegdomAgrees(lines, name, answer) ==
  \/ answer = Reference(lines, name)
  \/ [kind |-> "wildcard", name |-> name] \in lines /\ answer = NoDomain
  \/ \E l, m \in lines :
       l.kind = "exception" /\ l # m /\ EndsWith(m.name, l.name) /\ Matches(m, name)
=============================================================================
