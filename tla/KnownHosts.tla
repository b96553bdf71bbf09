------------------------------ MODULE KnownHosts ------------------------------
(***************************************************************************)
(* How the SSH transport looks a host key up in a known_hosts file         *)
(* (src/ssh.rs), beside what ssh(1) says a file means.                     *)
(*                                                                         *)
(* A name and a pattern are sequences of characters; "A" stands for the    *)
(* letters in upper case.  An entry has a marker, "bad" for a line that is *)
(* skipped, a key, and patterns or the name it hashes.  Addresses in       *)
(* another numeric form than their canonical one are left out.             *)
(***************************************************************************)
EXTENDS Integers, Sequences

CONSTANTS None, Chars   \* the characters of names and patterns

-----------------------------------------------------------------------------
(* The lookup name.                                                        *)

LowerLetter(c) == IF c = "A" THEN "a" ELSE c

\* canonical_host, of a host that is no address.
CanonicalHost(host) == [i \in DOMAIN host |-> LowerLetter(host[i])]

\* known_hosts_lookup_name; a port is one character.
LookupName(host, port) ==
  IF port = "22" THEN CanonicalHost(host)
  ELSE <<"[">> \o CanonicalHost(host) \o <<"]", ":", port>>

-----------------------------------------------------------------------------
(* glob_match_bytes.                                                       *)

\* One turn of the loop.  A slice is how many characters are behind it: of the
\* pattern and of the target, and of each where the last star resumes; star is
\* 0 before one.
Turn(pattern, target, s) ==
  LET Left == s.pat < Len(pattern)
      c    == pattern[s.pat + 1]
      d    == target[s.tgt + 1]
  IN
  CASE s.tgt = Len(target) \/ s.stuck -> s
    [] s.tgt < Len(target) /\ ~s.stuck /\ Left /\ c = "*" ->
         [s EXCEPT !.pat = @ + 1, !.star = s.pat + 1, !.from = s.tgt]
    [] s.tgt < Len(target) /\ ~s.stuck /\ Left /\ c # "*"
       /\ (c = "?" \/ LowerLetter(c) = LowerLetter(d)) ->
         [s EXCEPT !.pat = @ + 1, !.tgt = @ + 1]
    [] OTHER ->
         IF s.star = 0 THEN [s EXCEPT !.stuck = TRUE]
         ELSE [s EXCEPT !.pat = s.star, !.tgt = s.from + 1, !.from = @ + 1]

\* The turns that are enough for a pattern and a target.
Turns(pattern, target) == (Len(pattern) + 1) * (Len(target) + 1)

GlobMatch(pattern, target) ==
  LET run[n \in 0..Turns(pattern, target)] ==
        IF n = 0 THEN [pat |-> 0, tgt |-> 0, star |-> 0, from |-> 0, stuck |-> FALSE]
        ELSE Turn(pattern, target, run[n - 1])
      end == run[Turns(pattern, target)]
  IN  ~end.stuck /\ \A i \in end.pat + 1..Len(pattern) : pattern[i] = "*"

-----------------------------------------------------------------------------
(* known_hosts_verdict.                                                    *)

\* host_matches_patterns: a negation that matches ends the search.
Find(found, p, lookup) ==
  IF found = "refused" \/ ~GlobMatch(p.glob, lookup) THEN found
  ELSE IF p.negated THEN "refused" ELSE "positive"

HostMatchesPatterns(patterns, lookup) ==
  LET found[n \in 0..Len(patterns)] ==
        IF n = 0 THEN "none" ELSE Find(found[n - 1], patterns[n], lookup)
  IN  found[Len(patterns)] = "positive"

\* host_matches_entry
HostMatchesEntry(e, lookup) ==
  IF e.hashed = None THEN HostMatchesPatterns(e.patterns, lookup) ELSE e.hashed = lookup

\* Variant: the first entry of the host that has the key decides.
JudgeFirst(verdict, e, lookup, key) ==
  IF \/ verdict # "NotTrusted" \/ e.marker \in {"bad", "cert-authority"}
     \/ ~HostMatchesEntry(e, lookup) \/ e.key # key
  THEN verdict
  ELSE IF e.marker = "revoked" THEN "Revoked" ELSE "Trusted"

\* A revocation ends the search, an entry that trusts the key does not.
Judge(verdict, e, lookup, key) ==
  IF \/ verdict = "Revoked" \/ e.marker \in {"bad", "cert-authority"}
     \/ ~HostMatchesEntry(e, lookup) \/ e.key # key
  THEN verdict
  ELSE IF e.marker = "revoked" THEN "Revoked" ELSE "Trusted"

Verdict(file, lookup, key) ==
  LET verdict[n \in 0..Len(file)] ==
        IF n = 0 THEN "NotTrusted" ELSE Judge(verdict[n - 1], file[n], lookup, key)
  IN  verdict[Len(file)]

-----------------------------------------------------------------------------
(* What a file means.                                                      *)

\* A pattern matches what its characters match in turn, a star anything:
\* starts[n] is what may be behind the last n characters of the pattern.
Matches(pattern, target) ==
  LET starts[n \in 0..Len(pattern)] ==
        IF n = 0 THEN {Len(target)}
        ELSE LET c    == pattern[Len(pattern) - n + 1]
                 rest == starts[n - 1]
             IN  {j \in 0..Len(target) :
                    IF c = "*" THEN \E k \in rest : j <= k
                    ELSE j + 1 \in rest /\ (c \in {"?", target[j + 1]} \/ LowerLetter(c) = target[j + 1])}
  IN  0 \in starts[Len(pattern)]

\* The entries of the file that are about the name and the key.
Names(e, lookup) ==
  \/ e.hashed = lookup
  \/ /\ e.hashed = None
     /\ \E i \in DOMAIN e.patterns : Matches(e.patterns[i].glob, lookup)
     /\ \A i \in DOMAIN e.patterns : Matches(e.patterns[i].glob, lookup) => ~e.patterns[i].negated
Says(file, marker, lookup, key) ==
  \E i \in DOMAIN file :
    file[i].marker = marker /\ file[i].key = key /\ Names(file[i], lookup)

\* The key is trusted if an entry lists it, wherever it stands, and none
\* revokes it.
IsTrusted(file, lookup, key) ==
  Says(file, "none", lookup, key) /\ ~Says(file, "revoked", lookup, key)
=============================================================================
