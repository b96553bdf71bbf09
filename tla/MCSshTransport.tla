---------------------------- MODULE MCSshTransport ----------------------------
(* A small instance of SshTransport: files of one entry with any short      *)
(* pattern, and of two entries that contradict one another.                 *)
EXTENDS SshTransport

MCChars == {"a", "A", "b", "B", "[", "]", ":", "9", "22", "*", "?"}
MCKeys  == {"key", "other key"}
MCHosts == {<<"a">>, <<"b">>, <<"A", "b">>, <<"a", "b", "a">>, <<"a", "a", "b">>}
MCPorts == {"22", "9"}

\* Ends of lines and marks, whole and cut in two.
MCWrites == {<<b>> : b \in Bytes} \cup {<<b, c>> : b \in Bytes, c \in {"LF", "M"}}

Globs == UNION {[1..n -> {"a", "b", "*", "?"}] : n \in 0..4}
         \cup {<<"[", "a", "]", ":", "9">>, <<"[", "*", "]", ":", "*">>, <<"*", "9">>, <<"A", "B">>}

P(glob, negated) == [glob |-> glob, negated |-> negated]
Entry(marker, patterns, hashed, key) ==
  [marker |-> marker, patterns |-> patterns, hashed |-> hashed, key |-> key]

Some == P(<<"a", "*">>, FALSE)
Not  == P(<<"*", "b">>, TRUE)
Entries ==
  {Entry(marker, patterns, None, key) :
     marker \in {"none", "revoked", "cert-authority", "bad"}, key \in MCKeys,
     patterns \in {<<Some>>, <<Some, Not>>, <<Not, Some>>}}
  \cup {Entry(marker, <<>>, <<"a">>, "key") : marker \in {"none", "revoked"}}

MCFiles ==
  {<<Entry("none", <<P(glob, FALSE)>>, None, "key")>> : glob \in Globs}
  \cup {<<>>} \cup {<<d, e>> : d, e \in Entries}
=============================================================================
