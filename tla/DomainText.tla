------------------------------ MODULE DomainText ------------------------------
(***************************************************************************)
(* DomainScope::matches on the characters of its two strings, as the code  *)
(* computes it, beside DomainScope, which the rest of this project uses    *)
(* and which matches label by label.  The state is the pair of arguments;  *)
(* a step appends a character to one of them.                              *)
(***************************************************************************)
EXTENDS DomainScope, SequencesExt

CONSTANTS
    Char,   \* characters that occur; "*" and "." are the special ones
    MaxLen  \* bound: length of either string

VARIABLES pattern, host

vars == <<pattern, host>>

\* pattern == host, strip_prefix("*."), strip_suffix, and the test of `rest`
CharMatches(p, h) ==
    \/ p = h
    \/ /\ IsPrefix(<<"*", ".">>, p)
       /\ LET suffix == SubSeq(p, 3, Len(p))
              rest   == SubSeq(h, 1, Len(h) - Len(suffix))
          IN  /\ IsSuffix(suffix, h)
              /\ IsSuffix(<<".">>, rest)
              /\ Len(rest) > 1

\* the dot-separated labels of a string
Labels(s) ==
    FoldLeft(LAMBDA labels, ch :
               IF ch = "." THEN Append(labels, "")
               ELSE [labels EXCEPT ![Len(labels)] = @ \o ch],
             <<"">>, s)

GrowPattern ==
    /\ Len(pattern) < MaxLen
    /\ \E ch \in Char : pattern' = Append(pattern, ch)
    /\ UNCHANGED host

GrowHost ==
    /\ Len(host) < MaxLen
    /\ \E ch \in Char : host' = Append(host, ch)
    /\ UNCHANGED pattern

Init == pattern = <<>> /\ host = <<>>

Next == GrowPattern \/ GrowHost

Spec == Init /\ [][Next]_vars

-----------------------------------------------------------------------------
(* matches can be read label by label: the character comparison with its   *)
(* trailing-dot and length tests accepts exactly the hosts that end in the *)
(* pattern's labels and have at least one more, the lone-dot host aside.   *)
LabelsAgree == CharMatches(pattern, host) <=> Matches(Labels(pattern), Labels(host))
=============================================================================
