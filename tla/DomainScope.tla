----------------------------- MODULE DomainScope -----------------------------
(***************************************************************************)
(* zerolease_types::identity::DomainScope.  A host name, and a pattern, is *)
(* the sequence of its dot-separated labels: "*.atlassian.net" is          *)
(* <<"*", "atlassian", "net">> and "" is the empty label.  At label        *)
(* granularity strip_suffix followed by ends_with('.') is "the suffix      *)
(* starts at a label boundary".                                            *)
(***************************************************************************)
EXTENDS Naturals, Sequences

\* host ends with every label of pattern but its first
EndsWithTail(pattern, host) ==
    \A i \in 2..Len(pattern) : host[Len(host) - Len(pattern) + i] = pattern[i]

\* faulty: `rest` may be a lone dot
ProperOrDotted(pattern, host) == Len(host) >= Len(pattern)

\* `rest` of the code: what is left of host has to be more than a lone dot
ProperSubdomain(pattern, host) ==
    /\ Len(host) >= Len(pattern)
    /\ ~(Len(host) = Len(pattern) /\ host[1] = "")

Matches(pattern, host) ==
    \/ pattern = host
    \/ /\ Len(pattern) > 1
       /\ pattern[1] = "*"
       /\ ProperSubdomain(pattern, host)
       /\ EndsWithTail(pattern, host)
=============================================================================
