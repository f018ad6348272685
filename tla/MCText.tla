------------------------------- MODULE MCText -------------------------------
(* The two functions of the code that read text, explored side by side:    *)
(* domain scopes (DomainText) and server names (Sni).  They share nothing, *)
(* so only one of them moves away from its initial state.                  *)
EXTENDS DomainText, Sni

\* host names "aB" and "c"
MCNames ==
    { <<[type |-> 0, name |-> <<97, 66>>]>>,
      <<[type |-> 1, name |-> <<0, 0>>], [type |-> 0, name |-> <<99>>]>> }

\* extensions other than server_name, the second with zeros for data
MCOther == {[type |-> 23, data |-> <<>>], [type |-> 51, data |-> Filler(5)]}

\* at most one server_name, as TLS has it
MCExtensions ==
    UNION {{<<>>, <<e>>, <<e, f>>, <<n>>, <<e, n>>, <<n, e>>, <<e, n, f>>} :
              <<e, f, n>> \in MCOther \X MCOther \X {[type |-> 0, names |-> x] : x \in MCNames}}

MCHellos ==
    { [session |-> s, suites |-> c, extensions |-> x, cut |-> k, behind |-> b] :
        s \in {0, 2}, c \in {2, 258}, x \in MCExtensions, k \in {{}, {4}, {40}},
        b \in {<<>>, <<23, 3>>} }

TextInit == Init /\ SniInit

TextNext ==
    \/ hello = {} /\ Next /\ UNCHANGED sniVars
    \/ pattern = <<>> /\ host = <<>> /\ SniNext /\ UNCHANGED vars

TextSpec == TextInit /\ [][TextNext]_<<vars, sniVars>>
=============================================================================
