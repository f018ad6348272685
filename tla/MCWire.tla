------------------------------ MODULE MCWire ------------------------------
(* One connection whose token comes and goes, which may speak a newer        *)
(* version; an agent, bound to "a" or to nobody, asks on behalf of "b".      *)
EXTENDS Wire

MCIdentities == {[role |-> "agent", agent |-> {"a"}],
                 [role |-> "agent", agent |-> {}],
                 [role |-> "admin", agent |-> {}]}

MCHellos == {[protocol |-> "zerolease", version |-> 1, token |-> {"t"}],
             [protocol |-> "zerolease", version |-> 2, token |-> {"t"}]}

MCCalls == {[method |-> "request_lease", agent |-> "b", valid |-> TRUE],
            [method |-> "store_secret", agent |-> "b", valid |-> FALSE],
            [method |-> "list_secrets", agent |-> "b", valid |-> TRUE]}
===========================================================================
