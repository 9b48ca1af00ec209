----------------------------- MODULE MCHandoff ------------------------------
EXTENDS Handoff

CONSTANTS src, tgt, far

\* Two applications of one realm that hand over to each other, and one of another realm.
MCAuthRealm == (src :> "admin" @@ tgt :> "admin" @@ far :> "user")
MCEnvironment == (src :> "dev" @@ tgt :> "dev" @@ far :> "dev")
On == [inbound |-> TRUE, outbound |-> TRUE, patterns |-> {<<"events", "*">>, <<"*">>}]
Off == [inbound |-> FALSE, outbound |-> FALSE, patterns |-> {}]
MCSettings == {On, Off}
AllOn == setting = [c \in Clients |-> On]

P(segs) == [slash |-> TRUE, segs |-> segs, query |-> "none"]
MCPaths == {P(<<"events", "a">>), P(<<"events", "%2e%2e">>), P(<<"%2Fa">>),
            [slash |-> FALSE, segs |-> <<"a">>, query |-> "none"]}
MCInit == HandoffInit /\ AllOn
Symmetry == Permutations(Tabs) \cup Permutations(Sids)
MCSpec == MCInit /\ [][HandoffNext]_handoffVars
=============================================================================
