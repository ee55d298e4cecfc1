---------------------------- MODULE MCDemoClient ----------------------------
(* The client run against a chain on which only it signs for Alice and Bob. *)
EXTENDS DemoClientInvariant

MCAccountId == {Alice, Bob, Charlie}
MCEndowment == [a \in MCAccountId |-> IF a = Alice THEN 20 ELSE 1]
MCPolicy == {policy_of_demo}
MCOffers == {script[i] : i \in DOMAIN script}
=============================================================================
