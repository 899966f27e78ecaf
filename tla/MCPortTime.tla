----------------------------- MODULE MCPortTime ------------------------------
(* PortTime on ports of two slots and offsets of two bits. *)
EXTENDS PortTime

Id(c, p) == [clock_id |-> c, port |-> p]

\* (1, 1) has the slot in front of that of (1, 2); port 0 is special.
PortsAndSpecial == {Id(1, 1), Id(1, 2), Id(2, 0)}

Offsets == 0..(Modulus - 1)

\* Visible clocks, with a full secret and no policy, or a policy and a shorter
\* secret.
FullOrSecured == {clock \in Clock : /\ clock.full <=> clock.policy = Unsecured
                                   /\ clock.visible}
=============================================================================
