------------------------- MODULE MCOtaCoordination -------------------------
EXTENDS OtaCoordination

Plain  == [verified |-> TRUE, policyOk |-> TRUE, force |-> FALSE, https |-> TRUE]
Forced == [Plain EXCEPT !.force = TRUE]
Local  == [Plain EXCEPT !.https = FALSE]
Forged == [Plain EXCEPT !.verified = FALSE]

MCManifests == {Plain, Local, Forged}
PlainOnly == {Plain}
ForcedOnly == {Forced}
============================================================================
