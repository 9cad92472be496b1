--------------------------- MODULE MCTlsConnection ---------------------------
(***************************************************************************)
(* The plain connection in its four forms carries two server records, or   *)
(* one and three units of the caller's; each variation of the handshake    *)
(* carries one of each.                                                    *)
(***************************************************************************)
EXTENDS TlsConnection

Plainest ==
    [api |-> "async", split |-> FALSE, psk |-> FALSE, request |-> FALSE, client |-> "none",
     verify |-> "ok", hello |-> "ok", extensions |-> "ok", coalesced |-> TRUE, ccs |-> TRUE,
     records |-> 1, writes |-> 1]

Forms == {[Plainest EXCEPT !.api = a, !.split = s] : a \in {"async", "blocking"}, s \in BOOLEAN}

Reading == {[f EXCEPT !.records = 2, !.writes = 0] : f \in Forms}
Writing == {[f EXCEPT !.writes = 3] : f \in Forms}

Variations ==
    UNION {{[f EXCEPT !.request = TRUE, !.client = c, !.coalesced = b] :
                c \in {"none", "signer", "nosigner"}, b \in BOOLEAN}
           \cup {[f EXCEPT !.psk = TRUE, !.ccs = b] : b \in BOOLEAN}
           \cup {[f EXCEPT !.coalesced = FALSE, !.ccs = b] : b \in BOOLEAN}
           \cup {[f EXCEPT !.verify = v] : v \in {"bad", "none"}}
           \cup {[f EXCEPT !.hello = h] : h \in {"retry", "alert"}}
           \cup {[f EXCEPT !.extensions = "illegal"]} : f \in {g \in Forms : ~g.split}}

MCProfiles == Reading \cup Writing \cup Variations
=============================================================================
