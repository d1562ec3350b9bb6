--------------------------- MODULE MCDecisionCore ---------------------------
(* Two registered sources are required, a third weakens what it supports.   *)
(* Every list of evidence is tried on the plain request, and every other    *)
(* trait of a request with three lists: clean, aging and stale.             *)
EXTENDS DecisionCore

MCRegistry == [EDR |-> [type |-> "endpoint", weight |-> 96], IDP |-> [type |-> "identity", weight |-> 96],
               CTI |-> [type |-> "intel", weight |-> 10]]
MCInventory ==
  LET Plain == [allowed |-> TRUE, tier0 |-> FALSE, grave |-> FALSE, downtime |-> 15, score |-> 20] IN
  [WORKSTATION |-> Plain, KIOSK |-> [Plain EXCEPT !.allowed = FALSE],
   CONTROLLER |-> [Plain EXCEPT !.tier0 = TRUE, !.grave = TRUE, !.downtime = 120],
   SERVER |-> [Plain EXCEPT !.score = 45], GATEWAY |-> [Plain EXCEPT !.grave = TRUE],
   ARCHIVE |-> [Plain EXCEPT !.downtime = 60]]

Claim(type, at, stance) ==
  [about |-> "WORKSTATION", type |-> type, at |-> at, stance |-> stance, relevance |-> 90,
   content |-> "telemetry", sealed |-> TRUE]
Item(source, type, at, stance) ==
  [source |-> source, claim |-> Claim(type, at, stance), attested |-> Claim(type, at, stance),
   content |-> "telemetry", rated |-> TRUE]
Edr(at) == Item("EDR", "endpoint", at, "supports")
Idp(at) == Item("IDP", "identity", at, "supports")

\* What the request may say otherwise than the source, and what both may say.
Forged(i) ==
  {[i EXCEPT !.claim = c] :
     c \in {[i.claim EXCEPT !.about = "SERVER"], [i.claim EXCEPT !.at = 3], [i.claim EXCEPT !.stance = "silent"],
            [i.claim EXCEPT !.type = "intel"], [i.claim EXCEPT !.content = "other"]}}
  \cup {[i EXCEPT !.attested = Unsigned], [i EXCEPT !.source = "STRANGER"], [i EXCEPT !.rated = FALSE],
         [i EXCEPT !.content = "instruction"]}
Said(i) ==
  {[i EXCEPT !.claim = c, !.attested = c, !.content = c.content] :
     c \in {[i.claim EXCEPT !.about = "SERVER"], [i.claim EXCEPT !.sealed = FALSE],
            [i.claim EXCEPT !.relevance = 40], [i.claim EXCEPT !.content = "instruction"],
            [i.claim EXCEPT !.stance = "contradicts"], [i.claim EXCEPT !.stance = "silent"],
            [i.claim EXCEPT !.relevance = 60]}}
Evidence ==
  {{Edr(2), i} : i \in Forged(Idp(2)) \cup Said(Idp(2)) \cup {Idp(a) : a \in 0..4}}
  \cup {{Edr(2), Idp(2), i} : i \in {Item("CTI", "intel", 2, "contradicts"), Item("CTI", "intel", 2, "supports"),
                                   Item("CTI", "intel", 0, "contradicts"), Item("EDR", "endpoint", 3, "contradicts"),
                                   Item("CTI", "intel", 2, "silent")}}
  \cup {{}, {Edr(2)}, {Edr(2), Edr(3)}, {Edr(1), Edr(2), Item("IDP", "identity", 2, "silent")}}

Plain == [target |-> "WORKSTATION", at |-> 2, duration |-> 600, keepsManagement |-> TRUE, honest |-> TRUE,
          evidence |-> {Edr(2), Idp(2)}]
MCRequests ==
  {[Plain EXCEPT !.evidence = e] : e \in Evidence}
  \cup {[Plain EXCEPT !.target = t, !.duration = d, !.keepsManagement = k, !.evidence = e] :
          t \in DOMAIN MCInventory \cup {"ELSEWHERE"}, d \in {600, 1800, 7200}, k \in BOOLEAN,
          e \in {{Edr(2), Idp(2)}, {Edr(1), Idp(2)}, {Edr(0), Idp(2)}}}
  \cup {[Plain EXCEPT !.at = a, !.honest = h] : a \in 0..5, h \in BOOLEAN}
MCCallers ==
  {[trusted |-> TRUE, authority |-> {"endpoint_containment"}], [trusted |-> TRUE, authority |-> {}],
   [trusted |-> TRUE, authority |-> {"tier_0_containment"}],
   [trusted |-> FALSE, authority |-> {"endpoint_containment"}]}
=============================================================================
