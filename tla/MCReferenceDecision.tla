------------------------- MODULE MCReferenceDecision -------------------------
(* Cases of one event per source: a clean one of each, except that the      *)
(* identity, network and endpoint events vary, sources may be missing and   *)
(* the inventory may disagree with the case.  The policy is the one of      *)
(* config/policy.json and seven that differ from it; thresholds are the     *)
(* logits of its probabilities.                                             *)
EXTENDS ReferenceDecision

Clean == [source |-> "user_context", provenance |-> TRUE, verified |-> TRUE, delay |-> 2,
          trust |-> 5, shows |-> {}, logins |-> 0, instructional |-> FALSE, claims |-> <<>>]
From(s) == [Clean EXCEPT !.source = s]

IdentityEvents ==
  {[From("identity") EXCEPT !.shows = x] :
     x \in {{"strong_mfa"}, {"new_device"}, {"token_reuse", "impossible_travel"}, {"known_vpn"}}}
  \cup {[From("identity") EXCEPT !.shows = {"token_reuse"}, !.logins = 30, !.delay = d, !.trust = 3] :
          d \in {-1, 60, 200}}
NetworkEvents ==
  {[From("network") EXCEPT !.shows = {"threat_ip"}, !.provenance = v, !.verified = w, !.instructional = i] :
     v \in BOOLEAN, w \in BOOLEAN, i \in BOOLEAN}
  \cup {[From("network") EXCEPT !.shows = x] : x \in {{"known_vpn"}, {"threat_ip", "source_conflict"}}}
EndpointEvents == {From("endpoint"), [From("endpoint") EXCEPT !.shows = {"edr_malware"}]}
Rest == {<<>>, <<From("threat_intel")>>, <<From("threat_intel"), From("user_context")>>,
         <<From("threat_intel"), From("user_context"), From("change_management")>>}

MCCases ==
  {[events |-> <<i, n, e>> \o rest, admin |-> TRUE, breakGlass |-> b, criticality |-> k] :
     i \in {From("asset_inventory")}, n \in NetworkEvents, e \in EndpointEvents,
     rest \in Rest, b \in BOOLEAN, k \in {40, 90}}

With(c, identity, claims) ==
  [c EXCEPT !.events = <<[@[1] EXCEPT !.claims = claims], identity>> \o Tail(@)]
AllCases ==
  {With(c, identity, <<TRUE, c.breakGlass, c.criticality>>) : c \in MCCases, identity \in IdentityEvents}
  \cup {With(c, From("identity"), <<FALSE, c.breakGlass, 40>>) :
          c \in {d \in MCCases : Len(d.events) = 6}}
  \cup {[c EXCEPT !.events = Tail(@)] : c \in {d \in MCCases : Len(d.events) = 6}}

PilotPolicy ==
  [noAction |-> -11527, escalate |-> 4895, contain |-> 19924, quality |-> 74, provenance |-> 95,
   integrity |-> 90, corroboration |-> 2, missing |-> 1, conflicts |-> 0, criticality |-> 75,
   breakGlassHuman |-> TRUE, poisonBlocks |-> TRUE, ttl |-> 1,
   autonomous |-> <<"revoke_active_sessions", "force_step_up_auth", "increase_monitoring">>,
   humanOnly |-> {"disable_account", "isolate_endpoint"}]
Loose == [PilotPolicy EXCEPT !.poisonBlocks = FALSE, !.breakGlassHuman = FALSE,
                             !.quality = 40, !.missing = 3, !.conflicts = 1]
MCPolicies ==
  {PilotPolicy, Loose,
   [Loose EXCEPT !.autonomous = <<"increase_monitoring", "disable_account">>],
   [Loose EXCEPT !.autonomous = <<"increase_monitoring", "suspend_sync">>],
   [PilotPolicy EXCEPT !.autonomous = <<"increase_monitoring", "increase_monitoring">>],
   [PilotPolicy EXCEPT !.autonomous = <<>>],
   [Loose EXCEPT !.criticality = 120],
   [PilotPolicy EXCEPT !.escalate = 30000, !.provenance = 60, !.integrity = 60]}

MCIntercept == -15000
MCWeight ==
  [f \in Features |->
     CASE f = "token_reuse" -> 180 [] f = "threat_ip" -> 110 [] f = "oauth_grant" -> 120
       [] f = "credential_dumping" -> 200 [] f = "lateral_movement" -> 150
       [] f \in {"edr_malware", "mfa_fatigue"} -> 140 [] f = "impossible_travel" -> 70
       [] f \in BenignIndicators -> -80 [] OTHER -> 40]
=============================================================================
