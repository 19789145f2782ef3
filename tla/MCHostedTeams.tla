--------------------------- MODULE MCHostedTeams ---------------------------
(***************************************************************************)
(* One or two Teams of one owner, an App with a database, two ids of       *)
(* Brains and a few faults; and the isolation policy of HostedTeams        *)
(* compared with the one of NetworkPolicy on the containers the controller *)
(* makes.                                                                  *)
(***************************************************************************)
EXTENDS HostedTeams, TLC

CONSTANTS team1, team2, app1, owner1, brain1, brain2

OneOwner == [t \in Team |-> owner1]

-----------------------------------------------------------------------------
Alias(name) == <<"alias", name>>

AliasesOfApps == [a \in App |-> {Alias(a), <<"alias", a, ".team">>}]

Policy == INSTANCE NetworkPolicy WITH
  AppAliases <- AliasesOfApps,
  PostgresAlias <- Alias("postgres"), EgressAlias <- Alias("app-egress-proxy"), Blank <- "blank"

\* A member of the network of a Team, as the controller or the installation makes it.
Made(id, name, driver, t, a, shared, aliases, hostname) ==
  [id |-> id, name |-> name, running |-> TRUE, listed |-> TRUE, network |-> "core",
   labels |-> [driver |-> driver, team |-> t, app |-> a, shared |-> shared],
   auto |-> {name, <<"id", id>>, hostname}, aliases |-> aliases, dns |-> {}]

MadeShared(id, role, alias) ==
  Made(id, Policy!SharedName(role), "none", "none", NoApp, role, {Alias(alias)}, Alias(id))

\* The hostname of a Brain is the id of its Team.
MadeBrain(t, hostname) == Made("brain", Policy!BrainName(t), "brain", t, NoApp, "none", {}, hostname)

Inspected(t) ==
  [c \in {"brain", "postgres", "egress", "foreign"} \cup App |->
     CASE c = "brain" -> MadeBrain(t, Alias(t))
       [] c = "postgres" -> MadeShared(c, "postgres", "postgres")
       [] c = "egress" -> MadeShared(c, "app-egress", "app-egress-proxy")
       [] c = "foreign" -> Made(c, <<"other">>, "none", "none", NoApp, "none", {}, Alias("host"))
       [] OTHER -> Made(c, Policy!AppName(t, c), "app", t, c, "none", AliasesOfApps[c], Alias("host"))]

Shown(t, net, up, running) ==
  [id |-> "core", team |-> t,
   members |-> (net \ {"network"}) \cup (IF up THEN {"brain"} ELSE {}) \cup running]

\* HostedTeams decides by who is in the network as network_members_valid does by
\* names, labels, endpoints and aliases; what a teardown leaves there agrees too.
ASSUME PolicyIsAbstracted ==
  \A t \in Team, net \in SUBSET {"postgres", "egress", "foreign"}, up, rb, rd \in BOOLEAN, running \in SUBSET App :
    LET w == [EmptyWorld EXCEPT !.net = net \cup {"network"}, !.up = up, !.apps = running]
        shown == Shown(t, w.net, up, running)
    IN  /\ MembersValid(w, rb, rd) = Policy!MembersValid(shown, Inspected(t), t, rb, rd)
        /\ Policy!LeftInNetwork(shown, Inspected(t), t) = net \cap {"foreign"}

\* A Brain may not answer to the name of a service, but it may to that of an App,
\* if its Team has the same id: network.py names services only.
ASSUME HostnamesOfBrains ==
  \A t \in Team, a \in App :
    LET shown == Shown(t, {"network", "postgres"}, TRUE, {a})
        Named(hostname) == [Inspected(t) EXCEPT !["brain"] = MadeBrain(t, hostname)]
    IN  /\ ~Policy!MembersValid(shown, Named(Alias("postgres")), t, TRUE, TRUE)
        /\ Policy!MembersValid(shown, Named(Alias(a)), t, TRUE, TRUE)
=============================================================================
