---------------------------- MODULE NetworkPolicy ----------------------------
(***************************************************************************)
(* Which containers may be in the network of a Team                        *)
(* (container_policy/network.py): the role a container proves by its name  *)
(* and its labels together, the DNS names it may answer to in the network, *)
(* the binding of its endpoint, and what a teardown takes out.             *)
(*                                                                         *)
(* A container is a record of what the Engine says of it:                  *)
(*   id, name, running                                                     *)
(*   labels    [driver, team, app, shared]                                 *)
(*   network   the network of its endpoint, or Blank                       *)
(*   auto      names the Engine may add: its name, its id, its hostname    *)
(*   aliases, dns   names of the endpoint (null is the empty set)          *)
(*   listed    aliases and dns are lists of names, or null                 *)
(* A network is [id, team, members]: team is the Team whose name, labels   *)
(* and settings it has exactly, if there is one.  The derived names are    *)
(* injective, so they are tuples.                                          *)
(***************************************************************************)

CONSTANTS Team,
          App,                          \* the ids an App may have: no reserved alias
          AppAliases,                   \* its id and its id with ".team"
          PostgresAlias, EgressAlias,
          NoApp, Blank

\* RESERVED_SERVICE_ALIASES
Reserved == {PostgresAlias, EgressAlias}
SharedRole == {"postgres", "app-egress"}

BrainName(t) == <<"brain", t>>
AppName(t, a) == <<"app", t, a>>
SharedName(s) == <<"shared", s>>

IsBrain(m, t) == m.labels.driver = "brain" /\ m.labels.team = t /\ m.name = BrainName(t)
IsApp(m, t) == /\ m.labels.driver = "app" /\ m.labels.team = t /\ m.labels.app \in App
               /\ m.name = AppName(t, m.labels.app)
IsShared(m, s) == m.labels.shared = s /\ m.name = SharedName(s)

Role(kind, a) == [kind |-> kind, app |-> a]

WorkloadRole(m, t) == IF IsBrain(m, t) THEN Role("brain", NoApp)
                      ELSE IF IsApp(m, t) THEN Role("app", m.labels.app) ELSE Role("none", NoApp)

MemberRole(m, t) == IF IsShared(m, "postgres") THEN Role("postgres", NoApp)
                    ELSE IF IsShared(m, "app-egress") THEN Role("app-egress", NoApp) ELSE WorkloadRole(m, t)

\* network_member_managed: what a teardown may disconnect.
Managed(m, t) == (\E s \in SharedRole : IsShared(m, s)) \/ WorkloadRole(m, t).kind # "none"

Required(role) == CASE role.kind = "postgres" -> {PostgresAlias}
                    [] role.kind = "app-egress" -> {EgressAlias}
                    [] role.kind = "app" -> AppAliases[role.app]
                    [] OTHER -> {}

\* Names are its role's or automatic, and reserved only if they are its role's.
Allowed(names, m, role) == /\ names \subseteq Required(role) \cup m.auto
                           /\ names \cap Reserved \subseteq Required(role)

AliasesValid(m, role) == /\ m.listed
                         /\ m.auto \cap Reserved \subseteq Required(role)
                         /\ Required(role) \subseteq m.aliases
                         /\ Allowed(m.aliases, m, role) /\ Allowed(m.dns, m, role)

\* A stopped container keeps an endpoint without a network.
Bound(net, m) == \/ m.network = net.id
                 \/ m.network = Blank /\ ~m.running /\ m.id \notin net.members

EndpointValid(net, m, t) == LET role == WorkloadRole(m, t)
                            IN  role.kind # "none" /\ net.team = t /\ Bound(net, m) /\ AliasesValid(m, role)

LiveMember(net, m, t) == EndpointValid(net, m, t) /\ m.id \in net.members

MemberValid(net, m, t) == LET role == MemberRole(m, t)
                          IN  role.kind # "none" /\ m.network = net.id /\ AliasesValid(m, role)

\* network_members_valid, of the members of net as they were inspected.
MembersValid(net, inspected, t, requireBrain, requireDependencies) ==
  LET Kind(c) == MemberRole(inspected[c], t).kind
  IN  /\ net.team = t
      /\ \A c \in net.members : /\ c \in DOMAIN inspected /\ inspected[c].id = c
                                /\ MemberValid(net, inspected[c], t)
      /\ \A c, d \in net.members : Kind(c) = Kind(d) /\ Kind(c) # "app" => c = d
      /\ requireBrain => \E c \in net.members : Kind(c) = "brain"
      /\ requireDependencies => \E c \in net.members : Kind(c) = "postgres"

\* _teardown_team_network_kind: the members that stay when every call succeeds.
LeftInNetwork(net, inspected, t) ==
  {c \in net.members : net.team # t \/ ~Managed(inspected[c], t)}

\* The names a member answers to.
AnswersTo(m) == m.auto \cup m.aliases \cup m.dns
=============================================================================
