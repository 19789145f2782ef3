------------------------- MODULE NetworkPolicyProofs -------------------------
(***************************************************************************)
(* What a network that the policy accepts is good for: a teardown can      *)
(* empty it, a service name means one container, and a workload belongs to *)
(* one Team.                                                               *)
(***************************************************************************)
EXTENDS NetworkPolicy, TLAPS

\* A role of a member is one of the four, and tells what the container is.
LEMMA MemberRoles ==
  ASSUME NEW m, NEW t, MemberRole(m, t).kind # "none"
  PROVE  \/ MemberRole(m, t) = Role("postgres", NoApp) /\ IsShared(m, "postgres")
         \/ MemberRole(m, t) = Role("app-egress", NoApp) /\ IsShared(m, "app-egress")
         \/ MemberRole(m, t) = Role("brain", NoApp) /\ IsBrain(m, t)
         \/ MemberRole(m, t) = Role("app", m.labels.app) /\ IsApp(m, t)
<1>1. CASE IsShared(m, "postgres")
  BY <1>1 DEF MemberRole
<1>2. CASE ~IsShared(m, "postgres") /\ IsShared(m, "app-egress")
  BY <1>2 DEF MemberRole
<1>3. CASE ~IsShared(m, "postgres") /\ ~IsShared(m, "app-egress")
  <2>1. MemberRole(m, t) = WorkloadRole(m, t)
    BY <1>3 DEF MemberRole
  <2>2. CASE IsBrain(m, t)
    BY <2>1, <2>2 DEF WorkloadRole
  <2>3. CASE ~IsBrain(m, t) /\ IsApp(m, t)
    BY <2>1, <2>3 DEF WorkloadRole
  <2>4. CASE ~IsBrain(m, t) /\ ~IsApp(m, t)
    BY <2>1, <2>4 DEF WorkloadRole, Role
  <2> QED BY <2>2, <2>3, <2>4
<1> QED BY <1>1, <1>2, <1>3

\* A container that was accepted as a member is one that a teardown disconnects.
LEMMA MembersAreManaged ==
  ASSUME NEW m, NEW t, MemberRole(m, t).kind # "none"
  PROVE  Managed(m, t)
<1>1. CASE IsShared(m, "postgres") \/ IsShared(m, "app-egress")
  BY <1>1 DEF Managed, SharedRole
<1>2. CASE ~(IsShared(m, "postgres") \/ IsShared(m, "app-egress"))
  <2>1. MemberRole(m, t) = WorkloadRole(m, t)
    BY <1>2 DEF MemberRole
  <2> QED BY <2>1 DEF Managed
<1> QED BY <1>1, <1>2

\* Whatever network an operation of a Team goes on with, the teardown of that
\* Team empties: hosted_resources.py disconnects managed members only and keeps
\* a network with others, so an accepted one is never left behind.
THEOREM AcceptedNetworksEmpty ==
  ASSUME NEW net, NEW inspected, NEW t, NEW b \in BOOLEAN, NEW d \in BOOLEAN,
         MembersValid(net, inspected, t, b, d)
  PROVE  LeftInNetwork(net, inspected, t) = {}
<1>1. net.team = t
  BY DEF MembersValid
<1>2. ASSUME NEW c \in net.members PROVE Managed(inspected[c], t)
  <2>1. MemberRole(inspected[c], t).kind # "none"
    BY <1>2 DEF MembersValid, MemberValid
  <2> QED BY <2>1, MembersAreManaged
<1> QED BY <1>1, <1>2 DEF LeftInNetwork

\* A member answers to a reserved name only if its role requires that name.
LEMMA ReservedNamesAreRequired ==
  ASSUME NEW m, NEW role, AliasesValid(m, role), NEW n \in Reserved \cap AnswersTo(m)
  PROVE  n \in Required(role)
BY DEF AliasesValid, Allowed, AnswersTo

\* A reserved name is required of its service only.
LEMMA RequiredOfItsService ==
  ASSUME NEW m, NEW t, NEW n \in Reserved, PostgresAlias # EgressAlias,
         \A a \in App : AppAliases[a] \cap Reserved = {},
         MemberRole(m, t).kind # "none", n \in Required(MemberRole(m, t))
  PROVE  MemberRole(m, t).kind = IF n = PostgresAlias THEN "postgres" ELSE "app-egress"
<1>1. CASE MemberRole(m, t) = Role("postgres", NoApp)
  BY <1>1 DEF Required, Role
<1>2. CASE MemberRole(m, t) = Role("app-egress", NoApp)
  BY <1>2 DEF Required, Role
<1>3. CASE MemberRole(m, t) = Role("brain", NoApp)
  BY <1>3 DEF Required, Role
<1>4. CASE MemberRole(m, t) = Role("app", m.labels.app) /\ m.labels.app \in App
  <2>1. Required(MemberRole(m, t)) = AppAliases[m.labels.app]
    BY <1>4 DEF Required, Role
  <2> QED BY <1>4, <2>1
<1> QED BY <1>1, <1>2, <1>3, <1>4, MemberRoles DEF IsApp

\* In a network the policy accepts, "postgres" and "app-egress-proxy" each mean at
\* most one container, the service itself, whatever hostnames and aliases the
\* workloads were given: no name or alias of a Brain or an App stands for a service.
THEOREM ServiceNamesAreUnique ==
  ASSUME NEW net, NEW inspected, NEW t, NEW b \in BOOLEAN, NEW d \in BOOLEAN,
         MembersValid(net, inspected, t, b, d),
         PostgresAlias # EgressAlias,
         \A a \in App : AppAliases[a] \cap Reserved = {}
  PROVE  \A n \in Reserved : \A c, e \in net.members :
            n \in AnswersTo(inspected[c]) /\ n \in AnswersTo(inspected[e])
              => c = e /\ \E s \in SharedRole : IsShared(inspected[c], s)
<1> SUFFICES ASSUME NEW n \in Reserved, NEW c \in net.members, NEW e \in net.members,
                    n \in AnswersTo(inspected[c]), n \in AnswersTo(inspected[e])
             PROVE  c = e /\ \E s \in SharedRole : IsShared(inspected[c], s)
  OBVIOUS
<1> DEFINE KindOf(x) == MemberRole(inspected[x], t).kind
<1>1. ASSUME NEW x \in net.members, n \in AnswersTo(inspected[x])
      PROVE  /\ KindOf(x) # "none"
             /\ KindOf(x) = IF n = PostgresAlias THEN "postgres" ELSE "app-egress"
  <2>1. KindOf(x) # "none" /\ AliasesValid(inspected[x], MemberRole(inspected[x], t))
    BY <1>1 DEF MembersValid, MemberValid
  <2>2. n \in Required(MemberRole(inspected[x], t))
    BY <1>1, <2>1, ReservedNamesAreRequired
  <2> QED BY <2>1, <2>2, RequiredOfItsService
<1>2. KindOf(c) = KindOf(e) /\ KindOf(c) # "app"
  BY <1>1
<1>3. c = e
  BY <1>2 DEF MembersValid
<1>4. \E s \in SharedRole : IsShared(inspected[c], s)
  <2>1. KindOf(c) # "none" /\ KindOf(c) \in {"postgres", "app-egress"}
    BY <1>1
  <2> QED BY <2>1, MemberRoles DEF Role, SharedRole
<1> QED BY <1>3, <1>4

\* A workload that is accepted in the network of one Team is foreign in that of
\* another: it is not accepted there, and no teardown there touches it.
THEOREM WorkloadsBelongToOneTeam ==
  ASSUME NEW m, NEW t, NEW u, t # u, WorkloadRole(m, t).kind # "none"
  PROVE  WorkloadRole(m, u).kind = "none" /\ ~Managed(m, u)
<1>1. m.labels.team = t
  BY DEF WorkloadRole, IsBrain, IsApp, Role
<1>2. WorkloadRole(m, u).kind = "none"
  BY <1>1 DEF WorkloadRole, IsBrain, IsApp, Role
<1>3. \A s \in SharedRole : ~IsShared(m, s)
  <2>1. m.name = BrainName(t) \/ m.name = AppName(t, m.labels.app)
    BY DEF WorkloadRole, IsBrain, IsApp, Role
  <2> QED BY <2>1 DEF IsShared, SharedName, BrainName, AppName, SharedRole
<1> QED BY <1>2, <1>3 DEF Managed

\* The endpoint without a network that a stopped workload may have is never the
\* endpoint of one that runs or that is in the inventory of the network.
THEOREM LiveEndpointsAreBound ==
  ASSUME NEW net, NEW m, NEW t, EndpointValid(net, m, t), m.running \/ LiveMember(net, m, t)
  PROVE  m.network = net.id
BY DEF EndpointValid, LiveMember, Bound
=============================================================================
