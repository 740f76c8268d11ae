---------------------------- MODULE TenantUsage -----------------------------
(***************************************************************************)
(* One tenant's limits and what counts against them: its team, and what it *)
(* uploads or offers; the usage counters; its plan, the plans' limits and  *)
(* the platform's overrides; and the script that reconciles the counters.  *)
(* A worker is one request, or the script at one counter.                  *)
(*                                                                         *)
(* A request resolves the limit by three reads outside of its transaction. *)
(* The transaction itself is one step: the counter's row is locked from    *)
(* the reservation to the commit, and others see neither before.           *)
(*                                                                         *)
(* orders_per_month is in Checkout, which counts by billing period.        *)
(***************************************************************************)
EXTENDS Integers, FiniteSets, Sequences

CONSTANTS
  Users,        \* accounts that are, or may become, members of the tenant
  Resources,    \* limit keys of what is only ever added: products, storage_mb
  Amounts,      \* amounts one request adds: 1 product, or MiB of a file
  Plans,        \* plans the tenant's subscription may put it on
  Limits,       \* limit values in use, None for an unlimited one
  Catalogue,    \* the plans' limits at first; one that is missing is a 0
  Workers,      \* requests in flight at once
  MaxResource,  \* bound: amount of a resource
  MaxEdits,     \* bound: changes of plan, limits and overrides
  None

LimitKeys == Resources \cup {"team_members"}

ASSUME TenantUsageConstants ==
  /\ "team_members" \notin Resources
  /\ Amounts \subseteq Nat \ {0}
  /\ Limits \subseteq Nat \cup {None}
  /\ None \notin Nat /\ None \notin Users \cup LimitKeys \cup Plans
  /\ Catalogue \in [Plans -> [LimitKeys -> Limits]]
  /\ MaxResource \in Nat /\ MaxEdits \in Nat
  /\ IsFiniteSet(Users)

VARIABLES
  member,     \* tenant_memberships
  resource,   \* per key, what the tenant's rows of it add up to
  usage,      \* the counters
  plan,       \* the plan the subscription entitles to
  planLimit,  \* plan_limits
  override,   \* tenant_entitlement_overrides, active ones, oldest first
  session,    \* per worker: how far it is, and what it has read
  edits       \* changes of plan, limits and overrides so far

vars == <<member, resource, usage, plan, planLimit, override, session, edits>>

-----------------------------------------------------------------------------
(* ADMIN stands for every role that can be assigned: an owner is only made *)
(* with the tenant, or in the database.                                    *)
TenantRole == {"OWNER", "ADMIN"}

MembershipStatus == {"INVITED", "ACTIVE", "SUSPENDED"}

Member == [status : MembershipStatus \cup {"ABSENT"}, role : TenantRole]

Nobody == [status |-> "ABSENT", role |-> "ADMIN"]

Steps == {"idle", "plan", "limit", "override", "reserve", "role", "suspend", "set"}

(* inForce, outrun: the limits in force since the request began to resolve *)
(* its own, and whether more than one change of them came meanwhile.       *)
Session == [step : Steps, key : LimitKeys \cup {None}, amount : Nat,
            user : Users \cup {None}, role : TenantRole,
            plan : Plans \cup {None}, limit : Limits \cup {None},
            count : Nat, inForce : SUBSET Limits, changes : 0 .. MaxEdits]

Idle == [step |-> "idle", key |-> None, amount |-> 0, user |-> None,
         role |-> "ADMIN", plan |-> None, limit |-> None,
         count |-> 0, inForce |-> {}, changes |-> 0]

TypeOK ==
  /\ member \in [Users -> Member]
  /\ resource \in [Resources -> 0 .. MaxResource]
  /\ usage \in [LimitKeys -> Nat]
  /\ plan \in Plans
  /\ planLimit \in [Plans -> [LimitKeys -> Limits]]
  /\ override \in [LimitKeys -> Seq(Limits)]
  /\ session \in [Workers -> Session]
  /\ edits \in 0 .. MaxEdits

IsOwner(u) == member[u].status = "ACTIVE" /\ member[u].role = "OWNER"

(* Members and resources may be older than the counters.                   *)
Init ==
  /\ member \in [Users -> {Nobody} \cup [status : {"ACTIVE"}, role : TenantRole]]
  /\ \E u \in Users : IsOwner(u)
  /\ resource \in [Resources -> 0 .. MaxResource]
  /\ usage = [k \in LimitKeys |-> 0]
  /\ plan \in Plans
  /\ planLimit = Catalogue
  /\ override = [k \in LimitKeys |-> <<>>]
  /\ session = [w \in Workers |-> Idle]
  /\ edits = 0

-----------------------------------------------------------------------------
At(w, step) == session[w].step = step

Become(w, s) == session' = [session EXCEPT ![w] = s]

(* The resources that count against a limit.                               *)
Counted(k) ==
  IF k = "team_members"
    THEN Cardinality({u \in Users : member[u].status \in {"ACTIVE", "INVITED"}})
    ELSE resource[k]

(* applyOverrides: the latest replaces the plan's limit.                   *)
Overridden(overrides, limit) ==
  IF overrides = <<>> THEN limit ELSE overrides[Len(overrides)]

Effective(k) == Overridden(override[k], planLimit[plan][k])

Within(n, limit) == limit # None => n <= limit

-----------------------------------------------------------------------------
(* createProduct and the upload of a file; inviteMember.                   *)

Resolving(w, k, amount, u) ==
  Become(w, [Idle EXCEPT !.step = "plan", !.key = k, !.amount = amount,
                         !.user = u, !.inForce = {Effective(k)}])

Create(w, k, amount) ==
  /\ At(w, "idle")
  /\ resource[k] + amount <= MaxResource
  /\ Resolving(w, k, amount, None)
  /\ UNCHANGED <<member, resource, usage, plan, planLimit, override, edits>>

inviteMember(w, u) ==
  /\ At(w, "idle")
  /\ member[u].status = "ABSENT"
  /\ Resolving(w, "team_members", 1, u)
  /\ UNCHANGED <<member, resource, usage, plan, planLimit, override, edits>>

resolveEffectivePlanId(w) ==
  /\ At(w, "plan")
  /\ Become(w, [session[w] EXCEPT !.step = "limit", !.plan = plan])
  /\ UNCHANGED <<member, resource, usage, plan, planLimit, override, edits>>

resolvePlanLimits(w) ==
  LET s == session[w] IN
  /\ At(w, "limit")
  /\ Become(w, [s EXCEPT !.step = "override", !.plan = None,
                         !.limit = planLimit[s.plan][s.key]])
  /\ UNCHANGED <<member, resource, usage, plan, planLimit, override, edits>>

applyOverrides(w) ==
  LET s == session[w] IN
  /\ At(w, "override")
  /\ Become(w, [s EXCEPT !.step = "reserve",
                         !.limit = Overridden(override[s.key], s.limit)])
  /\ UNCHANGED <<member, resource, usage, plan, planLimit, override, edits>>

Fits_BeforeAdding(s) == Within(usage[s.key], s.limit)

(* The condition of reserve's UPDATE.                                      *)
Fits(s) == Within(usage[s.key] + s.amount, s.limit)

(* The rows are made; unless the bound is met, or the user has become a    *)
(* member meanwhile: then all is rolled back.                              *)
Made(s) ==
  IF s.key = "team_members"
    THEN /\ member[s.user].status = "ABSENT"
         /\ \E role \in TenantRole \ {"OWNER"} :
              member' = [member EXCEPT ![s.user] = [status |-> "INVITED", role |-> role]]
         /\ UNCHANGED resource
    ELSE /\ resource[s.key] + s.amount <= MaxResource
         /\ resource' = [resource EXCEPT ![s.key] = @ + s.amount]
         /\ UNCHANGED member

reserve(w) ==
  LET s == session[w] IN
  /\ At(w, "reserve")
  /\ Become(w, Idle)
  /\ \/ /\ Fits(s)
        /\ Made(s)
        /\ usage' = [usage EXCEPT ![s.key] = @ + s.amount]
     \/ UNCHANGED <<member, resource, usage>>
  /\ UNCHANGED <<plan, planLimit, override, edits>>

-----------------------------------------------------------------------------
(* updateRole and suspendMember read the member, and count the owners if   *)
(* it is one ...                                                           *)
FinalOwner(u) ==
  member[u].role = "OWNER" /\ Cardinality({v \in Users : IsOwner(v)}) <= 1

Look(w, u, step) ==
  /\ At(w, "idle")
  /\ member[u].status # "ABSENT"
  /\ step = "suspend" => member[u].status # "SUSPENDED"
  /\ ~ FinalOwner(u)
  /\ Become(w, [Idle EXCEPT !.step = step, !.user = u, !.role = member[u].role])
  /\ UNCHANGED <<member, resource, usage, plan, planLimit, override, edits>>

(* ... and each updates it by a compare-and-swap of what it changes.       *)
updateRole(w) ==
  LET s == session[w] IN
  /\ At(w, "role")
  /\ Become(w, Idle)
  /\ IF member[s.user].role = s.role
       THEN \E role \in TenantRole \ {"OWNER"} : member' = [member EXCEPT ![s.user].role = role]
       ELSE UNCHANGED member
  /\ UNCHANGED <<resource, usage, plan, planLimit, override, edits>>

Suspendable_Again(u) == TRUE

Suspendable(u) == member[u].status # "SUSPENDED"

decrement_ToDebt(n) == n - 1

decrement(n) == IF n > 0 THEN n - 1 ELSE 0

suspendMember(w) ==
  LET s == session[w] IN
  /\ At(w, "suspend")
  /\ Become(w, Idle)
  /\ IF Suspendable(s.user)
       THEN /\ member' = [member EXCEPT ![s.user].status = "SUSPENDED"]
            /\ usage' = [usage EXCEPT !["team_members"] = decrement(@)]
       ELSE UNCHANGED <<member, usage>>
  /\ UNCHANGED <<resource, plan, planLimit, override, edits>>

-----------------------------------------------------------------------------
(* backfillUsageCounts, at one counter: counts ...                         *)
CountRows(w, k) ==
  /\ At(w, "idle")
  /\ Become(w, [Idle EXCEPT !.step = "set", !.key = k, !.count = Counted(k)])
  /\ UNCHANGED <<member, resource, usage, plan, planLimit, override, edits>>

(* ... and sets.                                                           *)
upsertUsage(w) ==
  LET s == session[w] IN
  /\ At(w, "set")
  /\ usage' = [usage EXCEPT ![s.key] = s.count]
  /\ Become(w, Idle)
  /\ UNCHANGED <<member, resource, plan, planLimit, override, edits>>

-----------------------------------------------------------------------------
(* What the limits follow from changes.                                    *)
Told(s) ==
  IF s.step \in {"plan", "limit", "override", "reserve"}
    THEN [s EXCEPT !.changes = @ + 1,
                   !.inForce = @ \cup {Overridden(override'[s.key], planLimit'[plan'][s.key])}]
    ELSE s

Edit ==
  /\ edits < MaxEdits
  /\ edits' = edits + 1
  /\ session' = [w \in Workers |-> Told(session[w])]
  /\ UNCHANGED <<member, resource, usage>>

(* The subscription moves; Subscriptions says when.                        *)
PlanChanges(p) ==
  /\ plan' = p /\ p # plan
  /\ UNCHANGED <<planLimit, override>>
  /\ Edit

setPlanLimit(p, k, value) ==
  /\ planLimit' = [planLimit EXCEPT ![p][k] = value]
  /\ UNCHANGED <<plan, override>>
  /\ Edit

createOverride(k, value) ==
  /\ override' = [override EXCEPT ![k] = Append(@, value)]
  /\ UNCHANGED <<plan, planLimit>>
  /\ Edit

revokeOverride(k, i) ==
  /\ override' = [override EXCEPT ![k] = SubSeq(@, 1, i - 1) \o SubSeq(@, i + 1, Len(@))]
  /\ UNCHANGED <<plan, planLimit>>
  /\ Edit

Platform ==
  \/ \E p \in Plans : PlanChanges(p)
  \/ \E k \in LimitKeys, value \in Limits :
       createOverride(k, value) \/ \E p \in Plans : setPlanLimit(p, k, value)
  \/ \E k \in LimitKeys : \E i \in 1 .. Len(override[k]) : revokeOverride(k, i)

(* A process dies; an open transaction is rolled back.                     *)
Crash(w) ==
  /\ ~ At(w, "idle")
  /\ Become(w, Idle)
  /\ UNCHANGED <<member, resource, usage, plan, planLimit, override, edits>>

Request(w) ==
  \/ \E k \in Resources, amount \in Amounts : Create(w, k, amount)
  \/ \E u \in Users :
       inviteMember(w, u) \/ Look(w, u, "role") \/ Look(w, u, "suspend")
  \/ \E k \in LimitKeys : CountRows(w, k)

Step(w) ==
  \/ resolveEffectivePlanId(w) \/ resolvePlanLimits(w) \/ applyOverrides(w)
  \/ reserve(w) \/ updateRole(w) \/ suspendMember(w) \/ upsertUsage(w)

Next == Platform \/ \E w \in Workers : Request(w) \/ Step(w) \/ Crash(w)

Spec == Init /\ [][Next]_vars

-----------------------------------------------------------------------------
(* PROPERTIES                                                              *)

Overtaken(w, k) ==
  At(w, "set") /\ session[w].key = k /\ session[w].count # Counted(k)

(* A counter that agrees with the rows keeps agreeing with them, whatever  *)
(* invitations, suspensions and uploads race each other; only a            *)
(* reconciliation that was overtaken by one of them since it counted can   *)
(* make it wrong.                                                          *)
CounterStaysExact ==
  [][\A k \in LimitKeys : usage[k] = Counted(k) =>
       usage'[k] = Counted(k)' \/ \E w \in Workers : Overtaken(w, k)]_vars

(* A reservation leaves the counter within a limit that was in force after *)
(* the request had begun: racing requests cannot pass it together.  Of     *)
(* several changes to plan and limits at once, though, the three reads may *)
(* mix what was never in force together.                                   *)
ReservedWithinLimit ==
  [][\A w \in Workers :
       At(w, "reserve") /\ usage' # usage /\ session'[w] # session[w] /\ session[w].changes <= 1
         => \E limit \in session[w].inForce : Within(usage'[session[w].key], limit)]_vars

=============================================================================
