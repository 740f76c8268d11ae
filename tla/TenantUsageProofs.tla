-------------------------- MODULE TenantUsageProofs -------------------------
(***************************************************************************)
(* Theorems about TenantUsage, for any team, resources, plans and limits.  *)
(***************************************************************************)
EXTENDS TenantUsage, FiniteSetTheorems, SequenceTheorems, TLAPS

Resolves(s) == s.step \in {"plan", "limit", "override", "reserve"}

(* What a session has read is of the tenant, and its members stay members. *)
Sessions ==
  \A w \in Workers :
    LET s == session[w] IN
    /\ Resolves(s) => s.key \in LimitKeys
    /\ Resolves(s) /\ s.key = "team_members" => s.user \in Users /\ s.amount = 1
    /\ At(w, "limit") => s.plan \in Plans
    /\ At(w, "role") \/ At(w, "suspend") =>
         s.user \in Users /\ member[s.user].status # "ABSENT"
    /\ At(w, "set") => s.key \in LimitKeys
    /\ s.changes <= edits

(* The limit a request will have resolved if nothing changes any more.     *)
Candidate(s) ==
  CASE s.step = "plan"     -> Effective(s.key)
    [] s.step = "limit"    -> Overridden(override[s.key], planLimit[s.plan][s.key])
    [] s.step = "override" -> Overridden(override[s.key], s.limit)
    [] s.step = "reserve"  -> s.limit

(* Up to the first change a request has read what is in force now; up to   *)
(* the second, it is going to use a limit that was in force.               *)
Resolved(s) ==
  Resolves(s) =>
    /\ s.changes = 0 => /\ Effective(s.key) \in s.inForce
                        /\ s.step = "limit" => s.plan = plan
                        /\ s.step = "override" => s.limit = planLimit[plan][s.key]
    /\ s.changes <= 1 => Candidate(s) \in s.inForce

Resolution == \A w \in Workers : Resolved(session[w])

Inv == TypeOK /\ Sessions /\ Resolution

-----------------------------------------------------------------------------
(* What counts against a limit is a number, and so are the numbers read.   *)
LEMMA CountedType ==
  ASSUME TypeOK, NEW k \in LimitKeys
  PROVE  Counted(k) \in Nat
<1> DEFINE T == {u \in Users : member[u].status \in {"ACTIVE", "INVITED"}}
<1>1. IsFiniteSet(T)
  BY FS_Subset, T \in SUBSET Users, TenantUsageConstants
<1>2. Cardinality(T) \in Nat
  BY <1>1, FS_CardinalityType
<1> QED BY <1>2, TenantUsageConstants DEF Counted, TypeOK, LimitKeys

(* The latest override is a limit, as the plan's is.                       *)
LEMMA OverriddenType ==
  ASSUME NEW overrides \in Seq(Limits), NEW limit \in Limits
  PROVE  Overridden(overrides, limit) \in Limits
<1>1. CASE overrides = <<>>
  BY <1>1 DEF Overridden
<1>2. CASE overrides # <<>>
  <2>1. Len(overrides) \in 1 .. Len(overrides)
    BY <1>2
  <2> QED BY <1>2, <2>1 DEF Overridden
<1> QED BY <1>1, <1>2

(* applyOverrides finds a limit in force for every key.                    *)
LEMMA EffectiveType ==
  ASSUME TypeOK, NEW k \in LimitKeys
  PROVE  Effective(k) \in Limits
  BY OverriddenType DEF TypeOK, Effective

-----------------------------------------------------------------------------
(* The invariant holds at first.                                           *)
LEMMA InitInv == Init => Inv
<1> SUFFICES ASSUME Init PROVE Inv
  OBVIOUS
<1> USE TenantUsageConstants
<1>1. TypeOK
  <2>1. member \in [Users -> Member]
    BY DEF Init, Member, MembershipStatus, TenantRole, Nobody
  <2>2. session \in [Workers -> Session]
    BY DEF Init, Session, Idle, Steps, TenantRole
  <2>3. override \in [LimitKeys -> Seq(Limits)]
    BY DEF Init
  <2> QED BY <2>1, <2>2, <2>3 DEF TypeOK, Init
<1>2. Sessions /\ Resolution
  BY DEF Init, Sessions, Resolution, Resolved, Resolves, At, Idle
<1> QED BY <1>1, <1>2 DEF Inv

(* A step of one session that changes no limits keeps the others' hold on  *)
(* what they read.                                                         *)
LEMMA OthersInv ==
  ASSUME Inv, NEW w \in Workers, NEW s \in Session,
         Become(w, s), UNCHANGED <<plan, planLimit, override, edits>>,
         \A u \in Users : member[u].status # "ABSENT" => member'[u].status # "ABSENT",
         member' \in [Users -> Member], resource' \in [Resources -> 0 .. MaxResource],
         usage' \in [LimitKeys -> Nat],
         Resolves(s) => s.key \in LimitKeys,
         Resolves(s) /\ s.key = "team_members" => s.user \in Users /\ s.amount = 1,
         s.step = "limit" => s.plan \in Plans,
         s.step \in {"role", "suspend"} => s.user \in Users /\ member'[s.user].status # "ABSENT",
         s.step = "set" => s.key \in LimitKeys,
         s.changes <= edits,
         Resolved(s)
  PROVE  Inv'
<1>1. TypeOK'
  BY DEF Inv, TypeOK, Become
<1>2. session'[w] = s /\ \A v \in Workers : v # w => session'[v] = session[v]
  BY DEF Inv, TypeOK, Become
<1>3. Sessions'
  BY <1>2 DEF Inv, Sessions, At, Resolves
<1>4. \A t : Resolved(t)' <=> Resolved(t)
  BY DEF Resolved, Effective, Candidate
<1>5. \A v \in Workers : Resolved(session'[v])
  BY <1>2 DEF Inv, Resolution
<1>6. Resolution'
  BY <1>4, <1>5 DEF Resolution, Resolved, Effective, Candidate
<1> QED BY <1>1, <1>3, <1>6 DEF Inv

-----------------------------------------------------------------------------
LEMMA IdleIsFine == Idle \in Session /\ Resolved(Idle)
  BY TenantUsageConstants DEF Idle, Session, Steps, TenantRole, Resolved, Resolves

(* createProduct, uploads and inviteMember begin with the limit in force.  *)
LEMMA BeginInv ==
  ASSUME Inv, NEW w \in Workers, NEW k \in LimitKeys, NEW amount \in Nat,
         NEW u \in Users \cup {None}, k = "team_members" => u \in Users /\ amount = 1,
         Resolving(w, k, amount, u),
         UNCHANGED <<member, resource, usage, plan, planLimit, override, edits>>
  PROVE  Inv'
<1> DEFINE s == [Idle EXCEPT !.step = "plan", !.key = k, !.amount = amount,
                             !.user = u, !.inForce = {Effective(k)}]
<1>1. Effective(k) \in Limits
  BY EffectiveType DEF Inv
<1>2. /\ s.step = "plan" /\ s.key = k /\ s.amount = amount /\ s.user = u
      /\ s.inForce = {Effective(k)} /\ s.changes = 0
  BY DEF Idle
<1>3. s \in Session
  BY <1>1, IdleIsFine DEF Session, Steps
<1>4. Resolved(s)
  BY <1>2 DEF Resolved, Candidate
<1>5. Become(w, s)
  BY DEF Resolving
<1>6. s.changes <= edits
  BY <1>2, TenantUsageConstants DEF Inv, TypeOK
<1>7. member' \in [Users -> Member] /\ resource' \in [Resources -> 0 .. MaxResource]
      /\ usage' \in [LimitKeys -> Nat]
  BY DEF Inv, TypeOK
<1> HIDE DEF s
<1> QED BY <1>2, <1>3, <1>4, <1>5, <1>6, <1>7, OthersInv DEF Resolves

(* The three reads of EntitlementService.resolve.                          *)
LEMMA ResolveInv ==
  ASSUME Inv, NEW w \in Workers,
         resolveEffectivePlanId(w) \/ resolvePlanLimits(w) \/ applyOverrides(w)
  PROVE  Inv'
<1> DEFINE s == session[w]
<1>0. s \in Session /\ Resolved(s) /\ s.key \in LimitKeys /\ s.changes <= edits
  BY DEF Inv, TypeOK, Sessions, Resolution, Resolves, At, resolveEffectivePlanId,
         resolvePlanLimits, applyOverrides
<1>1. s.key = "team_members" => s.user \in Users /\ s.amount = 1
  BY DEF Inv, Sessions, Resolves, At, resolveEffectivePlanId, resolvePlanLimits, applyOverrides
<1>2. CASE resolveEffectivePlanId(w)
  <2> DEFINE t == [s EXCEPT !.step = "limit", !.plan = plan]
  <2>1. /\ t.step = "limit" /\ t.plan = plan /\ t.key = s.key /\ t.user = s.user
        /\ t.amount = s.amount /\ t.inForce = s.inForce /\ t.changes = s.changes
    BY <1>0 DEF Session
  <2>2. t \in Session
    BY <1>0 DEF Session, Steps, Inv, TypeOK
  <2>3. Resolved(t)
    BY <1>0, <1>2, <2>1 DEF Resolved, Resolves, Candidate, Effective, resolveEffectivePlanId, At
  <2>4. plan \in Plans /\ Become(w, t)
        /\ UNCHANGED <<member, resource, usage, plan, planLimit, override, edits>>
    BY <1>2 DEF Inv, TypeOK, resolveEffectivePlanId
  <2> HIDE DEF t
  <2> QED BY <1>0, <1>1, <2>1, <2>2, <2>3, <2>4, OthersInv DEF Inv, TypeOK
<1>3. CASE resolvePlanLimits(w)
  <2> DEFINE t == [s EXCEPT !.step = "override", !.plan = None,
                            !.limit = planLimit[s.plan][s.key]]
  <2>0. s.plan \in Plans
    BY <1>3 DEF Inv, Sessions, At, resolvePlanLimits
  <2>1. /\ t.step = "override" /\ t.limit = planLimit[s.plan][s.key] /\ t.key = s.key
        /\ t.user = s.user /\ t.amount = s.amount /\ t.inForce = s.inForce
        /\ t.changes = s.changes
    BY <1>0 DEF Session
  <2>2a. planLimit[s.plan][s.key] \in Limits
    BY <1>0, <2>0 DEF Inv, TypeOK
  <2>2. t \in Session
    BY <1>0, <2>2a DEF Session, Steps
  <2>3. Resolved(t)
    BY <1>0, <1>3, <2>1 DEF Resolved, Resolves, Candidate, Effective, resolvePlanLimits, At
  <2>4. Become(w, t)
        /\ UNCHANGED <<member, resource, usage, plan, planLimit, override, edits>>
    BY <1>3 DEF resolvePlanLimits
  <2> HIDE DEF t
  <2> QED BY <1>0, <1>1, <2>1, <2>2, <2>3, <2>4, OthersInv DEF Inv, TypeOK
<1>4. CASE applyOverrides(w)
  <2> DEFINE t == [s EXCEPT !.step = "reserve",
                            !.limit = Overridden(override[s.key], s.limit)]
  <2>1. /\ t.step = "reserve" /\ t.limit = Overridden(override[s.key], s.limit)
        /\ t.key = s.key /\ t.user = s.user /\ t.amount = s.amount
        /\ t.inForce = s.inForce /\ t.changes = s.changes
    BY <1>0 DEF Session
  <2>2a. Overridden(override[s.key], s.limit) \in Limits \cup {None}
    <3>1. override[s.key] \in Seq(Limits \cup {None}) /\ s.limit \in Limits \cup {None}
      BY <1>0 DEF Inv, TypeOK, Session
    <3>2. CASE override[s.key] = <<>>
      BY <3>1, <3>2 DEF Overridden
    <3>3. CASE override[s.key] # <<>>
      <4>1. Len(override[s.key]) \in 1 .. Len(override[s.key])
        BY <3>1, <3>3
      <4> QED BY <3>1, <3>3, <4>1 DEF Overridden
    <3> QED BY <3>2, <3>3
  <2>2. t \in Session
    BY <1>0, <2>2a DEF Session, Steps
  <2>3. Resolved(t)
    BY <1>0, <1>4, <2>1 DEF Resolved, Resolves, Candidate, Effective, applyOverrides, At
  <2>4. Become(w, t)
        /\ UNCHANGED <<member, resource, usage, plan, planLimit, override, edits>>
    BY <1>4 DEF applyOverrides
  <2> HIDE DEF t
  <2> QED BY <1>0, <1>1, <2>1, <2>2, <2>3, <2>4, OthersInv DEF Inv, TypeOK
<1> QED BY <1>2, <1>3, <1>4

(* reserve and what is created with it, all or nothing.                    *)
LEMMA ReserveInv ==
  ASSUME Inv, NEW w \in Workers, reserve(w)
  PROVE  Inv'
<1> DEFINE s == session[w]
<1>0. s \in Session /\ s.key \in LimitKeys /\ s.amount \in Nat
      /\ (s.key = "team_members" => s.user \in Users /\ s.amount = 1)
  BY DEF Inv, TypeOK, Sessions, Session, Resolves, At, reserve
<1>1. \/ /\ Made(s)
         /\ usage' = [usage EXCEPT ![s.key] = usage[s.key] + s.amount]
      \/ UNCHANGED <<member, resource, usage>>
  BY <1>0 DEF reserve, Inv, TypeOK
<1>2a. usage' \in [LimitKeys -> Nat]
  <2>1. usage \in [LimitKeys -> Nat] /\ usage[s.key] + s.amount \in Nat
    BY <1>0 DEF Inv, TypeOK
  <2> HIDE DEF s
  <2> QED BY <1>1, <2>1
<1>2. /\ member' \in [Users -> Member] /\ resource' \in [Resources -> 0 .. MaxResource]
      /\ \A u \in Users : member[u].status # "ABSENT" => member'[u].status # "ABSENT"
  <2>0. member \in [Users -> Member] /\ resource \in [Resources -> 0 .. MaxResource]
    BY DEF Inv, TypeOK
  <2>1. CASE Made(s)
    <3>1. CASE s.key = "team_members"
      <4>1. /\ s.user \in Users /\ member[s.user].status = "ABSENT" /\ resource' = resource
            /\ \E m \in Member : member' = [member EXCEPT ![s.user] = m] /\ m.status = "INVITED"
        <5>1. PICK role \in TenantRole \ {"OWNER"} :
                member' = [member EXCEPT ![s.user] = [status |-> "INVITED", role |-> role]]
          BY <2>1, <3>1 DEF Made
        <5>2. [status |-> "INVITED", role |-> role] \in Member
          BY DEF Member, MembershipStatus
        <5>3. member[s.user].status = "ABSENT" /\ resource' = resource
          BY <2>1, <3>1 DEF Made
        <5> QED BY <1>0, <3>1, <5>1, <5>2, <5>3
      <4> HIDE DEF s
      <4> QED BY <2>0, <4>1
    <3>2. CASE s.key # "team_members"
      <4>1. /\ s.key \in Resources /\ resource[s.key] + s.amount <= MaxResource
            /\ resource' = [resource EXCEPT ![s.key] = resource[s.key] + s.amount]
            /\ member' = member
        BY <1>0, <2>0, <2>1, <3>2 DEF Made, LimitKeys
      <4>2. resource[s.key] + s.amount \in 0 .. MaxResource
        BY <1>0, <2>0, <4>1, TenantUsageConstants
      <4> HIDE DEF s
      <4> QED BY <2>0, <4>1, <4>2
    <3> QED BY <3>1, <3>2
  <2>2. CASE UNCHANGED <<member, resource, usage>>
    BY <2>0, <2>2
  <2> QED BY <1>1, <2>1, <2>2
<1>3. Become(w, Idle) /\ UNCHANGED <<plan, planLimit, override, edits>>
  BY DEF reserve
<1>4. Idle.step = "idle" /\ Idle.changes = 0 /\ edits \in Nat
  BY TenantUsageConstants DEF Idle, Inv, TypeOK
<1> QED BY <1>2a, <1>2, <1>3, <1>4, IdleIsFine, OthersInv DEF Resolves

(* updateRole and suspendMember, their look at the member and their write. *)
LEMMA TeamInv ==
  ASSUME Inv, NEW w \in Workers, NEW u \in Users,
         \/ Look(w, u, "role") \/ Look(w, u, "suspend")
         \/ updateRole(w) \/ suspendMember(w)
  PROVE  Inv'
<1>0. /\ member \in [Users -> Member] /\ resource \in [Resources -> 0 .. MaxResource]
      /\ usage \in [LimitKeys -> Nat] /\ edits \in Nat
      /\ Idle.step = "idle" /\ Idle.changes = 0 /\ Idle.role = "ADMIN"
  BY TenantUsageConstants DEF Inv, TypeOK, Idle
<1>1. CASE \E step \in {"role", "suspend"} : Look(w, u, step)
  <2>1. PICK step \in {"role", "suspend"} : Look(w, u, step)
    BY <1>1
  <2> DEFINE s == [Idle EXCEPT !.step = step, !.user = u, !.role = member[u].role]
  <2>2. s.step = step /\ s.user = u /\ s.changes = 0
    BY DEF Idle
  <2>3. s \in Session
    BY <1>0, IdleIsFine DEF Session, Steps, Member
  <2>4. /\ Become(w, s) /\ member[u].status # "ABSENT"
        /\ UNCHANGED <<member, resource, usage, plan, planLimit, override, edits>>
    BY <2>1 DEF Look
  <2>5. ~ Resolves(s)
    BY <2>2 DEF Resolves
  <2> HIDE DEF s
  <2> QED BY <1>0, <2>2, <2>3, <2>4, <2>5, OthersInv DEF Resolved
<1>2. CASE updateRole(w)
  <2> DEFINE s == session[w]
  <2>0. s.user \in Users
    BY <1>2 DEF Inv, Sessions, At, updateRole
  <2>1. \/ \E role \in TenantRole : member' = [member EXCEPT ![s.user].role = role]
        \/ member' = member
    BY <1>2 DEF updateRole
  <2>2. /\ member' \in [Users -> Member]
        /\ \A v \in Users : member[v].status # "ABSENT" => member'[v].status # "ABSENT"
    <3>1. CASE \E role \in TenantRole : member' = [member EXCEPT ![s.user].role = role]
      <4>1. PICK role \in TenantRole : member' = [member EXCEPT ![s.user].role = role]
        BY <3>1
      <4> DEFINE m == [member[s.user] EXCEPT !.role = role]
      <4>2. m \in Member /\ m.status = member[s.user].status
        BY <1>0, <2>0 DEF Member
      <4>3. member' = [member EXCEPT ![s.user] = m]
        BY <1>0, <4>1
      <4> HIDE DEF s, m
      <4> QED BY <1>0, <2>0, <4>2, <4>3
    <3>2. CASE member' = member
      BY <1>0, <3>2
    <3> QED BY <2>1, <3>1, <3>2
  <2>3. Become(w, Idle) /\ UNCHANGED <<resource, usage, plan, planLimit, override, edits>>
    BY <1>2 DEF updateRole
  <2> QED BY <1>0, <2>2, <2>3, IdleIsFine, OthersInv DEF Resolves
<1>3. CASE suspendMember(w)
  <2> DEFINE s == session[w]
  <2>0. s.user \in Users
    BY <1>3 DEF Inv, Sessions, At, suspendMember
  <2>1. \/ /\ member' = [member EXCEPT ![s.user].status = "SUSPENDED"]
           /\ usage' = [usage EXCEPT !["team_members"] = decrement(usage["team_members"])]
        \/ UNCHANGED <<member, usage>>
    BY <1>0, <1>3 DEF suspendMember, LimitKeys
  <2>2. /\ member' \in [Users -> Member]
        /\ \A v \in Users : member[v].status # "ABSENT" => member'[v].status # "ABSENT"
    BY <1>0, <2>0, <2>1 DEF Member, MembershipStatus
  <2>3. usage' \in [LimitKeys -> Nat]
    BY <1>0, <2>1 DEF decrement, LimitKeys
  <2>4. Become(w, Idle) /\ UNCHANGED <<resource, plan, planLimit, override, edits>>
    BY <1>3 DEF suspendMember
  <2> QED BY <1>0, <2>2, <2>3, <2>4, IdleIsFine, OthersInv DEF Resolves
<1> QED BY <1>1, <1>2, <1>3

(* The reconciliation's count and its write; and a request that dies.      *)
LEMMA ReconcileInv ==
  ASSUME Inv, NEW w \in Workers, NEW k \in LimitKeys,
         CountRows(w, k) \/ upsertUsage(w) \/ Crash(w)
  PROVE  Inv'
<1>0. /\ member \in [Users -> Member] /\ resource \in [Resources -> 0 .. MaxResource]
      /\ usage \in [LimitKeys -> Nat] /\ edits \in Nat
      /\ Idle.step = "idle" /\ Idle.changes = 0
  BY TenantUsageConstants DEF Inv, TypeOK, Idle
<1>1. CASE CountRows(w, k)
  <2> DEFINE s == [Idle EXCEPT !.step = "set", !.key = k, !.count = Counted(k)]
  <2>1. s.step = "set" /\ s.key = k /\ s.changes = 0
    BY DEF Idle
  <2>2. s \in Session
    BY IdleIsFine, CountedType DEF Inv, Session, Steps
  <2>3. /\ Become(w, s)
        /\ UNCHANGED <<member, resource, usage, plan, planLimit, override, edits>>
    BY <1>1 DEF CountRows
  <2> HIDE DEF s
  <2> QED BY <1>0, <2>1, <2>2, <2>3, OthersInv DEF Resolved, Resolves
<1>2. CASE upsertUsage(w)
  <2>1. session[w].key \in LimitKeys /\ session[w].count \in Nat
    BY <1>2 DEF Inv, TypeOK, Session, Sessions, At, upsertUsage
  <2>2. usage' \in [LimitKeys -> Nat]
    BY <1>0, <1>2, <2>1 DEF upsertUsage
  <2>3. Become(w, Idle) /\ UNCHANGED <<member, resource, plan, planLimit, override, edits>>
    BY <1>2 DEF upsertUsage
  <2> QED BY <1>0, <2>2, <2>3, IdleIsFine, OthersInv DEF Resolves
<1>3. CASE Crash(w)
  BY <1>0, <1>3, IdleIsFine, OthersInv DEF Resolves, Crash
<1> QED BY <1>1, <1>2, <1>3

-----------------------------------------------------------------------------
(* The limit in force after a step.                                        *)
NewEffective(k) == Overridden(override'[k], planLimit'[plan'][k])

(* One change of the plan, of its limits or of an override: who has not    *)
(* seen one before ends up with the limit from before it or from after it. *)
LEMMA EditInv ==
  ASSUME Inv, Edit, plan' \in Plans,
         planLimit' \in [Plans -> [LimitKeys -> Limits]],
         override' \in [LimitKeys -> Seq(Limits)],
         \/ UNCHANGED <<planLimit, override>>
         \/ UNCHANGED <<plan, override>>
         \/ UNCHANGED <<plan, planLimit>>
  PROVE  Inv'
<1>0. edits \in Nat /\ MaxEdits \in Nat /\ edits' = edits + 1 /\ edits < MaxEdits
  BY TenantUsageConstants DEF Inv, TypeOK, Edit
<1>1. \A k \in LimitKeys : NewEffective(k) \in Limits
  BY OverriddenType DEF NewEffective
<1>2. ASSUME NEW w \in Workers
      PROVE  LET s == session[w]  t == session'[w] IN
             /\ t \in Session
             /\ t.step = s.step /\ t.key = s.key /\ t.user = s.user /\ t.amount = s.amount
             /\ t.plan = s.plan /\ t.limit = s.limit /\ t.count = s.count
             /\ t.changes <= edits'
             /\ Resolves(s) =>
                  /\ t.changes = s.changes + 1
                  /\ t.inForce = s.inForce \cup {NewEffective(s.key)}
  <2> DEFINE s == session[w]
             new == NewEffective(s.key)
             t == [s EXCEPT !.changes = s.changes + 1, !.inForce = s.inForce \cup {new}]
  <2>1. s \in Session /\ s.changes <= edits /\ (Resolves(s) => s.key \in LimitKeys)
    BY DEF Inv, TypeOK, Sessions
  <2>2. session'[w] = IF Resolves(s) THEN t ELSE s
    BY <2>1 DEF Edit, Told, Resolves, Session, NewEffective
  <2>3. CASE Resolves(s)
    <3>1. new \in Limits
      BY <1>1, <2>1, <2>3
    <3>2. s.changes \in Nat /\ s.changes + 1 \in 0 .. MaxEdits
      BY <1>0, <2>1 DEF Session
    <3>3. t \in Session
      BY <2>1, <3>1, <3>2 DEF Session
    <3>4. /\ t.step = s.step /\ t.key = s.key /\ t.user = s.user /\ t.amount = s.amount
          /\ t.plan = s.plan /\ t.limit = s.limit /\ t.count = s.count
          /\ t.changes = s.changes + 1 /\ t.inForce = s.inForce \cup {new}
      BY <2>1 DEF Session
    <3>6. session'[w] = t
      BY <2>2, <2>3
    <3> HIDE DEF t
    <3> QED BY <1>0, <2>1, <3>2, <3>3, <3>4, <3>6
  <2>4. CASE ~ Resolves(s)
    BY <1>0, <2>1, <2>2, <2>4 DEF Session
  <2> QED BY <2>3, <2>4
<1>3. TypeOK'
  <2>1. session' \in [Workers -> Session]
    <3>1. session' = [w \in Workers |-> Told(session[w])]
      BY DEF Edit
    <3>2. DOMAIN session' = Workers /\ session' = [w \in Workers |-> session'[w]]
      BY <3>1
    <3> QED BY <1>2, <3>2
  <2> QED BY <1>0, <2>1 DEF Inv, TypeOK, Edit
<1>4. Sessions'
  <2>1. member' = member
    BY DEF Edit
  <2> QED BY <1>2, <2>1 DEF Inv, Sessions, At, Resolves
<1>5. Resolution'
  <2> SUFFICES ASSUME NEW w \in Workers PROVE Resolved(session[w])'
    BY DEF Resolution
  <2> DEFINE s == session[w]
             t == session'[w]
  <2>1. Resolved(s) /\ s.changes \in Nat /\ (Resolves(s) => s.key \in LimitKeys)
    BY DEF Inv, TypeOK, Session, Sessions, Resolution
  <2> SUFFICES ASSUME Resolves(t), t.changes <= 1, t.changes # 0
               PROVE  Candidate(session[w])' \in t.inForce
    BY <1>2, <2>1 DEF Resolved, Resolves
  <2>2. Resolves(s) /\ s.changes = 0 /\ t.inForce = s.inForce \cup {NewEffective(s.key)}
        /\ t.step = s.step /\ t.key = s.key /\ t.plan = s.plan /\ t.limit = s.limit
    BY <1>2, <2>1 DEF Resolves
  <2>3. /\ Effective(s.key) \in s.inForce /\ Candidate(s) \in s.inForce
        /\ s.step = "limit" => s.plan = plan
        /\ s.step = "override" => s.limit = planLimit[plan][s.key]
    BY <2>1, <2>2 DEF Resolved
  <2>4. Candidate(session[w])' =
          CASE s.step = "plan"     -> NewEffective(s.key)
            [] s.step = "limit"    -> Overridden(override'[s.key], planLimit'[s.plan][s.key])
            [] s.step = "override" -> Overridden(override'[s.key], s.limit)
            [] s.step = "reserve"  -> s.limit
    BY <2>2 DEF Candidate, Effective, NewEffective
  <2>6. s.step \in {"plan", "limit", "override", "reserve"}
    BY <2>2 DEF Resolves
  <2> HIDE DEF s, t
  <2>7. CASE s.step = "plan"
    BY <2>2, <2>4, <2>7
  <2>8. CASE s.step = "limit"
    BY <2>2, <2>3, <2>4, <2>8 DEF Effective, NewEffective
  <2>9. CASE s.step = "override"
    BY <2>2, <2>3, <2>4, <2>9 DEF Effective, NewEffective
  <2>10. CASE s.step = "reserve"
    BY <2>2, <2>3, <2>4, <2>10 DEF Candidate
  <2> QED BY <2>6, <2>7, <2>8, <2>9, <2>10
<1> QED BY <1>3, <1>4, <1>5 DEF Inv

(* The changes the platform and the subscription make.                     *)
LEMMA PlatformInv ==
  ASSUME Inv, Platform
  PROVE  Inv'
<1>0. /\ plan \in Plans /\ planLimit \in [Plans -> [LimitKeys -> Limits]]
      /\ override \in [LimitKeys -> Seq(Limits)]
  BY DEF Inv, TypeOK
<1>1. ASSUME NEW p \in Plans, PlanChanges(p) PROVE Inv'
  BY <1>0, <1>1, EditInv DEF PlanChanges
<1>2. ASSUME NEW p \in Plans, NEW k \in LimitKeys, NEW value \in Limits,
             setPlanLimit(p, k, value)
      PROVE  Inv'
  <2>1. planLimit' \in [Plans -> [LimitKeys -> Limits]]
    BY <1>0, <1>2 DEF setPlanLimit
  <2> QED BY <1>0, <1>2, <2>1, EditInv DEF setPlanLimit
<1>3. ASSUME NEW k \in LimitKeys, NEW value \in Limits, createOverride(k, value)
      PROVE  Inv'
  <2>1. override' \in [LimitKeys -> Seq(Limits)]
    BY <1>0, <1>3 DEF createOverride
  <2> QED BY <1>0, <1>3, <2>1, EditInv DEF createOverride
<1>4. ASSUME NEW k \in LimitKeys, NEW i \in 1 .. Len(override[k]), revokeOverride(k, i)
      PROVE  Inv'
  <2> DEFINE o == override[k]
             rest == SubSeq(o, 1, i - 1) \o SubSeq(o, i + 1, Len(o))
  <2>1. o \in Seq(Limits) /\ Len(o) \in Nat /\ i \in 1 .. Len(o)
    BY <1>0
  <2>2. SubSeq(o, 1, i - 1) \in Seq(Limits)
    BY <2>1, \A j \in 1 .. i - 1 : o[j] \in Limits, SubSeqProperties
  <2>3. SubSeq(o, i + 1, Len(o)) \in Seq(Limits)
    BY <2>1, \A j \in i + 1 .. Len(o) : o[j] \in Limits, SubSeqProperties
  <2>4. rest \in Seq(Limits)
    BY <2>2, <2>3, ConcatProperties
  <2>5. override' = [override EXCEPT ![k] = rest]
    BY <1>0, <1>4 DEF revokeOverride
  <2> HIDE DEF rest
  <2>6. override' \in [LimitKeys -> Seq(Limits)]
    BY <1>0, <2>4, <2>5
  <2> QED BY <1>0, <1>4, <2>6, EditInv DEF revokeOverride
<1> QED BY <1>1, <1>2, <1>3, <1>4 DEF Platform

(* Every step keeps the invariant.                                         *)
LEMMA InvStep == Inv /\ [Next]_vars => Inv'
<1> SUFFICES ASSUME Inv, [Next]_vars PROVE Inv'
  OBVIOUS
<1>1. CASE Platform
  BY <1>1, PlatformInv
<1>2. ASSUME NEW w \in Workers, Request(w) PROVE Inv'
  <2>1. ASSUME NEW k \in Resources, NEW amount \in Amounts, Create(w, k, amount)
        PROVE  Inv'
    <3>1. k \in LimitKeys /\ k # "team_members" /\ amount \in Nat
      BY TenantUsageConstants DEF LimitKeys
    <3> QED BY <2>1, <3>1, BeginInv DEF Create
  <2>2. ASSUME NEW u \in Users, inviteMember(w, u) PROVE Inv'
    <3>1. "team_members" \in LimitKeys /\ 1 \in Nat
      BY DEF LimitKeys
    <3> QED BY <2>2, <3>1, BeginInv DEF inviteMember
  <2>3. ASSUME NEW u \in Users, Look(w, u, "role") \/ Look(w, u, "suspend") PROVE Inv'
    BY <2>3, TeamInv
  <2>4. ASSUME NEW k \in LimitKeys, CountRows(w, k) PROVE Inv'
    BY <2>4, ReconcileInv
  <2> QED BY <1>2, <2>1, <2>2, <2>3, <2>4 DEF Request
<1>3. ASSUME NEW w \in Workers, Step(w) \/ Crash(w) PROVE Inv'
  <2>1. CASE updateRole(w) \/ suspendMember(w)
    <3>1. session[w].user \in Users
      BY <2>1 DEF Inv, Sessions, At, updateRole, suspendMember
    <3> QED BY <2>1, <3>1, TeamInv
  <2>2. CASE upsertUsage(w) \/ Crash(w)
    <3>1. "team_members" \in LimitKeys
      BY DEF LimitKeys
    <3> QED BY <2>2, <3>1, ReconcileInv
  <2> QED BY <1>3, <2>1, <2>2, ResolveInv, ReserveInv DEF Step
<1>4. CASE UNCHANGED vars
  BY <1>4 DEF vars, Inv, TypeOK, Sessions, Resolution, Resolved, Resolves, Candidate,
              Effective, At
<1> QED BY <1>1, <1>2, <1>3, <1>4 DEF Next

(* The invariant, of every reachable state.                                *)
THEOREM InvHolds == Spec => []Inv
  BY InvStep, InitInv, PTL DEF Spec

(* Counters, members, limits and what requests have read of them keep      *)
(* their types; a counter never goes below 0.                              *)
THEOREM TypeCorrect == Spec => []TypeOK
<1>1. Inv => TypeOK
  BY DEF Inv
<1> QED BY <1>1, InvHolds, PTL

-----------------------------------------------------------------------------
(* Nothing counted changes with what is neither member nor resource.       *)
LEMMA CountedFrame ==
  ASSUME TypeOK, NEW k \in LimitKeys, resource' = resource,
         member' \in [Users -> Member],
         \A u \in Users : member'[u].status = member[u].status
  PROVE  Counted(k)' = Counted(k)
<1>1. {u \in Users : member'[u].status \in {"ACTIVE", "INVITED"}} =
      {u \in Users : member[u].status \in {"ACTIVE", "INVITED"}}
  OBVIOUS
<1> QED BY <1>1 DEF Counted

(* An invitation adds one to the team; an upload or a product its amount.  *)
LEMMA MadeCounted ==
  ASSUME TypeOK, NEW s \in Session, s.key \in LimitKeys, s.user \in Users \/ s.key # "team_members",
         s.key = "team_members" => s.amount = 1,
         Made(s), NEW k \in LimitKeys
  PROVE  Counted(k)' = IF k = s.key THEN Counted(k) + s.amount ELSE Counted(k)
<1>0. /\ member \in [Users -> Member] /\ resource \in [Resources -> 0 .. MaxResource]
      /\ IsFiniteSet(Users) /\ "team_members" \notin Resources
  BY TenantUsageConstants DEF TypeOK
<1>1. CASE s.key = "team_members"
  <2> DEFINE T == {u \in Users : member[u].status \in {"ACTIVE", "INVITED"}}
             U == {u \in Users : member'[u].status \in {"ACTIVE", "INVITED"}}
             n == s.user
  <2>1. n \in Users /\ member[n].status = "ABSENT" /\ resource' = resource
    BY <1>1 DEF Made
  <2>2. PICK role \in TenantRole :
          member' = [member EXCEPT ![n] = [status |-> "INVITED", role |-> role]]
    BY <1>1 DEF Made
  <2>3. U = T \cup {n} /\ n \notin T
    BY <1>0, <2>1, <2>2
  <2>4. IsFiniteSet(T)
    BY <1>0, FS_Subset, T \in SUBSET Users
  <2>5. Cardinality(U) = Cardinality(T) + 1
    BY <2>3, <2>4, FS_AddElement
  <2>6. CASE k = "team_members"
    BY <1>1, <2>5, <2>6 DEF Counted
  <2>7. CASE k # "team_members"
    BY <1>1, <2>1, <2>7 DEF Counted
  <2> QED BY <2>6, <2>7
<1>2. CASE s.key # "team_members"
  <2>1. /\ s.key \in Resources /\ member' = member
        /\ resource' = [resource EXCEPT ![s.key] = resource[s.key] + s.amount]
    BY <1>0, <1>2 DEF Made, LimitKeys
  <2>2. CASE k = "team_members"
    BY <1>2, <2>1, <2>2 DEF Counted
  <2>3. CASE k # "team_members"
    <3>1. k \in Resources
      BY <2>3 DEF LimitKeys
    <3> HIDE DEF Session
    <3> QED BY <1>0, <2>1, <2>3, <3>1 DEF Counted
  <2> QED BY <2>2, <2>3
<1> QED BY <1>1, <1>2

(* A suspension takes one from the team.                                   *)
LEMMA SuspendedCounted ==
  ASSUME TypeOK, NEW n \in Users, member[n].status \in {"ACTIVE", "INVITED"},
         member' = [member EXCEPT ![n].status = "SUSPENDED"], resource' = resource,
         NEW k \in LimitKeys
  PROVE  /\ Counted(k)' = IF k = "team_members" THEN Counted(k) - 1 ELSE Counted(k)
         /\ Counted("team_members") \in Nat \ {0}
<1> DEFINE T == {u \in Users : member[u].status \in {"ACTIVE", "INVITED"}}
           U == {u \in Users : member'[u].status \in {"ACTIVE", "INVITED"}}
<1>0. member \in [Users -> Member] /\ IsFiniteSet(Users)
  BY TenantUsageConstants DEF TypeOK
<1>1. U = T \ {n} /\ n \in T
  BY <1>0 DEF Member
<1>2. IsFiniteSet(T)
  BY <1>0, FS_Subset, T \in SUBSET Users
<1>3. Cardinality(U) = Cardinality(T) - 1
  BY <1>1, <1>2, FS_RemoveElement
<1>4. Cardinality(T) \in Nat \ {0}
  BY <1>1, <1>2, FS_EmptySet, FS_CardinalityType
<1> QED BY <1>3, <1>4 DEF Counted

(* Each counter keeps agreeing with the rows it counts, in every           *)
(* interleaving of invitations, suspensions and uploads; an overtaken      *)
(* reconciliation excepted.                                                *)
THEOREM CounterExact == Spec => CounterStaysExact
<1> DEFINE Kept == \A k \in LimitKeys : usage[k] = Counted(k) =>
                     usage'[k] = Counted(k)' \/ \E w \in Workers : Overtaken(w, k)
<1>1. Inv /\ [Next]_vars => Kept
  <2> SUFFICES ASSUME Inv, [Next]_vars, NEW k \in LimitKeys, usage[k] = Counted(k)
               PROVE  usage'[k] = Counted(k)' \/ \E w \in Workers : Overtaken(w, k)
    OBVIOUS
  <2>0. /\ TypeOK /\ Inv' /\ member \in [Users -> Member] /\ member' \in [Users -> Member]
        /\ usage \in [LimitKeys -> Nat]
    BY InvStep DEF Inv, TypeOK
  <2>a. CASE UNCHANGED <<member, resource, usage>>
    BY <2>0, <2>a, CountedFrame
  <2>b. ASSUME NEW w \in Workers, reserve(w)
        PROVE  usage'[k] = Counted(k)'
    <3> DEFINE s == session[w]
    <3>1. s \in Session /\ s.key \in LimitKeys /\ s.amount \in Nat
          /\ (s.key = "team_members" => s.user \in Users /\ s.amount = 1)
      BY <2>b DEF Inv, TypeOK, Sessions, Session, Resolves, At, reserve
    <3>2. CASE Made(s) /\ usage' = [usage EXCEPT ![s.key] = usage[s.key] + s.amount]
      <4>1. Counted(k)' = IF k = s.key THEN Counted(k) + s.amount ELSE Counted(k)
        BY <2>0, <3>1, <3>2, MadeCounted
      <4> HIDE DEF s
      <4> QED BY <2>0, <3>1, <3>2, <4>1
    <3>3. CASE UNCHANGED <<member, resource, usage>>
      BY <2>0, <3>3, CountedFrame
    <3> QED BY <2>0, <2>b, <3>1, <3>2, <3>3 DEF reserve
  <2>c. ASSUME NEW w \in Workers, updateRole(w)
        PROVE  usage'[k] = Counted(k)'
    <3>1. session[w].user \in Users
      BY <2>c DEF Inv, Sessions, At, updateRole
    <3>2. \A u \in Users : member'[u].status = member[u].status
      <4>1. CASE UNCHANGED member
        BY <4>1
      <4>2. ASSUME NEW role \in TenantRole,
                   member' = [member EXCEPT ![session[w].user].role = role]
            PROVE  \A u \in Users : member'[u].status = member[u].status
        BY <2>0, <3>1, <4>2 DEF Member
      <4> QED BY <2>c, <4>1, <4>2 DEF updateRole
    <3>3. usage' = usage /\ resource' = resource
      BY <2>c DEF updateRole
    <3> QED BY <2>0, <3>2, <3>3, CountedFrame
  <2>d. ASSUME NEW w \in Workers, suspendMember(w)
        PROVE  usage'[k] = Counted(k)'
    <3> DEFINE n == session[w].user
    <3>1. n \in Users /\ member[n].status # "ABSENT"
      BY <2>d DEF Inv, Sessions, At, suspendMember
    <3>2. CASE Suspendable(n)
      <4>1. member[n].status \in {"ACTIVE", "INVITED"}
        BY <2>0, <3>1, <3>2 DEF Suspendable, Member, MembershipStatus
      <4>2. /\ member' = [member EXCEPT ![n].status = "SUSPENDED"] /\ resource' = resource
            /\ usage' = [usage EXCEPT !["team_members"] = decrement(usage["team_members"])]
        BY <2>d, <3>2 DEF suspendMember
      <4>3. Counted(k)' = IF k = "team_members" THEN Counted(k) - 1 ELSE Counted(k)
        BY <2>0, <3>1, <4>1, <4>2, SuspendedCounted
      <4>4. Counted("team_members") \in Nat \ {0}
        BY <2>0, <3>1, <4>1, <4>2, SuspendedCounted
      <4> HIDE DEF n
      <4> QED BY <2>0, <4>2, <4>3, <4>4 DEF decrement
    <3>3. CASE ~ Suspendable(n)
      BY <2>0, <2>d, <3>3, CountedFrame DEF suspendMember
    <3> QED BY <3>2, <3>3
  <2>e. ASSUME NEW w \in Workers, upsertUsage(w)
        PROVE  usage'[k] = Counted(k)' \/ Overtaken(w, k)
    <3>1. Counted(k)' = Counted(k)
      BY <2>0, <2>e, CountedFrame DEF upsertUsage
    <3>2. usage' = [usage EXCEPT ![session[w].key] = session[w].count] /\ At(w, "set")
      BY <2>e DEF upsertUsage
    <3> QED BY <2>0, <3>1, <3>2 DEF Overtaken
  <2>f. ASSUME NEW w \in Workers, Request(w) \/ Crash(w)
        PROVE  UNCHANGED <<member, resource, usage>>
    BY <2>f DEF Request, Crash, Create, inviteMember, Look, CountRows
  <2>g. ASSUME NEW w \in Workers,
               resolveEffectivePlanId(w) \/ resolvePlanLimits(w) \/ applyOverrides(w)
        PROVE  UNCHANGED <<member, resource, usage>>
    BY <2>g DEF resolveEffectivePlanId, resolvePlanLimits, applyOverrides
  <2>h. CASE Platform \/ UNCHANGED vars
    <3>1. UNCHANGED <<member, resource, usage>>
      BY <2>h DEF Platform, PlanChanges, setPlanLimit, createOverride, revokeOverride, Edit, vars
    <3> QED BY <2>a, <3>1
  <2> QED BY <2>a, <2>b, <2>c, <2>d, <2>e, <2>f, <2>g, <2>h DEF Next, Step
<1>2. Inv /\ [Next]_vars => [Kept]_vars
  BY <1>1
<1> QED BY <1>2, InvHolds, PTL DEF Spec, CounterStaysExact

(* A reservation never passes every limit that was in force since its      *)
(* request began to resolve one, however many requests race.               *)
THEOREM WithinLimit == Spec => ReservedWithinLimit
<1> DEFINE Kept ==
      \A w \in Workers :
        At(w, "reserve") /\ usage' # usage /\ session'[w] # session[w] /\ session[w].changes <= 1
          => \E limit \in session[w].inForce : Within(usage'[session[w].key], limit)
<1>1. Inv /\ [Next]_vars => Kept
  <2> SUFFICES ASSUME Inv, [Next]_vars, NEW w \in Workers, At(w, "reserve"), usage' # usage,
                      session'[w] # session[w], session[w].changes <= 1
               PROVE  \E limit \in session[w].inForce : Within(usage'[session[w].key], limit)
    OBVIOUS
  <2> DEFINE s == session[w]
  <2>0. session \in [Workers -> Session] /\ usage \in [LimitKeys -> Nat]
    BY DEF Inv, TypeOK
  <2>1. reserve(w)
    <3>1. PICK v \in Workers : Request(v) \/ Step(v) \/ Crash(v)
      BY DEF Next, Platform, PlanChanges, setPlanLimit, createOverride, revokeOverride, Edit, vars
    <3>2. Step(v)
      BY <3>1 DEF Request, Crash, Create, inviteMember, Look, CountRows
    <3>3. \E t : Become(v, t)
      BY <3>2 DEF Step, resolveEffectivePlanId, resolvePlanLimits, applyOverrides, reserve,
                  updateRole, suspendMember, upsertUsage
    <3>4. v = w
      BY <2>0, <3>3 DEF Become
    <3> QED BY <3>2, <3>4 DEF Step, At, resolveEffectivePlanId, resolvePlanLimits, applyOverrides,
                  reserve, updateRole, suspendMember, upsertUsage
  <2>2. Resolved(s) /\ s.key \in LimitKeys /\ s.step = "reserve"
    BY DEF Inv, Sessions, Resolution, Resolves, At
  <2>3. s.limit \in s.inForce
    BY <2>2 DEF Resolved, Resolves, Candidate
  <2>4. Fits(s) /\ usage' = [usage EXCEPT ![s.key] = usage[s.key] + s.amount]
    BY <2>0, <2>1, <2>2 DEF reserve
  <2>5. Within(usage'[s.key], s.limit)
    <3> HIDE DEF s
    <3> QED BY <2>0, <2>2, <2>4 DEF Fits
  <2> QED BY <2>3, <2>5
<1>2. Inv /\ [Next]_vars => [Kept]_vars
  BY <1>1
<1> QED BY <1>2, InvHolds, PTL DEF Spec, ReservedWithinLimit

=============================================================================
