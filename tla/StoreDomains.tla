---------------------------- MODULE StoreDomains ----------------------------
(***************************************************************************)
(* The hostnames of the stores: their rows in store_domains, the lookup    *)
(* cache of the API process, and the merchants, platform admins and        *)
(* storefront requests that work on them.  A worker is one request, cut at *)
(* each commit, before each provider call and each DNS lookup, and between *)
(* the read of a row and its entry in the cache.  What the hosting         *)
(* provider (Vercel) has attached is left open: it may give any answer at  *)
(* any time, as may the DNS.                                               *)
(*                                                                         *)
(* A store's platform subdomain is called by the store's own name, both as *)
(* a row and as a hostname; a custom domain is a row of Customs with a     *)
(* hostname of Hosts.  Merchants only see the rows of their own tenant,    *)
(* and nothing here relates two tenants but the hostnames.                 *)
(***************************************************************************)
EXTENDS Naturals, FiniteSets

CONSTANTS
  Stores,   \* stores, and their platform subdomains
  Customs,  \* rows for custom domains, each used once
  Hosts,    \* hostnames merchants register
  Workers,  \* requests that can be in flight at once
  None

ASSUME StoreDomainConstants ==
  /\ Stores \cap (Customs \cup Hosts) = {}
  /\ None \notin Stores \cup Customs \cup Hosts

VARIABLES
  domain,   \* store_domains
  cache,    \* StoreDomainLookupCache
  session   \* per worker: how far it is, and what it has read

vars == <<domain, cache, session>>

-----------------------------------------------------------------------------
Ids == Stores \cup Customs

Hostnames == Stores \cup Hosts

(* ERROR is kept as PENDING: neither is served.                            *)
TlsStatus == {"PENDING", "ISSUED"}

(* A row that is ABSENT was never made, or is deleted; GONE keeps its id   *)
(* from being used again.                                                  *)
Row == [status : {"ABSENT", "GONE", "PENDING", "VERIFIED", "FAILED"},
        host : Hostnames \cup {None}, store : Stores \cup {None},
        tls : TlsStatus, isPrimary : BOOLEAN]

NoRow == [status |-> "ABSENT", host |-> None, store |-> None,
          tls |-> "PENDING", isPrimary |-> FALSE]

(* What StoreDomainLookupRow holds, reduced to what resolution makes of    *)
(* it: the store, whether the serving gate is open, the store's primary.   *)
View == [store : Stores \cup {None}, served : BOOLEAN,
         primary : Hostnames \cup {None}]

NoView == [store |-> None, served |-> FALSE, primary |-> None]

(* missed: a bust of this host came before the entry was stored, or was    *)
(* never made.                                                             *)
Entry == [cached : BOOLEAN, view : View, missed : BOOLEAN]

NoEntry == [cached |-> FALSE, view |-> NoView, missed |-> FALSE]

Steps == {"idle", "check", "primary", "commit", "detach", "delete", "status",
          "tls", "bust", "attach", "lookup"}

Session == [step : Steps, platform : BOOLEAN, id : Ids \cup {None},
            hosts : SUBSET Hostnames, other : Ids \cup {None},
            tls : TlsStatus, attaches : BOOLEAN,
            host : Hostnames \cup {None}, view : View, missed : BOOLEAN]

Idle == [step |-> "idle", platform |-> FALSE, id |-> None, hosts |-> {},
         other |-> None, tls |-> "PENDING", attaches |-> FALSE,
         host |-> None, view |-> NoView, missed |-> FALSE]

TypeOK ==
  /\ domain \in [Ids -> Row]
  /\ cache \in [Hostnames -> Entry]
  /\ session \in [Workers -> Session]

(* ensurePlatformSubdomain: the subdomain is the store's first primary.  A *)
(* store that predates it has none.                                        *)
PlatformSubdomain(s) ==
  [status |-> "VERIFIED", host |-> s, store |-> s, tls |-> "PENDING", isPrimary |-> TRUE]

Init ==
  /\ \E provisioned \in SUBSET Stores :
       domain = [d \in Ids |-> IF d \in provisioned THEN PlatformSubdomain(d) ELSE NoRow]
  /\ cache = [h \in Hostnames |-> NoEntry]
  /\ session = [w \in Workers |-> Idle]

-----------------------------------------------------------------------------
At(w, step) == session[w].step = step

Become(w, s) == session' = [session EXCEPT ![w] = s]

GoTo(w, step) == Become(w, [session[w] EXCEPT !.step = step])

Exists(d) == domain[d].status \notin {"ABSENT", "GONE"}

isCustom(d) == d \in Customs

(* The serving gate: TLS and verification only concern custom domains.     *)
Serveable(d) ==
  isCustom(d) => domain[d].status = "VERIFIED" /\ domain[d].tls = "ISSUED"

storeHostnames(s) == {domain[d].host : d \in {e \in Ids : Exists(e) /\ domain[e].store = s}}

IsPrimaryOf(d, s) == Exists(d) /\ domain[d].store = s /\ domain[d].isPrimary

PrimaryOf(s) ==
  IF \E d \in Ids : IsPrimaryOf(d, s)
    THEN domain[CHOOSE d \in Ids : IsPrimaryOf(d, s)].host
    ELSE None

(* What the lookup of a hostname reads.                                    *)
Lookup(h) ==
  IF \E d \in Ids : Exists(d) /\ domain[d].host = h
    THEN LET d == CHOOSE e \in Ids : Exists(e) /\ domain[e].host = h
         IN [store |-> domain[d].store, served |-> Serveable(d),
             primary |-> PrimaryOf(domain[d].store)]
    ELSE NoView

(* After its commit a request still has to bust the cache.                 *)
Committed(w, hosts) == Become(w, [Idle EXCEPT !.step = "bust", !.hosts = hosts])

-----------------------------------------------------------------------------
(* add: hostname is unique on the platform.                                *)
Add(w, d, h, s) ==
  /\ At(w, "idle")
  /\ isCustom(d) /\ domain[d].status = "ABSENT"
  /\ \A e \in Ids : Exists(e) => domain[e].host # h
  /\ domain' = [domain EXCEPT ![d] =
       [NoRow EXCEPT !.status = "PENDING", !.host = h, !.store = s]]
  /\ Committed(w, {h})
  /\ UNCHANGED cache

(* verify and reverify hold an advisory lock on the domain until they      *)
(* commit, and read the row before the DNS lookup.  A merchant is refused  *)
(* on a revoked domain.                                                    *)
Checkable(d, platform) ==
  /\ isCustom(d)
  /\ domain[d].status \in (IF platform THEN {"PENDING", "FAILED"} ELSE {"PENDING"})
  /\ \A w \in Workers : ~ (At(w, "check") /\ session[w].id = d)

StartCheck(w, d, platform) ==
  /\ At(w, "idle")
  /\ Checkable(d, platform)
  /\ Become(w, [Idle EXCEPT !.step = "check", !.id = d, !.platform = platform])
  /\ UNCHANGED <<domain, cache>>

(* The rows setPrimary has updated, and not committed: who is to write one *)
(* of them waits.                                                          *)
Held(d) ==
  \E w \in Workers : At(w, "commit") /\ d \in {session[w].id, session[w].other}

(* The update is by id: it fails only if the row is gone.  A failed check  *)
(* writes lastCheckedAt.                                                   *)
FinishCheck(w) ==
  LET d == session[w].id
      host == domain[d].host
  IN
  /\ At(w, "check")
  /\ ~ Held(d)
  /\ IF Exists(d)
       THEN \/ /\ domain' = [domain EXCEPT ![d].status = "VERIFIED"]
               /\ IF session[w].platform
                    THEN Committed(w, {host})
                    ELSE Become(w, [Idle EXCEPT !.step = "bust", !.hosts = {host},
                           !.attaches = TRUE, !.id = d, !.tls = domain[d].tls])
            \/ /\ Committed(w, {host})
               /\ UNCHANGED domain
       ELSE Become(w, Idle) /\ UNCHANGED domain
  /\ UNCHANGED cache

(* revoke and override: a compare-and-swap of the status.                  *)
Moderate(w, d, from, to) ==
  /\ At(w, "idle")
  /\ isCustom(d) /\ domain[d].status \in from
  /\ ~ Held(d)
  /\ domain' = [domain EXCEPT ![d].status = to]
  /\ Committed(w, {domain[d].host})
  /\ UNCHANGED cache

revoke(w, d) == Moderate(w, d, {"VERIFIED"}, "FAILED")

override(w, d) == Moderate(w, d, {"PENDING", "FAILED"}, "VERIFIED")

-----------------------------------------------------------------------------
(* setPrimary reads the row and the present primary ...                    *)
FindPrimary(w, d) ==
  LET s == domain[d].store IN
  /\ At(w, "idle")
  /\ Exists(d) /\ Serveable(d) /\ ~ domain[d].isPrimary
  /\ \E previous \in Ids \cup {None} :
       /\ IF previous = None THEN \A e \in Ids : ~ IsPrimaryOf(e, s)
                             ELSE previous \in Ids /\ IsPrimaryOf(previous, s)
       /\ Become(w, [Idle EXCEPT !.step = "primary", !.id = d, !.other = previous])
  /\ UNCHANGED <<domain, cache>>

(* store_domains_store_primary_unique: a second primary of a store is      *)
(* refused; while it is not known whether a first one will be committed,   *)
(* the second waits.                                                       *)
OnlyPrimary(d, replaced) ==
  \A e \in Ids \ {d, replaced} : ~ IsPrimaryOf(e, domain[d].store)

Replacing(s) == \E w \in Workers : At(w, "commit") /\ domain[session[w].id].store = s

(* ... replaces the one by the other, unless either is gone, or there is a *)
(* third by now, and lists the hosts to bust, all in a transaction ...     *)
ReplacePrimary(w) ==
  LET d == session[w].id
      previous == session[w].other
      s == domain[d].store
  IN
  /\ At(w, "primary")
  /\ ~ Replacing(s)
  /\ Become(w, IF Exists(d) /\ (previous # None => Exists(previous)) /\ OnlyPrimary(d, previous)
                 THEN [session[w] EXCEPT !.step = "commit", !.hosts = storeHostnames(s)]
                 ELSE Idle)
  /\ UNCHANGED <<domain, cache>>

Replaced(previous, d) ==
  [e \in Ids |-> CASE e = d        -> [domain[e] EXCEPT !.isPrimary = TRUE]
                   [] e = previous -> [domain[e] EXCEPT !.isPrimary = FALSE]
                   [] OTHER        -> domain[e]]

(* An entry of a host, or a lookup on its way to become one, that no bust  *)
(* is going to reach.                                                      *)
Missing(hosts) ==
  cache' = [h \in Hostnames |->
    IF h \in hosts THEN [cache[h] EXCEPT !.missed = cache[h].cached] ELSE cache[h]]

Overtaken(s, hosts) == IF s.step = "lookup" /\ s.host \in hosts
                         THEN [s EXCEPT !.missed = TRUE] ELSE s

(* After a change to all of a store, the hosts it has got since they were  *)
(* listed are not busted.                                                  *)
CommitListed(w, s) ==
  LET unlisted == storeHostnames(s) \ session[w].hosts IN
  /\ Missing(unlisted)
  /\ session' = [v \in Workers |->
       IF v = w THEN [Idle EXCEPT !.step = "bust", !.hosts = session[w].hosts]
                ELSE Overtaken(session[v], unlisted)]

(* ... and commits.                                                        *)
SetPrimary(w) ==
  LET d == session[w].id IN
  /\ At(w, "commit")
  /\ domain' = Replaced(session[w].other, d)
  /\ CommitListed(w, domain[d].store)

-----------------------------------------------------------------------------
(* remove, by the merchant or the platform: what is to become primary and  *)
(* which hosts to bust is decided first ...                                *)
PlanRemoval(w, d) ==
  LET s == domain[d].store IN
  /\ At(w, "idle")
  /\ isCustom(d) /\ Exists(d)
  /\ domain[d].isPrimary => Exists(s)
  /\ Become(w, [Idle EXCEPT !.step = "detach", !.id = d,
                            !.other = IF domain[d].isPrimary THEN s ELSE None,
                            !.hosts = storeHostnames(s)])
  /\ UNCHANGED <<domain, cache>>

(* ... then the provider lets go of the domain, or refuses ...             *)
Detach(w) ==
  /\ At(w, "detach")
  /\ GoTo(w, "delete") \/ Become(w, Idle)
  /\ UNCHANGED <<domain, cache>>

Deleted_WithoutFallback(d, fallback) ==
  [domain EXCEPT ![d] = [NoRow EXCEPT !.status = "GONE"]]

Deleted_Softly(d, fallback) == [domain EXCEPT ![d].status = "DELETED"]

Deleted(d, fallback) ==
  [e \in Ids |-> CASE e = d        -> [NoRow EXCEPT !.status = "GONE"]
                   [] e = fallback -> [domain[e] EXCEPT !.isPrimary = TRUE]
                   [] OTHER        -> domain[e]]

(* ... and at last the row is deleted and the fallback made primary.       *)
Delete(w) ==
  LET d == session[w].id
      fallback == session[w].other
  IN
  /\ At(w, "delete")
  /\ ~ Held(d) /\ ~ Replacing(fallback)
  /\ IF Exists(d) /\ (fallback # None => OnlyPrimary(fallback, d))
       THEN /\ domain' = Deleted(d, fallback)
            /\ CommitListed(w, domain[d].store)
       ELSE Become(w, Idle) /\ UNCHANGED <<domain, cache>>

-----------------------------------------------------------------------------
(* refreshTls reads the row, then asks the provider.                       *)
StartRefresh(w, d) ==
  /\ At(w, "idle")
  /\ isCustom(d) /\ Exists(d)
  /\ Become(w, [Idle EXCEPT !.step = "status", !.id = d])
  /\ UNCHANGED <<domain, cache>>

(* The certificate as the provider reports it, or an error.                *)
AskStatus(w) ==
  /\ At(w, "status")
  /\ \E tls \in TlsStatus : Become(w, [session[w] EXCEPT !.step = "tls", !.tls = tls])
  /\ UNCHANGED <<domain, cache>>

(* attachToHostingProvider: a status that is no news is not written; ERROR *)
(* is news to a row that is PENDING.                                       *)
Attach(w) ==
  LET s == session[w] IN
  /\ At(w, "attach")
  /\ \E tls \in TlsStatus :
       \/ tls = s.tls /\ Become(w, Idle)
       \/ /\ tls # s.tls \/ tls = "PENDING"
          /\ Become(w, [s EXCEPT !.step = "tls", !.tls = tls])
  /\ UNCHANGED <<domain, cache>>

(* By id: it fails if the row is gone.                                     *)
WriteTls(w) ==
  LET d == session[w].id IN
  /\ At(w, "tls")
  /\ ~ Held(d)
  /\ IF Exists(d)
       THEN /\ domain' = [domain EXCEPT ![d].tls = session[w].tls]
            /\ Committed(w, {domain[d].host})
       ELSE Become(w, Idle) /\ UNCHANGED domain
  /\ UNCHANGED cache

-----------------------------------------------------------------------------
(* The cache.                                                              *)

AfterBust(w) ==
  IF session[w].attaches
    THEN [Idle EXCEPT !.step = "attach", !.id = session[w].id, !.tls = session[w].tls]
    ELSE Idle

Busted_None(hosts) == cache

Busted(hosts) == [h \in Hostnames |-> IF h \in hosts THEN NoEntry ELSE cache[h]]

Bust(w) ==
  /\ At(w, "bust")
  /\ cache' = Busted(session[w].hosts)
  /\ session' = [v \in Workers |-> IF v = w THEN AfterBust(w)
                                            ELSE Overtaken(session[v], session[w].hosts)]
  /\ UNCHANGED domain

(* lookup of a host that is not in the cache: the row is read ...          *)
ReadRow(w, h) ==
  /\ At(w, "idle")
  /\ ~ cache[h].cached
  /\ Become(w, [Idle EXCEPT !.step = "lookup", !.host = h, !.view = Lookup(h)])
  /\ UNCHANGED <<domain, cache>>

(* ... and stored, whatever has happened since, misses included.           *)
StoreRow(w) ==
  LET s == session[w] IN
  /\ At(w, "lookup")
  /\ cache' = [cache EXCEPT ![s.host] =
       [cached |-> TRUE, view |-> s.view, missed |-> s.missed]]
  /\ Become(w, Idle)
  /\ UNCHANGED domain

Lapses_Never(h) == FALSE

Lapses(h) == cache[h].cached

(* expiresAt has passed.                                                   *)
Expire(h) ==
  /\ Lapses(h)
  /\ cache' = [cache EXCEPT ![h] = NoEntry]
  /\ UNCHANGED <<domain, session>>

-----------------------------------------------------------------------------
(* The one process that serves the API restarts, its cache empty.          *)
Restart ==
  /\ session' = [w \in Workers |-> Idle]
  /\ cache' = [h \in Hostnames |-> NoEntry]
  /\ UNCHANGED domain

Merchant(w) ==
  \/ \E d \in Customs, h \in Hosts, s \in Stores : Add(w, d, h, s)
  \/ \E d \in Customs : StartCheck(w, d, FALSE) \/ PlanRemoval(w, d) \/ StartRefresh(w, d)
  \/ \E d \in Ids : FindPrimary(w, d)

Platform(w) ==
  \E d \in Customs : StartCheck(w, d, TRUE) \/ revoke(w, d) \/ override(w, d)

Step(w) ==
  \/ FinishCheck(w) \/ ReplacePrimary(w) \/ SetPrimary(w) \/ Detach(w) \/ Delete(w)
  \/ AskStatus(w) \/ Attach(w) \/ WriteTls(w) \/ Bust(w) \/ StoreRow(w)

Next ==
  \/ \E w \in Workers :
       Merchant(w) \/ Platform(w) \/ Step(w) \/ (\E h \in Hostnames : ReadRow(w, h))
  \/ \E h \in Hostnames : Expire(h)
  \/ Restart

Spec == Init /\ [][Next]_vars

(* Entries live 15 seconds, and a request in flight is carried on.         *)
FairSpec ==
  /\ Spec
  /\ \A h \in Hostnames : WF_vars(Expire(h))
  /\ \A w \in Workers : WF_vars(Step(w))

-----------------------------------------------------------------------------
(* PROPERTIES                                                              *)

BustPending(h) == \E w \in Workers : At(w, "bust") /\ h \in session[w].hosts

(* The cache agrees with the database, up to a bust that is on its way and *)
(* the entries that bust has missed: a row read before a write and stored  *)
(* after its bust; a host the store has got after setPrimary or remove had *)
(* listed its hosts, and before they committed.  No write forgets anything *)
(* else of what it changes.                                                *)
CacheIsCurrent ==
  \A h \in Hostnames :
    cache[h].cached /\ ~ cache[h].missed /\ ~ BustPending(h)
      => cache[h].view = Lookup(h)

(* Whatever stale rows are stored, a domain that stays revoked is after a  *)
(* while not served any more.                                              *)
RevocationTakesEffect ==
  \A d \in Customs, h \in Hosts :
    <>[](domain[d].status = "FAILED" /\ domain[d].host = h)
      => <>[](cache[h].cached => ~ cache[h].view.served)

HasPrimary(s) == \E d \in Ids : IsPrimaryOf(d, s)

(* A store keeps a primary domain through every change, races included but *)
(* for one: the removal of a domain made primary after it was planned.     *)
PrimaryKept ==
  [][\A s \in Stores : HasPrimary(s) =>
       \/ HasPrimary(s)'
       \/ \E w \in Workers : /\ At(w, "delete") /\ session[w].other = None
                             /\ IsPrimaryOf(session[w].id, s)]_vars

(* store-domains.service.ts, remove: a store is never left with zero       *)
(* primary domains.                                                        *)
NeverWithoutPrimary == [][\A s \in Stores : HasPrimary(s) => HasPrimary(s)']_vars

=============================================================================
