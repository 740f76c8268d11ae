------------------------- MODULE StoreDomainsProofs -------------------------
(***************************************************************************)
(* Theorems about StoreDomains, for any stores, domains, hostnames and     *)
(* requests.                                                               *)
(***************************************************************************)
EXTENDS StoreDomains, TLAPS

HostsUnique ==
  \A d, e \in Ids :
    Exists(d) /\ Exists(e) /\ domain[d].host = domain[e].host => d = e

PrimaryUnique ==
  \A s \in Stores : \A d, e \in Ids : IsPrimaryOf(d, s) /\ IsPrimaryOf(e, s) => d = e

(* Of what exists, everything is known; a subdomain is of its own store.   *)
Rows ==
  /\ domain \in [Ids -> Row]
  /\ HostsUnique /\ PrimaryUnique
  /\ \A d \in Ids : Exists(d) => domain[d].host \in Hostnames /\ domain[d].store \in Stores
  /\ \A d \in Stores : Exists(d) => domain[d].host = d /\ domain[d].store = d

(* What a worker can rely on, of what it has read.                         *)
Fine(s) ==
  /\ s.step \in {"check", "status", "tls", "attach"} => s.id \in Customs
  /\ s.step = "bust" /\ s.attaches => s.id \in Customs
  /\ s.step = "lookup" => s.host \in Hostnames
  /\ s.step \in {"detach", "delete"} =>
       /\ s.id \in Customs /\ domain[s.id].status # "ABSENT"
       /\ s.other # None => /\ s.other \in Stores /\ Exists(s.other)
                            /\ Exists(s.id) => domain[s.id].store = s.other
  /\ s.step = "primary" =>
       /\ s.id \in Ids /\ domain[s.id].status # "ABSENT"
       /\ s.other # None =>
            /\ s.other \in Ids \ {s.id} /\ domain[s.other].status # "ABSENT"
            /\ Exists(s.id) /\ Exists(s.other) => domain[s.id].store = domain[s.other].store
  /\ s.step = "commit" =>
       /\ s.id \in Ids /\ Exists(s.id) /\ OnlyPrimary(s.id, s.other)
       /\ s.other # None =>
            /\ s.other \in Ids \ {s.id} /\ Exists(s.other)
            /\ domain[s.id].store = domain[s.other].store

(* At most one transaction is replacing the primary domain of a store.     *)
OneReplaces ==
  \A v, w \in Workers :
    At(v, "commit") /\ At(w, "commit")
      /\ domain[session[v].id].store = domain[session[w].id].store => v = w

Sessions ==
  /\ session \in [Workers -> Session]
  /\ \A w \in Workers : Fine(session[w])
  /\ OneReplaces

(* A lookup on its way to the cache is as current as what the cache holds. *)
Current ==
  /\ cache \in [Hostnames -> Entry]
  /\ CacheIsCurrent
  /\ \A w \in Workers :
       At(w, "lookup") /\ ~ session[w].missed /\ ~ BustPending(session[w].host)
         => session[w].view = Lookup(session[w].host)

Inv == Rows /\ Sessions /\ Current

-----------------------------------------------------------------------------
(* What a lookup finds.                                                    *)
PrimaryFound ==
  \A s \in Stores :
    /\ \A d \in Ids : IsPrimaryOf(d, s) => PrimaryOf(s) = domain[d].host
    /\ (\A d \in Ids : ~ IsPrimaryOf(d, s)) => PrimaryOf(s) = None

RowFound ==
  \A h \in Hostnames :
    /\ \A d \in Ids : Exists(d) /\ domain[d].host = h =>
         Lookup(h) = [store |-> domain[d].store, served |-> Serveable(d),
                      primary |-> PrimaryOf(domain[d].store)]
    /\ (\A d \in Ids : ~ (Exists(d) /\ domain[d].host = h)) => Lookup(h) = NoView

LEMMA Found == Rows => PrimaryFound /\ RowFound
<1> SUFFICES ASSUME Rows PROVE PrimaryFound /\ RowFound
  OBVIOUS
<1>1. PrimaryFound
  <2> SUFFICES ASSUME NEW s \in Stores, NEW d \in Ids, IsPrimaryOf(d, s)
               PROVE  PrimaryOf(s) = domain[d].host
    BY DEF PrimaryFound, PrimaryOf
  <2> DEFINE e == CHOOSE x \in Ids : IsPrimaryOf(x, s)
  <2>1. e \in Ids /\ IsPrimaryOf(e, s)
    OBVIOUS
  <2>2. e = d
    BY <2>1 DEF Rows, PrimaryUnique
  <2> QED BY <2>2 DEF PrimaryOf
<1>2. RowFound
  <2> SUFFICES ASSUME NEW h \in Hostnames, NEW d \in Ids, Exists(d), domain[d].host = h
               PROVE  Lookup(h) = [store |-> domain[d].store, served |-> Serveable(d),
                                   primary |-> PrimaryOf(domain[d].store)]
    BY DEF RowFound, Lookup
  <2> DEFINE e == CHOOSE x \in Ids : Exists(x) /\ domain[x].host = h
  <2>1. e \in Ids /\ Exists(e) /\ domain[e].host = h
    OBVIOUS
  <2>2. e = d
    BY <2>1 DEF Rows, HostsUnique
  <2> QED BY <2>2 DEF Lookup
<1> QED BY <1>1, <1>2

SamePrimary(s) ==
  \A d \in Ids : /\ IsPrimaryOf(d, s) <=> IsPrimaryOf(d, s)'
                 /\ IsPrimaryOf(d, s) => domain'[d].host = domain[d].host

LEMMA PrimaryOfKept ==
  ASSUME Rows, Rows', NEW s \in Stores, SamePrimary(s)
  PROVE  PrimaryOf(s)' = PrimaryOf(s)
<1>1. PrimaryFound
  BY Found
<1>2. PrimaryFound'
  <2>1. Rows' => PrimaryFound'
    BY Found, PTL
  <2> QED BY <2>1
<1>3. CASE \E d \in Ids : IsPrimaryOf(d, s)
  <2>1. PICK d \in Ids : IsPrimaryOf(d, s)
    BY <1>3
  <2>2. PrimaryOf(s) = domain[d].host
    BY <1>1, <2>1 DEF PrimaryFound
  <2>3. IsPrimaryOf(d, s)' /\ domain'[d].host = domain[d].host
    BY <2>1 DEF SamePrimary
  <2>4. PrimaryOf(s)' = domain'[d].host
    BY <1>2, <2>3 DEF PrimaryFound
  <2> QED BY <2>2, <2>3, <2>4
<1>4. CASE \A d \in Ids : ~ IsPrimaryOf(d, s)
  BY <1>1, <1>2, <1>4 DEF PrimaryFound, SamePrimary
<1> QED BY <1>3, <1>4

(* A write that keeps a host's row and its store's primary keeps what its  *)
(* lookup finds.                                                           *)
LEMMA LookupKept ==
  ASSUME Rows, Rows', NEW h \in Hostnames,
         \A d \in Ids : (Exists(d) /\ domain[d].host = h) <=> (Exists(d)' /\ domain'[d].host = h),
         \A d \in Ids : Exists(d) /\ domain[d].host = h =>
           /\ domain'[d].store = domain[d].store
           /\ Serveable(d)' = Serveable(d)
           /\ \A s \in Stores : s = domain[d].store => SamePrimary(s)
  PROVE  Lookup(h)' = Lookup(h)
<1>1. RowFound
  BY Found
<1>2. RowFound'
  <2>1. Rows' => RowFound'
    BY Found, PTL
  <2> QED BY <2>1
<1>3. CASE \E d \in Ids : Exists(d) /\ domain[d].host = h
  <2>1. PICK d \in Ids : Exists(d) /\ domain[d].host = h
    BY <1>3
  <2>2. PICK s \in Stores : s = domain[d].store
    BY <2>1 DEF Rows
  <2>3. Exists(d)' /\ domain'[d].host = h /\ domain'[d].store = s /\ SamePrimary(s)
        /\ Serveable(d)' = Serveable(d)
    BY <2>1, <2>2
  <2>4. PrimaryOf(s)' = PrimaryOf(s)
    BY <2>3, PrimaryOfKept
  <2>5. Lookup(h) = [store |-> s, served |-> Serveable(d), primary |-> PrimaryOf(s)]
    BY <1>1, <2>1, <2>2 DEF RowFound
  <2>6. Lookup(h)' = [store |-> s, served |-> Serveable(d)', primary |-> PrimaryOf(s)']
    BY <1>2, <2>2, <2>3 DEF RowFound
  <2> QED BY <2>3, <2>4, <2>5, <2>6
<1>4. CASE \A d \in Ids : ~ (Exists(d) /\ domain[d].host = h)
  BY <1>1, <1>2, <1>4 DEF RowFound
<1> QED BY <1>3, <1>4

-----------------------------------------------------------------------------
(* Ids are not used again, rows stay with their store and subdomains stay. *)
RowsKept ==
  /\ \A d \in Ids : domain[d].status # "ABSENT" =>
       /\ domain'[d].status # "ABSENT"
       /\ Exists(d)' => Exists(d) /\ domain'[d].store = domain[d].store
  /\ \A d \in Stores : Exists(d) => Exists(d)'

(* What a transaction that is about to commit relies on stays.             *)
Undisturbed(t) ==
  t.step = "commit" =>
    /\ Exists(t.id)' /\ (t.other # None => Exists(t.other)')
    /\ \A s \in Stores : s = domain[t.id].store =>
         \A e \in Ids : IsPrimaryOf(e, s)' => IsPrimaryOf(e, s)

NothingTaken ==
  /\ \A d \in Ids : Exists(d) => Exists(d)'
  /\ \A s \in Stores : \A e \in Ids : IsPrimaryOf(e, s)' => IsPrimaryOf(e, s)

LEMMA TakesNothing ==
  ASSUME NothingTaken, NEW t \in Session, Fine(t)
  PROVE  Undisturbed(t)
BY DEF NothingTaken, Fine, Undisturbed

LEMMA FineKept ==
  ASSUME NEW t \in Session, Fine(t), Rows, RowsKept, Undisturbed(t)
  PROVE  Fine(t)'
<1>1. Stores \subseteq Ids /\ Customs \subseteq Ids
  BY DEF Ids
<1>2. t.step \in {"detach", "delete"} =>
        /\ t.id \in Customs /\ domain'[t.id].status # "ABSENT"
        /\ t.other # None => /\ t.other \in Stores /\ Exists(t.other)'
                             /\ Exists(t.id)' => domain'[t.id].store = t.other
  BY <1>1 DEF Fine, RowsKept
<1>3. t.step = "primary" =>
       /\ t.id \in Ids /\ domain'[t.id].status # "ABSENT"
       /\ t.other # None =>
            /\ t.other \in Ids \ {t.id} /\ domain'[t.other].status # "ABSENT"
            /\ Exists(t.id)' /\ Exists(t.other)' =>
                 domain'[t.id].store = domain'[t.other].store
  BY DEF Fine, RowsKept
<1>4. ASSUME t.step = "commit"
      PROVE  /\ t.id \in Ids /\ Exists(t.id)' /\ OnlyPrimary(t.id, t.other)'
             /\ t.other # None =>
                  /\ t.other \in Ids \ {t.id} /\ Exists(t.other)'
                  /\ domain'[t.id].store = domain'[t.other].store
  <2>1. PICK s \in Stores : s = domain[t.id].store
    BY <1>4 DEF Fine, Rows
  <2>2. /\ t.id \in Ids /\ Exists(t.id) /\ Exists(t.id)'
        /\ t.other # None => /\ t.other \in Ids \ {t.id}
                             /\ Exists(t.other) /\ Exists(t.other)'
                             /\ s = domain[t.other].store
    BY <1>4, <2>1 DEF Fine, Undisturbed
  <2>3. \A d \in Ids : Exists(d) /\ Exists(d)' => domain'[d].store = domain[d].store
    BY DEF RowsKept, Exists
  <2>4. domain'[t.id].store = s /\ (t.other # None => domain'[t.other].store = s)
    BY <2>1, <2>2, <2>3
  <2>5. \A e \in Ids \ {t.id, t.other} : ~ IsPrimaryOf(e, s)'
    BY <1>4, <2>1 DEF Fine, Undisturbed, OnlyPrimary
  <2>6. OnlyPrimary(t.id, t.other)'
    BY <2>4, <2>5 DEF OnlyPrimary
  <2> QED BY <2>2, <2>4, <2>6
<1> QED BY <1>2, <1>3, <1>4 DEF Fine

LEMMA OvertakenFacts ==
  ASSUME NEW s \in Session, NEW H
  PROVE  LET t == Overtaken(s, H) IN
         /\ t \in Session /\ t.step = s.step /\ t.id = s.id /\ t.other = s.other
         /\ t.hosts = s.hosts /\ t.attaches = s.attaches /\ t.host = s.host /\ t.view = s.view
         /\ ~ t.missed => ~ s.missed /\ (s.step = "lookup" => s.host \notin H)
<1>1. CASE s.step = "lookup" /\ s.host \in H
  <2> DEFINE t == [s EXCEPT !.missed = TRUE]
  <2>1. /\ t \in Session /\ t.step = s.step /\ t.id = s.id /\ t.other = s.other
        /\ t.hosts = s.hosts /\ t.attaches = s.attaches /\ t.host = s.host /\ t.view = s.view
        /\ t.missed = TRUE
    BY DEF Session
  <2> HIDE DEF t
  <2> QED BY <1>1, <2>1 DEF Overtaken, t
<1>2. CASE ~ (s.step = "lookup" /\ s.host \in H)
  BY <1>2 DEF Overtaken
<1> QED BY <1>1, <1>2

(* A step of worker w, which goes on as t: the lookups of the hosts in H   *)
(* count as overtaken.  Each host is to be busted by w now, or its entry   *)
(* is gone or missed, or what a lookup finds of it has not changed.        *)
LEMMA WorkerInv ==
  ASSUME Inv, NEW w \in Workers, NEW t \in Session, NEW H \in SUBSET Hostnames,
         session' = [v \in Workers |-> IF v = w THEN t ELSE Overtaken(session[v], H)],
         Rows', RowsKept, Fine(t)', t.step = "lookup" => t.view = Lookup(t.host)',
         \A v \in Workers \ {w}, u \in Session : u = session[v] => Undisturbed(u),
         t.step = "commit" =>
           /\ UNCHANGED domain
           /\ \A v \in Workers \ {w} :
                At(v, "commit") => domain[session[v].id].store # domain[t.id].store,
         cache' \in [Hostnames -> Entry],
         \A h \in Hostnames :
           \/ t.step = "bust" /\ h \in t.hosts
           \/ h \in H /\ (cache'[h].cached => cache'[h].missed)
           \/ /\ Lookup(h)' = Lookup(h) /\ cache'[h] = cache[h]
              /\ At(w, "bust") => h \notin session[w].hosts
  PROVE  Inv'
<1>1. ASSUME NEW v \in Workers
      PROVE  session'[v] \in Session /\ Fine(session[v])'
  <2>1. CASE v = w
    <3>1. session'[v] = t
      BY <2>1
    <3> QED BY <3>1 DEF Fine
  <2>2. CASE v # w
    <3>1. PICK s \in Session : s = session[v] /\ Fine(s)
      BY DEF Inv, Sessions
    <3>2. PICK u : u = Overtaken(s, H)
      OBVIOUS
    <3>3. session'[v] = u
      BY <2>2, <3>1, <3>2
    <3>4. u \in Session /\ Fine(u)
      BY <3>1, <3>2, OvertakenFacts DEF Fine
    <3>5. Undisturbed(u)
      <4>1. Undisturbed(s)
        BY <2>2, <3>1
      <4> QED BY <3>1, <3>2, <4>1, OvertakenFacts DEF Undisturbed
    <3>6. Fine(u)'
      BY <3>4, <3>5, FineKept DEF Inv
    <3> QED BY <3>3, <3>4, <3>6 DEF Fine
  <2> QED BY <2>1, <2>2
<1>c. ASSUME NEW v \in Workers, v # w, session'[v].step = "commit"
      PROVE  /\ At(v, "commit") /\ session'[v].id = session[v].id
             /\ domain'[session'[v].id].store = domain[session[v].id].store
  <2>1. PICK s \in Session : s = session[v] /\ Fine(s) /\ Undisturbed(s)
    BY <1>c DEF Inv, Sessions
  <2>2. session'[v] = Overtaken(s, H)
    BY <1>c, <2>1
  <2>3. s.step = "commit" /\ session'[v].id = s.id
    BY <1>c, <2>2, OvertakenFacts
  <2>4. s.id \in Ids /\ Exists(s.id) /\ Exists(s.id)'
    BY <2>1, <2>3 DEF Fine, Undisturbed
  <2>5. domain'[s.id].store = domain[s.id].store
    BY <2>4 DEF RowsKept, Exists
  <2> QED BY <2>1, <2>3, <2>5 DEF At
<1>o. OneReplaces'
  <2> SUFFICES ASSUME NEW u \in Workers, NEW v \in Workers, u # v,
                      session'[u].step = "commit", session'[v].step = "commit"
               PROVE  domain'[session'[u].id].store # domain'[session'[v].id].store
    BY DEF OneReplaces, At
  <2>1. CASE u # w /\ v # w
    BY <1>c, <2>1 DEF Inv, Sessions, OneReplaces
  <2>2. CASE u = w
    <3>1. session'[u] = t /\ t.step = "commit" /\ domain'[t.id].store = domain[t.id].store
      BY <2>2
    <3> QED BY <1>c, <2>2, <3>1
  <2>3. CASE v = w
    <3>1. session'[v] = t /\ t.step = "commit" /\ domain'[t.id].store = domain[t.id].store
      BY <2>3
    <3> QED BY <1>c, <2>3, <3>1
  <2> QED BY <2>1, <2>2, <2>3
<1>2. Sessions'
  BY <1>1, <1>o DEF Sessions
<1>3. ASSUME NEW v \in Workers, v # w
      PROVE  /\ session'[v].step = session[v].step /\ session'[v].hosts = session[v].hosts
             /\ session'[v].host = session[v].host /\ session'[v].view = session[v].view
             /\ ~ session'[v].missed =>
                  ~ session[v].missed /\ (session[v].step = "lookup" => session[v].host \notin H)
  BY <1>3, OvertakenFacts DEF Inv, Sessions
<1>4. session'[w] = t
  OBVIOUS
<1>5. ASSUME NEW h \in Hostnames, BustPending(h), ~ BustPending(h)'
      PROVE  At(w, "bust") /\ h \in session[w].hosts
  BY <1>3, <1>5 DEF BustPending, At
<1>6. ASSUME NEW h \in Hostnames, ~ BustPending(h)'
      PROVE  ~ (t.step = "bust" /\ h \in t.hosts)
  BY <1>4, <1>6 DEF BustPending, At
<1>7. CacheIsCurrent'
  <2> SUFFICES ASSUME NEW h \in Hostnames, cache'[h].cached, ~ cache'[h].missed, ~ BustPending(h)'
               PROVE  cache'[h].view = Lookup(h)'
    BY DEF CacheIsCurrent
  <2>1. /\ Lookup(h)' = Lookup(h) /\ cache'[h] = cache[h]
        /\ At(w, "bust") => h \notin session[w].hosts
    BY <1>6
  <2>2. ~ BustPending(h)
    BY <1>5, <2>1
  <2> QED BY <2>1, <2>2 DEF Inv, Current, CacheIsCurrent
<1>8. ASSUME NEW v \in Workers, NEW h \in Hostnames, h = session'[v].host,
             session'[v].step = "lookup", ~ session'[v].missed, ~ BustPending(h)'
      PROVE  session'[v].view = Lookup(h)'
  <2>1. CASE v = w
    <3>1. session'[v] = t
      BY <1>4, <2>1
    <3> QED BY <1>8, <3>1
  <2>2. CASE v # w
    <3>1. h = session[v].host /\ h \notin H
      BY <1>3, <1>8, <2>2
    <3>2. /\ Lookup(h)' = Lookup(h)
          /\ At(w, "bust") => h \notin session[w].hosts
      BY <1>6, <1>8, <3>1
    <3>3. ~ BustPending(h)
      BY <1>5, <1>8, <3>2
    <3>4. session[v].view = Lookup(h)
      BY <1>3, <1>8, <2>2, <3>1, <3>3 DEF Inv, Current, At
    <3> QED BY <1>3, <2>2, <3>2, <3>4
  <2> QED BY <2>1, <2>2
<1>9. Current'
  <2> SUFFICES ASSUME NEW v \in Workers, session'[v].step = "lookup", ~ session'[v].missed,
                      ~ BustPending(session[v].host)'
               PROVE  (session[v].view = Lookup(session[v].host))'
    BY <1>7 DEF Current, At
  <2>1. PICK h \in Hostnames : h = session'[v].host
    BY <1>1 DEF Fine
  <2>2. ~ BustPending(h)'
    BY <2>1 DEF BustPending
  <2> QED BY <1>8, <2>1, <2>2 DEF Lookup
<1> QED BY <1>2, <1>9 DEF Inv

-----------------------------------------------------------------------------
LEMMA BecomeIs ==
  ASSUME Inv, NEW w \in Workers, NEW t, Become(w, t)
  PROVE  session' = [v \in Workers |-> IF v = w THEN t ELSE Overtaken(session[v], {})]
<1>1. \A s : Overtaken(s, {}) = s
  BY DEF Overtaken
<1>2. session = [v \in Workers |-> session[v]]
  BY DEF Inv, Sessions
<1> QED BY <1>1, <1>2 DEF Become

PrimaryStep ==
  \A s \in Stores : HasPrimary(s) =>
    \/ HasPrimary(s)'
    \/ \E w \in Workers : /\ At(w, "delete") /\ session[w].other = None
                          /\ IsPrimaryOf(session[w].id, s)

(* A step that writes no row changes nothing of what is read from them.    *)
LEMMA NoRowWritten ==
  ASSUME Rows, UNCHANGED domain
  PROVE  /\ Rows' /\ RowsKept /\ NothingTaken /\ PrimaryStep
         /\ \A h : Lookup(h)' = Lookup(h)
<1>1. \A d : Exists(d)' <=> Exists(d)
  BY DEF Exists
<1>2. \A d, s : IsPrimaryOf(d, s)' <=> IsPrimaryOf(d, s)
  BY <1>1 DEF IsPrimaryOf
<1>3. HostsUnique'
  BY <1>1 DEF Rows, HostsUnique
<1>4. PrimaryUnique'
  BY <1>2 DEF Rows, PrimaryUnique
<1>5. Rows'
  BY <1>1, <1>3, <1>4 DEF Rows
<1>6. RowsKept
  BY <1>1 DEF RowsKept
<1>7. PrimaryStep
  BY <1>2 DEF PrimaryStep, HasPrimary
<1>8. \A h : Lookup(h)' = Lookup(h)
  BY DEF Lookup, Exists, PrimaryOf, IsPrimaryOf, Serveable
<1>9. NothingTaken
  BY <1>1, <1>2 DEF NothingTaken
<1> QED BY <1>5, <1>6, <1>7, <1>8, <1>9

(* A step that writes no row and no entry.                                 *)
LEMMA ReadInv ==
  ASSUME Inv, NEW w \in Workers, NEW t \in Session, Become(w, t), UNCHANGED <<domain, cache>>,
         ~ At(w, "bust"), Fine(t), t.step = "lookup" => t.view = Lookup(t.host),
         t.step = "commit" =>
           \A v \in Workers \ {w} :
             At(v, "commit") => domain[session[v].id].store # domain[t.id].store
  PROVE  Inv' /\ PrimaryStep
<1>1. \A h : Lookup(h)' = Lookup(h)
  BY NoRowWritten DEF Inv
<1>2. Rows' /\ RowsKept /\ NothingTaken
  BY NoRowWritten DEF Inv
<1>3. Fine(t)'
  BY <1>2, FineKept, TakesNothing DEF Inv
<1>u. \A v \in Workers \ {w}, u \in Session : u = session[v] => Undisturbed(u)
  BY <1>2, TakesNothing DEF Inv, Sessions
<1>4. \A h \in Hostnames : /\ Lookup(h)' = Lookup(h) /\ cache'[h] = cache[h]
                           /\ At(w, "bust") => h \notin session[w].hosts
  BY <1>1
<1>5. t.step = "lookup" => t.view = Lookup(t.host)'
  BY <1>1
<1>6. cache' \in [Hostnames -> Entry]
  BY DEF Inv, Current
<1>7. {} \in SUBSET Hostnames
  OBVIOUS
<1>8. Inv'
  BY <1>2, <1>3, <1>u, <1>4, <1>5, <1>6, <1>7, BecomeIs, WorkerInv
<1>9. PrimaryStep
  BY NoRowWritten DEF Inv
<1> QED BY <1>8, <1>9

(* A write that is going to be followed by a bust of what it changes.      *)
LEMMA WriteInv ==
  ASSUME Inv, NEW w \in Workers, NEW t \in Session, t.step = "bust", Become(w, t), UNCHANGED cache,
         Rows', RowsKept, NothingTaken, Fine(t)', ~ At(w, "bust"),
         \A h \in Hostnames \ t.hosts : Lookup(h)' = Lookup(h)
  PROVE  Inv'
<1>1. \A h \in Hostnames :
        \/ t.step = "bust" /\ h \in t.hosts
        \/ /\ Lookup(h)' = Lookup(h) /\ cache'[h] = cache[h]
           /\ At(w, "bust") => h \notin session[w].hosts
  OBVIOUS
<1>2. cache' \in [Hostnames -> Entry]
  BY DEF Inv, Current
<1>3. {} \in SUBSET Hostnames
  OBVIOUS
<1>4. \A v \in Workers \ {w}, u \in Session : u = session[v] => Undisturbed(u)
  BY TakesNothing DEF Inv, Sessions
<1> QED BY <1>1, <1>2, <1>3, <1>4, BecomeIs, WorkerInv

(* The session that goes on to bust hosts.                                 *)
LEMMA IdleFacts ==
  /\ Idle \in Session /\ Idle.step = "idle" /\ Fine(Idle)
  /\ \A H \in SUBSET Hostnames :
       LET t == [Idle EXCEPT !.step = "bust", !.hosts = H] IN
       t \in Session /\ t.step = "bust" /\ t.hosts = H /\ t.attaches = FALSE
<1>1. Idle \in Session
  BY DEF Idle, Session, Steps, TlsStatus, View, NoView
<1>2. Idle.step = "idle" /\ Idle.attaches = FALSE
  BY DEF Idle
<1>3. Fine(Idle)
  BY <1>2 DEF Fine
<1>4. ASSUME NEW H \in SUBSET Hostnames
      PROVE  LET t == [Idle EXCEPT !.step = "bust", !.hosts = H] IN
             t \in Session /\ t.step = "bust" /\ t.hosts = H /\ t.attaches = FALSE
  BY <1>1, <1>2 DEF Session, Steps
<1> QED BY <1>1, <1>2, <1>3, <1>4

(* A change of a row's status or certificate only.                         *)
LEMMA RowEdited ==
  ASSUME Inv, NEW d \in Customs, Exists(d), NEW row \in Row,
         domain' = [domain EXCEPT ![d] = row], row.status \notin {"ABSENT", "GONE"},
         row.host = domain[d].host, row.store = domain[d].store,
         row.isPrimary = domain[d].isPrimary
  PROVE  /\ Rows' /\ RowsKept /\ NothingTaken /\ PrimaryStep /\ domain[d].host \in Hostnames
         /\ \A h \in Hostnames \ {domain[d].host} : Lookup(h)' = Lookup(h)
<1>0. d \in Ids /\ Customs \subseteq Ids /\ Stores \subseteq Ids /\ domain \in [Ids -> Row]
  BY DEF Ids, Inv, Rows
<1>1. /\ domain'[d] = row /\ domain' \in [Ids -> Row]
      /\ \A e \in Ids : e # d => domain'[e] = domain[e]
  BY <1>0
<1>2. \A e \in Ids : /\ Exists(e)' <=> Exists(e)
                     /\ domain'[e].host = domain[e].host /\ domain'[e].store = domain[e].store
                     /\ domain'[e].isPrimary = domain[e].isPrimary
  BY <1>1 DEF Exists
<1>3. \A e \in Ids, s \in Stores : IsPrimaryOf(e, s)' <=> IsPrimaryOf(e, s)
  BY <1>2 DEF IsPrimaryOf
<1>4. Rows'
  <2>1. HostsUnique'
    BY <1>2 DEF Inv, Rows, HostsUnique
  <2>2. PrimaryUnique'
    BY <1>3 DEF Inv, Rows, PrimaryUnique
  <2> QED BY <1>0, <1>1, <1>2, <2>1, <2>2 DEF Inv, Rows
<1>5. RowsKept
  BY <1>0, <1>1, <1>2 DEF RowsKept, Exists
<1>6. PrimaryStep
  BY <1>3 DEF PrimaryStep, HasPrimary
<1>7. domain[d].host \in Hostnames
  BY <1>0 DEF Inv, Rows
<1>8. ASSUME NEW h \in Hostnames \ {domain[d].host}
      PROVE  Lookup(h)' = Lookup(h)
  <2>1. \A s \in Stores : SamePrimary(s)
    BY <1>2, <1>3 DEF SamePrimary
  <2>2. \A e \in Ids : domain[e].host = h =>
          domain'[e].store = domain[e].store /\ Serveable(e)' = Serveable(e)
    BY <1>1, <1>8 DEF Serveable
  <2>3. \A e \in Ids : (Exists(e) /\ domain[e].host = h) <=> (Exists(e)' /\ domain'[e].host = h)
    BY <1>2
  <2>4. Rows
    BY DEF Inv
  <2> QED BY <1>4, <2>1, <2>2, <2>3, <2>4, LookupKept
<1>9. NothingTaken
  BY <1>2, <1>3 DEF NothingTaken
<1> QED BY <1>4, <1>5, <1>6, <1>7, <1>8, <1>9

-----------------------------------------------------------------------------
LEMMA AddInv ==
  ASSUME Inv, NEW w \in Workers, NEW d \in Customs, NEW h \in Hosts, NEW s \in Stores,
         Add(w, d, h, s)
  PROVE  Inv' /\ PrimaryStep
<1> DEFINE row == [NoRow EXCEPT !.status = "PENDING", !.host = h, !.store = s]
<1>0. /\ d \in Ids /\ d \notin Stores /\ h \in Hostnames /\ domain \in [Ids -> Row]
      /\ Stores \subseteq Ids
  BY StoreDomainConstants DEF Ids, Hostnames, Inv, Rows
<1>1. /\ row \in Row /\ row.status = "PENDING" /\ row.host = h /\ row.store = s
      /\ row.isPrimary = FALSE
  <2>1. NoRow \in Row /\ NoRow.isPrimary = FALSE
    BY DEF NoRow, Row, TlsStatus
  <2> QED BY <1>0, <2>1 DEF Row
<1>2. /\ ~ At(w, "bust") /\ domain[d].status = "ABSENT"
      /\ \A e \in Ids : Exists(e) => domain[e].host # h
      /\ domain' = [domain EXCEPT ![d] = row] /\ UNCHANGED cache
      /\ Become(w, [Idle EXCEPT !.step = "bust", !.hosts = {h}])
  BY DEF Add, At, Committed
<1>3. /\ domain'[d] = row /\ domain' \in [Ids -> Row]
      /\ \A e \in Ids : e # d => domain'[e] = domain[e]
  BY <1>0, <1>1, <1>2
<1> HIDE DEF row
<1>4. /\ Exists(d)' /\ ~ Exists(d)
      /\ \A e \in Ids : e # d => (Exists(e)' <=> Exists(e))
  BY <1>1, <1>2, <1>3 DEF Exists
<1>5. \A e \in Ids, r \in Stores : IsPrimaryOf(e, r)' <=> IsPrimaryOf(e, r)
  BY <1>1, <1>3, <1>4 DEF IsPrimaryOf
<1>6. Rows'
  <2>1. HostsUnique'
    BY <1>1, <1>2, <1>3, <1>4 DEF Inv, Rows, HostsUnique
  <2>2. PrimaryUnique'
    BY <1>5 DEF Inv, Rows, PrimaryUnique
  <2>3. \A e \in Ids : Exists(e)' => domain'[e].host \in Hostnames /\ domain'[e].store \in Stores
    BY <1>0, <1>1, <1>3, <1>4 DEF Inv, Rows
  <2>4. \A e \in Stores : Exists(e)' => domain'[e].host = e /\ domain'[e].store = e
    BY <1>0, <1>3, <1>4 DEF Inv, Rows
  <2> QED BY <1>3, <2>1, <2>2, <2>3, <2>4 DEF Rows
<1>7. RowsKept
  BY <1>0, <1>2, <1>3, <1>4 DEF RowsKept
<1>8. ASSUME NEW g \in Hostnames \ {h}
      PROVE  Lookup(g)' = Lookup(g)
  <2>1. \A r \in Stores : SamePrimary(r)
    BY <1>3, <1>4, <1>5 DEF SamePrimary, IsPrimaryOf
  <2>2. \A e \in Ids : Exists(e) =>
          domain'[e].store = domain[e].store /\ Serveable(e)' = Serveable(e)
    BY <1>3, <1>4 DEF Serveable
  <2>3. \A e \in Ids : (Exists(e) /\ domain[e].host = g) <=> (Exists(e)' /\ domain'[e].host = g)
    BY <1>1, <1>3, <1>4
  <2>4. Rows
    BY DEF Inv
  <2> QED BY <1>6, <2>1, <2>2, <2>3, <2>4, LookupKept
<1>9. PrimaryStep
  BY <1>5 DEF PrimaryStep, HasPrimary
<1>10. PICK t \in Session : /\ Become(w, t) /\ t.step = "bust" /\ t.hosts = {h}
                            /\ t.attaches = FALSE
  BY <1>0, <1>2, IdleFacts
<1>11. Fine(t)'
  BY <1>10 DEF Fine
<1>12. NothingTaken
  BY <1>4, <1>5 DEF NothingTaken
<1> QED BY <1>2, <1>6, <1>7, <1>8, <1>9, <1>10, <1>11, <1>12, WriteInv

(* verify and reverify, from the read of the row to the commit.            *)
LEMMA StartCheckInv ==
  ASSUME Inv, NEW w \in Workers, NEW d \in Customs, NEW platform \in BOOLEAN,
         StartCheck(w, d, platform) \/ StartRefresh(w, d)
  PROVE  Inv' /\ PrimaryStep
<1>1. PICK t : /\ Become(w, t) /\ UNCHANGED <<domain, cache>> /\ ~ At(w, "bust")
               /\ \/ t = [Idle EXCEPT !.step = "check", !.id = d, !.platform = platform]
                  \/ t = [Idle EXCEPT !.step = "status", !.id = d]
  BY DEF StartCheck, StartRefresh, At
<1>2. t \in Session /\ t.step \in {"check", "status"} /\ t.id = d
  <2>1. Idle \in Session /\ d \in Ids \cup {None}
    BY IdleFacts DEF Ids
  <2>2. CASE t = [Idle EXCEPT !.step = "check", !.id = d, !.platform = platform]
    BY <2>1, <2>2 DEF Session, Steps
  <2>3. CASE t = [Idle EXCEPT !.step = "status", !.id = d]
    BY <2>1, <2>3 DEF Session, Steps
  <2> QED BY <1>1, <2>2, <2>3
<1>3. Fine(t)
  BY <1>2 DEF Fine
<1> QED BY <1>1, <1>2, <1>3, ReadInv

(* The bust that goes on to attach the domain at the hosting provider.     *)
LEMMA Attaches ==
  ASSUME NEW d \in Ids, NEW host \in Hostnames, domain[d] \in Row
  PROVE  LET t == [Idle EXCEPT !.step = "bust", !.hosts = {host}, !.attaches = TRUE,
                               !.id = d, !.tls = domain[d].tls]
         IN  t \in Session /\ t.step = "bust" /\ t.id = d /\ t.hosts = {host}
<1>1. Idle \in Session
  BY IdleFacts
<1>2. PICK tls \in TlsStatus : tls = domain[d].tls
  BY DEF Row
<1>3. "bust" \in Steps /\ {host} \in SUBSET Hostnames
  BY DEF Steps
<1> QED BY <1>1, <1>2, <1>3 DEF Session

LEMMA FinishCheckInv ==
  ASSUME Inv, NEW w \in Workers, FinishCheck(w)
  PROVE  Inv' /\ PrimaryStep
<1>0. PICK s \in Session : s = session[w] /\ s.step = "check" /\ s.id \in Customs
  BY DEF Inv, Sessions, Fine, At, FinishCheck
<1> DEFINE d == s.id
           host == domain[d].host
           row == [domain[d] EXCEPT !.status = "VERIFIED"]
           t == [Idle EXCEPT !.step = "bust", !.hosts = {host}, !.attaches = TRUE,
                             !.id = d, !.tls = domain[d].tls]
<1>1. /\ d \in Ids /\ d \in Customs /\ domain[d] \in Row /\ domain \in [Ids -> Row] /\ Rows
      /\ UNCHANGED cache /\ ~ At(w, "bust")
  BY <1>0 DEF Ids, Inv, Rows, FinishCheck, At
<1>2. CASE ~ Exists(d)
  <2>1. Become(w, Idle) /\ UNCHANGED domain
    BY <1>0, <1>2 DEF FinishCheck
  <2>2. Idle.step # "lookup"
    BY IdleFacts
  <2> QED BY <1>1, <2>1, <2>2, IdleFacts, ReadInv
<1>3. CASE Exists(d) /\ UNCHANGED domain
  <2>1. \/ Become(w, [Idle EXCEPT !.step = "bust", !.hosts = {host}])
        \/ Become(w, t)
    BY <1>0, <1>3 DEF FinishCheck, Committed
  <2>2. host \in Hostnames
    BY <1>1, <1>3 DEF Rows
  <2>3. t \in Session /\ t.step = "bust" /\ t.id = d
    BY <1>1, <2>2, Attaches
  <2>4. PICK u \in Session : Become(w, u) /\ u.step = "bust" /\ (u.attaches => u.id \in Customs)
    <3>1. CASE Become(w, t)
      BY <1>1, <2>3, <3>1
    <3>2. CASE Become(w, [Idle EXCEPT !.step = "bust", !.hosts = {host}])
      BY <2>2, <3>2, IdleFacts
    <3> QED BY <2>1, <3>1, <3>2
  <2>5. Fine(u)
    BY <2>4 DEF Fine
  <2> QED BY <1>1, <1>3, <2>4, <2>5, ReadInv
<1>4. CASE Exists(d) /\ domain' = [domain EXCEPT ![d].status = "VERIFIED"]
  <2>0. domain' = [domain EXCEPT ![d] = row]
    BY <1>1, <1>4
  <2>1. \/ Become(w, [Idle EXCEPT !.step = "bust", !.hosts = {host}])
        \/ Become(w, t)
    BY <1>0, <1>4 DEF FinishCheck, Committed
  <2>2. /\ row \in Row /\ row.status = "VERIFIED" /\ row.host = host
        /\ row.store = domain[d].store /\ row.isPrimary = domain[d].isPrimary
    BY <1>1 DEF Row
  <2>3. /\ Rows' /\ RowsKept /\ NothingTaken /\ PrimaryStep /\ host \in Hostnames
        /\ \A h \in Hostnames \ {host} : Lookup(h)' = Lookup(h)
    <3>1. d \in Customs /\ Exists(d) /\ row.status \notin {"ABSENT", "GONE"}
      BY ONLY <1>1, <1>4, <2>2
    <3> HIDE DEF row, d
    <3> QED BY ONLY Inv, <2>0, <2>2, <3>1, RowEdited
  <2>4. /\ t \in Session /\ t.step = "bust" /\ t.id = d /\ t.hosts = {host}
    <3>1. host \in Hostnames
      BY ONLY <2>3
    <3> QED BY ONLY <1>1, <3>1, Attaches
  <2>5. PICK u \in Session : /\ Become(w, u) /\ u.step = "bust" /\ u.hosts = {host}
                             /\ u.attaches => u.id \in Customs
    <3>1. CASE Become(w, t)
      BY <1>1, <2>4, <3>1
    <3>2. CASE Become(w, [Idle EXCEPT !.step = "bust", !.hosts = {host}])
      BY <2>3, <3>2, IdleFacts
    <3> QED BY <2>1, <3>1, <3>2
  <2>6. Fine(u)'
    BY <2>5 DEF Fine
  <2> HIDE DEF d, host
  <2> QED BY <1>1, <2>3, <2>5, <2>6, WriteInv
<1> QED BY <1>0, <1>2, <1>3, <1>4 DEF FinishCheck

(* revoke and override.                                                    *)
LEMMA ModerateInv ==
  ASSUME Inv, NEW w \in Workers, NEW d \in Customs, revoke(w, d) \/ override(w, d)
  PROVE  Inv' /\ PrimaryStep
<1> DEFINE host == domain[d].host
<1>1. PICK to \in {"FAILED", "VERIFIED"} :
        /\ domain[d].status \in {"PENDING", "VERIFIED", "FAILED"}
        /\ domain' = [domain EXCEPT ![d].status = to]
        /\ Become(w, [Idle EXCEPT !.step = "bust", !.hosts = {host}])
        /\ UNCHANGED cache /\ ~ At(w, "bust")
  BY DEF revoke, override, Moderate, Committed, At
<1>2. /\ d \in Ids /\ domain[d] \in Row /\ domain \in [Ids -> Row] /\ Exists(d)
  BY <1>1 DEF Ids, Inv, Rows, Exists
<1> DEFINE row == [domain[d] EXCEPT !.status = to]
<1>3. domain' = [domain EXCEPT ![d] = row]
  BY <1>1, <1>2
<1>4. /\ row \in Row /\ row.status = to /\ row.host = host
      /\ row.store = domain[d].store /\ row.isPrimary = domain[d].isPrimary
  BY <1>2 DEF Row
<1>5. /\ Rows' /\ RowsKept /\ NothingTaken /\ PrimaryStep /\ host \in Hostnames
      /\ \A h \in Hostnames \ {host} : Lookup(h)' = Lookup(h)
  <2> HIDE DEF row
  <2> QED BY <1>2, <1>3, <1>4, RowEdited
<1>6. PICK t \in Session : Become(w, t) /\ t.step = "bust" /\ t.hosts = {host} /\ ~ t.attaches
  BY <1>1, <1>5, IdleFacts
<1>7. Fine(t)'
  BY <1>6 DEF Fine
<1> HIDE DEF host
<1> QED BY <1>1, <1>5, <1>6, <1>7, WriteInv

(* The certificate, from the provider's answer to the row.                 *)
LEMMA TlsInv ==
  ASSUME Inv, NEW w \in Workers, AskStatus(w) \/ Attach(w) \/ WriteTls(w)
  PROVE  Inv' /\ PrimaryStep
<1>0. PICK s \in Session : /\ s = session[w] /\ s.step \in {"status", "attach", "tls"}
                            /\ s.id \in Customs
  BY DEF Inv, Sessions, Fine, At, AskStatus, Attach, WriteTls
<1>1. ~ At(w, "bust") /\ UNCHANGED cache
  BY <1>0 DEF At, AskStatus, Attach, WriteTls
<1>2. CASE AskStatus(w) \/ Attach(w)
  <2>1. PICK t : /\ Become(w, t) /\ UNCHANGED domain
                 /\ t = Idle \/ \E tls \in TlsStatus : t = [s EXCEPT !.step = "tls", !.tls = tls]
    BY <1>0, <1>2 DEF AskStatus, Attach
  <2>2. t = Idle \/ (t \in Session /\ t.step = "tls" /\ t.id = s.id)
    <3>1. "tls" \in Steps
      BY DEF Steps
    <3>2. ASSUME NEW tls \in TlsStatus, t = [s EXCEPT !.step = "tls", !.tls = tls]
          PROVE  t \in Session /\ t.step = "tls" /\ t.id = s.id
      BY ONLY <3>1, <3>2, s \in Session DEF Session
    <3>3. t = Idle \/ \E tls \in TlsStatus : t = [s EXCEPT !.step = "tls", !.tls = tls]
      BY ONLY <2>1
    <3> QED BY ONLY <3>2, <3>3
  <2>3. t \in Session /\ Fine(t) /\ t.step \notin {"lookup", "commit"}
    <3>1. CASE t = Idle
      BY <3>1, IdleFacts
    <3>2. CASE t \in Session /\ t.step = "tls" /\ t.id = s.id
      BY <1>0, <3>2 DEF Fine
    <3> QED BY <2>2, <3>1, <3>2
  <2> QED BY <1>1, <2>1, <2>3, ReadInv
<1>3. CASE WriteTls(w)
  <2> DEFINE d == s.id
             host == domain[d].host
             row == [domain[d] EXCEPT !.tls = s.tls]
  <2>1. /\ d \in Ids /\ d \in Customs /\ domain[d] \in Row /\ domain \in [Ids -> Row]
    BY <1>0 DEF Ids, Inv, Rows
  <2>2. CASE ~ Exists(d)
    <3>1. Become(w, Idle) /\ UNCHANGED domain /\ Idle.step # "lookup"
      BY <1>0, <1>3, <2>2, IdleFacts DEF WriteTls
    <3> QED BY <1>1, <3>1, IdleFacts, ReadInv
  <2>3. CASE Exists(d)
    <3>1. /\ domain' = [domain EXCEPT ![d] = row]
          /\ Become(w, [Idle EXCEPT !.step = "bust", !.hosts = {host}])
      BY <1>0, <1>3, <2>1, <2>3 DEF WriteTls, Committed
    <3>2. /\ row \in Row /\ row.status = domain[d].status /\ row.host = host
          /\ row.store = domain[d].store /\ row.isPrimary = domain[d].isPrimary
      BY <2>1 DEF Row, Session
    <3>3. row.status \notin {"ABSENT", "GONE"}
      BY <2>3, <3>2 DEF Exists
    <3>4. /\ Rows' /\ RowsKept /\ NothingTaken /\ PrimaryStep /\ host \in Hostnames
          /\ \A h \in Hostnames \ {host} : Lookup(h)' = Lookup(h)
      <4> HIDE DEF row
      <4> QED BY <2>1, <2>3, <3>1, <3>2, <3>3, RowEdited
    <3>5. PICK t \in Session : Become(w, t) /\ t.step = "bust" /\ t.hosts = {host} /\ ~ t.attaches
      BY <3>1, <3>4, IdleFacts
    <3>6. Fine(t)'
      BY <3>5 DEF Fine
    <3> HIDE DEF d, host
    <3> QED BY <1>1, <3>4, <3>5, <3>6, WriteInv
  <2> QED BY <2>2, <2>3
<1> QED BY <1>2, <1>3

-----------------------------------------------------------------------------
(* setPrimary, and the removal up to the provider's answer.                *)
LEMMA FindPrimaryInv ==
  ASSUME Inv, NEW w \in Workers, NEW d \in Ids, FindPrimary(w, d)
  PROVE  Inv' /\ PrimaryStep
<1>1. PICK previous \in Ids \cup {None} :
        /\ previous = None \/ (previous \in Ids /\ IsPrimaryOf(previous, domain[d].store))
        /\ Become(w, [Idle EXCEPT !.step = "primary", !.id = d, !.other = previous])
  BY DEF FindPrimary
<1>2. /\ Exists(d) /\ ~ domain[d].isPrimary /\ ~ At(w, "bust") /\ UNCHANGED <<domain, cache>>
  BY DEF FindPrimary, At
<1>3. PICK t : t = [Idle EXCEPT !.step = "primary", !.id = d, !.other = previous]
  OBVIOUS
<1>4. t \in Session /\ t.step = "primary" /\ t.id = d /\ t.other = previous
  BY <1>3, IdleFacts DEF Session, Steps
<1>5. Fine(t)
  BY <1>1, <1>2, <1>4 DEF Fine, IsPrimaryOf, Exists
<1> QED BY <1>1, <1>2, <1>3, <1>4, <1>5, ReadInv

LEMMA RemovalInv ==
  ASSUME Inv, NEW w \in Workers, (\E d \in Customs : PlanRemoval(w, d)) \/ Detach(w)
  PROVE  Inv' /\ PrimaryStep
<1>1. ASSUME NEW d \in Customs, PlanRemoval(w, d)
      PROVE  Inv' /\ PrimaryStep
  <2> DEFINE s == domain[d].store
  <2>1. /\ Exists(d) /\ (domain[d].isPrimary => Exists(s)) /\ ~ At(w, "bust")
        /\ UNCHANGED <<domain, cache>> /\ d \in Ids
    BY <1>1 DEF PlanRemoval, At, Ids
  <2>2. s \in Stores /\ storeHostnames(s) \in SUBSET Hostnames
    BY <2>1 DEF Inv, Rows, storeHostnames
  <2>3. PICK fallback : fallback = IF domain[d].isPrimary THEN s ELSE None
    OBVIOUS
  <2>4. PICK t : t = [Idle EXCEPT !.step = "detach", !.id = d, !.other = fallback,
                                  !.hosts = storeHostnames(s)]
    OBVIOUS
  <2>5. fallback \in Ids \cup {None} /\ (fallback # None => fallback = s /\ Exists(s))
    BY <2>1, <2>2, <2>3 DEF Ids
  <2>6. t \in Session /\ t.step = "detach" /\ t.id = d /\ t.other = fallback
    <3> HIDE DEF s
    <3> QED BY <2>1, <2>2, <2>4, <2>5, IdleFacts DEF Session, Steps
  <2>7. Fine(t)
    BY <2>1, <2>2, <2>5, <2>6 DEF Fine, Exists
  <2>8. Become(w, t)
    BY <1>1, <2>3, <2>4 DEF PlanRemoval
  <2> QED BY <2>1, <2>6, <2>7, <2>8, ReadInv
<1>2. CASE Detach(w)
  <2>0. PICK s \in Session : s = session[w] /\ s.step = "detach" /\ Fine(s)
    BY <1>2 DEF Inv, Sessions, At, Detach
  <2>1. PICK t : /\ Become(w, t) /\ UNCHANGED <<domain, cache>> /\ ~ At(w, "bust")
                 /\ t = Idle \/ t = [s EXCEPT !.step = "delete"]
    BY <1>2, <2>0 DEF Detach, GoTo, At
  <2>2. CASE t = Idle
    <3>1. Idle.step # "lookup"
      BY IdleFacts
    <3> QED BY <2>1, <2>2, <3>1, IdleFacts, ReadInv
  <2>3. CASE t = [s EXCEPT !.step = "delete"]
    <3>1. t \in Session /\ t.step = "delete" /\ t.id = s.id /\ t.other = s.other
      BY <2>3 DEF Session, Steps
    <3>2. Fine(t)
      BY <2>0, <3>1 DEF Fine
    <3> QED BY <2>1, <3>1, <3>2, ReadInv
  <2> QED BY <2>1, <2>2, <2>3
<1> QED BY <1>1, <1>2

-----------------------------------------------------------------------------
(* A change of what is primary, or there, in one store, of which the       *)
(* hostnames of other stores feel nothing.                                 *)
LEMMA OtherStores ==
  ASSUME Rows, Rows', NEW r \in Stores,
         \A e \in Ids : Exists(e)' =>
           /\ Exists(e) /\ domain'[e].status = domain[e].status /\ domain'[e].tls = domain[e].tls
           /\ domain'[e].host = domain[e].host /\ domain'[e].store = domain[e].store,
         \A e \in Ids : Exists(e) /\ domain[e].store # r =>
           Exists(e)' /\ domain'[e].isPrimary = domain[e].isPrimary
  PROVE  /\ \A q \in Stores \ {r} : \A e \in Ids : IsPrimaryOf(e, q)' <=> IsPrimaryOf(e, q)
         /\ \A h \in Hostnames \ storeHostnames(r) : Lookup(h)' = Lookup(h)
<1>1. ASSUME NEW q \in Stores \ {r}, NEW e \in Ids
      PROVE  IsPrimaryOf(e, q)' <=> IsPrimaryOf(e, q)
  BY <1>1 DEF IsPrimaryOf
<1>2. ASSUME NEW h \in Hostnames \ storeHostnames(r)
      PROVE  Lookup(h)' = Lookup(h)
  <2>1. \A e \in Ids : Exists(e) /\ domain[e].host = h => domain[e].store # r
    BY <1>2 DEF storeHostnames
  <2>2. \A e \in Ids : (Exists(e) /\ domain[e].host = h) <=> (Exists(e)' /\ domain'[e].host = h)
    BY <2>1
  <2>3. ASSUME NEW e \in Ids, Exists(e) /\ domain[e].host = h
        PROVE  /\ domain'[e].store = domain[e].store
               /\ Serveable(e)' = Serveable(e)
               /\ \A q \in Stores : q = domain[e].store => SamePrimary(q)
    <3>1. Exists(e)' /\ domain[e].store # r
      BY <2>1, <2>3
    <3>2. Serveable(e)' = Serveable(e)
      BY <3>1 DEF Serveable
    <3>3. ASSUME NEW q \in Stores \ {r} PROVE SamePrimary(q)
      BY <1>1, <3>3 DEF SamePrimary, IsPrimaryOf
    <3> QED BY <3>1, <3>2, <3>3
  <2> QED BY <2>2, <2>3, LookupKept
<1> QED BY <1>1, <1>2

LEMMA ReplacePrimaryInv ==
  ASSUME Inv, NEW w \in Workers, ReplacePrimary(w)
  PROVE  Inv' /\ PrimaryStep
<1>0. PICK s \in Session : s = session[w] /\ s.step = "primary" /\ Fine(s)
  BY DEF Inv, Sessions, At, ReplacePrimary
<1>r. PICK r : r = domain[s.id].store
  OBVIOUS
<1>1. PICK t : /\ Become(w, t) /\ UNCHANGED <<domain, cache>> /\ ~ At(w, "bust")
               /\ \/ t = Idle
                  \/ /\ t = [s EXCEPT !.step = "commit", !.hosts = storeHostnames(r)]
                     /\ Exists(s.id) /\ (s.other # None => Exists(s.other))
                     /\ OnlyPrimary(s.id, s.other)
  BY <1>0, <1>r DEF ReplacePrimary, At
<1>2. CASE t = Idle
  <2>1. Idle.step = "idle"
    BY IdleFacts
  <2> QED BY <1>1, <1>2, <2>1, IdleFacts, ReadInv
<1>3. CASE t # Idle
  <2>1. r \in Stores /\ storeHostnames(r) \in SUBSET Hostnames
    BY <1>0, <1>r, <1>1, <1>3 DEF Fine, Inv, Rows, storeHostnames
  <2>2. t \in Session /\ t.step = "commit" /\ t.id = s.id /\ t.other = s.other
    BY <1>1, <1>3, <2>1 DEF Session, Steps
  <2>3. Fine(t)
    BY <1>0, <1>1, <1>3, <2>2 DEF Fine
  <2>4. \A v \in Workers : At(v, "commit") => domain[session[v].id].store # domain[t.id].store
    BY <1>0, <2>2 DEF ReplacePrimary, Replacing
  <2> QED BY <1>1, <2>2, <2>3, <2>4, ReadInv
<1> QED BY <1>2, <1>3

LEMMA SetPrimaryInv ==
  ASSUME Inv, NEW w \in Workers, SetPrimary(w)
  PROVE  Inv' /\ PrimaryStep
<1>0. PICK s \in Session : s = session[w] /\ s.step = "commit" /\ Fine(s)
  BY DEF Inv, Sessions, At, SetPrimary
<1> DEFINE d == s.id
           previous == s.other
<1>r. PICK r : r = domain[d].store
  OBVIOUS
<1> DEFINE H == storeHostnames(r) \ s.hosts
<1>1. /\ d \in Ids /\ (previous # None => previous \in Ids \ {d})
      /\ ~ At(w, "bust") /\ Rows /\ domain \in [Ids -> Row]
      /\ None \notin Ids /\ s.hosts \in SUBSET Hostnames
  <2>1. None \notin Ids
    BY StoreDomainConstants DEF Ids
  <2>2. d \in Ids /\ (previous # None => previous \in Ids \ {d})
    BY <1>0 DEF Fine
  <2>3. ~ At(w, "bust") /\ Rows /\ domain \in [Ids -> Row] /\ s.hosts \in SUBSET Hostnames
    BY <1>0 DEF At, Inv, Rows, Session
  <2> QED BY <2>1, <2>2, <2>3
<1>3. Exists(d) /\ (previous # None => Exists(previous)) /\ OnlyPrimary(d, previous)
  BY <1>0 DEF Fine
<1>4. Inv' /\ PrimaryStep
  <2>1. /\ domain' = Replaced(previous, d) /\ Missing(H)
        /\ session' = [v \in Workers |->
             IF v = w THEN [Idle EXCEPT !.step = "bust", !.hosts = s.hosts]
                      ELSE Overtaken(session[v], H)]
    BY <1>0, <1>r DEF SetPrimary, CommitListed
  <2>2. /\ r \in Stores /\ (previous # None => domain[previous].store = r)
        /\ H \in SUBSET Hostnames
    BY <1>0, <1>1, <1>3, <1>r DEF Rows, Fine, storeHostnames
  <2>3. \A e \in Ids : e \notin {d, previous} => ~ IsPrimaryOf(e, r)
    BY <1>3, <1>r DEF OnlyPrimary
  <2> HIDE DEF H
  <2>4. /\ domain' \in [Ids -> Row]
        /\ \A e \in Ids :
             /\ domain'[e].status = domain[e].status /\ domain'[e].tls = domain[e].tls
             /\ domain'[e].host = domain[e].host /\ domain'[e].store = domain[e].store
             /\ e = d => domain'[e].isPrimary = TRUE
             /\ e = previous => domain'[e].isPrimary = FALSE
             /\ e \notin {d, previous} => domain'[e].isPrimary = domain[e].isPrimary
    <3> SUFFICES ASSUME NEW e \in Ids
                 PROVE  /\ domain'[e] \in Row
                        /\ domain'[e].status = domain[e].status /\ domain'[e].tls = domain[e].tls
                        /\ domain'[e].host = domain[e].host /\ domain'[e].store = domain[e].store
                        /\ e = d => domain'[e].isPrimary = TRUE
                        /\ e = previous => domain'[e].isPrimary = FALSE
                        /\ e \notin {d, previous} => domain'[e].isPrimary = domain[e].isPrimary
      BY <2>1 DEF Replaced
    <3>1. domain[e] \in Row
      BY <1>1
    <3>2. CASE e = d
      <4>1. domain'[e] = [domain[e] EXCEPT !.isPrimary = TRUE] /\ d # previous
        BY <1>1, <2>1, <3>2 DEF Replaced
      <4> QED BY ONLY <3>1, <3>2, <4>1 DEF Row
    <3>3. CASE e = previous /\ e # d
      <4>1. domain'[e] = [domain[e] EXCEPT !.isPrimary = FALSE]
        BY <2>1, <3>3 DEF Replaced
      <4> QED BY ONLY <3>1, <3>3, <4>1 DEF Row
    <3>4. CASE e \notin {d, previous}
      <4>1. domain'[e] = domain[e]
        BY <2>1, <3>4 DEF Replaced
      <4> QED BY ONLY <3>1, <3>4, <4>1
    <3> QED BY <3>2, <3>3, <3>4
  <2>5. \A e \in Ids : Exists(e)' <=> Exists(e)
    BY <2>4 DEF Exists
  <2>6. \A e \in Ids : (IsPrimaryOf(e, r)' <=> (e = d))
    <3>1. domain[d].store = r
      BY <1>r
    <3>2. IsPrimaryOf(d, r)'
      BY <1>1, <1>3, <2>4, <2>5, <3>1 DEF IsPrimaryOf
    <3>3. ASSUME NEW e \in Ids, e # d
          PROVE  ~ IsPrimaryOf(e, r)'
      <4>1. CASE e = previous
        BY <2>4, <4>1 DEF IsPrimaryOf
      <4>2. CASE e # previous
        <5>1. ~ IsPrimaryOf(e, r) /\ domain'[e].isPrimary = domain[e].isPrimary
              /\ domain'[e].store = domain[e].store
          BY <2>3, <2>4, <3>3, <4>2
        <5> QED BY <2>5, <5>1 DEF IsPrimaryOf
      <4> QED BY <4>1, <4>2
    <3> QED BY <3>2, <3>3
  <2>7. \A q \in Stores \ {r}, e \in Ids : (IsPrimaryOf(e, q)' <=> IsPrimaryOf(e, q))
    <3>1. domain[d].store = r
      BY <1>r
    <3> QED BY <1>1, <2>2, <2>4, <2>5, <3>1 DEF IsPrimaryOf
  <2>8. Rows'
    <3>1. HostsUnique'
      BY <1>1, <2>4, <2>5 DEF Rows, HostsUnique
    <3>2. PrimaryUnique'
      BY <1>1, <2>6, <2>7 DEF Rows, PrimaryUnique, IsPrimaryOf, Exists
    <3>3. Stores \subseteq Ids
      BY DEF Ids
    <3> QED BY <1>1, <2>4, <2>5, <3>1, <3>2, <3>3 DEF Rows
  <2>9. RowsKept
    BY <2>4, <2>5 DEF RowsKept, Ids
  <2>10. \A e \in Ids : domain[e].store # r => domain'[e].isPrimary = domain[e].isPrimary
    <3>1. domain[d].store = r
      BY <1>r
    <3>2. ASSUME NEW e \in Ids, domain[e].store # r
          PROVE  e \notin {d, previous}
      BY <1>1, <2>2, <3>1, <3>2
    <3> QED BY <2>4, <3>2
  <2>11. \A h \in Hostnames \ storeHostnames(r) : Lookup(h)' = Lookup(h)
    BY <1>1, <2>2, <2>4, <2>5, <2>8, <2>10, OtherStores
  <2>12. PrimaryStep
    BY <1>1, <2>6, <2>7 DEF PrimaryStep, HasPrimary, IsPrimaryOf, Exists
  <2>13. PICK t \in Session : /\ t = [Idle EXCEPT !.step = "bust", !.hosts = s.hosts]
                              /\ t.step = "bust" /\ t.hosts = s.hosts /\ ~ t.attaches
    BY <1>1, IdleFacts
  <2>14. Fine(t)'
    BY <2>13 DEF Fine
  <2>15. /\ cache' \in [Hostnames -> Entry]
         /\ \A h \in H : cache'[h].cached => cache'[h].missed
         /\ \A h \in Hostnames \ H : cache'[h] = cache[h]
    <3>1. cache \in [Hostnames -> Entry]
      BY DEF Inv, Current
    <3>2. \A h \in Hostnames : LET c == [cache[h] EXCEPT !.missed = cache[h].cached] IN
            c \in Entry /\ c.cached = cache[h].cached /\ c.missed = cache[h].cached
      BY <3>1 DEF Entry
    <3> QED BY <2>1, <2>2, <3>1, <3>2 DEF Missing
  <2>16. ASSUME NEW h \in Hostnames
         PROVE  \/ t.step = "bust" /\ h \in t.hosts
                \/ h \in H /\ (cache'[h].cached => cache'[h].missed)
                \/ /\ Lookup(h)' = Lookup(h) /\ cache'[h] = cache[h]
                   /\ At(w, "bust") => h \notin session[w].hosts
    BY <1>1, <2>11, <2>13, <2>15 DEF H
  <2>17. session' = [v \in Workers |-> IF v = w THEN t ELSE Overtaken(session[v], H)]
    BY <2>1, <2>13
  <2>18. t.step # "lookup" /\ t.step # "commit"
    BY <2>13
  <2>u. ASSUME NEW v \in Workers \ {w}, NEW u \in Session, u = session[v]
        PROVE  Undisturbed(u)
    <3> SUFFICES ASSUME u.step = "commit" PROVE Undisturbed(u)
      BY DEF Undisturbed
    <3>1. Fine(u)
      BY <2>u DEF Inv, Sessions
    <3>2. domain[u.id].store # r
      BY <1>0, <1>r, <2>u DEF Inv, Sessions, OneReplaces, At
    <3>3. \A q \in Stores : q = domain[u.id].store =>
            \A e \in Ids : IsPrimaryOf(e, q)' => IsPrimaryOf(e, q)
      BY <2>7, <3>2
    <3>4. Exists(u.id)' /\ (u.other # None => Exists(u.other)')
      BY <2>5, <3>1 DEF Fine
    <3> QED BY <3>3, <3>4 DEF Undisturbed
  <2> HIDE DEF d, previous
  <2>19. Inv'
    BY <2>2, <2>8, <2>9, <2>u, <2>14, <2>15, <2>16, <2>17, <2>18, WorkerInv
  <2> QED BY <2>12, <2>19
<1> QED BY <1>4

LEMMA DeleteInv ==
  ASSUME Inv, NEW w \in Workers, Delete(w)
  PROVE  Inv' /\ PrimaryStep
<1>0. PICK s \in Session : s = session[w] /\ s.step = "delete" /\ Fine(s)
  BY DEF Inv, Sessions, At, Delete
<1> DEFINE d == s.id
           fallback == s.other
<1>r. PICK r : r = domain[d].store
  OBVIOUS
<1> DEFINE H == storeHostnames(r) \ s.hosts
<1>1. /\ d \in Ids /\ d \notin Stores /\ Stores \subseteq Ids /\ None \notin Ids
      /\ fallback # None => fallback \in Stores /\ Exists(fallback)
      /\ ~ At(w, "bust") /\ Rows /\ domain \in [Ids -> Row] /\ s.hosts \in SUBSET Hostnames
  BY <1>0, StoreDomainConstants DEF Fine, At, Inv, Rows, Ids, Session
<1>2. CASE ~ (Exists(d) /\ (fallback # None => OnlyPrimary(fallback, d)))
  <2>1. Become(w, Idle) /\ UNCHANGED <<domain, cache>> /\ Idle.step # "lookup"
    BY <1>0, <1>2, IdleFacts DEF Delete
  <2> QED BY <1>1, <2>1, IdleFacts, ReadInv
<1>3. CASE Exists(d) /\ (fallback # None => OnlyPrimary(fallback, d))
  <2>1. /\ domain' = Deleted(d, fallback) /\ Missing(H)
        /\ session' = [v \in Workers |->
             IF v = w THEN [Idle EXCEPT !.step = "bust", !.hosts = s.hosts]
                      ELSE Overtaken(session[v], H)]
    BY <1>0, <1>3, <1>r DEF Delete, CommitListed
  <2>2. /\ r \in Stores /\ H \in SUBSET Hostnames
        /\ fallback # None => fallback = r /\ domain[fallback].store = r
    BY <1>0, <1>1, <1>3, <1>r DEF Rows, Fine, storeHostnames
  <2>3. fallback # None => \A e \in Ids : e \notin {d, fallback} => ~ IsPrimaryOf(e, r)
    BY <1>3, <2>2 DEF OnlyPrimary
  <2>4. domain[d].store = r
    BY <1>r
  <2> HIDE DEF H
  <2>5. /\ domain' \in [Ids -> Row] /\ domain'[d].status = "GONE"
        /\ \A e \in Ids : e # d =>
             /\ domain'[e].status = domain[e].status /\ domain'[e].tls = domain[e].tls
             /\ domain'[e].host = domain[e].host /\ domain'[e].store = domain[e].store
             /\ e = fallback => domain'[e].isPrimary = TRUE
             /\ e # fallback => domain'[e].isPrimary = domain[e].isPrimary
    <3>1. [NoRow EXCEPT !.status = "GONE"] \in Row /\ [NoRow EXCEPT !.status = "GONE"].status = "GONE"
      BY DEF NoRow, Row, TlsStatus
    <3> QED BY <1>1, <2>1, <3>1 DEF Deleted, Row
  <2>6. ~ Exists(d)' /\ \A e \in Ids : e # d => (Exists(e)' <=> Exists(e))
    BY <1>1, <2>5 DEF Exists
  <2>7. ASSUME NEW e \in Ids
        PROVE  /\ fallback # None => (IsPrimaryOf(e, r)' <=> (e = fallback))
               /\ fallback = None => (IsPrimaryOf(e, r)' <=> (e # d /\ IsPrimaryOf(e, r)))
    <3>1. e = d => ~ IsPrimaryOf(e, r)'
      BY <2>6 DEF IsPrimaryOf
    <3>2. ASSUME e # d
          PROVE  /\ Exists(e)' <=> Exists(e)
                 /\ domain'[e].store = domain[e].store
                 /\ e # fallback => domain'[e].isPrimary = domain[e].isPrimary
                 /\ e = fallback => domain'[e].isPrimary = TRUE
      BY <2>5, <2>6, <3>2
    <3>3. CASE fallback = None
      <4>1. e # fallback
        BY <1>1, <3>3
      <4> QED BY <3>1, <3>2, <3>3, <4>1 DEF IsPrimaryOf
    <3>4. CASE fallback # None
      <4>1. e = fallback => IsPrimaryOf(e, r)'
        BY <1>1, <2>2, <3>2, <3>4 DEF IsPrimaryOf
      <4>2. ASSUME e # fallback, e # d PROVE ~ IsPrimaryOf(e, r)'
        <5>1. ~ IsPrimaryOf(e, r)
          BY <2>3, <3>4, <4>2
        <5> QED BY <3>2, <4>2, <5>1 DEF IsPrimaryOf
      <4> QED BY <1>1, <3>1, <3>4, <4>1, <4>2
    <3> QED BY <3>3, <3>4
  <2>8. \A q \in Stores \ {r}, e \in Ids : (IsPrimaryOf(e, q)' <=> IsPrimaryOf(e, q))
    BY <1>1, <2>2, <2>4, <2>5, <2>6 DEF IsPrimaryOf
  <2>9. Rows'
    <3>1. HostsUnique'
      BY <1>1, <2>5, <2>6 DEF Rows, HostsUnique
    <3>2. PrimaryUnique'
      BY <1>1, <2>7, <2>8 DEF Rows, PrimaryUnique, IsPrimaryOf, Exists
    <3> QED BY <1>1, <2>5, <2>6, <3>1, <3>2 DEF Rows
  <2>10. RowsKept
    BY <1>1, <2>5, <2>6 DEF RowsKept
  <2>11. \A h \in Hostnames \ storeHostnames(r) : Lookup(h)' = Lookup(h)
    <3>1. \A e \in Ids : Exists(e)' =>
           /\ Exists(e) /\ domain'[e].status = domain[e].status /\ domain'[e].tls = domain[e].tls
           /\ domain'[e].host = domain[e].host /\ domain'[e].store = domain[e].store
      BY <2>5, <2>6
    <3>2. \A e \in Ids : Exists(e) /\ domain[e].store # r =>
           Exists(e)' /\ domain'[e].isPrimary = domain[e].isPrimary
      BY <1>1, <2>2, <2>4, <2>5, <2>6
    <3> QED BY <1>1, <2>2, <2>9, <3>1, <3>2, OtherStores
  <2>12. PrimaryStep
    <3> SUFFICES ASSUME NEW q \in Stores, HasPrimary(q), ~ HasPrimary(q)'
                 PROVE  /\ At(w, "delete") /\ session[w].other = None
                        /\ IsPrimaryOf(session[w].id, q)
      BY DEF PrimaryStep
    <3>1. q = r
      BY <2>8 DEF HasPrimary
    <3>2. fallback = None
      BY <1>1, <2>7, <3>1 DEF HasPrimary, IsPrimaryOf, Exists
    <3>3. IsPrimaryOf(d, q)
      BY <2>7, <3>1, <3>2 DEF HasPrimary, IsPrimaryOf, Exists
    <3> QED BY <1>0, <3>2, <3>3 DEF At
  <2>13. PICK t \in Session : /\ t = [Idle EXCEPT !.step = "bust", !.hosts = s.hosts]
                              /\ t.step = "bust" /\ t.hosts = s.hosts /\ ~ t.attaches
    BY <1>1, IdleFacts
  <2>14. Fine(t)'
    BY <2>13 DEF Fine
  <2>15. /\ cache' \in [Hostnames -> Entry]
         /\ \A h \in H : cache'[h].cached => cache'[h].missed
         /\ \A h \in Hostnames \ H : cache'[h] = cache[h]
    <3>1. cache \in [Hostnames -> Entry]
      BY DEF Inv, Current
    <3>2. \A h \in Hostnames : LET c == [cache[h] EXCEPT !.missed = cache[h].cached] IN
            c \in Entry /\ c.cached = cache[h].cached /\ c.missed = cache[h].cached
      BY <3>1 DEF Entry
    <3> QED BY <2>1, <2>2, <3>1, <3>2 DEF Missing
  <2>16. ASSUME NEW h \in Hostnames
         PROVE  \/ t.step = "bust" /\ h \in t.hosts
                \/ h \in H /\ (cache'[h].cached => cache'[h].missed)
                \/ /\ Lookup(h)' = Lookup(h) /\ cache'[h] = cache[h]
                   /\ At(w, "bust") => h \notin session[w].hosts
    BY <1>1, <2>11, <2>13, <2>15 DEF H
  <2>17. session' = [v \in Workers |-> IF v = w THEN t ELSE Overtaken(session[v], H)]
    BY <2>1, <2>13
  <2>18. t.step # "lookup" /\ t.step # "commit"
    BY <2>13
  <2>u. ASSUME NEW v \in Workers \ {w}, NEW u \in Session, u = session[v]
        PROVE  Undisturbed(u)
    <3> SUFFICES ASSUME u.step = "commit" PROVE Undisturbed(u)
      BY DEF Undisturbed
    <3>1. Fine(u)
      BY <2>u DEF Inv, Sessions
    <3>2. /\ d \notin {u.id, u.other}
          /\ fallback # None => domain[u.id].store # r
      BY <1>0, <2>2, <2>u DEF Delete, Held, Replacing, At
    <3>3. ASSUME NEW q \in Stores, q = domain[u.id].store, NEW e \in Ids, IsPrimaryOf(e, q)'
          PROVE  IsPrimaryOf(e, q)
      <4>1. CASE q = r
        BY <2>7, <3>2, <3>3, <4>1
      <4>2. CASE q # r
        BY <2>8, <3>3, <4>2
      <4> QED BY <4>1, <4>2
    <3>4. Exists(u.id)' /\ (u.other # None => Exists(u.other)')
      BY <2>6, <3>1, <3>2 DEF Fine
    <3> QED BY <3>3, <3>4 DEF Undisturbed
  <2> HIDE DEF d, fallback
  <2>19. Inv'
    BY <2>2, <2>9, <2>10, <2>u, <2>14, <2>15, <2>16, <2>17, <2>18, WorkerInv
  <2> QED BY <2>12, <2>19
<1> QED BY <1>2, <1>3

-----------------------------------------------------------------------------
(* The cache.  A bust overtakes the lookups on their way.                  *)
LEMMA BustInv ==
  ASSUME Inv, NEW w \in Workers, Bust(w)
  PROVE  Inv' /\ PrimaryStep
<1>0. PICK s \in Session : s = session[w] /\ s.step = "bust" /\ Fine(s)
  BY DEF Inv, Sessions, At, Bust
<1>1. PICK t : t = AfterBust(w)
  OBVIOUS
<1>2. PICK H \in SUBSET Hostnames : H = s.hosts
  BY DEF Session
<1>3. /\ t \in Session /\ t.step # "lookup" /\ t.step # "bust"
      /\ t.step \in {"idle", "attach"}
      /\ t.step = "attach" => t.id \in Customs
  <2>1. CASE s.attaches
    <3>1. t = [Idle EXCEPT !.step = "attach", !.id = s.id, !.tls = s.tls]
      BY <1>0, <1>1, <2>1 DEF AfterBust
    <3>2. s.id \in Customs
      BY ONLY <1>0, <2>1 DEF Fine
    <3>3. /\ Idle \in Session /\ s.tls \in TlsStatus /\ "attach" \in Steps
          /\ s.id \in Ids \cup {None}
      BY IdleFacts DEF Session, Steps
    <3>4. t \in Session /\ t.step = "attach" /\ t.id = s.id
      BY ONLY <3>1, <3>3 DEF Session
    <3> QED BY ONLY <3>2, <3>4
  <2>2. CASE ~ s.attaches
    <3>1. t = Idle
      BY <1>0, <1>1, <2>2 DEF AfterBust
    <3> QED BY <3>1, IdleFacts
  <2> QED BY <2>1, <2>2
<1>4. Fine(t)'
  BY <1>3 DEF Fine
<1>5. /\ UNCHANGED domain /\ cache' = Busted(H)
      /\ session' = [v \in Workers |-> IF v = w THEN t ELSE Overtaken(session[v], H)]
  BY <1>0, <1>1, <1>2 DEF Bust
<1>6. Rows' /\ RowsKept /\ NothingTaken
  BY <1>5, NoRowWritten DEF Inv
<1>u. \A v \in Workers \ {w}, u \in Session : u = session[v] => Undisturbed(u)
  BY <1>6, TakesNothing DEF Inv, Sessions
<1>7. \A h : Lookup(h)' = Lookup(h)
  BY <1>5 DEF Lookup, Exists, PrimaryOf, IsPrimaryOf, Serveable
<1>8. NoEntry \in Entry /\ NoEntry.cached = FALSE
  BY DEF NoEntry, NoView, Entry, View
<1>9. cache' \in [Hostnames -> Entry]
  BY <1>5, <1>8 DEF Busted, Inv, Current
<1>10. ASSUME NEW h \in Hostnames
       PROVE  \/ t.step = "bust" /\ h \in t.hosts
              \/ h \in H /\ (cache'[h].cached => cache'[h].missed)
              \/ /\ Lookup(h)' = Lookup(h) /\ cache'[h] = cache[h]
                 /\ At(w, "bust") => h \notin session[w].hosts
  <2>1. CASE h \in H
    BY <1>5, <1>8, <2>1 DEF Busted
  <2>2. CASE h \notin H
    BY <1>0, <1>2, <1>5, <1>7, <2>2 DEF Busted
  <2> QED BY <2>1, <2>2
<1>11. Inv'
  BY <1>3, <1>4, <1>5, <1>6, <1>u, <1>9, <1>10, WorkerInv
<1>12. PrimaryStep
  BY <1>5 DEF PrimaryStep, HasPrimary, IsPrimaryOf, Exists
<1> QED BY <1>11, <1>12

LEMMA ReadRowInv ==
  ASSUME Inv, NEW w \in Workers, NEW h \in Hostnames, ReadRow(w, h)
  PROVE  Inv' /\ PrimaryStep
<1>1. Lookup(h) \in View
  <2>1. Rows /\ RowFound /\ PrimaryFound
    BY Found DEF Inv
  <2>2. CASE \E d \in Ids : Exists(d) /\ domain[d].host = h
    <3>1. PICK d \in Ids : Exists(d) /\ domain[d].host = h
      BY <2>2
    <3>2. PICK s \in Stores : s = domain[d].store
      BY <2>1, <3>1 DEF Rows
    <3>3. Lookup(h) = [store |-> s, served |-> Serveable(d), primary |-> PrimaryOf(s)]
      BY <2>1, <3>1, <3>2 DEF RowFound
    <3>4. PrimaryOf(s) \in Hostnames \cup {None}
      <4>1. CASE \E e \in Ids : IsPrimaryOf(e, s)
        BY <2>1, <4>1 DEF PrimaryFound, IsPrimaryOf, Rows
      <4>2. CASE \A e \in Ids : ~ IsPrimaryOf(e, s)
        BY <2>1, <4>2 DEF PrimaryFound
      <4> QED BY <4>1, <4>2
    <3>5. Serveable(d) \in BOOLEAN
      BY DEF Serveable
    <3> QED BY <3>3, <3>4, <3>5 DEF View
  <2>3. CASE \A d \in Ids : ~ (Exists(d) /\ domain[d].host = h)
    <3>1. Lookup(h) = NoView
      BY <2>1, <2>3 DEF RowFound
    <3> QED BY <3>1 DEF NoView, View
  <2> QED BY <2>2, <2>3
<1>2. PICK v \in View : v = Lookup(h)
  BY <1>1
<1>3. PICK t : t = [Idle EXCEPT !.step = "lookup", !.host = h, !.view = v]
  OBVIOUS
<1>4. t \in Session /\ t.step = "lookup" /\ t.host = h /\ t.view = v
  BY <1>3, IdleFacts DEF Session, Steps
<1>5. Fine(t)
  BY <1>4 DEF Fine
<1>6. Become(w, t) /\ UNCHANGED <<domain, cache>> /\ ~ At(w, "bust")
  BY <1>2, <1>3 DEF ReadRow, At
<1>7. t.view = Lookup(t.host)
  BY <1>2, <1>4
<1> QED BY <1>4, <1>5, <1>6, <1>7, ReadInv

(* An entry comes or goes, a lookup has ended; busts stay to be made.      *)
LEMMA EntryInv ==
  ASSUME Inv, UNCHANGED domain, cache' \in [Hostnames -> Entry],
         session' \in [Workers -> Session],
         \A v \in Workers : \/ session'[v] = session[v]
                            \/ session'[v] = Idle /\ ~ At(v, "bust"),
         \A h \in Hostnames : \/ cache'[h] = cache[h]
                              \/ ~ cache'[h].cached \/ cache'[h].missed
                              \/ BustPending(h)
                              \/ cache'[h].view = Lookup(h)
  PROVE  Inv' /\ PrimaryStep
<1>1. Rows' /\ RowsKept /\ NothingTaken
  BY NoRowWritten DEF Inv
<1>2. \A h : Lookup(h)' = Lookup(h)
  BY NoRowWritten DEF Inv
<1>3. ASSUME NEW v \in Workers
      PROVE  Fine(session[v])'
  <2>1. PICK s \in Session : s = session[v] /\ Fine(s)
    BY DEF Inv, Sessions
  <2>2. PICK t : t = session'[v] /\ (t = s \/ t = Idle)
    BY <2>1
  <2>3. t \in Session /\ Fine(t)
    BY <2>1, <2>2, IdleFacts
  <2>4. Fine(t)'
    BY <1>1, <2>3, FineKept, TakesNothing DEF Inv
  <2> QED BY <2>2, <2>4 DEF Fine
<1>5. Idle.step = "idle"
  BY IdleFacts
<1>o. OneReplaces'
  BY <1>5 DEF Inv, Sessions, OneReplaces, At
<1>4. Sessions'
  BY <1>3, <1>o DEF Sessions
<1>6. ASSUME NEW h \in Hostnames, BustPending(h)
      PROVE  BustPending(h)'
  BY <1>6 DEF BustPending, At
<1>7. CacheIsCurrent'
  <2> SUFFICES ASSUME NEW h \in Hostnames, cache'[h].cached, ~ cache'[h].missed,
                      ~ BustPending(h)'
               PROVE  cache'[h].view = Lookup(h)'
    BY DEF CacheIsCurrent
  <2>1. ~ BustPending(h)
    BY <1>6
  <2> QED BY <1>2, <2>1 DEF Inv, Current, CacheIsCurrent
<1>8. ASSUME NEW v \in Workers, session'[v].step = "lookup", ~ session'[v].missed,
             ~ BustPending(session[v].host)'
      PROVE  (session[v].view = Lookup(session[v].host))'
  <2>1. session'[v] = session[v]
    BY <1>5, <1>8
  <2>2. PICK h \in Hostnames : h = session[v].host
    BY <1>8, <2>1 DEF Inv, Sessions, Fine
  <2>3. ~ BustPending(h)'
    <3>1. session'[v].host = h
      BY <2>1, <2>2
    <3>2. ~ \E u \in Workers : At(u, "bust")' /\ session'[v].host \in session'[u].hosts
      BY ONLY <1>8 DEF BustPending
    <3> QED BY ONLY <3>1, <3>2 DEF BustPending
  <2>4. session[v].view = Lookup(h)
    BY <1>6, <1>8, <2>1, <2>2, <2>3 DEF Inv, Current, At
  <2>5. Lookup(h)' = Lookup(h)
    BY <1>2
  <2>6. session'[v].host = h /\ session'[v].view = Lookup(h)'
    BY <2>1, <2>2, <2>4, <2>5
  <2> QED BY ONLY <2>6 DEF Lookup
<1>9. PrimaryStep
  BY NoRowWritten DEF Inv
<1> QED BY <1>1, <1>4, <1>7, <1>8, <1>9 DEF Inv, Current, At

LEMMA StoreRowInv ==
  ASSUME Inv, NEW w \in Workers, StoreRow(w)
  PROVE  Inv' /\ PrimaryStep
<1>1. PICK s \in Session : s = session[w] /\ s.step = "lookup" /\ Fine(s)
  BY DEF Inv, Sessions, At, StoreRow
<1>2. PICK h \in Hostnames : h = s.host
  BY <1>1 DEF Fine
<1>3. PICK entry : entry = [cached |-> TRUE, view |-> s.view, missed |-> s.missed]
  OBVIOUS
<1>4. entry \in Entry /\ entry.view = s.view /\ entry.missed = s.missed
  BY <1>3 DEF Entry, Session
<1>5. /\ cache' = [cache EXCEPT ![h] = entry] /\ UNCHANGED domain
      /\ session' = [session EXCEPT ![w] = Idle] /\ ~ At(w, "bust")
  BY <1>1, <1>2, <1>3 DEF StoreRow, Become, At
<1>6. /\ cache' \in [Hostnames -> Entry] /\ cache'[h] = entry
      /\ \A g \in Hostnames : g # h => cache'[g] = cache[g]
  BY <1>4, <1>5 DEF Inv, Current
<1>7. \/ entry.missed \/ BustPending(h)
      \/ entry.view = Lookup(h)
  BY <1>1, <1>2, <1>4 DEF Inv, Current, At
<1>8. /\ session' \in [Workers -> Session]
      /\ \A v \in Workers : \/ session'[v] = session[v]
                            \/ session'[v] = Idle /\ ~ At(v, "bust")
  BY <1>5, IdleFacts DEF Inv, Sessions
<1> QED BY <1>5, <1>6, <1>7, <1>8, EntryInv

LEMMA ExpireInv ==
  ASSUME Inv, NEW h \in Hostnames, Expire(h)
  PROVE  Inv' /\ PrimaryStep
<1>1. NoEntry \in Entry /\ NoEntry.cached = FALSE
  BY DEF NoEntry, NoView, Entry, View
<1>2. /\ cache' \in [Hostnames -> Entry] /\ ~ cache'[h].cached
      /\ \A g \in Hostnames : g # h => cache'[g] = cache[g]
  BY <1>1 DEF Expire, Inv, Current
<1>3. UNCHANGED <<domain, session>> /\ session' \in [Workers -> Session]
  BY DEF Expire, Inv, Sessions
<1> QED BY <1>2, <1>3, EntryInv

(* All idle, nothing cached.                                               *)
LEMMA EmptyCurrent ==
  ASSUME session = [w \in Workers |-> Idle], cache = [h \in Hostnames |-> NoEntry]
  PROVE  Sessions /\ Current
<1>1. NoEntry \in Entry /\ NoEntry.cached = FALSE
  BY DEF NoEntry, NoView, Entry, View
<1>2. Sessions
  BY IdleFacts DEF Sessions, OneReplaces, At
<1>3. Current
  BY <1>1, IdleFacts DEF Current, CacheIsCurrent, At
<1> QED BY <1>2, <1>3

LEMMA RestartInv ==
  ASSUME Inv, Restart
  PROVE  Inv' /\ PrimaryStep
<1>1. Rows'
  BY DEF Restart, Inv, Rows, Exists, HostsUnique, PrimaryUnique, IsPrimaryOf
<1>2. Sessions' /\ Current'
  <2>1. (session = [w \in Workers |-> Idle] /\ cache = [h \in Hostnames |-> NoEntry])'
        => (Sessions /\ Current)'
    BY EmptyCurrent, PTL
  <2> QED BY <2>1 DEF Restart
<1>3. PrimaryStep
  BY DEF Restart, PrimaryStep, HasPrimary, IsPrimaryOf, Exists
<1> QED BY <1>1, <1>2, <1>3 DEF Inv

-----------------------------------------------------------------------------
LEMMA InitInv == Init => Inv
<1> SUFFICES ASSUME Init PROVE Inv
  OBVIOUS
<1>1. PICK provisioned \in SUBSET Stores :
        domain = [d \in Ids |-> IF d \in provisioned THEN PlatformSubdomain(d) ELSE NoRow]
  BY DEF Init
<1>2. /\ NoRow \in Row /\ NoRow.status = "ABSENT"
      /\ \A d \in Stores : /\ PlatformSubdomain(d) \in Row /\ PlatformSubdomain(d).host = d
                           /\ PlatformSubdomain(d).store = d
  BY DEF NoRow, Row, TlsStatus, PlatformSubdomain, Hostnames
<1>3. /\ domain \in [Ids -> Row]
      /\ \A d \in Ids : Exists(d) => d \in Stores /\ domain[d].host = d /\ domain[d].store = d
  BY <1>1, <1>2 DEF Exists
<1>4. Rows
  BY <1>3 DEF Rows, HostsUnique, PrimaryUnique, IsPrimaryOf, Hostnames, Ids
<1>5. Sessions /\ Current
  BY EmptyCurrent DEF Init
<1> QED BY <1>4, <1>5 DEF Inv

LEMMA NextInv == Inv /\ [Next]_vars => Inv' /\ PrimaryStep
<1> SUFFICES ASSUME Inv, [Next]_vars PROVE Inv' /\ PrimaryStep
  OBVIOUS
<1>1. ASSUME NEW w \in Workers, Merchant(w)
      PROVE  Inv' /\ PrimaryStep
  <2>1. CASE \E d \in Customs, h \in Hosts, s \in Stores : Add(w, d, h, s)
    BY <2>1, AddInv
  <2>2. CASE \E d \in Customs : StartCheck(w, d, FALSE) \/ StartRefresh(w, d)
    BY <2>2, StartCheckInv
  <2>3. CASE \E d \in Customs : PlanRemoval(w, d)
    BY <2>3, RemovalInv
  <2>4. CASE \E d \in Ids : FindPrimary(w, d)
    BY <2>4, FindPrimaryInv
  <2> QED BY <1>1, <2>1, <2>2, <2>3, <2>4 DEF Merchant
<1>2. ASSUME NEW w \in Workers, Platform(w)
      PROVE  Inv' /\ PrimaryStep
  BY <1>2, StartCheckInv, ModerateInv DEF Platform
<1>3. ASSUME NEW w \in Workers, Step(w)
      PROVE  Inv' /\ PrimaryStep
  BY <1>3, FinishCheckInv, ReplacePrimaryInv, SetPrimaryInv, RemovalInv, DeleteInv, TlsInv, BustInv, StoreRowInv
     DEF Step
<1>4. ASSUME NEW w \in Workers, NEW h \in Hostnames, ReadRow(w, h)
      PROVE  Inv' /\ PrimaryStep
  BY <1>4, ReadRowInv
<1>5. CASE (\E h \in Hostnames : Expire(h)) \/ Restart
  BY <1>5, ExpireInv, RestartInv
<1>6. CASE UNCHANGED vars
  <2>1. UNCHANGED <<domain, cache, session>>
    BY <1>6 DEF vars
  <2>2. cache' \in [Hostnames -> Entry] /\ session' \in [Workers -> Session]
    BY <2>1 DEF Inv, Current, Sessions
  <2> QED BY <2>1, <2>2, EntryInv
<1> QED BY <1>1, <1>2, <1>3, <1>4, <1>5, <1>6 DEF Next

-----------------------------------------------------------------------------
(* A hostname is one row's, a store has one primary at most, a session's   *)
(* rows stay of one store, and a lookup on its way is as current as the    *)
(* cache: what the requests preserve together.                             *)
THEOREM InvHolds == Spec => []Inv
BY InitInv, NextInv, PTL DEF Spec

(* Rows, entries and sessions stay what the code can store.                *)
THEOREM TypeCorrect == Spec => []TypeOK
<1>1. Inv => TypeOK
  BY DEF Inv, Rows, Sessions, Current, TypeOK
<1> QED BY <1>1, InvHolds, PTL

(* The busts after each commit cover what it changes: the cache is current *)
(* but for entries a bust has missed, which are those of a row read before *)
(* the write and stored after its bust, and those of a host that a store   *)
(* has got between the list of its hosts in setPrimary or remove and their *)
(* commit.                                                                 *)
THEOREM CacheCurrent == Spec => []CacheIsCurrent
<1>1. Inv => CacheIsCurrent
  BY DEF Inv, Current
<1> QED BY <1>1, InvHolds, PTL

(* setPrimary and remove leave a store that has a primary domain with one, *)
(* but for the removal of a domain made primary after it was planned.      *)
THEOREM PrimaryStays == Spec => PrimaryKept
<1>1. Inv /\ [Next]_vars => [PrimaryStep]_vars
  BY NextInv
<1> QED BY <1>1, InvHolds, PTL DEF Spec, PrimaryKept, PrimaryStep

=============================================================================
