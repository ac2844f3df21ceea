------------------------ MODULE ProviderProfileProofs ------------------------
(***************************************************************************)
(* Theorems about ProviderProfile, for any subscriptions that the          *)
(* provider may publish.  The configuration that sing-box runs on is       *)
(* always one made of some subscription (Bodies), so ConfigRuns is a fact  *)
(* about subscriptions: what a merge, a pin and a normalisation make of    *)
(* one is a configuration that starts exactly if the subscription is       *)
(* Plain.  The two action properties are facts about one step, from a      *)
(* state whose active server the cached catalog has.                       *)
(***************************************************************************)
EXTENDS ProviderProfile, FiniteSetTheorems, TLAPS

Files == [sub : {s \in Subscription : Valid(s)}, inbounds : BOOLEAN]

\* What a start, and a server change, make of the subscription s.
Bodies(s) ==
  {Sanitized(Normalized(s))}
    \cup {Sanitized(Pinned(Normalized(s), t)) : t \in s.servers}

Inv ==
  /\ disk \in Files /\ cache \in Files
  /\ active \in Names(ProfileOf(cache))
  /\ config.sub \in {s \in Subscription : Valid(s)} /\ config.inbounds \in BOOLEAN
  /\ config.body \in Bodies(config.sub)

-----------------------------------------------------------------------------
(***************************************************************************)
(* Tags.                                                                   *)
(***************************************************************************)
LEMMA Subscribed ==
  ASSUME NEW s \in Subscription
  PROVE  /\ IsFiniteSet(s.servers)
         /\ \A t \in s.servers : t.label # "urltest_out" /\ t # Direct
         /\ \A t \in s.servers : t \notin GroupTags(s)
         /\ Direct \notin GroupTags(s)
         /\ Len(s.groups) \in Nat /\ DOMAIN s.groups = 1 .. Len(s.groups)
         /\ \A i \in DOMAIN s.groups : s.groups[i].tag \notin s.groups[i].members
         /\ References(s) \subseteq s.servers \cup GroupTags(s) \cup {Direct}
         /\ \A d \in s.dns : d.type \in {"udp", "batch", "predefined"}
         /\ \A d, e \in s.dns : d.tag = e.tag => d = e
         /\ s.asked \subseteq DnsTags(s)
<1>1. SwitchTag.label = "urltest_out"
  BY DEF SwitchTag, Tag
<1>2. /\ IsFiniteSet(s.servers) /\ \A t \in s.servers : t.label # SwitchTag.label
      /\ s.groups \in Seq({s.groups[i] : i \in DOMAIN s.groups})
      /\ GroupTags(s) \cap (s.servers \cup {Direct}) = {} /\ Direct \notin s.servers
      /\ \A i \in DOMAIN s.groups : s.groups[i].tag \notin s.groups[i].members
      /\ References(s) \subseteq s.servers \cup GroupTags(s) \cup {Direct}
      /\ \A d \in s.dns : d.type \in {"udp", "batch", "predefined"}
      /\ \A d, e \in s.dns : d.tag = e.tag => d = e
      /\ s.asked \subseteq DnsTags(s)
  BY SubscriptionAssumption DEF SubscriptionAssumption
<1>3. Len(s.groups) \in Nat /\ DOMAIN s.groups = 1 .. Len(s.groups)
  BY <1>2
<1> QED BY <1>1, <1>2, <1>3

LEMMA NormalTags ==
  /\ normalize_tag(SwitchTag) = SwitchTag /\ normalize_tag(Direct) = Direct
  /\ SwitchTag # Direct /\ Direct.label = "direct"
  /\ \A t : normalize_tag(normalize_tag(t)) = normalize_tag(t)
  /\ \A t : normalize_tag(t) = SwitchTag => t.label = "urltest_out"
  /\ \A t : normalize_tag(t) = Direct <=> t.label = "direct"
<1>1. \A t : /\ normalize_tag(t) = [flag |-> "", label |-> t.label]
             /\ normalize_tag(t).label = t.label
  BY DEF normalize_tag, Tag
<1>2. /\ SwitchTag = [flag |-> "", label |-> "urltest_out"] /\ SwitchTag.label = "urltest_out"
      /\ Direct = [flag |-> "", label |-> "direct"] /\ Direct.label = "direct"
  BY DEF SwitchTag, Direct, Tag
<1>3. normalize_tag(SwitchTag) = SwitchTag /\ normalize_tag(Direct) = Direct
  BY <1>1, <1>2
<1>4. SwitchTag # Direct
  BY <1>2
<1>5. \A t : normalize_tag(normalize_tag(t)) = normalize_tag(t)
  BY <1>1
<1>6. \A t : normalize_tag(t) = SwitchTag => t.label = "urltest_out"
  BY <1>1, <1>2
<1>7. \A t : normalize_tag(t) = Direct <=> t.label = "direct"
  BY <1>1, <1>2
<1> QED BY <1>2, <1>3, <1>4, <1>5, <1>6, <1>7

\* The tags of the outbounds of a configuration made of s.
Shown(s) == {normalize_tag(t) : t \in s.servers}
Group(s) == IF Len(s.groups) = 0 THEN {} ELSE {SwitchTag}
Tags(s)  == Shown(s) \cup Group(s) \cup {Direct}

\* What a reference of the subscription becomes, in a rule and elsewhere.
LEMMA RenamedTag ==
  ASSUME NEW s \in Subscription, NEW t \in References(s)
  PROVE  /\ t \in s.servers => Renamed(s, t) = t
         /\ t \notin s.servers => Renamed(s, t) \in Group(s) \cup {Direct}
         /\ normalize_tag(Renamed(s, t)) \in Tags(s)
<1>1. t \in s.servers \cup GroupTags(s) \cup {Direct}
  BY Subscribed
<1>2. CASE t \in s.servers
  <2>1. Renamed(s, t) = t
    BY <1>2, Subscribed DEF Renamed
  <2> QED BY <1>2, <2>1 DEF Tags, Shown
<1>3. CASE t \notin s.servers /\ t \in GroupTags(s)
  <2>1. Renamed(s, t) = SwitchTag
    BY <1>3 DEF Renamed
  <2>2. Len(s.groups) # 0
    BY <1>3, Subscribed DEF GroupTags
  <2> QED BY <1>3, <2>1, <2>2, NormalTags DEF Group, Tags
<1>4. CASE t \notin s.servers /\ t \notin GroupTags(s)
  <2>1. t = Direct /\ Renamed(s, t) = Direct
    BY <1>1, <1>4 DEF Renamed
  <2> QED BY <1>4, <2>1, NormalTags DEF Tags
<1> QED BY <1>2, <1>3, <1>4

-----------------------------------------------------------------------------
(***************************************************************************)
(* Configurations.                                                         *)
(***************************************************************************)
LEMMA PinnedFields ==
  ASSUME NEW p, NEW t
  PROVE  /\ Pinned(p, t).servers = p.servers /\ Pinned(p, t).groups = p.groups
         /\ Pinned(p, t).dns = p.dns /\ Pinned(p, t).asked = p.asked
         /\ Pinned(p, t).rules = {PinTo(t, r) : r \in p.rules}
         /\ Pinned(p, t).final = PinTo(t, p.final)
  BY DEF Pinned

\* Pinned or not, a configuration differs in its rules and route.final only.
LEMMA BodyFields ==
  ASSUME NEW s \in Subscription, NEW b \in Bodies(s)
  PROVE  /\ b.shown = [t \in s.servers |-> normalize_tag(t)]
         /\ DOMAIN b.groups = DOMAIN s.groups /\ Len(b.groups) = Len(s.groups)
         /\ \A i \in DOMAIN s.groups :
              /\ b.groups[i].tag = SwitchTag
              /\ b.groups[i].members = {normalize_tag(t) : t \in s.groups[i].members}
         /\ b.dns = SanitizedDns(Normalized(s).dns) /\ b.asked = s.asked
         /\ b.rules \cup {b.final} \subseteq Tags(s)
<1> DEFINE p == Normalized(s)
<1>1. PICK q : /\ b = Sanitized(q)
               /\ q = p \/ \E t \in s.servers : q = Pinned(p, t)
  BY DEF Bodies
<1>2. q.servers = p.servers /\ q.groups = p.groups /\ q.dns = p.dns /\ q.asked = p.asked
  BY <1>1, PinnedFields
<1> HIDE DEF p
<1>3. \A r \in p.rules \cup {p.final} : \E t \in References(s) : r = Renamed(s, t)
  <2>1. s.rules \cup {s.final} \subseteq References(s)
    BY DEF References
  <2>2. p.rules = {Renamed(s, t) : t \in s.rules} /\ p.final = Renamed(s, s.final)
    BY DEF p, Normalized
  <2> QED BY <2>1, <2>2
<1>4. \A r \in q.rules \cup {q.final} : normalize_tag(r) \in Tags(s)
  <2>1. CASE q = p
    BY <1>3, <2>1, RenamedTag
  <2>2. CASE \E t \in s.servers : q = Pinned(p, t)
    <3>1. PICK t \in s.servers : q = Pinned(p, t)
      BY <2>2
    <3>2. normalize_tag(t) \in Tags(s)
      BY DEF Tags, Shown
    <3>3. \A r \in q.rules \cup {q.final} : r = t \/ r \in p.rules \cup {p.final}
      BY <3>1, PinnedFields DEF PinTo
    <3> QED BY <1>3, <3>2, <3>3, RenamedTag
  <2> QED BY <1>1, <2>1, <2>2
<1>5. b.rules \cup {b.final} \subseteq Tags(s)
  <2>1. b.rules = {normalize_tag(r) : r \in q.rules} /\ b.final = normalize_tag(q.final)
    BY <1>1 DEF Sanitized
  <2> QED BY <1>4, <2>1
<1>6. b.shown = [t \in s.servers |-> normalize_tag(t)]
  <2>1. b.shown = [t \in q.servers |-> normalize_tag(t)]
    BY <1>1 DEF Sanitized
  <2> QED BY <1>2, <2>1 DEF p, Normalized
<1>7. b.dns = SanitizedDns(p.dns) /\ b.asked = s.asked
  <2>1. b.dns = SanitizedDns(q.dns) /\ b.asked = q.asked
    BY <1>1 DEF Sanitized
  <2> QED BY <1>2, <2>1 DEF p, Normalized
<1>8. /\ DOMAIN b.groups = DOMAIN s.groups /\ Len(b.groups) = Len(s.groups)
      /\ \A i \in DOMAIN s.groups :
           /\ b.groups[i].tag = SwitchTag
           /\ b.groups[i].members = {normalize_tag(t) : t \in s.groups[i].members}
  <2>1. b.groups = [i \in DOMAIN p.groups |->
          [tag |-> normalize_tag(p.groups[i].tag),
           members |-> {normalize_tag(t) : t \in p.groups[i].members}]]
    BY <1>1, <1>2 DEF Sanitized
  <2>2. DOMAIN p.groups = DOMAIN s.groups
        /\ \A i \in DOMAIN s.groups : p.groups[i].tag = SwitchTag
                                      /\ p.groups[i].members = s.groups[i].members
    BY DEF p, Normalized
  <2>3. DOMAIN b.groups = DOMAIN s.groups /\ Len(b.groups) = Len(s.groups)
    BY <2>1, <2>2, Subscribed
  <2>4. ASSUME NEW i \in DOMAIN s.groups
        PROVE  /\ b.groups[i].tag = SwitchTag
               /\ b.groups[i].members = {normalize_tag(t) : t \in s.groups[i].members}
    <3>1. /\ b.groups[i].tag = normalize_tag(p.groups[i].tag)
          /\ b.groups[i].members = {normalize_tag(t) : t \in p.groups[i].members}
      BY <2>1, <2>2
    <3> QED BY <2>2, <3>1, NormalTags
  <2> QED BY <2>3, <2>4
<1> QED BY <1>5, <1>6, <1>7, <1>8 DEF p

\* The outbounds of a configuration, by their tags.
LEMMA BodyTags ==
  ASSUME NEW s \in Subscription, NEW b \in Bodies(s)
  PROVE  /\ {b.shown[t] : t \in DOMAIN b.shown} \cup GroupTags(b) \cup {Direct} = Tags(s)
         /\ DOMAIN b.shown = s.servers /\ Len(b.groups) = Len(s.groups)
<1>1. DOMAIN b.shown = s.servers /\ {b.shown[t] : t \in DOMAIN b.shown} = Shown(s)
  <2>1. b.shown = [t \in s.servers |-> normalize_tag(t)]
    BY BodyFields
  <2> QED BY <2>1 DEF Shown
<1>2. Len(s.groups) \in Nat /\ DOMAIN s.groups = 1 .. Len(s.groups)
  BY Subscribed
<1>3. DOMAIN b.groups = 1 .. Len(s.groups) /\ Len(b.groups) = Len(s.groups)
      /\ \A i \in DOMAIN b.groups : b.groups[i].tag = SwitchTag
  BY <1>2, BodyFields
<1>4. GroupTags(b) = Group(s)
  BY <1>2, <1>3 DEF GroupTags, Group
<1> QED BY <1>1, <1>3, <1>4 DEF Tags

-----------------------------------------------------------------------------
(***************************************************************************)
(* When a configuration starts.                                            *)
(***************************************************************************)

\* The parts of Plain.
DistinctServers(s) ==
  /\ \A t, u \in s.servers : normalize_tag(t) = normalize_tag(u) => t = u
  /\ \A t \in s.servers : t.label # Direct.label
PlainDns(s) ==
  \A d \in s.dns :
    CASE d.type = "udp"        -> \A t \in d.detour \cap s.servers : normalize_tag(t) = t
      [] d.type = "predefined" -> d.tag \notin s.asked
      [] OTHER                 -> TRUE

\* The tags are as many as the outbounds if no two outbounds share one.
LEMMA TagCount ==
  ASSUME NEW s \in Subscription
  PROVE  Cardinality(Tags(s)) = Cardinality(s.servers) + Len(s.groups) + 1
           <=> Len(s.groups) <= 1 /\ DistinctServers(s)
<1> DEFINE f == [t \in s.servers |-> normalize_tag(t)]
           n == Cardinality(s.servers)
           m == Cardinality(Shown(s))
           g == Len(s.groups)
<1>1. f \in Surjection(s.servers, Shown(s)) /\ IsFiniteSet(s.servers) /\ g \in Nat
  BY Subscribed DEF Surjection, Shown
<1>2. n \in Nat /\ IsFiniteSet(Shown(s)) /\ m \in Nat /\ m <= n
      /\ (m = n <=> f \in Injection(s.servers, Shown(s)))
  BY <1>1, FS_Surjection, FS_CardinalityType
<1>3. f \in Injection(s.servers, Shown(s))
        <=> \A t, u \in s.servers : normalize_tag(t) = normalize_tag(u) => t = u
  BY <1>1 DEF Injection, Surjection, IsInjective
<1>4. Direct \notin Shown(s) <=> \A t \in s.servers : t.label # Direct.label
  BY NormalTags DEF Shown
<1>5. SwitchTag \notin Shown(s)
  BY NormalTags, Subscribed DEF Shown
<1>6. m = n /\ Direct \notin Shown(s) <=> DistinctServers(s)
  BY <1>2, <1>3, <1>4 DEF DistinctServers
<1> DEFINE A == Shown(s) \cup Group(s)
<1>7. IsFiniteSet(A) /\ Cardinality(A) = m + IF g = 0 THEN 0 ELSE 1
  <2>1. CASE g = 0
    BY <1>2, <2>1 DEF Group
  <2>2. CASE g # 0
    <3>1. A = Shown(s) \cup {SwitchTag}
      BY <2>2 DEF Group
    <3> QED BY <1>2, <1>5, <2>2, <3>1, FS_AddElement
  <2> QED BY <2>1, <2>2
<1>8. Direct \in A <=> Direct \in Shown(s)
  BY NormalTags DEF Group
<1>9. Cardinality(Tags(s)) =
        IF Direct \in Shown(s) THEN Cardinality(A) ELSE Cardinality(A) + 1
  BY <1>7, <1>8, FS_AddElement DEF Tags
<1> HIDE DEF f, n, m, g, A
<1>10. Cardinality(Tags(s)) = n + g + 1 <=> g <= 1 /\ m = n /\ Direct \notin Shown(s)
  BY <1>1, <1>2, <1>7, <1>9
<1> QED BY <1>6, <1>10 DEF n, g

\* DNS servers ask through outbounds there are, and are there for their rules.
LEMMA DnsRuns ==
  ASSUME NEW s \in Subscription, NEW b \in Bodies(s)
  PROVE  PlainDns(s) <=> /\ \A d \in b.dns : d.detour \subseteq Tags(s)
                         /\ b.asked \subseteq DnsTags(b)
<1> DEFINE Detour(d) == {Renamed(s, t) : t \in d.detour}
<1>1. b.asked = s.asked
  BY BodyFields
<1>2. /\ \A e \in b.dns : \E d \in s.dns :
           /\ d.type # "predefined" /\ e.tag = d.tag
           /\ e.detour = IF d.type = "batch" THEN {} ELSE Detour(d)
      /\ \A d \in s.dns : d.type # "predefined" =>
           \E e \in b.dns :
             e.tag = d.tag /\ e.detour = IF d.type = "batch" THEN {} ELSE Detour(d)
  <2> DEFINE N(d) == [tag |-> d.tag, type |-> d.type, detour |-> Detour(d)]
             S(d) == [tag    |-> d.tag,
                      type   |-> IF d.type = "batch" THEN "plain" ELSE d.type,
                      detour |-> IF d.type = "batch" THEN {} ELSE d.detour]
  <2>1. b.dns = SanitizedDns(Normalized(s).dns)
    BY BodyFields
  <2>2. Normalized(s).dns = {N(d) : d \in s.dns}
    BY DEF Normalized
  <2>3. b.dns = {S(x) : x \in {y \in {N(d) : d \in s.dns} : y.type # "predefined"}}
    BY <2>1, <2>2 DEF SanitizedDns
  <2>4. \A d \in s.dns :
          /\ N(d).type = d.type /\ S(N(d)).tag = d.tag
          /\ S(N(d)).detour = IF d.type = "batch" THEN {} ELSE Detour(d)
    OBVIOUS
  <2> HIDE DEF N, S, Detour
  <2> QED BY <2>3, <2>4
<1>3. ASSUME NEW d \in s.dns
      PROVE  Detour(d) \subseteq Tags(s)
               <=> \A t \in d.detour \cap s.servers : normalize_tag(t) = t
  <2>1. d.detour \subseteq References(s)
    BY DEF References
  <2>2. \A t \in d.detour \ s.servers : Renamed(s, t) \in Tags(s)
    BY <2>1, RenamedTag DEF Tags
  <2>3. \A t \in d.detour \cap s.servers : Renamed(s, t) = t
    BY <2>1, RenamedTag
  <2>4. \A t \in Tags(s) : normalize_tag(t) = t
    BY NormalTags DEF Tags, Shown, Group
  <2>5. \A t \in s.servers : normalize_tag(t) \in Tags(s)
    BY DEF Tags, Shown
  <2> QED BY <2>2, <2>3, <2>4, <2>5
<1> HIDE DEF Detour
<1>4. \A d \in s.dns : d.type \in {"udp", "batch", "predefined"}
  BY Subscribed
<1>5. (\A e \in b.dns : e.detour \subseteq Tags(s))
        <=> \A d \in s.dns : d.type = "udp" => Detour(d) \subseteq Tags(s)
  BY <1>2, <1>4
<1>6. b.asked \subseteq DnsTags(b)
        <=> \A d \in s.dns : d.type = "predefined" => d.tag \notin s.asked
  <2>1. /\ \A d, e \in s.dns : d.tag = e.tag => d = e
        /\ \A x \in s.asked : \E d \in s.dns : x = d.tag
    BY Subscribed DEF DnsTags
  <2>2. \A x \in DnsTags(b) : \E d \in s.dns : d.type # "predefined" /\ x = d.tag
    BY <1>2 DEF DnsTags
  <2>3. \A d \in s.dns : d.type # "predefined" => d.tag \in DnsTags(b)
    BY <1>2 DEF DnsTags
  <2> QED BY <1>1, <2>1, <2>2, <2>3
<1> QED BY <1>3, <1>4, <1>5, <1>6 DEF PlainDns

LEMMA RunsIfPlain ==
  ASSUME NEW s \in Subscription, NEW b \in Bodies(s)
  PROVE  Runs(b) <=> Plain(s)
<1>1. Plain(s) <=> Len(s.groups) <= 1 /\ DistinctServers(s) /\ PlainDns(s)
  BY DEF Plain, DistinctServers, PlainDns
<1>2. Runs(b) <=> /\ Cardinality(Tags(s)) = Cardinality(s.servers) + Len(s.groups) + 1
                  /\ References(b) \subseteq Tags(s) /\ b.asked \subseteq DnsTags(b)
  BY BodyTags DEF Runs
<1>3. b.rules \cup {b.final} \subseteq Tags(s)
  BY BodyFields
<1>4. ASSUME Len(s.groups) <= 1, NEW i \in DOMAIN b.groups
      PROVE  b.groups[i].members \subseteq Tags(s)
  <2>1. /\ i \in DOMAIN s.groups
        /\ b.groups[i].members = {normalize_tag(t) : t \in s.groups[i].members}
    BY BodyFields
  <2>2. \A t \in s.groups[i].members : t \in s.servers \cup {Direct}
    <3>1. s.groups[i].members \subseteq References(s)
      <4>1. \A x \in s.groups[i].members :
              x \in UNION {s.groups[j].members : j \in DOMAIN s.groups}
        BY <2>1
      <4> QED BY <4>1 DEF References
    <3>2. GroupTags(s) = {s.groups[i].tag}
      BY <1>4, <2>1, Subscribed DEF GroupTags
    <3>3. s.groups[i].tag \notin s.groups[i].members
      BY <2>1, Subscribed
    <3> QED BY <3>1, <3>2, <3>3, Subscribed
  <2>3. \A t \in s.servers \cup {Direct} : normalize_tag(t) \in Tags(s)
    BY NormalTags DEF Tags, Shown
  <2> QED BY <2>1, <2>2, <2>3
<1>5. References(b) = b.rules \cup {b.final} \cup (UNION {d.detour : d \in b.dns})
                      \cup (UNION {b.groups[i].members : i \in DOMAIN b.groups})
  BY DEF References
<1>6. Len(s.groups) <= 1 =>
        (References(b) \subseteq Tags(s) <=> \A d \in b.dns : d.detour \subseteq Tags(s))
  <2> DEFINE M == UNION {b.groups[i].members : i \in DOMAIN b.groups}
             D == UNION {d.detour : d \in b.dns}
  <2>1. Len(s.groups) <= 1 => M \subseteq Tags(s)
    BY <1>4
  <2>2. D \subseteq Tags(s) <=> \A d \in b.dns : d.detour \subseteq Tags(s)
    OBVIOUS
  <2>3. References(b) = b.rules \cup {b.final} \cup D \cup M
    BY <1>5
  <2> HIDE DEF M, D
  <2> QED BY <1>3, <2>1, <2>2, <2>3
<1> QED BY <1>1, <1>2, <1>6, TagCount, DnsRuns

-----------------------------------------------------------------------------
(***************************************************************************)
(* The catalog.                                                            *)
(***************************************************************************)
LEMMA Cataloged ==
  ASSUME NEW p, NEW n \in Names(p)
  PROVE  ServerOf(p, n) \in p.servers /\ Name(p, ServerOf(p, n)) = n
<1>1. \E t \in p.servers : Name(p, t) = n
  BY DEF Names
<1> QED BY <1>1 DEF ServerOf

LEMMA FirstName ==
  ASSUME NEW f \in Files
  PROVE  First(ProfileOf(f)) \in Names(ProfileOf(f))
<1>1. ProfileOf(f).servers = f.sub.servers /\ f.sub.servers # {}
  BY DEF ProfileOf, Normalized, Files, Valid
<1>2. Names(ProfileOf(f)) # {}
  BY <1>1 DEF Names
<1> QED BY <1>2 DEF First

LEMMA DeployedBody ==
  ASSUME NEW f \in Files
  PROVE  /\ Deployed(f).sub = f.sub /\ Deployed(f).inbounds \in BOOLEAN
         /\ Deployed(f).body \in Bodies(f.sub)
<1>1. /\ Deployed(f).sub = f.sub /\ Deployed(f).inbounds = f.inbounds
      /\ Deployed(f).body = Sanitized(Normalized(f.sub))
  BY DEF Deployed, Conf, ProfileOf
<1>2. f.inbounds \in BOOLEAN
  BY DEF Files
<1> QED BY <1>1, <1>2 DEF Bodies

LEMMA AppliedBody ==
  ASSUME NEW f \in Files, NEW n \in Names(ProfileOf(f)), Applied(f, n)
  PROVE  /\ active' = n /\ config'.inbounds \in BOOLEAN /\ config'.sub = f.sub
         /\ config'.body = Sanitized(Pinned(ProfileOf(f), ServerOf(ProfileOf(f), n)))
         /\ config'.body \in Bodies(f.sub)
<1> DEFINE t == ServerOf(ProfileOf(f), n)
           b == Sanitized(Pinned(ProfileOf(f), t))
<1>1. active' = n /\ config' = Conf(f, b)
  BY DEF Applied
<1>2. f.inbounds \in BOOLEAN
  BY DEF Files
<1>3. t \in f.sub.servers
  <2>1. ProfileOf(f).servers = f.sub.servers
    BY DEF ProfileOf, Normalized
  <2> QED BY <2>1, Cataloged
<1>4. b \in Bodies(f.sub)
  BY <1>3 DEF Bodies, ProfileOf
<1>5. config'.sub = f.sub /\ config'.inbounds = f.inbounds /\ config'.body = b
  <2> HIDE DEF b
  <2> QED BY <1>1 DEF Conf
<1> QED BY <1>1, <1>2, <1>4, <1>5

-----------------------------------------------------------------------------
(***************************************************************************)
(* Inv is inductive.                                                       *)
(***************************************************************************)

LEMMA InitInv == Init => Inv
<1> SUFFICES ASSUME Init PROVE Inv
  OBVIOUS
<1>1. disk \in Files /\ cache \in Files
  BY DEF Init, Files
<1>2. active \in Names(ProfileOf(cache))
  BY <1>1, FirstName DEF Init
<1>3. /\ config.sub \in {s \in Subscription : Valid(s)} /\ config.inbounds \in BOOLEAN
      /\ config.body \in Bodies(config.sub)
  BY <1>1, DeployedBody DEF Init, Files
<1> QED BY <1>1, <1>2, <1>3 DEF Inv

LEMMA InvInductive == Inv /\ [Next]_vars => Inv'
<1> SUFFICES ASSUME Inv, [Next]_vars PROVE Inv'
  OBVIOUS
<1>1. disk \in Files /\ cache \in Files
  BY DEF Inv
<1>2. CASE Boot
  <2>1. disk' = disk /\ cache' = disk /\ config' = Deployed(disk)
        /\ active' = First(ProfileOf(disk))
    BY <1>2 DEF Boot
  <2>2. active' \in Names(ProfileOf(cache'))
    BY <1>1, <2>1, FirstName
  <2> QED BY <1>1, <2>1, <2>2, DeployedBody DEF Inv, Files
<1>3. CASE Rebootstrap
  <2>1. disk' = disk /\ cache' = cache /\ config' = Deployed(disk)
        /\ active' = First(ProfileOf(cache))
    BY <1>3 DEF Rebootstrap
  <2>2. active' \in Names(ProfileOf(cache'))
    BY <1>1, <2>1, FirstName
  <2> QED BY <1>1, <2>1, <2>2, DeployedBody DEF Inv, Files
<1>4. CASE Update
  <2>1. disk' \in Files
    BY <1>4 DEF Update, Files
  <2> QED BY <1>4, <2>1 DEF Inv, Update
<1>5. CASE Change
  <2>1. PICK n \in Names(ProfileOf(cache)) : Applied(cache, n)
    BY <1>5 DEF Change
  <2>2. disk' = disk /\ cache' = cache
    BY <1>5 DEF Change
  <2> QED BY <1>1, <2>1, <2>2, AppliedBody DEF Inv, Files
<1>6. CASE Reload
  <2>1. /\ disk' = disk /\ cache' = disk
        /\ Applied(disk, IF active \in Names(ProfileOf(disk)) THEN active
                         ELSE First(ProfileOf(disk)))
    BY <1>6 DEF Reload
  <2>2. PICK n \in Names(ProfileOf(disk)) : Applied(disk, n)
    BY <1>1, <2>1, FirstName
  <2> QED BY <1>1, <2>1, <2>2, AppliedBody DEF Inv, Files
<1>7. CASE UNCHANGED vars
  BY <1>7 DEF vars, Inv
<1> QED BY <1>2, <1>3, <1>4, <1>5, <1>6, <1>7 DEF Next

THEOREM InvAlways == Spec => []Inv
  BY InitInv, InvInductive, PTL DEF Spec

-----------------------------------------------------------------------------
(***************************************************************************)
(* What the run checks, for all subscriptions.                             *)
(***************************************************************************)

\* Every variable keeps its type, the active server among the names of the
\* cached catalog and the configuration one of its subscription's servers:
\* _reload_config (machine.py) falls back to a name that there is.
THEOREM TypeCorrect == Spec => []TypeOK
<1>1. Inv => TypeOK
  <2> SUFFICES ASSUME Inv PROVE TypeOK
    OBVIOUS
  <2>1. config.sub \in Subscription
    BY DEF Inv
  <2>2. DOMAIN config.body.shown = config.sub.servers
    BY <2>1, BodyTags DEF Inv
  <2> QED BY <2>2 DEF Inv, TypeOK, Files
<1> QED BY <1>1, InvAlways, PTL

\* normalize_profile, build_singbox_config and sanitize_config: whatever the
\* provider publishes, sing-box starts on what becomes of it exactly if its
\* names survive.
THEOREM RunsOnPlain == Spec => []ConfigRuns
<1>1. Inv => ConfigRuns
  <2> SUFFICES ASSUME Inv PROVE ConfigRuns
    OBVIOUS
  <2>1. config.sub \in Subscription
    BY DEF Inv
  <2> QED BY <2>1, RunsIfPlain DEF Inv, ConfigRuns
<1> QED BY <1>1, InvAlways, PTL

-----------------------------------------------------------------------------
(***************************************************************************)
(* The active server.                                                      *)
(***************************************************************************)

\* Nothing but the group normalises to its tag.
LEMMA GroupOnly ==
  ASSUME NEW s \in Subscription, NEW r \in References(s)
  PROVE  normalize_tag(Renamed(s, r)) = SwitchTag => Renamed(s, r) = SwitchTag
<1>1. CASE r \in s.servers
  BY <1>1, RenamedTag, NormalTags, Subscribed
<1>2. CASE r \notin s.servers
  <2>1. Renamed(s, r) \in {SwitchTag, Direct}
    BY <1>2, RenamedTag DEF Group
  <2> QED BY <2>1, NormalTags
<1> QED BY <1>1, <1>2

\* Sanitizing a list of DNS servers leaves the group what it carries of those
\* that are neither replaced nor dropped.
LEMMA DnsOfGroup ==
  ASSUME NEW dns, \A d \in dns : d.type \in {"udp", "batch", "predefined"}
  PROVE  ViaGroup(SanitizedDns(dns)) = ViaGroup({d \in dns : d.type = "udp"})
<1>1. /\ \A e \in SanitizedDns(dns) : \E d \in dns :
           /\ d.type # "predefined" /\ e.tag = d.tag
           /\ e.detour = IF d.type = "batch" THEN {} ELSE d.detour
      /\ \A d \in dns : d.type # "predefined" =>
           \E e \in SanitizedDns(dns) :
             e.tag = d.tag /\ e.detour = IF d.type = "batch" THEN {} ELSE d.detour
  <2> DEFINE S(d) == [tag    |-> d.tag,
                      type   |-> IF d.type = "batch" THEN "plain" ELSE d.type,
                      detour |-> IF d.type = "batch" THEN {} ELSE d.detour]
  <2>1. SanitizedDns(dns) = {S(d) : d \in {e \in dns : e.type # "predefined"}}
    BY DEF SanitizedDns
  <2>2. \A d \in dns : /\ S(d).tag = d.tag
                      /\ S(d).detour = IF d.type = "batch" THEN {} ELSE d.detour
    OBVIOUS
  <2> HIDE DEF S
  <2> QED BY <2>1, <2>2
<1>2. ASSUME NEW x \in ViaGroup(SanitizedDns(dns))
      PROVE  x \in ViaGroup({d \in dns : d.type = "udp"})
  BY <1>1, <1>2 DEF ViaGroup
<1>3. ASSUME NEW x \in ViaGroup({d \in dns : d.type = "udp"})
      PROVE  x \in ViaGroup(SanitizedDns(dns))
  BY <1>1, <1>3 DEF ViaGroup
<1> QED BY <1>2, <1>3

LEMMA Carries ==
  ASSUME NEW f \in Files, NEW n \in Names(ProfileOf(f)), Applied(f, n),
         NEW p, p = ProfileOf(f), NEW c, c = config'.body, NEW t, t = ServerOf(p, n)
  PROVE  /\ SwitchTag \notin c.rules \cup {c.final}
         /\ SwitchTag \in p.rules => c.shown[t] \in c.rules
         /\ p.final = SwitchTag => c.final = c.shown[t]
         /\ ViaGroup(c.dns) = ViaGroup({d \in p.dns : d.type = "udp"})
<1> DEFINE s == f.sub  q == Pinned(p, t)
<1>1. s \in Subscription /\ p = Normalized(s) /\ p.servers = s.servers
  BY DEF Files, ProfileOf, Normalized
<1>2. t \in s.servers /\ t.label # "urltest_out"
  BY <1>1, Cataloged, Subscribed
<1>3. /\ c.rules = {normalize_tag(r) : r \in q.rules} /\ c.final = normalize_tag(q.final)
      /\ c.shown = [u \in q.servers |-> normalize_tag(u)] /\ c.dns = SanitizedDns(q.dns)
  <2>1. c = Sanitized(q)
    BY AppliedBody
  <2> HIDE DEF q
  <2> QED BY <2>1 DEF Sanitized
<1>4. /\ q.servers = s.servers /\ q.rules = {PinTo(t, r) : r \in p.rules}
      /\ q.final = PinTo(t, p.final) /\ q.dns = p.dns
  BY <1>1, PinnedFields
<1>5. c.shown[t] = normalize_tag(t)
  BY <1>2, <1>3, <1>4
<1>6. ASSUME NEW r \in p.rules \cup {p.final}
      PROVE  normalize_tag(PinTo(t, r)) # SwitchTag
  <2>1. CASE r = SwitchTag
    BY <1>2, <2>1, NormalTags DEF PinTo
  <2>2. CASE r # SwitchTag
    <3>1. p.rules = {Renamed(s, x) : x \in s.rules} /\ p.final = Renamed(s, s.final)
      BY <1>1 DEF Normalized
    <3>2. s.rules \cup {s.final} \subseteq References(s)
      BY DEF References
    <3>3. PICK x \in References(s) : r = Renamed(s, x)
      BY <3>1, <3>2
    <3> QED BY <1>1, <2>2, <3>3, GroupOnly DEF PinTo
  <2> QED BY <2>1, <2>2
<1>7. SwitchTag \notin c.rules \cup {c.final}
  BY <1>3, <1>4, <1>6
<1>8. SwitchTag \in p.rules => c.shown[t] \in c.rules
  <2>1. PinTo(t, SwitchTag) = t
    BY DEF PinTo
  <2> QED BY <1>3, <1>4, <1>5, <2>1
<1>9. p.final = SwitchTag => c.final = c.shown[t]
  BY <1>3, <1>4, <1>5 DEF PinTo
<1>10. ViaGroup(c.dns) = ViaGroup({d \in p.dns : d.type = "udp"})
  <2>1. \A d \in p.dns : d.type \in {"udp", "batch", "predefined"}
    BY <1>1, Subscribed DEF Normalized
  <2>2. c.dns = SanitizedDns(p.dns)
    BY <1>3, <1>4
  <2> QED BY <2>1, <2>2, DnsOfGroup
<1> QED BY <1>7, <1>8, <1>9, <1>10

\* The name that a reload applies.
LEMMA Reloaded ==
  ASSUME Inv, Reload
  PROVE  /\ disk \in Files /\ cache' = disk /\ active' \in Names(ProfileOf(disk))
         /\ Applied(disk, active')
         /\ active \in Names(ProfileOf(disk)) => active' = active
<1> DEFINE n == IF active \in Names(ProfileOf(disk)) THEN active ELSE First(ProfileOf(disk))
<1>1. disk \in Files /\ cache' = disk /\ Applied(disk, n)
  BY DEF Inv, Reload
<1>2. n \in Names(ProfileOf(disk))
  BY <1>1, FirstName
<1>3. active' = n
  BY <1>1, <1>2, AppliedBody
<1> QED BY <1>1, <1>2, <1>3

\* A server change or a reload (_apply_server, machine.py) pins the server
\* whose name becomes the active one, in the rules and in route.final; only the
\* detours of DNS servers stay with the group, as build_singbox_config leaves them.
THEOREM ActiveServerCarries == Spec => ActiveCarries
<1>1. ASSUME Inv, Change \/ Reload
      PROVE  LET p == ProfileOf(cache')
                 c == config'.body
                 t == ServerOf(p, active')
             IN  /\ SwitchTag \notin c.rules \cup {c.final}
                 /\ SwitchTag \in p.rules => c.shown[t] \in c.rules
                 /\ p.final = SwitchTag => c.final = c.shown[t]
                 /\ ViaGroup(c.dns) = ViaGroup({d \in p.dns : d.type = "udp"})
  <2>1. PICK f \in Files : /\ cache' = f /\ active' \in Names(ProfileOf(f))
                           /\ Applied(f, active')
    <3>1. CASE Reload
      BY <1>1, <3>1, Reloaded
    <3>2. CASE Change
      <4>1. PICK n \in Names(ProfileOf(cache)) : Applied(cache, n)
        BY <3>2 DEF Change
      <4> QED BY <1>1, <3>2, <4>1, AppliedBody DEF Change, Inv
    <3> QED BY <1>1, <3>1, <3>2
  <2> QED BY <2>1, Carries
<1>2. Inv /\ [Next]_vars =>
        [UNCHANGED disk /\ (Change \/ Reload) =>
           LET p == ProfileOf(cache')
               c == config'.body
               t == ServerOf(p, active')
           IN  /\ SwitchTag \notin c.rules \cup {c.final}
               /\ SwitchTag \in p.rules => c.shown[t] \in c.rules
               /\ p.final = SwitchTag => c.final = c.shown[t]
               /\ ViaGroup(c.dns) = ViaGroup({d \in p.dns : d.type = "udp"})]_vars
  BY <1>1
<1> QED BY <1>2, InvAlways, PTL DEF ActiveCarries, Spec

\* A catalog finds a server again by its name, if its namesakes are the same
\* and told apart by their countries.
LEMMA FoundAgain ==
  ASSUME NEW f \in Files, NEW p, NEW q, q = ProfileOf(f), NEW t \in q.servers,
         Namesakes(p, t) = Namesakes(q, t), Apart(p, t)
  PROVE  /\ Name(q, t) = Name(p, t) /\ Name(q, t) \in Names(q)
         /\ ServerOf(q, Name(q, t)) = t
<1>1. Name(q, t) = Name(p, t) /\ Name(q, t) \in Names(q)
  BY DEF Name, Names
<1> DEFINE u == ServerOf(q, Name(q, t))
<1>2. u \in q.servers /\ Name(q, u) = Name(q, t)
  BY <1>1, Cataloged
<1>3. Base[u.label] = Base[t.label]
  BY <1>2 DEF Name
<1>4. Namesakes(q, u) = Namesakes(q, t) /\ u \in Namesakes(q, t) /\ t \in Namesakes(q, t)
  BY <1>2, <1>3 DEF Namesakes
<1>5. CASE Cardinality(Namesakes(q, t)) > 1
  <2>1. Country(u) = Country(t)
    BY <1>2, <1>4, <1>5 DEF Name
  <2> QED BY <1>1, <1>4, <2>1 DEF Apart
<1>6. CASE ~(Cardinality(Namesakes(q, t)) > 1)
  <2>1. IsFiniteSet(Namesakes(q, t))
    <3>1. IsFiniteSet(q.servers)
      BY Subscribed DEF Files, ProfileOf, Normalized
    <3>2. Namesakes(q, t) \in SUBSET q.servers
      BY DEF Namesakes
    <3> QED BY <3>1, <3>2, FS_Subset
  <2>2. Cardinality(Namesakes(q, t)) \in Nat /\ Cardinality(Namesakes(q, t)) # 0
    BY <1>4, <2>1, FS_CardinalityType, FS_EmptySet
  <2>3. Cardinality(Namesakes(q, t)) = 1
    BY <1>6, <2>2
  <2>4. \E x : Namesakes(q, t) = {x}
    BY <2>1, <2>3, FS_Singleton
  <2> QED BY <1>1, <1>4, <2>4
<1> QED BY <1>5, <1>6

\* config.reload stays on the server that was active, for any two
\* subscriptions that tell it from its namesakes alike.
THEOREM ActiveServerKept == Spec => Kept
<1>1. ASSUME Inv, Reload,
             LET p == ProfileOf(cache)
                 q == ProfileOf(disk)
                 t == ServerOf(p, active)
             IN  t \in q.servers /\ Namesakes(p, t) = Namesakes(q, t) /\ Apart(p, t)
      PROVE  ServerOf(ProfileOf(disk), active') = ServerOf(ProfileOf(cache), active)
  <2> DEFINE p == ProfileOf(cache)  q == ProfileOf(disk)  t == ServerOf(p, active)
  <2>1. Name(p, t) = active
    BY <1>1, Cataloged DEF Inv
  <2>2. disk \in Files
    BY <1>1 DEF Inv
  <2>3. Name(q, t) = active /\ active \in Names(q) /\ ServerOf(q, active) = t
    BY <1>1, <2>1, <2>2, FoundAgain
  <2>4. active' = active
    BY <1>1, <2>3, Reloaded
  <2> QED BY <2>3, <2>4
<1>2. Inv /\ [Next]_vars =>
        [UNCHANGED disk /\ Reload =>
           LET p == ProfileOf(cache)
               q == ProfileOf(disk)
               t == ServerOf(p, active)
           IN  t \in q.servers /\ Namesakes(p, t) = Namesakes(q, t) /\ Apart(p, t)
                 => ServerOf(q, active') = t]_vars
  BY <1>1
<1> QED BY <1>2, InvAlways, PTL DEF Kept, Spec

=============================================================================
