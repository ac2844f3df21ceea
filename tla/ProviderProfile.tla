--------------------------- MODULE ProviderProfile ---------------------------
(***************************************************************************)
(* What becomes of a subscription's names on the way to sing-box: the      *)
(* merge that renames its auto-select group (core/subscription.py), the    *)
(* catalog that gives its servers the names the CLI knows                  *)
(* (adapters/akonit/catalog.py), and the configuration in which one of     *)
(* them is pinned and every tag is normalised (adapters/akonit/provider.py,*)
(* core/server_manager).  An outbound is referred to by its tag only, from *)
(* rules, route.final, group members and the `detour` of DNS servers, and  *)
(* a DNS server from the DNS rules; sing-box starts on a configuration in  *)
(* which every reference means one outbound, or one DNS server.            *)
(*                                                                         *)
(* Every operation is one step here: ServerSwitch has what comes between.  *)
(***************************************************************************)
EXTENDS Naturals, FiniteSets, Sequences

CONSTANTS
  Label,         \* what is left of a tag without emoji and advertisement
  Base,          \* [Label -> its first word as an ascii slug]
  Place,         \* [Label -> the country it ends in, "" if it names none]
  Subscription,  \* profiles the provider may publish
  Faults,        \* what may go wrong
  OneBehind      \* bound: once a bootstrap has deployed what the cache has not,
                 \* no other update comes before the next reload

\* A tag: a label, with the flag of a country or none ("") in front.
Tag(flag, label) == [flag |-> flag, label |-> label]
SwitchTag == Tag("", "urltest_out")
Direct    == Tag("", "direct")

GroupTags(s) == {s.groups[i].tag : i \in DOMAIN s.groups}
\* Every tag that something of a profile, or a configuration, refers to.
References(s) ==
  s.rules \cup {s.final}
  \cup (UNION {d.detour : d \in s.dns})
  \cup (UNION {s.groups[i].members : i \in DOMAIN s.groups})
DnsTags(s) == {d.tag : d \in s.dns}

ASSUME LabelAssumption ==
  /\ {"urltest_out", "direct"} \subseteq Label
  /\ DOMAIN Base = Label /\ DOMAIN Place = Label
\* What the provider publishes is a configuration of its own: tags differ,
\* references are to tags, and no group is its own member.  SWITCH_TAG is the
\* group's alone, emoji aside.
ASSUME SubscriptionAssumption ==
  \A s \in Subscription :
    /\ DOMAIN s = {"servers", "groups", "rules", "final", "dns", "asked"}
    /\ IsFiniteSet(s.servers) /\ \A t \in s.servers : t.label # SwitchTag.label
    /\ s.groups \in Seq({s.groups[i] : i \in DOMAIN s.groups})
    /\ GroupTags(s) \cap (s.servers \cup {Direct}) = {} /\ Direct \notin s.servers
    /\ \A i \in DOMAIN s.groups : s.groups[i].tag \notin s.groups[i].members
    /\ References(s) \subseteq s.servers \cup GroupTags(s) \cup {Direct}
    /\ \A d \in s.dns : d.type \in {"udp", "batch", "predefined"}
    /\ \A d, e \in s.dns : d.tag = e.tag => d = e
    /\ s.asked \subseteq DnsTags(s)
ASSUME FaultsAssumption == Faults \subseteq {"baseline"}
ASSUME BoundAssumption  == OneBehind \in BOOLEAN

VARIABLES
  disk,     \* the subscription the profile's file was made of, and whether
            \* the baseline gave it inbounds
  cache,    \* the same of the provider's cached profile
  config,   \* the configuration sing-box runs on, with the subscription and
            \* the inbounds of the file it was made of
  active    \* ctx.active_server

vars == <<disk, cache, config, active>>

-----------------------------------------------------------------------------
(***************************************************************************)
(* core/subscription.py.                                                   *)
(***************************************************************************)

\* validate_profile: outbounds, one of them a vless server.
Valid(s) == s.servers # {}

\* _replace_refs, with the old tag of each group: it reaches every value of an
\* object, but no string in a list, which members are.
Renamed(s, t) == IF t \in GroupTags(s) THEN SwitchTag ELSE t

\* The groups become the one the switcher expects.
Normalized(s) ==
  [servers |-> s.servers,
   groups  |-> [i \in DOMAIN s.groups |->
                 [tag |-> SwitchTag, members |-> s.groups[i].members]],
   rules   |-> {Renamed(s, t) : t \in s.rules},
   final   |-> Renamed(s, s.final),
   dns     |-> {[tag |-> d.tag, type |-> d.type,
                 detour |-> {Renamed(s, t) : t \in d.detour}] : d \in s.dns},
   asked   |-> s.asked]

-----------------------------------------------------------------------------
(***************************************************************************)
(* adapters/akonit/catalog.py.                                             *)
(***************************************************************************)
normalize_tag(t) == Tag("", t.label)

Country(t) == IF t.flag # "" THEN t.flag ELSE Place[t.label]

Namesakes(p, t) == {u \in p.servers : Base[u.label] = Base[t.label]}

\* <<base, "">> is the name base, <<base, country>> is base_country.
Name(p, t) ==
  <<Base[t.label], IF Cardinality(Namesakes(p, t)) > 1 THEN Country(t) ELSE "">>

Names(p) == {Name(p, t) : t \in p.servers}

\* get_server: the first of the catalog with the name.
ServerOf(p, n) == CHOOSE t \in p.servers : Name(p, t) = n

-----------------------------------------------------------------------------
(***************************************************************************)
(* adapters/akonit/provider.py.  The outbounds of a configuration keep     *)
(* their tags in the profile, to tell those apart that got the same one.   *)
(***************************************************************************)

\* Predefined DNS servers go; a batch one becomes a plain one, without detour.
SanitizedDns(dns) ==
  {[tag    |-> d.tag,
    type   |-> IF d.type = "batch" THEN "plain" ELSE d.type,
    detour |-> IF d.type = "batch" THEN {} ELSE d.detour] :
     d \in {e \in dns : e.type # "predefined"}}

\* Mutant: references in rules are left as they are.
SanitizedNotRules(p) ==
  [shown   |-> [t \in p.servers |-> normalize_tag(t)],
   groups  |-> [i \in DOMAIN p.groups |->
                 [tag     |-> normalize_tag(p.groups[i].tag),
                  members |-> {normalize_tag(t) : t \in p.groups[i].members}]],
   rules   |-> p.rules,
   final   |-> normalize_tag(p.final),
   dns     |-> SanitizedDns(p.dns),
   asked   |-> p.asked]

\* sanitize_config: tags and references lose their emoji, but for detours.
Sanitized(p) ==
  [shown   |-> [t \in p.servers |-> normalize_tag(t)],
   groups  |-> [i \in DOMAIN p.groups |->
                 [tag     |-> normalize_tag(p.groups[i].tag),
                  members |-> {normalize_tag(t) : t \in p.groups[i].members}]],
   rules   |-> {normalize_tag(t) : t \in p.rules},
   final   |-> normalize_tag(p.final),
   dns     |-> SanitizedDns(p.dns),
   asked   |-> p.asked]

PinTo(t, r) == IF r = SwitchTag THEN t ELSE r

\* Mutant: route.final is left to the group.
PinnedRules(p, t) ==
  [servers |-> p.servers, groups |-> p.groups, dns |-> p.dns, asked |-> p.asked,
   rules   |-> {PinTo(t, r) : r \in p.rules}, final |-> p.final]

\* Rules and route.final that go to the group go to the server t; DNS servers
\* with a detour to the group keep it.
Pinned(p, t) ==
  [servers |-> p.servers, groups |-> p.groups, dns |-> p.dns, asked |-> p.asked,
   rules   |-> {PinTo(t, r) : r \in p.rules}, final |-> PinTo(t, p.final)]

-----------------------------------------------------------------------------
(***************************************************************************)
(* `vpn config update`, the daemon's start, and its requests.              *)
(***************************************************************************)
ProfileOf(file) == Normalized(file.sub)

Conf(file, body) ==
  [sub |-> file.sub, inbounds |-> file.inbounds, body |-> body]

\* The name the catalog sorts first.
First(p) == CHOOSE n \in Names(p) : TRUE

\* bootstrap: deploy() leaves the choice to the group, and the first server of
\* the catalog counts as the active one.
Deployed(file) == Conf(file, Sanitized(ProfileOf(file)))

Init ==
  /\ disk \in [sub : {s \in Subscription : Valid(s)}, inbounds : {TRUE}]
  /\ cache = disk /\ config = Deployed(disk) /\ active = First(ProfileOf(disk))

\* A new process deploys and reads what is on disk.
Boot ==
  /\ cache' = disk /\ config' = Deployed(disk) /\ active' = First(ProfileOf(disk))
  /\ UNCHANGED disk

\* Another bootstrap of the same process, as after a stop and a start: deploy()
\* reads what is on disk, list_servers() the cached profile.
Rebootstrap ==
  /\ config' = Deployed(disk) /\ active' = First(ProfileOf(cache))
  /\ UNCHANGED <<disk, cache>>

\* SubscriptionUpdater.apply: an invalid payload changes nothing, and an
\* unreadable baseline counts as an empty one.
Update ==
  /\ \E s \in Subscription :
       /\ Valid(s) /\ (OneBehind => config.sub \in {s, cache.sub})
       /\ disk' \in [sub : {s}, inbounds : IF "baseline" \in Faults THEN BOOLEAN ELSE {TRUE}]
  /\ UNCHANGED <<cache, config, active>>

\* _apply_server with the profile of the file f.
Applied(f, n) ==
  /\ active' = n
  /\ config' = Conf(f, Sanitized(Pinned(ProfileOf(f), ServerOf(ProfileOf(f), n))))

\* server.change: any other name is refused.
Change ==
  /\ \E n \in Names(ProfileOf(cache)) : Applied(cache, n)
  /\ UNCHANGED <<disk, cache>>

\* Mutant: the name is kept without a look at the new catalog.
ReloadKeepsName ==
  /\ cache' = disk
  /\ active' = active
  /\ config' = Deployed(disk)
  /\ UNCHANGED disk

\* Mutant: the active server is not kept.
ReloadFirst ==
  /\ cache' = disk
  /\ Applied(disk, First(ProfileOf(disk)))
  /\ UNCHANGED disk

\* config.reload: the active server is kept if the catalog still has its name.
Reload ==
  /\ cache' = disk
  /\ Applied(disk, IF active \in Names(ProfileOf(disk)) THEN active
                   ELSE First(ProfileOf(disk)))
  /\ UNCHANGED disk

Next == Boot \/ Rebootstrap \/ Update \/ Change \/ Reload

Spec == Init /\ [][Next]_vars

-----------------------------------------------------------------------------
(***************************************************************************)
(* Properties.                                                             *)
(***************************************************************************)

\* Every variable has its type.
TypeOK ==
  /\ {disk, cache} \subseteq [sub : {s \in Subscription : Valid(s)}, inbounds : BOOLEAN]
  /\ active \in Names(ProfileOf(cache))
  /\ config.sub \in {s \in Subscription : Valid(s)} /\ config.inbounds \in BOOLEAN
  /\ DOMAIN config.body.shown = config.sub.servers

\* sing-box starts: no two outbounds have the same tag, and each reference is
\* the tag of one, or that of a DNS server.
Runs(c) ==
  LET tags == {c.shown[t] : t \in DOMAIN c.shown} \cup GroupTags(c) \cup {Direct}
  IN  /\ Cardinality(tags) = Cardinality(DOMAIN c.shown) + Len(c.groups) + 1
      /\ References(c) \subseteq tags /\ c.asked \subseteq DnsTags(c)

\* Subscriptions whose names survive: one group at most, which no other group
\* has as a member; servers that differ in more than their emoji, from each
\* other and from the direct outbound; no DNS server (but a batch one) with a
\* detour through a server with emoji; and no DNS rule that asks a predefined one.
Plain(s) ==
  /\ Len(s.groups) <= 1
  /\ \A t, u \in s.servers : normalize_tag(t) = normalize_tag(u) => t = u
  /\ \A t \in s.servers : t.label # Direct.label
  /\ \A d \in s.dns :
       CASE d.type = "udp"        -> \A t \in d.detour \cap s.servers : normalize_tag(t) = t
         [] d.type = "predefined" -> d.tag \notin s.asked
         [] OTHER                 -> TRUE

\* Whatever updates, reloads, server changes and starts came before, sing-box
\* starts on the configuration it was given if, and only if, the subscription
\* behind it is a plain one: merging, pinning and normalising lose no other
\* reference and confuse no other names.
ConfigRuns == Runs(config.body) <=> Plain(config.sub)

\* The DNS servers whose queries the group carries.
ViaGroup(dns) == {d.tag : d \in {e \in dns : SwitchTag \in e.detour}}

\* What the profile's rules and route.final leave to its auto-select group goes,
\* after a server change or a reload, to the server the CLI shows as active and
\* to no other: the name in the catalog and the tag in the configuration mean
\* the same one.  What the group still carries is DNS: the queries to servers
\* that are kept and have their detour there, not one more and not one less.
ActiveCarries ==
  [][UNCHANGED disk /\ (Change \/ Reload) =>
       LET p == ProfileOf(cache')
           c == config'.body
           t == ServerOf(p, active')
       IN  /\ SwitchTag \notin c.rules \cup {c.final}
           /\ SwitchTag \in p.rules => c.shown[t] \in c.rules
           /\ p.final = SwitchTag => c.final = c.shown[t]
           /\ ViaGroup(c.dns) = ViaGroup({d \in p.dns : d.type = "udp"})]_vars

\* Servers the catalog can tell apart.
Apart(p, t) == \A u, v \in Namesakes(p, t) : Country(u) = Country(v) => u = v

\* A reload stays on the server that was active if the new profile has it,
\* wherever the list moved it and whatever other servers came and went, unless
\* one of its own base name did (which renames it).
Kept ==
  [][UNCHANGED disk /\ Reload =>
       LET p == ProfileOf(cache)
           q == ProfileOf(disk)
           t == ServerOf(p, active)
       IN  t \in q.servers /\ Namesakes(p, t) = Namesakes(q, t) /\ Apart(p, t)
             => ServerOf(q, active') = t]_vars

\* "the group and every reference to it must use that tag" (subscription.py:77).
ReferencesRenamed ==
  (GroupTags(disk.sub) \ {SwitchTag}) \cap References(ProfileOf(disk)) = {}

\* "Our container needs its own inbounds", so the subscription is merged onto
\* a baseline (subscription.py:3).
Listens == config.inbounds
=============================================================================
