-------------------------- MODULE MCProviderProfile --------------------------
(***************************************************************************)
(* Subscriptions for ProviderProfile: up to three servers of one base      *)
(* name, two of which share a country and two all but the flag, without or *)
(* with one of another name; and one that is the direct outbound but for   *)
(* its flag.  They come with no group, one, or a selector around it, and   *)
(* with DNS servers of one type behind each server and behind the group.   *)
(***************************************************************************)
EXTENDS ProviderProfile

McLabel ==
  {"urltest_out", "direct", "auto", "proxy", "zonda", "zonda - germany", "yauk"}
McBase ==
  [l \in McLabel |-> IF l = "zonda - germany" THEN "zonda" ELSE l]
McPlace == [l \in McLabel |-> IF l = "zonda - germany" THEN "de" ELSE ""]

Zondas == {Tag("de", "zonda"), Tag("fr", "zonda"), Tag("", "zonda - germany")}
Yauk   == Tag("jp", "yauk")
ServerSets ==
  SUBSET Zondas
    \cup {{Yauk}, {Yauk, Tag("de", "zonda")}, {Yauk} \cup Zondas,
          {Tag("de", "direct")}}

Auto == Tag("xx", "auto")
Groups(S) ==
  { << >>,
    << [tag |-> Auto, members |-> S] >>,
    << [tag |-> Tag("", "proxy"), members |-> S \cup {Auto}],
       [tag |-> Auto, members |-> S] >> }

\* A DNS server behind each outbound, of one type; and a predefined one.
Behind(S, type) == {[tag |-> t, type |-> type, detour |-> {t}] : t \in S}
Blocked == [tag |-> Tag("", "blocked"), type |-> "predefined", detour |-> {}]
Dns(S) == {Behind(S, "udp"), Behind(S, "batch") \cup {Blocked}}

Published(S, g) ==
  LET first == IF g = << >> THEN Direct ELSE g[1].tag
  IN  UNION {[servers : {S}, groups : {g}, final : {first},
              rules : {S \cup {first, Direct}}, dns : {dns},
              asked : {DnsTags([dns |-> dns]), DnsTags([dns |-> dns]) \ {Blocked.tag}}] :
                dns \in Dns(S \cup ({first} \ {Direct}))}

McSubscription ==
  UNION {UNION {Published(S, g) : g \in Groups(S)} :
           S \in ServerSets}
=============================================================================
