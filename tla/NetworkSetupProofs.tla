------------------------- MODULE NetworkSetupProofs -------------------------
(***************************************************************************)
(* Theorems about NetworkSetup, for any servers, DNS servers, LAN subnets, *)
(* destinations, faults and number of bootstraps that overlap.  The        *)
(* invariants speak of the host; what makes them inductive speaks of the   *)
(* commands still to run: whatever is not yet as the job will leave it has *)
(* its command in todo, in front of those that rely on it.                 *)
(***************************************************************************)
EXTENDS NetworkSetup, FiniteSetTheorems, TLAPS

-----------------------------------------------------------------------------
(***************************************************************************)
(* Sequences of commands.                                                  *)
(***************************************************************************)

\* No command of B runs before one of A; with A = B, at most one of them is
\* there.
Before(A, B, s) ==
  \A i, j \in DOMAIN s : s[i] \in A /\ s[j] \in B => i =< j

AddMain(p, x) == Cmd("rule-add", Rule(p, x, "main"))
DelTo(x)      == Cmd("rule-del-to", x)

\* After the rule to a destination is deleted, one in front of WireGuard's is
\* added.
Followed(s) ==
  \A i \in DOMAIN s : \A x \in Address :
    s[i] = DelTo(x) =>
      \E j \in DOMAIN s, p \in 1 .. WireGuardPrio - 1 : i < j /\ s[j] = AddMain(p, x)

LEMMA EmptySet == ToSet(<< >>) = {}
  BY DEF ToSet

LEMMA StepSet ==
  ASSUME NEW S, NEW s \in Seq(S), s # << >>
  PROVE  /\ Head(s) \in S /\ Tail(s) \in Seq(S)
         /\ ToSet(s) = {Head(s)} \cup ToSet(Tail(s))
<1>1. Head(s) \in S /\ Tail(s) \in Seq(S) /\ Head(s) = s[1]
  OBVIOUS
<1>2. \A i \in DOMAIN s : i = 1 \/ (i - 1 \in DOMAIN Tail(s) /\ Tail(s)[i - 1] = s[i])
  OBVIOUS
<1>3. \A i \in DOMAIN Tail(s) : i + 1 \in DOMAIN s /\ Tail(s)[i] = s[i + 1]
  OBVIOUS
<1>4. 1 \in DOMAIN s
  OBVIOUS
<1>5. ASSUME NEW x \in ToSet(s)
      PROVE  x = Head(s) \/ x \in ToSet(Tail(s))
  <2>1. PICK i \in DOMAIN s : x = s[i]
    BY <1>5 DEF ToSet
  <2>2. CASE i - 1 \in DOMAIN Tail(s) /\ Tail(s)[i - 1] = s[i]
    BY <2>1, <2>2 DEF ToSet
  <2> QED BY <2>1, <2>2, <1>1, <1>2
<1>6. ASSUME NEW x \in ToSet(Tail(s))
      PROVE  x \in ToSet(s)
  BY <1>3, <1>6 DEF ToSet
<1>7. Head(s) \in ToSet(s)
  BY <1>1, <1>4 DEF ToSet
<1> QED BY <1>1, <1>5, <1>6, <1>7

LEMMA StepBefore ==
  ASSUME NEW S, NEW s \in Seq(S), s # << >>, NEW A, NEW B, Before(A, B, s)
  PROVE  /\ Before(A, B, Tail(s))
         /\ Head(s) \in B => ToSet(Tail(s)) \cap A = {}
<1>1. \A i \in DOMAIN Tail(s) :
        i \in Nat \ {0} /\ i + 1 \in DOMAIN s /\ Tail(s)[i] = s[i + 1]
  OBVIOUS
<1>2. 1 \in DOMAIN s /\ Head(s) = s[1]
  OBVIOUS
<1>3. Before(A, B, Tail(s))
  BY <1>1 DEF Before
<1>4. ASSUME Head(s) \in B, NEW i \in DOMAIN Tail(s), Tail(s)[i] \in A
      PROVE  FALSE
  <2>1. i + 1 =< 1
    BY <1>1, <1>2, <1>4 DEF Before
  <2> QED BY <2>1, <1>1
<1> QED BY <1>3, <1>4 DEF ToSet

LEMMA StepFollowed ==
  ASSUME NEW S, NEW s \in Seq(S), s # << >>, Followed(s)
  PROVE  /\ Followed(Tail(s))
         /\ \A x \in Address : Head(s) = DelTo(x) =>
              \E p \in 1 .. 7 : AddMain(p, x) \in ToSet(Tail(s))
<1>1. \A i \in DOMAIN Tail(s) :
        i \in Nat \ {0} /\ i + 1 \in DOMAIN s /\ Tail(s)[i] = s[i + 1]
  OBVIOUS
<1>2. \A i \in DOMAIN s : i > 1 => i - 1 \in DOMAIN Tail(s) /\ Tail(s)[i - 1] = s[i]
  OBVIOUS
<1>3. 1 \in DOMAIN s /\ Head(s) = s[1] /\ DOMAIN s \subseteq Nat
  OBVIOUS
<1>4. ASSUME NEW i \in DOMAIN Tail(s), NEW x \in Address, Tail(s)[i] = DelTo(x)
      PROVE  \E j \in DOMAIN Tail(s), p \in 1 .. 7 : i < j /\ Tail(s)[j] = AddMain(p, x)
  <2>1. PICK j \in DOMAIN s, p \in 1 .. 7 : i + 1 < j /\ s[j] = AddMain(p, x)
    BY <1>1, <1>4 DEF Followed, WireGuardPrio
  <2>2. j - 1 \in DOMAIN Tail(s) /\ Tail(s)[j - 1] = AddMain(p, x) /\ i < j - 1
    BY <2>1, <1>1, <1>2, <1>3
  <2> QED BY <2>2
<1>5. ASSUME NEW x \in Address, Head(s) = DelTo(x)
      PROVE  \E p \in 1 .. 7 : AddMain(p, x) \in ToSet(Tail(s))
  <2>1. PICK j \in DOMAIN s, p \in 1 .. 7 : 1 < j /\ s[j] = AddMain(p, x)
    BY <1>3, <1>5 DEF Followed, WireGuardPrio
  <2>2. j - 1 \in DOMAIN Tail(s) /\ Tail(s)[j - 1] = AddMain(p, x)
    BY <2>1, <1>2, <1>3
  <2> QED BY <2>2 DEF ToSet
<1>6. Followed(Tail(s))
  BY <1>4 DEF Followed, WireGuardPrio
<1> QED BY <1>5, <1>6

LEMMA ConcatSet ==
  ASSUME NEW S, NEW s \in Seq(S), NEW t \in Seq(S)
  PROVE  s \o t \in Seq(S) /\ ToSet(s \o t) = ToSet(s) \cup ToSet(t)
<1>1. s \o t \in Seq(S)
  OBVIOUS
<1>2. \A i \in DOMAIN (s \o t) :
        \/ i \in DOMAIN s /\ (s \o t)[i] = s[i]
        \/ i - Len(s) \in DOMAIN t /\ (s \o t)[i] = t[i - Len(s)]
  OBVIOUS
<1>3. \A i \in DOMAIN s : i \in DOMAIN (s \o t) /\ (s \o t)[i] = s[i]
  OBVIOUS
<1>4. \A i \in DOMAIN t : i + Len(s) \in DOMAIN (s \o t) /\ (s \o t)[i + Len(s)] = t[i]
  OBVIOUS
<1>5. ASSUME NEW x \in ToSet(s \o t)
      PROVE  x \in ToSet(s) \cup ToSet(t)
  <2>1. PICK i \in DOMAIN (s \o t) : x = (s \o t)[i]
    BY <1>5 DEF ToSet
  <2>2. CASE i \in DOMAIN s /\ (s \o t)[i] = s[i]
    BY <2>1, <2>2 DEF ToSet
  <2>3. CASE i - Len(s) \in DOMAIN t /\ (s \o t)[i] = t[i - Len(s)]
    BY <2>1, <2>3 DEF ToSet
  <2> QED BY <2>2, <2>3, <1>2
<1>6. ASSUME NEW x \in ToSet(s) \cup ToSet(t)
      PROVE  x \in ToSet(s \o t)
  <2>1. CASE x \in ToSet(s)
    BY <2>1, <1>3 DEF ToSet
  <2>2. CASE x \in ToSet(t)
    BY <2>2, <1>4 DEF ToSet
  <2> QED BY <2>1, <2>2, <1>6
<1> QED BY <1>1, <1>5, <1>6

LEMMA ConcatBefore ==
  ASSUME NEW S, NEW s \in Seq(S), NEW t \in Seq(S), NEW A, NEW B,
         Before(A, B, s), Before(A, B, t),
         ToSet(s) \cap B = {} \/ ToSet(t) \cap A = {}
  PROVE  Before(A, B, s \o t)
<1>1. \A i \in DOMAIN (s \o t) :
        \/ i \in DOMAIN s /\ (s \o t)[i] = s[i]
        \/ i - Len(s) \in DOMAIN t /\ i > Len(s) /\ (s \o t)[i] = t[i - Len(s)]
  OBVIOUS
<1>2. \A i \in DOMAIN s : i \in Nat /\ i =< Len(s) /\ s[i] \in ToSet(s)
  BY DEF ToSet
<1>3. \A i \in DOMAIN t : t[i] \in ToSet(t)
  BY DEF ToSet
<1>4. DOMAIN (s \o t) \subseteq Nat /\ Len(s) \in Nat
  OBVIOUS
<1>5. ASSUME NEW i \in DOMAIN (s \o t), NEW j \in DOMAIN (s \o t),
             (s \o t)[i] \in A, (s \o t)[j] \in B
      PROVE  i =< j
  <2>1. CASE i \in DOMAIN s /\ (s \o t)[i] = s[i]
    BY <2>1, <1>1, <1>2, <1>4, <1>5 DEF Before
  <2>2. CASE i - Len(s) \in DOMAIN t /\ i > Len(s) /\ (s \o t)[i] = t[i - Len(s)]
    <3>1. ToSet(s) \cap B = {}
      BY <2>2, <1>3, <1>5
    <3>2. j - Len(s) \in DOMAIN t /\ (s \o t)[j] = t[j - Len(s)]
      BY <3>1, <1>1, <1>2, <1>5
    <3>3. i - Len(s) =< j - Len(s)
      BY <2>2, <3>2, <1>5 DEF Before
    <3> QED BY <3>3, <1>4
  <2> QED BY <2>1, <2>2, <1>1, <1>5
<1> QED BY <1>5 DEF Before

LEMMA ConcatFollowed ==
  ASSUME NEW S, NEW s \in Seq(S), NEW t \in Seq(S), Followed(s), Followed(t)
  PROVE  Followed(s \o t)
<1>1. \A i \in DOMAIN (s \o t) :
        \/ i \in DOMAIN s /\ (s \o t)[i] = s[i]
        \/ i - Len(s) \in DOMAIN t /\ (s \o t)[i] = t[i - Len(s)]
  OBVIOUS
<1>2. \A i \in DOMAIN s : i \in DOMAIN (s \o t) /\ (s \o t)[i] = s[i]
  OBVIOUS
<1>3. \A i \in DOMAIN t : i + Len(s) \in DOMAIN (s \o t) /\ (s \o t)[i + Len(s)] = t[i]
  OBVIOUS
<1>4. DOMAIN (s \o t) \subseteq Nat /\ Len(s) \in Nat /\ DOMAIN t \subseteq Nat
  OBVIOUS
<1>5. ASSUME NEW i \in DOMAIN (s \o t), NEW x \in Address, (s \o t)[i] = DelTo(x)
      PROVE  \E j \in DOMAIN (s \o t), p \in 1 .. 7 : i < j /\ (s \o t)[j] = AddMain(p, x)
  <2>1. CASE i \in DOMAIN s /\ (s \o t)[i] = s[i]
    <3>1. PICK j \in DOMAIN s, p \in 1 .. 7 : i < j /\ s[j] = AddMain(p, x)
      BY <2>1, <1>5 DEF Followed, WireGuardPrio
    <3> QED BY <3>1, <1>2
  <2>2. CASE i - Len(s) \in DOMAIN t /\ (s \o t)[i] = t[i - Len(s)]
    <3>1. PICK j \in DOMAIN t, p \in 1 .. 7 : i - Len(s) < j /\ t[j] = AddMain(p, x)
      BY <2>2, <1>5 DEF Followed, WireGuardPrio
    <3>2. i < j + Len(s)
      BY <3>1, <1>4
    <3> QED BY <3>1, <3>2, <1>3
  <2> QED BY <2>1, <2>2, <1>1
<1> QED BY <1>5 DEF Followed, WireGuardPrio

\* Suffixes, index by index from the end.
LEMMA PrefixIndex ==
  ASSUME NEW S, NEW s \in Seq(S), NEW t \in Seq(S)
  PROVE  IsPrefix(s, t) <=> Len(s) =< Len(t) /\ \A i \in 1 .. Len(s) : s[i] = t[i]
<1>1. SubSeq(s, 1, Len(s)) = s
  OBVIOUS
<1>2. Len(s) =< Len(t) => /\ SubSeq(t, 1, Len(s)) \in Seq(S)
                          /\ Len(SubSeq(t, 1, Len(s))) = Len(s)
                          /\ \A i \in 1 .. Len(s) : SubSeq(t, 1, Len(s))[i] = t[i]
  OBVIOUS
<1> DEFINE u == SubSeq(t, 1, Len(s))
<1> HIDE DEF u
<1>3. Len(s) =< Len(t) => (s = u <=> \A i \in 1 .. Len(s) : s[i] = u[i])
  BY <1>2 DEF u
<1> QED BY <1>1, <1>2, <1>3 DEF IsPrefix, u

LEMMA ReverseIndex ==
  ASSUME NEW S, NEW s \in Seq(S)
  PROVE  /\ Reverse(s) \in Seq(S) /\ Len(Reverse(s)) = Len(s)
         /\ \A i \in 1 .. Len(s) : Reverse(s)[i] = s[(Len(s) - i) + 1]
  BY DEF Reverse

LEMMA SuffixIndex ==
  ASSUME NEW S, NEW s \in Seq(S), NEW t \in Seq(S)
  PROVE  IsSuffix(s, t) <=>
           Len(s) =< Len(t) /\ \A i \in 1 .. Len(s) : s[(Len(s) - i) + 1] = t[(Len(t) - i) + 1]
<1> DEFINE u == Reverse(s)  v == Reverse(t)
<1>1. u \in Seq(S) /\ v \in Seq(S) /\ Len(u) = Len(s) /\ Len(v) = Len(t)
  BY ReverseIndex
<1>2. (\A i \in 1 .. Len(s) : u[i] = s[(Len(s) - i) + 1])
      /\ (\A i \in 1 .. Len(t) : v[i] = t[(Len(t) - i) + 1])
  BY ReverseIndex
<1>3. IsSuffix(s, t) <=> IsPrefix(u, v)
  BY DEF IsSuffix
<1> HIDE DEF u, v
<1>4. IsPrefix(u, v) <=> Len(u) =< Len(v) /\ \A i \in 1 .. Len(u) : u[i] = v[i]
  BY <1>1, PrefixIndex
<1>5. Len(s) \in Nat /\ Len(t) \in Nat
  OBVIOUS
<1>6. Len(s) =< Len(t) => \A i \in 1 .. Len(s) : /\ u[i] = s[(Len(s) - i) + 1]
                                                /\ v[i] = t[(Len(t) - i) + 1]
  BY <1>2, <1>5
<1>7. IsPrefix(u, v) <=> Len(s) =< Len(t) /\ \A i \in 1 .. Len(s) : u[i] = v[i]
  BY <1>1, <1>4
<1> QED BY <1>3, <1>6, <1>7

LEMMA SuffixTail ==
  ASSUME NEW S, NEW s \in Seq(S), NEW t \in Seq(S), s # << >>, IsSuffix(s, t)
  PROVE  IsSuffix(Tail(s), t)
<1>1. Len(s) =< Len(t) /\ \A i \in 1 .. Len(s) : s[(Len(s) - i) + 1] = t[(Len(t) - i) + 1]
  BY SuffixIndex
<1>2. Tail(s) \in Seq(S) /\ Len(Tail(s)) = Len(s) - 1 /\ Len(s) \in Nat /\ Len(t) \in Nat
  OBVIOUS
<1>3. \A i \in 1 .. Len(s) - 1 : Tail(s)[i] = s[i + 1]
  OBVIOUS
<1>4. ASSUME NEW i \in 1 .. Len(s) - 1
      PROVE  Tail(s)[((Len(s) - 1) - i) + 1] = t[(Len(t) - i) + 1]
  <2>1. ((Len(s) - 1) - i) + 1 \in 1 .. Len(s) - 1
        /\ (((Len(s) - 1) - i) + 1) + 1 = (Len(s) - i) + 1
    BY <1>2
  <2>2. Tail(s)[((Len(s) - 1) - i) + 1] = s[(Len(s) - i) + 1]
    BY <1>3, <2>1
  <2>3. i \in 1 .. Len(s)
    BY <1>2
  <2> QED BY <1>1, <2>2, <2>3
<1>5. \A i \in 1 .. Len(Tail(s)) : Tail(s)[(Len(Tail(s)) - i) + 1] = t[(Len(t) - i) + 1]
  BY <1>2, <1>4
<1>6. Len(Tail(s)) =< Len(t)
  BY <1>1, <1>2
<1> QED BY <1>2, <1>5, <1>6, SuffixIndex

LEMMA SuffixSelf ==
  ASSUME NEW S, NEW s \in Seq(S)
  PROVE  IsSuffix(s, s)
  BY SuffixIndex

-----------------------------------------------------------------------------
(***************************************************************************)
(* The commands, and what each does to each part of the kernel.            *)
(***************************************************************************)
TunAdd     == Cmd("tun-add", "tun0")
TunUp      == Cmd("tun-up", "tun0")
TunDown    == Cmd("tun-down", "tun0")
TunGone    == TunDel("done")
LinkDel    == Cmd("link-del", "tun0")
AddDefault == Cmd("route-add", {"default"})
FlushTable == Cmd("route-flush", 100)
AddBatch   == Cmd("route-add", Direct \cup Forced)
AddAll     == Cmd("rule-add", CatchAll)
Torrent    == Rule(PRIO_TORRENT, "fwmark", "main")
AddTorrent == Cmd("rule-add", Torrent)
DelTorrent == Cmd("rule-del", Torrent)
Clear(p)   == Cmd("rule-clear", p)
NewChain   == Cmd("nat-chain", "new")
Hook       == Cmd("nat-hook-once", 1)
Unhook     == Cmd("nat-unhook", 1)
DelChain   == Cmd("nat-delete", "chain")
AddMss     == Cmd("mss-add", 1)
DelMss     == Cmd("mss-del", 1)
ForwardOn  == Cmd("forward-on", 1)
Ipv6Off    == Cmd("ipv6", "off")
Ipv6On     == Cmd("ipv6", "on")

\* The commands of a removal, of a set-up and of a server change.
Removers ==
  {TunDown, TunGone, TunBusy, LinkDel, FlushTable, Unhook, DelChain, DelMss, Ipv6On}
    \cup {Clear(p) : p \in 1 .. 30}

\* A bypass of a server, of a DNS server or of a LAN subnet.
Bypasses ==
  {AddMain(PRIO_SERVER_IPS, x) : x \in Server}
    \cup {AddMain(p, x) : p \in 3 .. 19, x \in Address}

Bypassing == Bypasses \cup {DelTo(x) : x \in Address}

Routers ==
  Bypassing \cup {TunAdd, TunUp, AddBatch, AddAll, AddDefault, DelTorrent, AddTorrent}

Firewallers == {NewChain, Hook, AddMss, ForwardOn, Ipv6Off}

Changers ==
  {Clear(PRIO_SERVER_IPS)} \cup {AddMain(PRIO_SERVER_IPS, x) : x \in Server}
    \cup {DelTo(x) : x \in Server}

Command == Removers \cup Routers \cup Firewallers \cup Changers

Op == {"tun-add", "tun-up", "tun-down", "tun-del", "link-del", "route-add",
       "route-flush", "rule-add", "rule-del", "rule-del-to", "rule-clear", "nat-chain",
       "nat-hook-once", "nat-unhook", "nat-delete", "mss-add", "mss-del", "forward-on",
       "ipv6"}

LEMMA FixedOps ==
  /\ TunAdd.op = "tun-add" /\ TunUp.op = "tun-up"
  /\ TunDown.op = "tun-down" /\ LinkDel.op = "link-del"
  /\ TunGone.op = "tun-del" /\ TunBusy.op = "tun-del"
  /\ AddDefault.op = "route-add" /\ AddBatch.op = "route-add"
  /\ FlushTable.op = "route-flush" /\ AddAll.op = "rule-add"
  /\ AddTorrent.op = "rule-add" /\ DelTorrent.op = "rule-del"
  /\ NewChain.op = "nat-chain" /\ Hook.op = "nat-hook-once"
  /\ Unhook.op = "nat-unhook" /\ DelChain.op = "nat-delete"
  /\ AddMss.op = "mss-add" /\ DelMss.op = "mss-del"
  /\ ForwardOn.op = "forward-on" /\ Ipv6Off.op = "ipv6"
  /\ Ipv6On.op = "ipv6"
  BY DEF Cmd, TunAdd, TunUp, TunDown, TunDel, TunGone, TunBusy, LinkDel, AddDefault,
         AddBatch, FlushTable, AddAll, AddTorrent, DelTorrent,
         NewChain, Hook, Unhook, DelChain, AddMss, DelMss, ForwardOn, Ipv6Off, Ipv6On

LEMMA FixedArgs ==
  /\ AddDefault.arg = {"default"}
  /\ AddBatch.arg = Direct \cup Forced
  /\ AddAll.arg = CatchAll
  /\ AddTorrent.arg = Torrent
  /\ DelTorrent.arg = Torrent
  /\ Ipv6Off.arg = "off"
  /\ Ipv6On.arg = "on"
  /\ TunGone.arg = "done" /\ TunBusy.arg = "busy"
  BY DEF Cmd, TunDel, TunGone, TunBusy, AddDefault, AddBatch, AddAll, AddTorrent,
         DelTorrent, Ipv6Off, Ipv6On

LEMMA RuleOps ==
  /\ \A p : Clear(p).op = "rule-clear" /\ Clear(p).arg = p
  /\ \A x : DelTo(x).op = "rule-del-to" /\ DelTo(x).arg = x
  /\ \A p, x : AddMain(p, x).op = "rule-add" /\ AddMain(p, x).arg = Rule(p, x, "main")
  BY DEF Clear, DelTo, AddMain, Cmd

LEMMA RuleFields ==
  \A p, x, m : /\ Rule(p, x, m).prio = p /\ Rule(p, x, m).to = x
              /\ Rule(p, x, m).table = m
  BY DEF Rule

LEMMA RemoverOps ==
  ASSUME NEW c \in Removers
  PROVE  /\ c.op \in {"tun-down", "tun-del", "link-del", "route-flush", "nat-unhook",
                      "nat-delete", "mss-del", "ipv6", "rule-clear"}
         /\ c.op = "tun-down" => c = TunDown
         /\ c.op = "tun-del" => c \in {TunGone, TunBusy}
         /\ c.op = "link-del" => c = LinkDel
         /\ c.op = "route-flush" => c = FlushTable
         /\ c.op = "nat-unhook" => c = Unhook
         /\ c.op = "nat-delete" => c = DelChain
         /\ c.op = "mss-del" => c = DelMss
         /\ c.op = "ipv6" => c = Ipv6On
<1>1. CASE c \in {TunDown, TunGone, TunBusy, LinkDel, FlushTable, Unhook, DelChain,
                  DelMss, Ipv6On}
  BY <1>1, FixedOps
<1>2. CASE c \in {Clear(p) : p \in 1 .. 30}
  <2>1. c.op = "rule-clear"
    BY <1>2, RuleOps
  <2> QED BY <2>1
<1> QED BY <1>1, <1>2 DEF Removers

LEMMA CommandOp ==
  ASSUME NEW c \in Command
  PROVE  c.op \in Op
<1>1. CASE c \in Removers
  BY <1>1, RemoverOps DEF Op
<1>2. CASE c \in Routers
  BY <1>2, FixedOps, RuleOps DEF Routers, Bypassing, Bypasses, Op
<1>3. CASE c \in Firewallers
  BY <1>3, FixedOps DEF Firewallers, Op
<1>4. CASE c \in Changers
  BY <1>4, RuleOps DEF Changers, Op
<1> QED BY <1>1, <1>2, <1>3, <1>4 DEF Command

LEMMA ExecTun ==
  ASSUME NEW k \in KernelType, NEW c, c.op \in Op
  PROVE  Exec(k, c).tun =
           IF c.op = "tun-add" THEN (IF k.tun = "absent" THEN "down" ELSE k.tun)
           ELSE IF c.op = "tun-up" THEN (IF k.tun = "absent" THEN "absent" ELSE "up")
           ELSE IF c.op = "tun-down" THEN (IF k.tun = "absent" THEN "absent" ELSE "down")
           ELSE IF c.op = "link-del" \/ (c.op = "tun-del" /\ c.arg # "busy")
                THEN "absent" ELSE k.tun
  BY DEF Exec, KernelType, Op

LEMMA ExecTable ==
  ASSUME NEW k \in KernelType, NEW c, c.op \in Op
  PROVE  Exec(k, c).table =
           IF c.op \in {"tun-down", "link-del"} \/ (c.op = "tun-del" /\ c.arg # "busy")
           THEN k.table \ ViaTun
           ELSE IF c.op = "route-flush" THEN {}
           ELSE IF c.op = "route-add"
                THEN k.table \cup (c.arg \ IF k.tun = "up" THEN {} ELSE ViaTun)
           ELSE k.table
  BY DEF Exec, KernelType, Op

LEMMA ExecRules ==
  ASSUME NEW k \in KernelType, NEW c, c.op \in Op
  PROVE  Exec(k, c).rules =
           IF c.op = "rule-add" THEN k.rules \cup {c.arg}
           ELSE IF c.op = "rule-del" THEN k.rules \ {c.arg}
           ELSE IF c.op = "rule-del-to" THEN k.rules \ FirstTo(k.rules, c.arg)
           ELSE IF c.op = "rule-clear" THEN {r \in k.rules : r.prio # c.arg}
           ELSE k.rules
  BY DEF Exec, KernelType, Op

LEMMA ExecNat ==
  ASSUME NEW k \in KernelType, NEW c, c.op \in Op
  PROVE  /\ Exec(k, c).hooks =
              IF c.op = "nat-hook-once" THEN (IF k.hooks = 0 THEN 1 ELSE k.hooks)
              ELSE IF c.op = "nat-unhook" THEN (IF k.hooks = 0 THEN 0 ELSE k.hooks - 1)
              ELSE k.hooks
         /\ c.op = "nat-chain" => Exec(k, c).chain
         /\ c.op = "nat-delete" => (Exec(k, c).chain <=> k.chain /\ k.hooks > 0)
         /\ c.op \notin {"nat-chain", "nat-delete"} => Exec(k, c).chain = k.chain
<1>1. Exec(k, c).hooks =
        IF c.op = "nat-hook-once" THEN (IF k.hooks = 0 THEN 1 ELSE k.hooks)
        ELSE IF c.op = "nat-unhook" THEN (IF k.hooks = 0 THEN 0 ELSE k.hooks - 1)
        ELSE k.hooks
  BY DEF Exec, KernelType, Op
<1>2. c.op = "nat-chain" => Exec(k, c).chain
  BY DEF Exec, KernelType, Op
<1>3. c.op = "nat-delete" => (Exec(k, c).chain <=> k.chain /\ k.hooks > 0)
  BY DEF Exec, KernelType, Op
<1>4. c.op \notin {"nat-chain", "nat-delete"} => Exec(k, c).chain = k.chain
  BY DEF Exec, KernelType, Op
<1> QED BY <1>1, <1>2, <1>3, <1>4

LEMMA ExecMss ==
  ASSUME NEW k \in KernelType, NEW c, c.op \in Op
  PROVE  Exec(k, c).mss =
           IF c.op = "mss-add" THEN k.mss + 1
           ELSE IF c.op = "mss-del" THEN DropMssRule(k.mss) ELSE k.mss
  BY DEF Exec, KernelType, Op

LEMMA ExecIpv6 ==
  ASSUME NEW k \in KernelType, NEW c, c.op \in Op
  PROVE  /\ c.op = "ipv6" => (Exec(k, c).ipv6off <=> c.arg = "off")
         /\ c.op # "ipv6" => Exec(k, c).ipv6off = k.ipv6off
<1>1. c.op = "ipv6" => (Exec(k, c).ipv6off <=> c.arg = "off")
  BY DEF Exec, KernelType, Op
<1>2. c.op # "ipv6" => Exec(k, c).ipv6off = k.ipv6off
  BY DEF Exec, KernelType, Op
<1> QED BY <1>1, <1>2

LEMMA ExecRecord ==
  ASSUME NEW k \in KernelType, NEW c, c.op \in Op
  PROVE  /\ Exec(k, c) =
              [rules |-> Exec(k, c).rules, table |-> Exec(k, c).table,
               tun |-> Exec(k, c).tun, chain |-> Exec(k, c).chain,
               hooks |-> Exec(k, c).hooks, mss |-> Exec(k, c).mss,
               forward |-> Exec(k, c).forward, ipv6off |-> Exec(k, c).ipv6off]
         /\ Exec(k, c).forward \in BOOLEAN
<1>1. Exec(k, c) =
        [rules |-> Exec(k, c).rules, table |-> Exec(k, c).table,
         tun |-> Exec(k, c).tun, chain |-> Exec(k, c).chain,
         hooks |-> Exec(k, c).hooks, mss |-> Exec(k, c).mss,
         forward |-> Exec(k, c).forward, ipv6off |-> Exec(k, c).ipv6off]
  BY DEF Exec, KernelType, Op
<1>2. Exec(k, c).forward \in BOOLEAN
  BY DEF Exec, KernelType, Op
<1> QED BY <1>1, <1>2

LEMMA Fields ==
  ASSUME NEW k \in KernelType
  PROVE  /\ k.rules \subseteq RuleType
         /\ k.table \subseteq Direct \cup Forced \cup {"default"}
         /\ k.tun \in {"absent", "down", "up"}
         /\ k.chain \in BOOLEAN /\ k.hooks \in Nat /\ k.mss \in Nat
         /\ k.ipv6off \in BOOLEAN
  BY DEF KernelType

LEMMA FirewallerOps ==
  ASSUME NEW c \in Firewallers
  PROVE  /\ c.op \in {"nat-chain", "nat-hook-once", "mss-add", "forward-on", "ipv6"}
         /\ c.op = "nat-chain" => c = NewChain
         /\ c.op = "nat-hook-once" => c = Hook
         /\ c.op = "mss-add" => c = AddMss
         /\ c.op = "ipv6" => c = Ipv6Off
  BY FixedOps DEF Firewallers

LEMMA BypassRule ==
  ASSUME NEW c \in Bypasses
  PROVE  /\ c.op = "rule-add"
         /\ \E p \in 1 .. 19, x \in Address :
              /\ c = AddMain(p, x) /\ c.arg = Rule(p, x, "main")
              /\ p = PRIO_SERVER_IPS => x \in Server
  BY RuleOps DEF Bypasses, PRIO_SERVER_IPS, Address

LEMMA RouterOps ==
  ASSUME NEW c \in Routers
  PROVE  /\ c.op \in {"tun-add", "tun-up", "route-add", "rule-add", "rule-del", "rule-del-to"}
         /\ c.op = "tun-add" => c = TunAdd
         /\ c.op = "tun-up" => c = TunUp
         /\ c.op = "route-add" => c \in {AddBatch, AddDefault}
         /\ c.op = "rule-add" => c \in Bypasses \cup {AddAll, AddTorrent}
         /\ c.op = "rule-del" => c = DelTorrent
         /\ c.op = "rule-del-to" => c.arg \in Address /\ c = DelTo(c.arg)
<1>1. CASE c \in {TunAdd, TunUp, AddBatch, AddAll, AddDefault, DelTorrent, AddTorrent}
  BY <1>1, FixedOps
<1>2. CASE c \in Bypasses
  BY <1>2, BypassRule
<1>3. CASE c \in {DelTo(x) : x \in Address}
  BY <1>3, RuleOps
<1> QED BY <1>1, <1>2, <1>3 DEF Routers, Bypassing

LEMMA ChangerOps ==
  ASSUME NEW c \in Changers
  PROVE  /\ c.op \in {"rule-clear", "rule-add", "rule-del-to"}
         /\ c.op = "rule-clear" => c.arg = PRIO_SERVER_IPS
         /\ c.op = "rule-add" => \E x \in Server : c.arg = Rule(PRIO_SERVER_IPS, x, "main")
         /\ c.op = "rule-del-to" => c.arg \in Server
  BY RuleOps DEF Changers

LEMMA RuleArg ==
  ASSUME NEW c \in Command, c.op = "rule-add"
  PROVE  c.arg \in RuleType
<1>1. \A p \in 1 .. 19, x \in Address : Rule(p, x, "main") \in RuleType
  BY DEF Rule, RuleType, Selector, PRIO_CATCHALL
<1>2. CatchAll \in RuleType /\ Torrent \in RuleType
  BY DEF CatchAll, Torrent, Rule, RuleType, Selector, PRIO_CATCHALL, PRIO_TORRENT
<1>3. CASE c \in Removers \cup Firewallers
  BY <1>3, RemoverOps, FirewallerOps
<1>4. CASE c \in Routers
  BY <1>1, <1>2, <1>4, BypassRule, RouterOps, FixedArgs
<1>5. CASE c \in Changers
  BY <1>1, <1>5, ChangerOps DEF PRIO_SERVER_IPS, Address
<1> QED BY <1>3, <1>4, <1>5 DEF Command

LEMMA ExecType ==
  ASSUME NEW k \in KernelType, NEW c \in Command
  PROVE  Exec(k, c) \in KernelType
<1>1. c.op \in Op
  BY CommandOp
<1>2. Exec(k, c).rules \subseteq RuleType
  <2>1. k.rules \subseteq RuleType
    BY Fields
  <2>2. c.op = "rule-add" => c.arg \in RuleType
    BY RuleArg
  <2> QED BY <1>1, <2>1, <2>2, ExecRules
<1>3. Exec(k, c).table \subseteq Direct \cup Forced \cup {"default"}
  <2>1. c.op = "route-add" => c \in {AddBatch, AddDefault}
    BY RemoverOps, RouterOps, FirewallerOps, ChangerOps DEF Command
  <2>2. c.op = "route-add" => c.arg \subseteq Direct \cup Forced \cup {"default"}
    <3> DEFINE T == Direct \cup Forced \cup {"default"}
    <3>1. AddBatch.arg \subseteq T
      BY FixedArgs
    <3>2. AddDefault.arg \subseteq T
      BY FixedArgs
    <3> HIDE DEF T
    <3>3. c.op = "route-add" => c.arg \subseteq T
      BY <2>1, <3>1, <3>2
    <3> QED BY <3>3 DEF T
  <2>3. k.table \subseteq Direct \cup Forced \cup {"default"}
    BY Fields
  <2>4. Exec(k, c).table \subseteq k.table \cup IF c.op = "route-add" THEN c.arg ELSE {}
    BY <1>1, ExecTable
  <2> QED BY <2>2, <2>3, <2>4
<1>4. Exec(k, c).tun \in {"absent", "down", "up"}
  BY <1>1, ExecTun, Fields
<1>5. Exec(k, c).hooks \in Nat
  <2>1. k.hooks \in Nat
    BY Fields
  <2> QED BY <1>1, <2>1, ExecNat
<1>6. Exec(k, c).chain \in BOOLEAN
  <2>1. CASE c.op = "nat-delete"
    BY <2>1 DEF Exec, KernelType
  <2>2. CASE c.op = "nat-chain"
    BY <2>2 DEF Exec, KernelType
  <2> QED BY <2>1, <2>2, <1>1, ExecNat, Fields
<1>7. Exec(k, c).mss \in Nat
  <2>1. k.mss \in Nat
    BY Fields
  <2> QED BY <1>1, <2>1, ExecMss DEF DropMssRule
<1>8. Exec(k, c).ipv6off \in BOOLEAN
  <2>1. CASE c.op = "ipv6"
    BY <2>1 DEF Exec, KernelType
  <2> QED BY <2>1, <1>1, ExecIpv6, Fields
<1> QED BY <1>1, <1>2, <1>3, <1>4, <1>5, <1>6, <1>7, <1>8, ExecRecord DEF KernelType

-----------------------------------------------------------------------------
(***************************************************************************)
(* Removals: what is still on the host has its command still to come.      *)
(***************************************************************************)
Removal == {"launch", "stop", "exit", "start", "cleanup"}

Hooked(k) == k.hooks =< 1 /\ (k.hooks > 0 => k.chain)

\* Rules and routes.
Unrouting(k, s) ==
  /\ \A r \in k.rules : Clear(r.prio) \in ToSet(s)
  /\ k.table # {} => FlushTable \in ToSet(s)
  /\ "default" \in k.table /\ s # << >> => Head(s) \in {TunDown, LinkDel}

\* tun0, which stays, down, when its deletion failed: a is whether somebody had
\* it open.
Untunnelling(k, s, a) ==
  /\ k.tun = "up" => ToSet(s) \cap {TunDown, LinkDel} # {}
  /\ k.tun # "absent" /\ ~a => ToSet(s) \cap {TunGone, LinkDel} # {}

\* The chain, after the jump to it.
Unhooking(k, s) ==
  /\ k.hooks > 0 => Unhook \in ToSet(s)
  /\ k.chain => DelChain \in ToSet(s)
  /\ Before({Unhook}, {DelChain}, s)

\* One TCPMSS rule.
Unclamping(k, s, b) ==
  /\ Before({DelMss}, {DelMss}, s)
  /\ IF DelMss \in ToSet(s) THEN k.mss = b.mss ELSE k.mss = DropMssRule(b.mss)

\* IPv6 comes back at the end, and not in `vpn start`.
Ipv6Last(j, k, s, b) ==
  IF j = "start" THEN k.ipv6off = b.ipv6off /\ Ipv6On \notin ToSet(s)
  ELSE /\ Before(Removers, {Ipv6On}, s)
       /\ s # << >> => Ipv6On \in ToSet(s) /\ k.ipv6off = b.ipv6off
       /\ s = << >> => ~k.ipv6off

\* Nothing comes that was not there.
Shrinking(k, b) ==
  /\ Captures(k) => b.routing = "full"
  /\ k.chain \/ k.hooks > 0 => b.nat

RemovalInv(j, k, s, b) ==
  /\ s \in Seq(Removers)
  /\ Unrouting(k, s) /\ Unhooking(k, s) /\ Unclamping(k, s, b) /\ Ipv6Last(j, k, s, b)
  /\ Shrinking(k, b)

LEMMA StepRemoval ==
  ASSUME NEW j, NEW k \in KernelType, NEW s, NEW b \in HostType,
         RemovalInv(j, k, s, b), Hooked(k), s # << >>
  PROVE  /\ RemovalInv(j, Exec(k, Head(s)), Tail(s), b) /\ Hooked(Exec(k, Head(s)))
         /\ ~Captures(Exec(k, Head(s)))
<1> DEFINE c == Head(s)  t == Tail(s)  l == Exec(k, c)
<1> SUFFICES RemovalInv(j, l, t, b) /\ Hooked(l) /\ ~Captures(l)
  OBVIOUS
<1>1. s \in Seq(Removers) /\ c \in Removers /\ t \in Seq(Removers)
      /\ ToSet(s) = {c} \cup ToSet(t)
  BY StepSet DEF RemovalInv
<1>2. c.op \in Op /\ l \in KernelType
  BY <1>1, CommandOp, ExecType DEF Command
<1> HIDE DEF c, t, l
<1>3. Unrouting(l, t) /\ ~Captures(l)
  <2>1. l.rules = IF c.op = "rule-clear" THEN {r \in k.rules : r.prio # c.arg} ELSE k.rules
    BY <1>1, <1>2, ExecRules, RemoverOps DEF l
  <2>2. \A r \in l.rules : Clear(r.prio) \in ToSet(t)
    BY <1>1, <2>1, RuleOps DEF RemovalInv, Unrouting
  <2>3. l.table = IF c \in {TunDown, TunGone, LinkDel} THEN k.table \ ViaTun
                  ELSE IF c.op = "route-flush" THEN {} ELSE k.table
    <3>1. c \in {TunDown, TunGone, LinkDel} <=>
            c.op \in {"tun-down", "link-del"} \/ (c.op = "tun-del" /\ c.arg # "busy")
      BY <1>1, RemoverOps, FixedOps, FixedArgs
    <3> QED BY <1>1, <1>2, <3>1, ExecTable, RemoverOps DEF l
  <2>4. l.table # {} => FlushTable \in ToSet(t)
    BY <1>1, <2>3, FixedOps DEF RemovalInv, Unrouting
  <2>5. "default" \notin l.table
    BY <2>3, FixedOps DEF RemovalInv, Unrouting, ViaTun, c
  <2> QED BY <2>2, <2>4, <2>5 DEF Unrouting, Captures
<1>4. Unhooking(l, t) /\ Hooked(l)
  <2>1. k.hooks \in {0, 1} /\ k.chain \in BOOLEAN
    BY Fields DEF Hooked
  <2>2. /\ Before({Unhook}, {DelChain}, t)
        /\ c = DelChain => Unhook \notin ToSet(t)
    BY <1>1, StepBefore DEF RemovalInv, Unhooking, c, t
  <2>3. l.hooks = IF c.op = "nat-unhook" THEN 0 ELSE k.hooks
    BY <1>1, <1>2, <2>1, ExecNat, RemoverOps DEF l
  <2>4. /\ c.op = "nat-delete" => (l.chain <=> k.chain /\ k.hooks > 0)
        /\ c.op # "nat-delete" => l.chain = k.chain
    BY <1>1, <1>2, ExecNat, RemoverOps DEF l
  <2>5. l.hooks > 0 => Unhook \in ToSet(t)
    BY <1>1, <2>1, <2>3, FixedOps DEF RemovalInv, Unhooking
  <2>6. c.op = "nat-delete" => c = DelChain /\ k.hooks = 0 /\ ~l.chain
    BY <1>1, <2>1, <2>2, <2>3, <2>4, <2>5, RemoverOps
  <2>7. l.chain => DelChain \in ToSet(t)
    BY <1>1, <2>4, <2>6, FixedOps DEF RemovalInv, Unhooking
  <2>8. Hooked(l)
    BY <2>1, <2>3, <2>4, <2>6 DEF Hooked
  <2> QED BY <2>2, <2>5, <2>7, <2>8 DEF Unhooking
<1>5. Unclamping(l, t, b)
  <2>1. /\ Before({DelMss}, {DelMss}, t)
        /\ c = DelMss => DelMss \notin ToSet(t)
    BY <1>1, StepBefore DEF RemovalInv, Unclamping, c, t
  <2>2. l.mss = IF c = DelMss THEN DropMssRule(k.mss) ELSE k.mss
    BY <1>1, <1>2, ExecMss, RemoverOps, FixedOps DEF l
  <2> QED BY <1>1, <2>1, <2>2 DEF RemovalInv, Unclamping
<1>6. Ipv6Last(j, l, t, b)
  <2>1. /\ c = Ipv6On => ~l.ipv6off
        /\ c # Ipv6On => l.ipv6off = k.ipv6off
    BY <1>1, <1>2, ExecIpv6, RemoverOps, FixedOps, FixedArgs DEF l
  <2>2. CASE j = "start"
    BY <1>1, <2>1, <2>2 DEF RemovalInv, Ipv6Last
  <2>3. CASE j # "start"
    <3>1. /\ Before(Removers, {Ipv6On}, t)
          /\ c = Ipv6On => ToSet(t) \cap Removers = {}
      BY <1>1, <2>3, StepBefore DEF RemovalInv, Ipv6Last, c, t
    <3>2. t # << >> => Head(t) \in ToSet(t) \cap Removers
      BY <1>1, StepSet
    <3>3. c = Ipv6On => t = << >>
      BY <3>1, <3>2
    <3>4. c # Ipv6On => Ipv6On \in ToSet(t) /\ t # << >>
      BY <1>1, <2>3, EmptySet DEF RemovalInv, Ipv6Last
    <3> QED BY <1>1, <2>1, <2>3, <3>1, <3>3, <3>4 DEF RemovalInv, Ipv6Last
  <2> QED BY <2>2, <2>3
<1>7. Shrinking(l, b)
  <2>1. l.rules \subseteq k.rules /\ l.table \subseteq k.table
    <3>1. l.rules \subseteq k.rules
      BY <1>1, <1>2, ExecRules, RemoverOps DEF l
    <3>2. l.table \subseteq k.table
      BY <1>1, <1>2, ExecTable, RemoverOps DEF l
    <3> QED BY <3>1, <3>2
  <2>2. Captures(l) => b.routing = "full"
    BY <2>1 DEF RemovalInv, Shrinking, Captures
  <2>3. l.hooks =< k.hooks /\ l.hooks \in Nat /\ k.hooks \in Nat /\ (l.chain => k.chain)
    <3>1. k.hooks \in Nat /\ l.hooks \in Nat /\ k.chain \in BOOLEAN
      BY <1>2, Fields
    <3> QED BY <1>1, <1>2, <3>1, ExecNat, RemoverOps DEF l
  <2>4. l.chain \/ l.hooks > 0 => b.nat
    BY <2>3 DEF RemovalInv, Shrinking
  <2> QED BY <2>2, <2>4 DEF Shrinking
<1> QED BY <1>1, <1>3, <1>4, <1>5, <1>6, <1>7 DEF RemovalInv

LEMMA StepTun ==
  ASSUME NEW k \in KernelType, NEW s \in Seq(Removers), s # << >>, NEW a,
         Untunnelling(k, s, a)
  PROVE  Untunnelling(Exec(k, Head(s)), Tail(s), a)
<1> DEFINE c == Head(s)  t == Tail(s)  l == Exec(k, c)
<1>1. c \in Removers /\ ToSet(s) = {c} \cup ToSet(t)
  BY StepSet
<1>2. c.op \in Op
  BY <1>1, CommandOp DEF Command
<1> HIDE DEF c, t, l
<1>3. l.tun = IF c \in {TunGone, LinkDel} THEN "absent"
              ELSE IF c = TunDown /\ k.tun # "absent" THEN "down" ELSE k.tun
  BY <1>1, <1>2, ExecTun, RemoverOps, FixedOps, FixedArgs DEF l
<1>4. l.tun = "up" => ToSet(t) \cap {TunDown, LinkDel} # {}
  BY <1>1, <1>3 DEF Untunnelling
<1>5. l.tun # "absent" /\ ~a => ToSet(t) \cap {TunGone, LinkDel} # {}
  BY <1>1, <1>3 DEF Untunnelling
<1> QED BY <1>4, <1>5 DEF Untunnelling, c, t, l

\* The order in which a removal's commands come.
Ordered(s) ==
  /\ Before({Unhook}, {DelChain}, s) /\ Before({DelMss}, {DelMss}, s)
  /\ Before(Removers, {Ipv6On}, s)

\* A sequence of commands with the set of them and the first one.
Block(s, X, h) ==
  s \in Seq(Removers) /\ Ordered(s) /\ ToSet(s) = X /\ s # << >> /\ Head(s) = h

LEMMA ConcatBlock ==
  ASSUME NEW s, NEW X, NEW h, NEW t, NEW Y, NEW g, Block(s, X, h), Block(t, Y, g),
         DelChain \notin X \/ Unhook \notin Y, DelMss \notin X \/ DelMss \notin Y,
         Ipv6On \notin X
  PROVE  Block(s \o t, X \cup Y, h)
<1>1. s \in Seq(Removers) /\ t \in Seq(Removers) /\ ToSet(s) = X /\ ToSet(t) = Y
  BY DEF Block
<1>2. s \o t \in Seq(Removers) /\ ToSet(s \o t) = X \cup Y
  BY <1>1, ConcatSet
<1>3. Before({Unhook}, {DelChain}, s \o t)
  BY <1>1, ConcatBefore DEF Ordered, Block
<1>4. Before({DelMss}, {DelMss}, s \o t)
  BY <1>1, ConcatBefore DEF Ordered, Block
<1>5. Before(Removers, {Ipv6On}, s \o t)
  BY <1>1, ConcatBefore DEF Ordered, Block
<1>6. s \o t # << >> /\ Head(s \o t) = h
  BY <1>1 DEF Block
<1> QED BY <1>2, <1>3, <1>4, <1>5, <1>6 DEF Ordered, Block

LEMMA SingleBlock ==
  ASSUME NEW c \in Removers
  PROVE  Block(<<c>>, {c}, c)
<1>1. DOMAIN <<c>> = {1} /\ <<c>>[1] = c
  OBVIOUS
<1> QED BY <1>1 DEF ToSet, Ordered, Before, Block

LEMMA PairBlock ==
  ASSUME NEW c \in Removers, NEW d \in Removers, c \notin {DelChain, DelMss, Ipv6On}
  PROVE  Block(<<c, d>>, {c, d}, c)
<1>1. DOMAIN <<c, d>> = {1, 2} /\ <<c, d>>[1] = c /\ <<c, d>>[2] = d
  OBVIOUS
<1>2. ToSet(<<c, d>>) = {c, d}
  BY <1>1 DEF ToSet
<1>3. Ordered(<<c, d>>)
  BY <1>1 DEF Ordered, Before
<1> QED BY <1>2, <1>3 DEF Block

Clears == {Clear(p) : p \in 1 .. 30}

LEMMA Distinct ==
  /\ Clears \cap {Unhook, DelChain, DelMss, Ipv6On} = {}
  /\ {TunDown, TunGone, TunBusy, LinkDel}
       \cap {FlushTable, Unhook, DelChain, DelMss, Ipv6On} = {}
  /\ FlushTable \notin {Unhook, DelChain, DelMss, Ipv6On}
  /\ Unhook \notin {DelMss, Ipv6On} /\ DelChain \notin {DelMss, Ipv6On, Unhook}
  /\ DelMss # Ipv6On /\ Unhook # DelMss
<1>1. \A p \in 1 .. 30 : Clear(p) \notin {Unhook, DelChain, DelMss, Ipv6On}
  BY FixedOps, RuleOps
<1> QED BY <1>1, FixedOps DEF Clears

LEMMA RemovalBlocks ==
  /\ Block(TunDestroy("done"), {TunDown, TunGone}, TunDown)
  /\ Block(TunDestroy("busy"), {TunDown, TunBusy}, TunDown)
  /\ Block(<<LinkDel>>, {LinkDel}, LinkDel)
  /\ Block(Flush, {FlushTable}, FlushTable)
  /\ Block(ClearAll, Clears, Clear(1))
  /\ Block(NatRemove, {Unhook, DelChain}, Unhook)
  /\ Block(MssRemove, {DelMss}, DelMss)
  /\ Block(RestoreIpv6, {Ipv6On}, Ipv6On)
<1>1. /\ TunDestroy("done") = <<TunDown, TunGone>>
      /\ TunDestroy("busy") = <<TunDown, TunBusy>> /\ Flush = <<FlushTable>>
      /\ NatRemove = <<Unhook, DelChain>> /\ MssRemove = <<DelMss>>
      /\ RestoreIpv6 = <<Ipv6On>>
  BY DEF TunDestroy, Flush, NatRemove, MssRemove, RestoreIpv6, TunDown, TunGone, TunBusy,
         FlushTable, Unhook, DelChain, DelMss, Ipv6On
<1>2. {TunDown, TunGone, TunBusy, LinkDel, FlushTable, Unhook, DelChain, DelMss, Ipv6On}
        \subseteq Removers
  BY DEF Removers
<1>3. Block(ClearAll, Clears, Clear(1))
  <2>1. ClearAll \in Seq(Removers) /\ DOMAIN ClearAll = 1 .. 30
        /\ (\A p \in 1 .. 30 : ClearAll[p] = Clear(p)) /\ Head(ClearAll) = Clear(1)
    BY DEF ClearAll, Clear, Removers, PRIO_CATCHALL
  <2>2. ToSet(ClearAll) = Clears
    <3>1. ToSet(ClearAll) = {ClearAll[p] : p \in 1 .. 30}
      BY <2>1 DEF ToSet
    <3> QED BY <2>1, <3>1 DEF Clears
  <2>4. ClearAll # << >>
    <3>1. 1 \in DOMAIN ClearAll
      BY <2>1
    <3> QED BY <3>1
  <2>3. Ordered(ClearAll)
    BY <2>1, Distinct DEF Ordered, Before, Clears
  <2> QED BY <2>1, <2>2, <2>3, <2>4 DEF Block
<1>4. Block(TunDestroy("done"), {TunDown, TunGone}, TunDown)
      /\ Block(TunDestroy("busy"), {TunDown, TunBusy}, TunDown)
  BY <1>1, <1>2, Distinct, PairBlock
<1>5. Block(NatRemove, {Unhook, DelChain}, Unhook)
  BY <1>1, <1>2, Distinct, PairBlock
<1> QED BY <1>1, <1>2, <1>3, <1>4, <1>5, SingleBlock

\* What the scripts of all removals have in common.
RemovalScript(j, s) ==
  /\ s \in Seq(Removers) /\ Ordered(s)
  /\ Clears \cup {FlushTable, Unhook, DelChain, DelMss} \subseteq ToSet(s)
  /\ s # << >> /\ Head(s) \in {TunDown, LinkDel} \cap ToSet(s)
  /\ ToSet(s) \cap {TunGone, LinkDel} # {} \/ (j # "cleanup" /\ TunBusy \in ToSet(s))
  /\ Ipv6On \in ToSet(s) <=> j # "start"

LEMMA TeardownScript ==
  ASSUME NEW j, j \notin {"start", "cleanup"}, NEW answer \in Answer
  PROVE  RemovalScript(j, Teardown(answer))
<1> DEFINE T == {TunDown, TunDel(answer)}
           a == TunDestroy(answer) \o Flush
           b == a \o ClearAll
           c == b \o NatRemove
           d == c \o MssRemove
<1>1. TunDel(answer) \in {TunGone, TunBusy} /\ Block(TunDestroy(answer), T, TunDown)
  BY RemovalBlocks DEF Answer, TunGone, TunBusy
<1>2. T \cap {FlushTable, Unhook, DelChain, DelMss, Ipv6On} = {} /\ TunDown \in T
  BY <1>1, Distinct
<1>3. T \cap {TunGone, TunBusy} # {}
  BY <1>1
<1> HIDE DEF T
<1>4. Block(a, T \cup {FlushTable}, TunDown)
  BY <1>1, <1>2, Distinct, RemovalBlocks, ConcatBlock
<1> HIDE DEF a
<1>5. Block(b, T \cup {FlushTable} \cup Clears, TunDown)
  BY <1>2, <1>4, Distinct, RemovalBlocks, ConcatBlock
<1> HIDE DEF b
<1>6. Block(c, T \cup {FlushTable} \cup Clears \cup {Unhook, DelChain}, TunDown)
  BY <1>2, <1>5, Distinct, RemovalBlocks, ConcatBlock
<1> HIDE DEF c
<1>7. Block(d, T \cup {FlushTable} \cup Clears \cup {Unhook, DelChain} \cup {DelMss},
            TunDown)
  BY <1>2, <1>6, Distinct, RemovalBlocks, ConcatBlock
<1> HIDE DEF d
<1>8. Block(d \o RestoreIpv6,
            T \cup {FlushTable} \cup Clears \cup {Unhook, DelChain} \cup {DelMss}
              \cup {Ipv6On}, TunDown)
  BY <1>2, <1>7, Distinct, RemovalBlocks, ConcatBlock
<1>9. Teardown(answer) = d \o RestoreIpv6
  BY DEF Teardown, a, b, c, d
<1> QED BY <1>2, <1>3, <1>8, <1>9, Distinct DEF Block, RemovalScript

LEMMA CleanupScript ==
  RemovalScript("cleanup", EmergencyCleanup)
<1> DEFINE T == {TunDown, TunGone}
           a == TunDestroy("done") \o ClearAll
           b == a \o Flush
           c == b \o NatRemove
           d == c \o MssRemove
<1>1. Block(TunDestroy("done"), T, TunDown)
  BY RemovalBlocks
<1>2. T \cap {FlushTable, Unhook, DelChain, DelMss, Ipv6On} = {} /\ TunDown \in T
      /\ TunGone \in T
  BY Distinct
<1> HIDE DEF T
<1>3. Block(a, T \cup Clears, TunDown)
  BY <1>1, <1>2, Distinct, RemovalBlocks, ConcatBlock
<1> HIDE DEF a
<1>4. Block(b, T \cup Clears \cup {FlushTable}, TunDown)
  BY <1>2, <1>3, Distinct, RemovalBlocks, ConcatBlock
<1> HIDE DEF b
<1>5. Block(c, T \cup Clears \cup {FlushTable} \cup {Unhook, DelChain}, TunDown)
  BY <1>2, <1>4, Distinct, RemovalBlocks, ConcatBlock
<1> HIDE DEF c
<1>6. Block(d, T \cup Clears \cup {FlushTable} \cup {Unhook, DelChain} \cup {DelMss},
            TunDown)
  BY <1>2, <1>5, Distinct, RemovalBlocks, ConcatBlock
<1> HIDE DEF d
<1>7. Block(d \o RestoreIpv6,
            T \cup Clears \cup {FlushTable} \cup {Unhook, DelChain} \cup {DelMss}
              \cup {Ipv6On}, TunDown)
  BY <1>2, <1>6, Distinct, RemovalBlocks, ConcatBlock
<1>8. EmergencyCleanup = d \o RestoreIpv6
  BY DEF EmergencyCleanup, a, b, c, d
<1> QED BY <1>2, <1>7, <1>8, Distinct DEF Block, RemovalScript

LEMMA StartScript ==
  RemovalScript("start", MiniCleanup)
<1> DEFINE a == <<LinkDel>> \o Flush
           b == a \o NatRemove
           c == b \o MssRemove
<1>1. Block(a, {LinkDel} \cup {FlushTable}, LinkDel)
  BY Distinct, RemovalBlocks, ConcatBlock
<1> HIDE DEF a
<1>2. Block(b, {LinkDel} \cup {FlushTable} \cup {Unhook, DelChain}, LinkDel)
  BY <1>1, Distinct, RemovalBlocks, ConcatBlock
<1> HIDE DEF b
<1>3. Block(c, {LinkDel} \cup {FlushTable} \cup {Unhook, DelChain} \cup {DelMss}, LinkDel)
  BY <1>2, Distinct, RemovalBlocks, ConcatBlock
<1> HIDE DEF c
<1>4. Block(c \o ClearAll,
           {LinkDel} \cup {FlushTable} \cup {Unhook, DelChain} \cup {DelMss} \cup Clears,
           LinkDel)
  BY <1>3, Distinct, RemovalBlocks, ConcatBlock
<1>5. MiniCleanup = c \o ClearAll
  BY DEF MiniCleanup, a, b, c, LinkDel
<1> QED BY <1>4, <1>5, Distinct DEF Block, RemovalScript

LEMMA RemovalScripts ==
  ASSUME NEW j \in Removal, NEW s \in Scripts(j)
  PROVE  RemovalScript(j, s)
<1>1. CASE j \in {"launch", "stop", "exit"}
  <2>1. PICK answer \in Answer : s = Teardown(answer)
    BY <1>1 DEF Scripts
  <2> QED BY <1>1, <2>1, TeardownScript
<1>2. CASE j = "start"
  BY <1>2, StartScript DEF Scripts
<1>3. CASE j = "cleanup"
  BY <1>3, CleanupScript DEF Scripts
<1> QED BY <1>1, <1>2, <1>3 DEF Removal

\* tun0 when a removal begins: its deletion fails only if a.
LEMMA BeginTun ==
  ASSUME NEW j \in Removal, NEW s \in Scripts(j), NEW k, NEW a,
         TunBusy \in ToSet(s) /\ j # "cleanup" => a
  PROVE  Untunnelling(k, s, a)
  BY RemovalScripts DEF RemovalScript, Untunnelling

LEMMA BeginRemoval ==
  ASSUME NEW j \in Removal, NEW s \in Scripts(j), NEW k \in KernelType, Hooked(k)
  PROVE  RemovalInv(j, k, s, Coarse(k)) /\ DelMss \in ToSet(s)
<1>1. RemovalScript(j, s)
  BY RemovalScripts
<1>2. Unrouting(k, s)
  <2>1. \A r \in k.rules : r.prio \in 1 .. 30
    BY Fields DEF RuleType, PRIO_CATCHALL
  <2> QED BY <1>1, <2>1 DEF RemovalScript, Unrouting, Clears
<1>3. Unhooking(k, s)
  BY <1>1 DEF RemovalScript, Unhooking, Ordered
<1>4. Unclamping(k, s, Coarse(k))
  BY <1>1 DEF RemovalScript, Unclamping, Ordered, Coarse
<1>5. Ipv6Last(j, k, s, Coarse(k))
  BY <1>1 DEF RemovalScript, Ipv6Last, Ordered, Coarse
<1>6. Shrinking(k, Coarse(k))
  BY DEF Shrinking, Coarse
<1> QED BY <1>1, <1>2, <1>3, <1>4, <1>5, <1>6 DEF RemovalInv, RemovalScript

\* The operators of HostNetwork, field by field.
Host(r, n, m, v) == [routing |-> r, nat |-> n, mss |-> m, ipv6off |-> v]

LEMMA HostFields ==
  ASSUME NEW b \in HostType
  PROVE  /\ b.routing \in {"none", "partial", "full"} /\ b.nat \in BOOLEAN
         /\ b.mss \in Nat /\ b.ipv6off \in BOOLEAN
         /\ b = Host(b.routing, b.nat, b.mss, b.ipv6off)
         /\ DropMssRule(b.mss) \in Nat
  BY DEF HostType, Host, DropMssRule

LEMMA HostOps ==
  ASSUME NEW b \in HostType
  PROVE  /\ RulesRemoved(b) = Host("none", FALSE, DropMssRule(b.mss), b.ipv6off)
         /\ TornDown(b) = Host("none", FALSE, DropMssRule(b.mss), FALSE)
         /\ FirewallApplied(b) = Host(b.routing, TRUE, b.mss + 1, TRUE)
         /\ RoutingApplied(b) = Host("full", b.nat, b.mss, b.ipv6off)
         /\ \A r : [b EXCEPT !.routing = r] = Host(r, b.nat, b.mss, b.ipv6off)
<1>1. RulesRemoved(b) = Host("none", FALSE, DropMssRule(b.mss), b.ipv6off)
  BY DEF RulesRemoved, Host
<1>2. TornDown(b) = Host("none", FALSE, DropMssRule(b.mss), FALSE)
  <2> DEFINE d == DropMssRule(b.mss)  v == b.ipv6off  no == FALSE
  <2>1. TornDown(b) = [[routing |-> "none", nat |-> no, mss |-> d, ipv6off |-> v]
                         EXCEPT !.ipv6off = no]
    BY DEF TornDown, RulesRemoved
  <2> HIDE DEF d, v, no
  <2>2. [[routing |-> "none", nat |-> no, mss |-> d, ipv6off |-> v] EXCEPT !.ipv6off = no]
          = Host("none", no, d, no)
    BY DEF Host
  <2> QED BY <2>1, <2>2 DEF d, no
<1>3. FirewallApplied(b) = Host(b.routing, TRUE, b.mss + 1, TRUE)
  BY DEF FirewallApplied, Host
<1>4. \A r : [b EXCEPT !.routing = r] = Host(r, b.nat, b.mss, b.ipv6off)
  BY DEF HostType, Host
<1>5. RoutingApplied(b) = Host("full", b.nat, b.mss, b.ipv6off)
  BY <1>4 DEF RoutingApplied
<1> QED BY <1>1, <1>2, <1>3, <1>4, <1>5

LEMMA PartlyOps ==
  ASSUME NEW b, NEW r, NEW n, NEW m
  PROVE  /\ r \in {b.routing, "partial", "none"} /\ n \in {b.nat, FALSE}
           /\ m \in {b.mss, DropMssRule(b.mss)} => Host(r, n, m, b.ipv6off) \in PartlyRemoved(b)
         /\ m \in {b.mss, b.mss + 1} => Host(b.routing, TRUE, m, b.ipv6off) \in PartlyFirewalled(b)
<1>1. r \in {b.routing, "partial", "none"} /\ n \in {b.nat, FALSE}
        /\ m \in {b.mss, DropMssRule(b.mss)} => Host(r, n, m, b.ipv6off) \in PartlyRemoved(b)
  BY DEF PartlyRemoved, Host
<1>2. m \in {b.mss, b.mss + 1} => Host(b.routing, TRUE, m, b.ipv6off) \in PartlyFirewalled(b)
  BY DEF PartlyFirewalled, Host
<1> QED BY <1>1, <1>2

LEMMA CoarseFields ==
  ASSUME NEW k \in KernelType
  PROVE  /\ Coarse(k) \in HostType
         /\ Coarse(k) = Host(Coarse(k).routing, Coarse(k).nat, k.mss, k.ipv6off)
         /\ Coarse(k).mss = k.mss /\ Coarse(k).ipv6off = k.ipv6off
         /\ Coarse(k).nat <=> k.chain \/ k.hooks > 0
         /\ Coarse(k).nat \in BOOLEAN
         /\ Coarse(k).routing \in {"none", "partial", "full"}
         /\ Coarse(k).routing = "full" <=> Captures(k)
<1>1. Coarse(k).routing \in {"none", "partial", "full"}
  BY DEF Coarse
<1>2. (Coarse(k).nat <=> k.chain \/ k.hooks > 0) /\ Coarse(k).nat \in BOOLEAN
  <2>1. Coarse(k).nat = (k.chain \/ k.hooks > 0)
    BY DEF Coarse
  <2>2. Coarse(k).nat \in BOOLEAN
    BY <2>1
  <2> QED BY <2>1, <2>2
<1>3. Coarse(k).mss = k.mss /\ Coarse(k).ipv6off = k.ipv6off
  BY DEF Coarse
<1>4. Coarse(k).routing = "full" <=> Captures(k)
  BY DEF Coarse
<1>5. Coarse(k) = Host(Coarse(k).routing, Coarse(k).nat, Coarse(k).mss, Coarse(k).ipv6off)
  BY DEF Coarse, Host
<1>6. k.mss \in Nat /\ k.ipv6off \in BOOLEAN
  BY Fields
<1>7. Host(Coarse(k).routing, Coarse(k).nat, k.mss, k.ipv6off) \in HostType
  BY <1>1, <1>2, <1>6 DEF Host, HostType
<1> QED BY <1>1, <1>2, <1>3, <1>4, <1>5, <1>7

\* What a removal leaves when it is over, and when it is cut short.
LEMMA EndRemoval ==
  ASSUME NEW j \in Removal, NEW k \in KernelType, NEW s, NEW b \in HostType,
         RemovalInv(j, k, s, b), Hooked(k)
  PROVE  /\ s = << >> =>
              /\ k.rules = {} /\ k.table = {}
              /\ ~k.chain /\ k.hooks = 0 /\ (j # "start" => ~k.ipv6off)
              /\ Coarse(k) \in After(j, b)
         /\ s # << >> => Coarse(k) \in During(j, b)
<1>1. k.hooks \in Nat /\ k.chain \in BOOLEAN /\ k.mss \in Nat /\ k.ipv6off \in BOOLEAN
  BY Fields
<1>2. b.nat \in BOOLEAN /\ b.mss \in Nat /\ b.ipv6off \in BOOLEAN
  BY HostFields
<1>3. ASSUME s = << >>
      PROVE  /\ k.rules = {} /\ k.table = {}
             /\ ~k.chain /\ k.hooks = 0 /\ (j # "start" => ~k.ipv6off)
             /\ Coarse(k) \in After(j, b)
  <2>1. /\ k.rules = {} /\ k.table = {} /\ ~k.chain /\ k.hooks = 0
        /\ k.mss = DropMssRule(b.mss)
    BY <1>1, <1>3, EmptySet DEF RemovalInv, Unrouting, Unhooking, Unclamping
  <2>2. Coarse(k).routing = "none" /\ Coarse(k).nat = FALSE
    <3>1. ~Captures(k) /\ OwnRules(k) = {}
      BY <2>1 DEF Captures, OwnRules
    <3>2. Coarse(k).routing = "none"
      BY <2>1, <3>1 DEF Coarse
    <3>3. ~Coarse(k).nat /\ Coarse(k).nat \in BOOLEAN
      BY <1>1, <2>1, CoarseFields
    <3> QED BY <3>2, <3>3
  <2>3. Coarse(k) = Host("none", FALSE, DropMssRule(b.mss), k.ipv6off)
    BY <2>1, <2>2, CoarseFields
  <2>4. CASE j = "start"
    <3>1. k.ipv6off = b.ipv6off
      BY <2>4 DEF RemovalInv, Ipv6Last
    <3>2. After(j, b) = {RulesRemoved(b)}
      BY <2>4 DEF After
    <3> QED BY <2>1, <2>3, <2>4, <3>1, <3>2, HostOps
  <2>5. CASE j # "start"
    <3>1. k.ipv6off = FALSE
      BY <1>1, <1>3, <2>5 DEF RemovalInv, Ipv6Last
    <3>2. After(j, b) = {TornDown(b)}
      BY <2>5 DEF After, Removal
    <3> QED BY <2>1, <2>3, <3>1, <3>2, HostOps
  <2> QED BY <2>4, <2>5
<1>4. ASSUME s # << >>
      PROVE  Coarse(k) \in PartlyRemoved(b)
  <2>1. k.ipv6off = b.ipv6off
    BY <1>4 DEF RemovalInv, Ipv6Last
  <2>2. k.mss \in {b.mss, DropMssRule(b.mss)}
    BY DEF RemovalInv, Unclamping
  <2>3. Coarse(k).nat \in {b.nat, FALSE}
    <3>1. Coarse(k).nat => b.nat
      BY CoarseFields DEF RemovalInv, Shrinking
    <3> QED BY <1>2, <3>1, CoarseFields
  <2>4. Coarse(k).routing \in {b.routing, "partial", "none"}
    BY CoarseFields DEF RemovalInv, Shrinking
  <2>5. Coarse(k) = Host(Coarse(k).routing, Coarse(k).nat, k.mss, b.ipv6off)
    BY <2>1, CoarseFields
  <2> QED BY <2>2, <2>3, <2>4, <2>5, PartlyOps
<1> QED BY <1>3, <1>4 DEF During

-----------------------------------------------------------------------------
(***************************************************************************)
(* The set-up of the routing: tun0 before the route over it, the bypasses  *)
(* before what captures.                                                   *)
(***************************************************************************)

\* BypassedBelow, of any kernel.
HasBypass(k, n, x) == \E r \in k.rules : r.to = x /\ r.table = "main" /\ r.prio < n

\* The bypasses of BypassFirst, there or still to come.
Assured(k, s, e) ==
  /\ \A x \in ToSet(LanSubnet) :
       HasBypass(k, 30, x) \/ \E p \in 1 .. 29 : AddMain(p, x) \in ToSet(s)
  /\ \A x \in ToSet(DnsServer) :
       HasBypass(k, 8, x) \/ \E p \in 1 .. 7 : AddMain(p, x) \in ToSet(s)
  /\ "servers" \notin e =>
       \A x \in Server :
         HasBypass(k, 30, x) \/ \E p \in 1 .. 29 : AddMain(p, x) \in ToSet(s)

\* Nothing captures while a bypass is deleted or added.
Bypassed(k, s, e) ==
  "rules" \notin e =>
    Assured(k, s, e) /\ (Captures(k) => ToSet(s) \cap Bypassing = {})

\* What captures is there or still to come, and finds tun0 up.
Capturing(k, s) ==
  /\ CatchAll \in k.rules \/ AddAll \in ToSet(s)
  /\ "default" \in k.table \/ AddDefault \in ToSet(s)
  /\ k.tun # "absent" \/ TunAdd \in ToSet(s)
  /\ k.tun = "up" \/ TunUp \in ToSet(s)

\* The firewall is as it was.
SameFirewall(k, b) ==
  Coarse(k).nat = b.nat /\ k.mss = b.mss /\ k.ipv6off = b.ipv6off

\* The order in which the commands of a set-up of the routing come.
SetUpOrder(s) ==
  /\ Before({TunAdd}, {TunUp}, s) /\ Before({TunUp}, {AddDefault}, s)
  /\ Before(Bypassing, {AddAll, AddDefault}, s)

RoutingInv(k, s, b, e) ==
  /\ s \in Seq(Routers) /\ SetUpOrder(s) /\ Followed(s)
  /\ Capturing(k, s) /\ Bypassed(k, s, e) /\ SameFirewall(k, b)

\* Rules of the priority of the server bypasses are to servers.
ServerRules(k) ==
  \A r \in k.rules : r.prio = PRIO_SERVER_IPS /\ r.table = "main" => r.to \in Server

-----------------------------------------------------------------------------
(***************************************************************************)
(* The set-up of the firewall, and a server change.                        *)
(***************************************************************************)

\* One TCPMSS rule more.
Clamping(k, s, b) ==
  /\ Before({AddMss}, {AddMss}, s)
  /\ IF AddMss \in ToSet(s) THEN k.mss = b.mss ELSE k.mss = b.mss + 1 /\ k.chain

\* The chain before the jump to it.
Hooking(k, s, b) ==
  /\ k.chain \/ NewChain \in ToSet(s)
  /\ Before({NewChain}, {Hook, AddMss}, s)
  /\ b.nat => Coarse(k).nat

FirewallInv(k, s, b) ==
  /\ s \in Seq(Firewallers)
  /\ Hooking(k, s, b) /\ Clamping(k, s, b)
  /\ Before(Firewallers, {Ipv6Off}, s)
  /\ IF s = << >> THEN k.ipv6off ELSE Ipv6Off \in ToSet(s) /\ k.ipv6off = b.ipv6off
  /\ Coarse(k).routing = b.routing

ChangeInv(k, s, b) ==
  /\ s \in Seq(Changers)
  /\ Captures(k) <=> b.routing = "full"
  /\ SameFirewall(k, b)

-----------------------------------------------------------------------------
(***************************************************************************)
(* The inductive invariant.                                                *)
(***************************************************************************)

\* BypassFirst, of any kernel.
BypassHolds(k, e) == Captures(k) /\ "rules" \notin e => Assured(k, << >>, e)

\* What holds of a job j with the commands s to run.
JobHolds(j, k, s, b, e) ==
  /\ j = "none" => s = << >>
  /\ j \in Removal => RemovalInv(j, k, s, b)
  /\ j = "routing" => RoutingInv(k, s, b, e)
  /\ j = "firewall" => FirewallInv(k, s, b)
  /\ j = "server.change" =>
       ChangeInv(k, s, b) /\ "servers" \in e /\ "server.change" \in Rpcs

TunHolds(j, k, s, a) == j \in Removal => Untunnelling(k, s, a)

\* A dead daemon has no bootstraps and no jobs but those of the script.
ProcHolds(p, j, f) ==
  /\ p = "up" => j # "cleanup"
  /\ p # "up" => j \in {"none", "cleanup"} /\ f = NoBoots

\* m TCPMSS rules are there, and each bootstrap that is past its own teardown
\* may add one more; a removal that took one leaves room for another.
Counted(j, s, m, f) ==
  LET n      == f["launch"] + f["routing"] + f["firewall"]
      budget == m + f["routing"] + f["firewall"]
  IN  /\ n =< MaxBoots
      /\ j \in Chunk => f[j] > 0
      /\ j = "start" => n < MaxBoots
      /\ ~(j = "firewall" /\ AddMss \notin ToSet(s)) => budget =< MaxBoots
      /\ budget =< MaxBoots + 1
      /\ j = "launch" /\ DelMss \notin ToSet(s) => budget < MaxBoots
      /\ j \in {"exit", "cleanup"} /\ DelMss \notin ToSet(s) => m < MaxBoots

Inv ==
  /\ TypeOK /\ Hooked(kernel) /\ ServerRules(kernel)
  /\ BypassHolds(kernel, excused)
  /\ JobHolds(job, kernel, todo, before, excused)
  /\ TunHolds(job, kernel, todo, attached)
  /\ ProcHolds(proc, job, boots)
  /\ Counted(job, todo, kernel.mss, boots)
  /\ Residue

-----------------------------------------------------------------------------
(***************************************************************************)
(* The script of a set-up of the routing.                                  *)
(***************************************************************************)

\* Commands of a set-up, all of them in X.
Stretch(s, X) ==
  s \in Seq(Routers) /\ ToSet(s) \subseteq X /\ SetUpOrder(s) /\ Followed(s)

LEMMA ConcatStretch ==
  ASSUME NEW s, NEW X, NEW t, NEW Y, Stretch(s, X), Stretch(t, Y),
         TunUp \notin X \/ TunAdd \notin Y,
         AddDefault \notin X \/ TunUp \notin Y,
         X \cap {AddAll, AddDefault} = {} \/ Y \cap Bypassing = {}
  PROVE  Stretch(s \o t, X \cup Y) /\ ToSet(s \o t) = ToSet(s) \cup ToSet(t)
<1>1. s \in Seq(Routers) /\ t \in Seq(Routers) /\ ToSet(s) \subseteq X /\ ToSet(t) \subseteq Y
      /\ SetUpOrder(s) /\ SetUpOrder(t) /\ Followed(s) /\ Followed(t)
  BY DEF Stretch
<1>2. s \o t \in Seq(Routers) /\ ToSet(s \o t) = ToSet(s) \cup ToSet(t)
  BY <1>1, ConcatSet
<1>3. Before({TunAdd}, {TunUp}, s \o t)
  <2>1. ToSet(s) \cap {TunUp} = {} \/ ToSet(t) \cap {TunAdd} = {}
    BY <1>1
  <2> QED BY <1>1, <2>1, ConcatBefore DEF SetUpOrder
<1>4. Before({TunUp}, {AddDefault}, s \o t)
  <2>1. ToSet(s) \cap {AddDefault} = {} \/ ToSet(t) \cap {TunUp} = {}
    BY <1>1
  <2> QED BY <1>1, <2>1, ConcatBefore DEF SetUpOrder
<1>5. Before(Bypassing, {AddAll, AddDefault}, s \o t)
  <2>1. ToSet(s) \cap {AddAll, AddDefault} = {} \/ ToSet(t) \cap Bypassing = {}
    BY <1>1
  <2> QED BY <1>1, <2>1, ConcatBefore DEF SetUpOrder
<1>6. Followed(s \o t)
  BY <1>1, ConcatFollowed
<1>7. ToSet(s \o t) \subseteq X \cup Y
  BY <1>1, <1>2
<1> QED BY <1>2, <1>3, <1>4, <1>5, <1>6, <1>7 DEF Stretch, SetUpOrder

\* The commands of a set-up are different ones.
LEMMA DistinctRouters ==
  /\ Bypassing \cap {TunAdd, TunUp, AddBatch, AddAll, AddDefault, DelTorrent, AddTorrent} = {}
  /\ {TunAdd, TunUp} \cap {AddBatch, AddAll, AddDefault, DelTorrent, AddTorrent} = {}
  /\ TunAdd # TunUp /\ AddAll # AddDefault /\ AddBatch # AddDefault
  /\ {DelTorrent, AddTorrent} \cap {AddAll, AddDefault} = {}
<1>1. \A p \in 1 .. 19, x \in Address : AddMain(p, x) \notin {AddAll, AddTorrent}
  <2> SUFFICES ASSUME NEW p \in 1 .. 19, NEW x \in Address
               PROVE  AddMain(p, x) \notin {AddAll, AddTorrent}
    OBVIOUS
  <2>1. AddMain(p, x).arg.prio = p
    BY RuleOps, RuleFields
  <2>2. AddAll.arg.prio = 30 /\ AddTorrent.arg.prio = 20
    BY FixedArgs DEF Rule, CatchAll, Torrent, PRIO_CATCHALL, PRIO_TORRENT
  <2> QED BY <2>1, <2>2
<1>2. \A c \in Bypasses : c \notin {TunAdd, TunUp, AddBatch, AddAll, AddDefault, DelTorrent, AddTorrent}
  BY <1>1, BypassRule, FixedOps
<1>3. \A x \in Address : DelTo(x) \notin {TunAdd, TunUp, AddBatch, AddAll, AddDefault, DelTorrent, AddTorrent}
  BY RuleOps, FixedOps
<1>4. AddBatch # AddDefault
  BY FixedArgs, SetupAssumption DEF SetupAssumption
<1>5. AddTorrent # AddAll
  <2>1. AddAll.arg.prio = 30 /\ AddTorrent.arg.prio = 20
    BY FixedArgs DEF Rule, CatchAll, Torrent, PRIO_CATCHALL, PRIO_TORRENT
  <2> QED BY <2>1
<1>6. Bypassing \cap {TunAdd, TunUp, AddBatch, AddAll, AddDefault, DelTorrent, AddTorrent} = {}
  BY <1>2, <1>3 DEF Bypassing
<1> QED BY <1>4, <1>5, <1>6, FixedOps

LEMMA Apart ==
  /\ TunAdd \notin Bypassing /\ TunUp \notin Bypassing /\ AddBatch \notin Bypassing
  /\ AddAll \notin Bypassing /\ AddDefault \notin Bypassing
  /\ DelTorrent \notin Bypassing /\ AddTorrent \notin Bypassing
  /\ TunAdd \notin {TunUp, AddBatch, AddAll, AddDefault, DelTorrent, AddTorrent}
  /\ TunUp \notin {AddBatch, AddAll, AddDefault, DelTorrent, AddTorrent}
  /\ AddAll \notin {AddBatch, AddDefault, DelTorrent, AddTorrent}
  /\ AddDefault \notin {AddBatch, DelTorrent, AddTorrent}
  BY DistinctRouters, FixedOps

\* Commands none of which has a place to keep.
LEMMA LooseStretch ==
  ASSUME NEW s \in Seq(Routers), NEW X, ToSet(s) \subseteq X, Followed(s),
         TunUp \notin X, X \cap {AddAll, AddDefault} = {}
  PROVE  Stretch(s, X)
<1>1. \A i \in DOMAIN s : s[i] \in X
  BY DEF ToSet
<1> QED BY <1>1 DEF Stretch, SetUpOrder, Before

LEMMA SingleStretch ==
  ASSUME NEW c \in {TunAdd, TunUp, AddBatch, AddAll, AddDefault, DelTorrent, AddTorrent}
  PROVE  Stretch(<<c>>, {c}) /\ ToSet(<<c>>) = {c}
<1>1. DOMAIN <<c>> = {1} /\ <<c>>[1] = c /\ <<c>> \in Seq(Routers)
  BY DEF Routers
<1>2. ToSet(<<c>>) = {c}
  BY <1>1 DEF ToSet
<1>3. SetUpOrder(<<c>>)
  BY <1>1 DEF SetUpOrder, Before
<1>4. \A x \in Address : c # DelTo(x)
  BY DistinctRouters DEF Bypassing
<1>5. Followed(<<c>>)
  BY <1>1, <1>4 DEF Followed
<1> QED BY <1>1, <1>2, <1>3, <1>5 DEF Stretch

LEMMA Halves ==
  ASSUME NEW n \in Nat
  PROVE  /\ \A i \in 1 .. 2 * n :
              /\ (i + 1) \div 2 \in 1 .. n
              /\ \/ 2 - (i % 2) = 2
                 \/ 2 - (i % 2) = 1 /\ i + 1 \in 1 .. 2 * n
                      /\ (i + 2) \div 2 = (i + 1) \div 2 /\ 2 - ((i + 1) % 2) = 2
         /\ \A j \in 1 .. n : /\ 2 * j \in 1 .. 2 * n /\ (2 * j + 1) \div 2 = j
                              /\ 2 - ((2 * j) % 2) = 2
<1>1. ASSUME NEW i \in 1 .. 2 * n
      PROVE  /\ (i + 1) \div 2 \in 1 .. n
             /\ \/ 2 - (i % 2) = 2
                \/ 2 - (i % 2) = 1 /\ i + 1 \in 1 .. 2 * n
                     /\ (i + 2) \div 2 = (i + 1) \div 2 /\ 2 - ((i + 1) % 2) = 2
  OBVIOUS
<1>2. ASSUME NEW j \in 1 .. n
      PROVE  2 * j \in 1 .. 2 * n /\ (2 * j + 1) \div 2 = j /\ 2 - ((2 * j) % 2) = 2
  OBVIOUS
<1> QED BY <1>1, <1>2

\* Deletions each with its addition right behind it.
LEMMA PairsStretch ==
  ASSUME NEW n \in Nat, NEW x \in [1 .. n -> Address], NEW p \in [1 .. n -> 1 .. 7],
         \A i \in 1 .. n : AddMain(p[i], x[i]) \in Bypasses
  PROVE  LET s == InPairs([i \in 1 .. n |-> <<DelTo(x[i]), AddMain(p[i], x[i])>>])
         IN  /\ Stretch(s, Bypassing)
             /\ \A i \in 1 .. n : AddMain(p[i], x[i]) \in ToSet(s)
             /\ \A c \in ToSet(s) : \E i \in 1 .. n : c \in {DelTo(x[i]), AddMain(p[i], x[i])}
<1> DEFINE m == [i \in 1 .. n |-> <<DelTo(x[i]), AddMain(p[i], x[i])>>]
           s == InPairs(m)
<1>1. Len(m) = n
  OBVIOUS
<1>2. s = [i \in 1 .. 2 * n |-> m[(i + 1) \div 2][2 - (i % 2)]]
  BY <1>1 DEF InPairs
<1>3. \A i \in 1 .. n : m[i][1] = DelTo(x[i]) /\ m[i][2] = AddMain(p[i], x[i])
  OBVIOUS
<1>4. \A i \in 1 .. n : DelTo(x[i]) \in Bypassing /\ AddMain(p[i], x[i]) \in Bypassing
  BY DEF Bypassing
<1> HIDE DEF m
<1>5. \A i \in 1 .. 2 * n : s[i] = m[(i + 1) \div 2][2 - (i % 2)]
  BY <1>2
<1>6. \A j \in 1 .. n : 2 * j \in 1 .. 2 * n /\ s[2 * j] = AddMain(p[j], x[j])
  <2> SUFFICES ASSUME NEW j \in 1 .. n
               PROVE  2 * j \in 1 .. 2 * n /\ s[2 * j] = AddMain(p[j], x[j])
    OBVIOUS
  <2>1. 2 * j \in 1 .. 2 * n /\ (2 * j + 1) \div 2 = j /\ 2 - ((2 * j) % 2) = 2
    BY Halves
  <2>2. s[2 * j] = m[j][2]
    BY <1>5, <2>1
  <2> QED BY <1>3, <2>1, <2>2
<1>7. \A i \in 1 .. 2 * n :
        \/ \E j \in 1 .. n : s[i] = AddMain(p[j], x[j])
        \/ /\ i + 1 \in 1 .. 2 * n
           /\ \E j \in 1 .. n : s[i] = DelTo(x[j]) /\ s[i + 1] = AddMain(p[j], x[j])
  <2> SUFFICES ASSUME NEW i \in 1 .. 2 * n
               PROVE  \/ \E j \in 1 .. n : s[i] = AddMain(p[j], x[j])
                      \/ /\ i + 1 \in 1 .. 2 * n
                         /\ \E j \in 1 .. n : s[i] = DelTo(x[j]) /\ s[i + 1] = AddMain(p[j], x[j])
    OBVIOUS
  <2> DEFINE j == (i + 1) \div 2
  <2>1. j \in 1 .. n
    BY Halves
  <2>2. CASE 2 - (i % 2) = 2
    <3>1. s[i] = m[j][2]
      BY <2>2, <1>5
    <3> QED BY <3>1, <2>1, <1>3
  <2>3. CASE /\ 2 - (i % 2) = 1 /\ i + 1 \in 1 .. 2 * n
             /\ (i + 2) \div 2 = (i + 1) \div 2 /\ 2 - ((i + 1) % 2) = 2
    <3>1. s[i] = m[j][1] /\ s[i + 1] = m[(i + 1 + 1) \div 2][2 - ((i + 1) % 2)]
      BY <2>3, <1>2
    <3>2. i + 1 + 1 = i + 2
      OBVIOUS
    <3> QED BY <3>1, <3>2, <2>1, <2>3, <1>3
  <2> QED BY <2>2, <2>3, Halves
<1>8. s \in Seq(Bypassing) /\ DOMAIN s = 1 .. 2 * n
  <2>1. \A i \in 1 .. 2 * n : s[i] \in Bypassing
    BY <1>4, <1>7
  <2>2. 2 * n \in Nat
    OBVIOUS
  <2>3. s \in [1 .. 2 * n -> Bypassing]
    BY <1>2, <2>1
  <2> QED BY <2>2, <2>3
<1> HIDE DEF s
<1>9. ToSet(s) \subseteq Bypassing
  BY <1>8 DEF ToSet
<1>10. Followed(s)
  <2> SUFFICES ASSUME NEW i \in DOMAIN s, NEW a \in Address, s[i] = DelTo(a)
               PROVE  \E j \in DOMAIN s, q \in 1 .. 7 : i < j /\ s[j] = AddMain(q, a)
    BY DEF Followed, WireGuardPrio
  <2>1. \A j \in 1 .. n : s[i] # AddMain(p[j], x[j])
    BY RuleOps
  <2>2. i + 1 \in 1 .. 2 * n
    BY <1>7, <1>8, <2>1
  <2>3. PICK j \in 1 .. n : s[i] = DelTo(x[j]) /\ s[i + 1] = AddMain(p[j], x[j])
    BY <1>7, <1>8, <2>1
  <2>4. x[j] = a
    <3>1. DelTo(a).arg = a /\ DelTo(x[j]).arg = x[j]
      BY RuleOps
    <3> QED BY <2>3, <3>1
  <2>5. p[j] \in 1 .. 7
    OBVIOUS
  <2> QED BY <1>8, <2>2, <2>3, <2>4, <2>5
<1>11. s \in Seq(Routers)
  BY <1>8 DEF Routers
<1>12. Stretch(s, Bypassing)
  BY <1>9, <1>10, <1>11, DistinctRouters, LooseStretch
<1>13. \A i \in 1 .. n : AddMain(p[i], x[i]) \in ToSet(s)
  BY <1>6, <1>8 DEF ToSet
<1>14. \A c \in ToSet(s) : \E i \in 1 .. n : c \in {DelTo(x[i]), AddMain(p[i], x[i])}
  <2>1. \A i \in 1 .. 2 * n : \E j \in 1 .. n : s[i] \in {DelTo(x[j]), AddMain(p[j], x[j])}
    BY <1>7
  <2>2. \A c \in ToSet(s) : \E i \in 1 .. 2 * n : c = s[i]
    BY <1>8 DEF ToSet
  <2> QED BY <2>1, <2>2
<1> QED BY <1>12, <1>13, <1>14 DEF s, m

LEMMA ServerStretch ==
  ASSUME NEW ips \in SUBSET Server
  PROVE  /\ Stretch(ServerBypasses(ips), Bypassing)
         /\ ToSet(ServerBypasses(ips)) \subseteq Changers
<1> DEFINE s == SetToSeq(ips)
<1>1. IsFiniteSet(ips)
  BY SetupAssumption, FS_Subset DEF SetupAssumption
<1>2. Cardinality(ips) \in Nat /\ ExistsBijection(1 .. Cardinality(ips), ips)
  BY <1>1, FS_CardinalityType
<1>3. \E f \in [1 .. Cardinality(ips) -> ips] : IsInjective(f)
  BY <1>2 DEF ExistsBijection, Bijection, Injection
<1>4. s \in [1 .. Cardinality(ips) -> ips]
  BY <1>3 DEF SetToSeq
<1> DEFINE n == Len(s)  p == [i \in 1 .. n |-> PRIO_SERVER_IPS]
<1>5. n \in Nat /\ s \in [1 .. n -> ips]
  BY <1>2, <1>4
<1> HIDE DEF s
<1>6. s \in [1 .. n -> Address] /\ p \in [1 .. n -> 1 .. 7] /\ \A i \in 1 .. n : s[i] \in Server
  BY <1>5 DEF Address, PRIO_SERVER_IPS
<1>7. \A i \in 1 .. n : AddMain(p[i], s[i]) \in Bypasses
  BY <1>6 DEF Bypasses
<1>8. ServerBypasses(ips) = InPairs([i \in 1 .. n |-> <<DelTo(s[i]), AddMain(p[i], s[i])>>])
  <2>1. \A i \in 1 .. n : AddServerBypass(s[i]) = <<DelTo(s[i]), AddMain(p[i], s[i])>>
    BY DEF AddServerBypass, DelTo, AddMain
  <2>2. [i \in 1 .. n |-> AddServerBypass(s[i])]
          = [i \in 1 .. n |-> <<DelTo(s[i]), AddMain(p[i], s[i])>>]
    BY <2>1
  <2> QED BY <2>2 DEF ServerBypasses, s
<1> HIDE DEF n
<1>9. /\ Stretch(ServerBypasses(ips), Bypassing)
      /\ \A c \in ToSet(ServerBypasses(ips)) :
           \E i \in 1 .. n : c \in {DelTo(s[i]), AddMain(p[i], s[i])}
  BY <1>5, <1>6, <1>7, <1>8, PairsStretch
<1>10. \A i \in 1 .. n : DelTo(s[i]) \in Changers /\ AddMain(p[i], s[i]) \in Changers
  BY <1>6 DEF Changers
<1> QED BY <1>9, <1>10

LEMMA DnsStretch ==
  /\ Stretch(DnsBypasses, Bypassing)
  /\ \A x \in ToSet(DnsServer) : \E p \in 1 .. 7 : AddMain(p, x) \in ToSet(DnsBypasses)
<1> DEFINE n == Len(DnsServer)
           x == [i \in 1 .. n |-> DnsServer[i]]
           p == [i \in 1 .. n |-> PRIO_DNS_START + i - 1]
<1>1. n \in Nat /\ n =< 5 /\ DnsServer \in [1 .. n -> Address]
  BY SetupAssumption DEF SetupAssumption, WireGuardPrio, PRIO_DNS_START
<1> HIDE DEF n
<1>2. x \in [1 .. n -> Address] /\ p \in [1 .. n -> 1 .. 7]
  BY <1>1 DEF PRIO_DNS_START
<1>3. \A i \in 1 .. n : AddMain(p[i], x[i]) \in Bypasses
  <2>1. \A i \in 1 .. n : p[i] \in 3 .. 19 /\ x[i] \in Address
    BY <1>1 DEF PRIO_DNS_START
  <2> QED BY <2>1 DEF Bypasses
<1>4. DnsBypasses = InPairs([i \in 1 .. n |-> <<DelTo(x[i]), AddMain(p[i], x[i])>>])
  <2>1. \A i \in 1 .. n : AddDnsBypass(DnsServer[i], PRIO_DNS_START + i - 1)
                            = <<DelTo(x[i]), AddMain(p[i], x[i])>>
    BY DEF AddDnsBypass, DelTo, AddMain
  <2>2. [i \in 1 .. n |-> AddDnsBypass(DnsServer[i], PRIO_DNS_START + i - 1)]
          = [i \in 1 .. n |-> <<DelTo(x[i]), AddMain(p[i], x[i])>>]
    BY <2>1
  <2> QED BY <2>2 DEF DnsBypasses, n
<1>5. /\ Stretch(DnsBypasses, Bypassing)
      /\ \A i \in 1 .. n : AddMain(p[i], x[i]) \in ToSet(DnsBypasses)
  BY <1>1, <1>2, <1>3, <1>4, PairsStretch
<1>6. ASSUME NEW a \in ToSet(DnsServer)
      PROVE  \E q \in 1 .. 7 : AddMain(q, a) \in ToSet(DnsBypasses)
  <2>1. PICK i \in 1 .. n : a = DnsServer[i]
    BY <1>1 DEF ToSet
  <2>2. a = x[i] /\ p[i] \in 1 .. 7
    BY <1>2, <2>1
  <2> QED BY <1>5, <2>2
<1> QED BY <1>5, <1>6

LEMMA LanStretch ==
  /\ Stretch(LanBypasses, Bypassing)
  /\ \A x \in ToSet(LanSubnet) : \E p \in 1 .. 29 : AddMain(p, x) \in ToSet(LanBypasses)
<1> DEFINE n == Len(LanSubnet)
<1>1. n \in Nat /\ n =< 10 /\ LanSubnet \in [1 .. n -> Address]
  BY SetupAssumption DEF SetupAssumption, PRIO_TORRENT, PRIO_LAN_START
<1>2. LanBypasses = [i \in 1 .. n |-> AddMain(9 + i, LanSubnet[i])]
  <2>1. \A i \in 1 .. n : AddLanBypass(LanSubnet[i], PRIO_LAN_START + i - 1)[1]
                            = AddMain(9 + i, LanSubnet[i])
    <3> SUFFICES ASSUME NEW i \in 1 .. n
                 PROVE  AddLanBypass(LanSubnet[i], PRIO_LAN_START + i - 1)[1]
                          = AddMain(9 + i, LanSubnet[i])
      OBVIOUS
    <3>1. PRIO_LAN_START + i - 1 = 9 + i
      BY DEF PRIO_LAN_START
    <3> QED BY <3>1 DEF AddLanBypass, AddMain
  <2> QED BY <2>1 DEF LanBypasses
<1> HIDE DEF n
<1>3. \A i \in 1 .. n : 9 + i \in 3 .. 19 /\ LanSubnet[i] \in Address
  BY <1>1
<1>4. \A i \in 1 .. n : AddMain(9 + i, LanSubnet[i]) \in Bypassing
  BY <1>3 DEF Bypassing, Bypasses
<1>5. LanBypasses \in Seq(Bypassing) /\ DOMAIN LanBypasses = 1 .. n
  BY <1>1, <1>2, <1>4
<1>6. \A i \in 1 .. n, x \in Address : LanBypasses[i] # DelTo(x)
  <2> SUFFICES ASSUME NEW i \in 1 .. n, NEW x \in Address
               PROVE  LanBypasses[i] # DelTo(x)
    OBVIOUS
  <2>1. LanBypasses[i].op = "rule-add" /\ DelTo(x).op = "rule-del-to"
    BY <1>2, RuleOps
  <2> QED BY <2>1
<1>7. Followed(LanBypasses)
  BY <1>5, <1>6 DEF Followed
<1>8. LanBypasses \in Seq(Routers) /\ ToSet(LanBypasses) \subseteq Bypassing
  <2>1. \A i \in 1 .. n : LanBypasses[i] \in Bypassing
    BY <1>2, <1>4
  <2>2. ToSet(LanBypasses) \subseteq Bypassing
    BY <1>5, <2>1 DEF ToSet
  <2> QED BY <1>5, <2>2 DEF Routers
<1>9. Stretch(LanBypasses, Bypassing)
  BY <1>7, <1>8, DistinctRouters, LooseStretch
<1>10. ASSUME NEW a \in ToSet(LanSubnet)
       PROVE  \E q \in 1 .. 29 : AddMain(q, a) \in ToSet(LanBypasses)
  <2>1. PICK i \in 1 .. n : a = LanSubnet[i]
    BY <1>1 DEF ToSet
  <2>2. AddMain(9 + i, a) \in ToSet(LanBypasses) /\ 9 + i \in 1 .. 29
    <3>1. LanBypasses[i] = AddMain(9 + i, a) /\ i \in DOMAIN LanBypasses
      BY <1>2, <1>5, <2>1
    <3>2. LanBypasses[i] \in ToSet(LanBypasses)
      BY <3>1 DEF ToSet
    <3> QED BY <1>3, <3>1, <3>2
  <2> QED BY <2>2
<1> QED BY <1>9, <1>10

\* What is known of a script of the set-up of the routing.
RoutingScript(s) ==
  /\ s \in Seq(Routers) /\ SetUpOrder(s) /\ Followed(s)
  /\ {TunAdd, TunUp, AddAll, AddDefault} \subseteq ToSet(s)
  /\ \A x \in ToSet(LanSubnet) : \E p \in 1 .. 29 : AddMain(p, x) \in ToSet(s)
  /\ \A x \in ToSet(DnsServer) : \E p \in 1 .. 7 : AddMain(p, x) \in ToSet(s)

LEMMA SetUpScript ==
  ASSUME NEW ips \in SUBSET Server
  PROVE  RoutingScript(SetUpRouting(ips))
<1> DEFINE tun   == {TunAdd, TunUp}
           batch == LoadBatch(Direct \cup Forced)
           a == TunCreate \o ServerBypasses(ips)
           b == a \o DnsBypasses
           c == b \o LanBypasses
           d == c \o batch
           e == d \o AddCatchall
           f == e \o SetDefault
           g == f \o AddTorrentBypass
           A == tun \cup Bypassing
           D == A \cup {AddBatch}
           E == D \cup {AddAll}
           F == E \cup {AddDefault}
<1>1. Stretch(TunCreate, tun) /\ ToSet(TunCreate) = tun
  <2>1. TunCreate = <<TunAdd>> \o <<TunUp>>
    BY DEF TunCreate, TunAdd, TunUp
  <2>2. Stretch(<<TunAdd>> \o <<TunUp>>, {TunAdd} \cup {TunUp})
        /\ ToSet(<<TunAdd>> \o <<TunUp>>) = {TunAdd} \cup {TunUp}
    <3>1. TunUp \notin {TunAdd} /\ AddDefault \notin {TunAdd}
          /\ {TunAdd} \cap {AddAll, AddDefault} = {}
      BY Apart
    <3>2. /\ Stretch(<<TunAdd>>, {TunAdd}) /\ ToSet(<<TunAdd>>) = {TunAdd}
          /\ Stretch(<<TunUp>>, {TunUp}) /\ ToSet(<<TunUp>>) = {TunUp}
      BY SingleStretch
    <3>3. Stretch(<<TunAdd>> \o <<TunUp>>, {TunAdd} \cup {TunUp})
          /\ ToSet(<<TunAdd>> \o <<TunUp>>) = ToSet(<<TunAdd>>) \cup ToSet(<<TunUp>>)
      BY <3>1, <3>2, ConcatStretch
    <3> QED BY <3>2, <3>3
  <2> QED BY <2>1, <2>2
<1>2. Stretch(AddTorrentBypass, {DelTorrent, AddTorrent})
  <2>1. AddTorrentBypass = <<DelTorrent>> \o <<AddTorrent>>
    BY DEF AddTorrentBypass, DelTorrent, AddTorrent, Torrent
  <2>2. Stretch(<<DelTorrent>> \o <<AddTorrent>>, {DelTorrent} \cup {AddTorrent})
    <3>1. TunUp \notin {DelTorrent} /\ AddDefault \notin {DelTorrent}
          /\ {DelTorrent} \cap {AddAll, AddDefault} = {}
      BY Apart
    <3> QED BY <3>1, SingleStretch, ConcatStretch
  <2> QED BY <2>1, <2>2
<1>3. /\ Stretch(AddCatchall, {AddAll}) /\ ToSet(AddCatchall) = {AddAll}
      /\ Stretch(SetDefault, {AddDefault}) /\ ToSet(SetDefault) = {AddDefault}
  <2>1. AddCatchall = <<AddAll>> /\ SetDefault = <<AddDefault>>
    BY DEF AddCatchall, SetDefault, AddAll, AddDefault
  <2> QED BY <2>1, SingleStretch
<1>4. Stretch(batch, {AddBatch})
  <2>1. CASE Direct \cup Forced = {}
    <3>1. batch = << >>
      BY <2>1 DEF LoadBatch
    <3>2. DOMAIN batch = {} /\ batch \in Seq(Routers)
      BY <3>1
    <3> QED BY <3>2 DEF Stretch, SetUpOrder, Before, Followed, ToSet
  <2>2. CASE Direct \cup Forced # {}
    <3>1. batch = <<AddBatch>>
      BY <2>2 DEF LoadBatch, AddBatch
    <3> QED BY <3>1, SingleStretch
  <2> QED BY <2>1, <2>2
<1>5. Stretch(ServerBypasses(ips), Bypassing)
  BY ServerStretch
<1> HIDE DEF batch
<1> DEFINE torrent == {DelTorrent, AddTorrent}
<1>6. /\ AddDefault \notin tun /\ tun \cap {AddAll, AddDefault} = {}
       /\ AddDefault \notin A /\ A \cap {AddAll, AddDefault} = {}
       /\ AddDefault \notin D /\ D \cap {AddAll, AddDefault} = {}
       /\ AddDefault \notin E
  BY Apart
<1>7. /\ TunAdd \notin Bypassing /\ TunAdd \notin {AddBatch} /\ TunAdd \notin {AddAll}
       /\ TunAdd \notin {AddDefault} /\ TunAdd \notin torrent
       /\ TunUp \notin torrent
  BY Apart
<1>8. {AddDefault} \cap Bypassing = {} /\ torrent \cap Bypassing = {}
  BY Apart
<1> HIDE DEF tun, torrent
<1>9. Stretch(a, A) /\ ToSet(a) = ToSet(TunCreate) \cup ToSet(ServerBypasses(ips))
  BY <1>1, <1>5, <1>6, <1>7, ConcatStretch
<1> HIDE DEF a, A
<1>10. Stretch(b, A \cup Bypassing) /\ ToSet(b) = ToSet(a) \cup ToSet(DnsBypasses)
  BY <1>9, <1>6, <1>7, DnsStretch, ConcatStretch
<1> HIDE DEF b
<1>11. A \cup Bypassing = A
  BY DEF A
<1>12. Stretch(c, A) /\ ToSet(c) = ToSet(b) \cup ToSet(LanBypasses)
  <2>1. Stretch(b, A) /\ Stretch(LanBypasses, Bypassing)
    BY <1>10, <1>11, LanStretch
  <2>2. Stretch(c, A \cup Bypassing) /\ ToSet(c) = ToSet(b) \cup ToSet(LanBypasses)
    BY <1>6, <1>7, <2>1, ConcatStretch
  <2> QED BY <1>11, <2>2
<1> HIDE DEF c
<1>13. Stretch(d, D) /\ ToSet(d) = ToSet(c) \cup ToSet(batch)
  BY <1>4, <1>12, <1>6, <1>7, ConcatStretch
<1> HIDE DEF d, D
<1>14. Stretch(e, E) /\ ToSet(e) = ToSet(d) \cup ToSet(AddCatchall)
  BY <1>3, <1>13, <1>6, <1>7, ConcatStretch
<1> HIDE DEF e, E
<1>15. Stretch(f, F) /\ ToSet(f) = ToSet(e) \cup ToSet(SetDefault)
  BY <1>3, <1>14, <1>6, <1>7, <1>8, ConcatStretch
<1> HIDE DEF f, F
<1>16. Stretch(g, F \cup torrent) /\ ToSet(g) = ToSet(f) \cup ToSet(AddTorrentBypass)
  BY <1>2, <1>15, <1>7, <1>8, ConcatStretch DEF torrent
<1> HIDE DEF g
<1>17. /\ {TunAdd, TunUp, AddAll, AddDefault} \subseteq ToSet(g)
       /\ ToSet(DnsBypasses) \subseteq ToSet(g) /\ ToSet(LanBypasses) \subseteq ToSet(g)
  BY <1>1, <1>3, <1>9, <1>10, <1>12, <1>13, <1>14, <1>15, <1>16 DEF tun
<1>18. SetUpRouting(ips) = g
  BY DEF SetUpRouting, a, b, c, d, e, f, g, batch
<1> QED BY <1>16, <1>17, <1>18, DnsStretch, LanStretch DEF Stretch, RoutingScript

-----------------------------------------------------------------------------
(***************************************************************************)
(* The set-up of the routing, step by step.                                *)
(***************************************************************************)

\* A script begins.
LEMMA BeginRouting ==
  ASSUME NEW ips \in SUBSET Server, NEW k \in KernelType, NEW e, NEW s,
         s = SetUpRouting(ips),
         Captures(k) => "rules" \in e,
         "servers" \notin e => \A x \in Server : AddMain(PRIO_SERVER_IPS, x) \in ToSet(s)
  PROVE  RoutingInv(k, s, Coarse(k), e)
<1>1. RoutingScript(s)
  BY SetUpScript
<1>2. Capturing(k, s)
  BY <1>1 DEF RoutingScript, Capturing
<1>3. Assured(k, s, e)
  <2>1. \A x \in Server : AddMain(PRIO_SERVER_IPS, x) \in ToSet(s)
                            => \E p \in 1 .. 29 : AddMain(p, x) \in ToSet(s)
    BY DEF PRIO_SERVER_IPS
  <2> QED BY <1>1, <2>1 DEF RoutingScript, Assured
<1>4. Bypassed(k, s, e)
  BY <1>3 DEF Bypassed
<1>5. SameFirewall(k, Coarse(k))
  BY CoarseFields DEF SameFirewall
<1> QED BY <1>1, <1>2, <1>4, <1>5 DEF RoutingInv, RoutingScript

\* What a rule command does to the bypasses of an address.
LEMMA BypassAdded ==
  ASSUME NEW k \in KernelType, NEW c, c.op \in Op, NEW n \in Nat, NEW p \in 1 .. n - 1,
         NEW x, c = AddMain(p, x)
  PROVE  HasBypass(Exec(k, c), n, x)
<1>1. Exec(k, c).rules = k.rules \cup {Rule(p, x, "main")}
  <2>1. c.op = "rule-add" /\ c.arg = Rule(p, x, "main")
    BY RuleOps
  <2> QED BY <2>1, ExecRules
<1>2. p < n
  OBVIOUS
<1> QED BY <1>1, <1>2, RuleFields DEF HasBypass

LEMMA BypassKept ==
  ASSUME NEW k \in KernelType, NEW c, c.op \in Op, NEW n, NEW x, HasBypass(k, n, x),
         c.op # "rule-clear", c.op = "rule-del" => c.arg.to # x,
         c.op = "rule-del-to" => c.arg # x
  PROVE  HasBypass(Exec(k, c), n, x)
<1>1. PICK r \in k.rules : r.to = x /\ r.table = "main" /\ r.prio < n
  BY DEF HasBypass
<1>2. c.op = "rule-del-to" => r \notin FirstTo(k.rules, c.arg)
  BY <1>1 DEF FirstTo
<1>3. c.op = "rule-del" => r # c.arg
  BY <1>1
<1>4. r \in Exec(k, c).rules
  BY <1>1, <1>2, <1>3, ExecRules
<1> QED BY <1>1, <1>4 DEF HasBypass

\* A bypass that is assured stays so when a command of a set-up runs.
LEMMA StepAssured ==
  ASSUME NEW k \in KernelType, NEW s \in Seq(Routers), s # << >>, Followed(s),
         NEW n \in {8, 30}, NEW x \in Address,
         HasBypass(k, n, x) \/ \E p \in 1 .. n - 1 : AddMain(p, x) \in ToSet(s)
  PROVE  \/ HasBypass(Exec(k, Head(s)), n, x)
         \/ \E p \in 1 .. n - 1 : AddMain(p, x) \in ToSet(Tail(s))
<1> DEFINE c == Head(s)
<1>1. c \in Routers /\ c.op \in Op /\ ToSet(s) = {c} \cup ToSet(Tail(s))
  BY StepSet, CommandOp DEF Command
<1>2. CASE \E p \in 1 .. n - 1 : AddMain(p, x) \in ToSet(s)
  BY <1>1, <1>2, BypassAdded
<1>3. CASE HasBypass(k, n, x) /\ c.op = "rule-del-to" /\ c.arg = x
  <2>1. c = DelTo(x)
    BY <1>1, <1>3, RouterOps
  <2>2. PICK p \in 1 .. 7 : AddMain(p, x) \in ToSet(Tail(s))
    BY <2>1, StepFollowed
  <2>3. p \in 1 .. n - 1
    OBVIOUS
  <2> QED BY <2>2, <2>3
<1>4. CASE HasBypass(k, n, x) /\ ~(c.op = "rule-del-to" /\ c.arg = x)
  <2>1. c.op # "rule-clear"
    BY <1>1, RouterOps
  <2>2. c.op = "rule-del" => c.arg.to # x
    <3>1. c.op = "rule-del" => c.arg = Torrent
      BY <1>1, RouterOps, FixedArgs
    <3>2. Torrent.to = "fwmark"
      BY RuleFields DEF Torrent
    <3>3. "fwmark" \notin Address
      BY SetupAssumption DEF SetupAssumption
    <3> QED BY <3>1, <3>2, <3>3
  <2> QED BY <1>1, <1>4, <2>1, <2>2, BypassKept
<1> QED BY <1>2, <1>3, <1>4

LEMMA StepRouting ==
  ASSUME NEW k \in KernelType, NEW s, NEW b \in HostType, NEW e,
         RoutingInv(k, s, b, e), s # << >>
  PROVE  RoutingInv(Exec(k, Head(s)), Tail(s), b, e)
<1> DEFINE c == Head(s)  t == Tail(s)  l == Exec(k, c)
<1>1. /\ s \in Seq(Routers) /\ c \in Routers /\ t \in Seq(Routers)
      /\ ToSet(s) = {c} \cup ToSet(t)
  BY StepSet DEF RoutingInv
<1>2. c.op \in Op /\ l \in KernelType
  BY <1>1, CommandOp, ExecType DEF Command
<1>3. SetUpOrder(t)
      /\ (c = TunUp => TunAdd \notin ToSet(t))
      /\ (c = AddDefault => TunUp \notin ToSet(t))
      /\ (c \in {AddAll, AddDefault} => ToSet(t) \cap Bypassing = {})
  <2>1. Before({TunAdd}, {TunUp}, t) /\ (c = TunUp => TunAdd \notin ToSet(t))
    BY <1>1, StepBefore DEF RoutingInv, SetUpOrder
  <2>2. Before({TunUp}, {AddDefault}, t) /\ (c = AddDefault => TunUp \notin ToSet(t))
    BY <1>1, StepBefore DEF RoutingInv, SetUpOrder
  <2>3. /\ Before(Bypassing, {AddAll, AddDefault}, t)
        /\ c \in {AddAll, AddDefault} => ToSet(t) \cap Bypassing = {}
    BY <1>1, StepBefore DEF RoutingInv, SetUpOrder
  <2> QED BY <2>1, <2>2, <2>3 DEF SetUpOrder
<1>4. Followed(t)
  BY <1>1, StepFollowed DEF RoutingInv
<1>5. l.table = IF c.op = "route-add" THEN k.table \cup (c.arg \ IF k.tun = "up" THEN {} ELSE ViaTun)
                ELSE k.table
  BY <1>1, <1>2, ExecTable, RouterOps
<1>6. /\ CatchAll \in k.rules => CatchAll \in l.rules
      /\ CatchAll \in l.rules => CatchAll \in k.rules \/ c = AddAll
  <2>1. CatchAll.to = "all" /\ CatchAll.table = "vpn"
    BY RuleFields DEF CatchAll
  <2>2. c.op = "rule-del" => c.arg.to = "fwmark"
    <3>1. c.op = "rule-del" => c.arg = Torrent
      BY <1>1, RouterOps, FixedArgs
    <3>2. Torrent.to = "fwmark"
      BY RuleFields DEF Torrent
    <3> QED BY <3>1, <3>2
  <2>3. c.op = "rule-del-to" => CatchAll \notin FirstTo(k.rules, c.arg)
    <3>1. "all" \notin Address
      BY SetupAssumption DEF SetupAssumption
    <3> QED BY <1>1, <2>1, <3>1, RouterOps DEF FirstTo
  <2>4. c.op = "rule-add" /\ c # AddAll => c.arg # CatchAll
    <3>1. c \in Bypasses => c.arg.table = "main"
      <4> SUFFICES ASSUME c \in Bypasses PROVE c.arg.table = "main"
        OBVIOUS
      <4>1. PICK p, x : c.arg = Rule(p, x, "main")
        BY BypassRule
      <4> QED BY <4>1 DEF Rule
    <3>2. AddTorrent.arg.table = "main"
      <4>1. AddTorrent.arg = Torrent
        BY FixedArgs
      <4>2. Torrent.table = "main"
        BY RuleFields DEF Torrent
      <4> QED BY <4>1, <4>2
    <3> QED BY <1>1, <2>1, <3>1, <3>2, RouterOps
  <2>5. l.rules = IF c.op = "rule-add" THEN k.rules \cup {c.arg}
                  ELSE IF c.op = "rule-del" THEN k.rules \ {c.arg}
                  ELSE IF c.op = "rule-del-to" THEN k.rules \ FirstTo(k.rules, c.arg)
                  ELSE k.rules
    BY <1>1, <1>2, ExecRules, RouterOps
  <2>6. c.op = "rule-del" => c.arg # CatchAll
    BY <2>1, <2>2
  <2>7. CatchAll \in k.rules => CatchAll \in l.rules
    BY <2>3, <2>5, <2>6
  <2>8. CatchAll \in l.rules => CatchAll \in k.rules \/ c = AddAll
    BY <2>4, <2>5
  <2> QED BY <2>7, <2>8
<1>7. "default" \in l.table => "default" \in k.table \/ c = AddDefault
  <2>1. c.op = "route-add" /\ c # AddDefault => "default" \notin c.arg
    BY <1>1, RouterOps, FixedArgs, SetupAssumption DEF SetupAssumption
  <2> QED BY <1>5, <2>1
<1>8. Capturing(l, t)
  <2>1. l.tun = IF c.op = "tun-add" THEN (IF k.tun = "absent" THEN "down" ELSE k.tun)
                ELSE IF c.op = "tun-up" THEN (IF k.tun = "absent" THEN "absent" ELSE "up")
                ELSE k.tun
    BY <1>1, <1>2, ExecTun, RouterOps
  <2>2. l.tun # "absent" \/ TunAdd \in ToSet(t)
    BY <1>1, <2>1, FixedOps DEF RoutingInv, Capturing
  <2>3. l.tun = "up" \/ TunUp \in ToSet(t)
    <3>1. c = TunUp => k.tun # "absent"
      BY <1>1, <1>3, FixedOps DEF RoutingInv, Capturing
    <3> QED BY <1>1, <2>1, <3>1, FixedOps DEF RoutingInv, Capturing
  <2>4. CatchAll \in l.rules \/ AddAll \in ToSet(t)
    <3>1. c = AddAll => CatchAll \in l.rules
      <4>1. c = AddAll => c.op = "rule-add" /\ c.arg = CatchAll
        BY FixedOps, FixedArgs
      <4> QED BY <1>2, <4>1, ExecRules
    <3> QED BY <1>1, <1>6, <3>1 DEF RoutingInv, Capturing
  <2>5. "default" \in l.table \/ AddDefault \in ToSet(t)
    <3>1. c = AddDefault => k.tun = "up"
      BY <1>1, <1>3, FixedOps DEF RoutingInv, Capturing
    <3>2. c = AddDefault => "default" \in l.table
      BY <1>5, <3>1, FixedOps, FixedArgs
    <3> QED BY <1>1, <1>5, <3>2 DEF RoutingInv, Capturing
  <2> QED BY <2>2, <2>3, <2>4, <2>5 DEF Capturing
<1>9. Bypassed(l, t, e)
  <2> SUFFICES ASSUME "rules" \notin e
               PROVE  Assured(l, t, e) /\ (Captures(l) => ToSet(t) \cap Bypassing = {})
    BY DEF Bypassed
  <2>1. Assured(k, s, e) /\ (Captures(k) => ToSet(s) \cap Bypassing = {})
    BY DEF RoutingInv, Bypassed
  <2>2. Captures(l) => ToSet(t) \cap Bypassing = {}
    <3>1. Captures(l) => Captures(k) \/ c \in {AddAll, AddDefault}
      BY <1>6, <1>7 DEF Captures
    <3> QED BY <1>1, <1>3, <2>1, <3>1
  <2>3. \A n \in {8, 30}, x \in Address :
          HasBypass(k, n, x) \/ (\E p \in 1 .. n - 1 : AddMain(p, x) \in ToSet(s))
            => HasBypass(l, n, x) \/ (\E p \in 1 .. n - 1 : AddMain(p, x) \in ToSet(t))
    BY <1>1, StepAssured DEF RoutingInv
  <2>4. 30 - 1 = 29 /\ 8 - 1 = 7
    OBVIOUS
  <2>5. \A x \in Address :
          HasBypass(k, 30, x) \/ (\E p \in 1 .. 29 : AddMain(p, x) \in ToSet(s))
            => HasBypass(l, 30, x) \/ (\E p \in 1 .. 29 : AddMain(p, x) \in ToSet(t))
    BY <2>3, <2>4
  <2>6. \A x \in Address :
          HasBypass(k, 8, x) \/ (\E p \in 1 .. 7 : AddMain(p, x) \in ToSet(s))
            => HasBypass(l, 8, x) \/ (\E p \in 1 .. 7 : AddMain(p, x) \in ToSet(t))
    BY <2>3, <2>4
  <2>7. Assured(l, t, e)
    BY <2>1, <2>5, <2>6 DEF Assured, Address
  <2> QED BY <2>2, <2>7
<1>10. SameFirewall(l, b)
  <2>1. c.op \notin {"nat-hook-once", "nat-unhook", "nat-chain", "nat-delete", "mss-add",
                     "mss-del", "ipv6"}
    BY <1>1, RouterOps
  <2>2. l.hooks = k.hooks /\ l.chain = k.chain /\ l.mss = k.mss /\ l.ipv6off = k.ipv6off
    BY <1>2, <2>1, ExecNat, ExecMss, ExecIpv6
  <2>3. Coarse(l).nat = Coarse(k).nat
    BY <2>2 DEF Coarse
  <2> QED BY <2>2, <2>3 DEF RoutingInv, SameFirewall
<1> QED BY <1>1, <1>3, <1>4, <1>8, <1>9, <1>10 DEF RoutingInv

LEMMA EndRouting ==
  ASSUME NEW k \in KernelType, NEW s, NEW b \in HostType, NEW e, RoutingInv(k, s, b, e)
  PROVE  /\ s = << >> => Coarse(k) \in After("routing", b)
         /\ Coarse(k) \in During("routing", b)
<1>1. Coarse(k) = Host(Coarse(k).routing, b.nat, b.mss, b.ipv6off)
  BY CoarseFields DEF RoutingInv, SameFirewall
<1>2. After("routing", b) = {RoutingApplied(b)}
  BY DEF After
<1>3. Coarse(k).routing = "full" => Coarse(k) \in After("routing", b)
  BY <1>1, <1>2, HostOps
<1>4. s = << >> => Coarse(k).routing = "full"
  BY EmptySet, CoarseFields DEF RoutingInv, Capturing, Captures
<1>5. Coarse(k).routing # "full" => Coarse(k) \in PartlyRemoved(b)
  BY <1>1, PartlyOps, CoarseFields
<1> QED BY <1>3, <1>4, <1>5 DEF During

-----------------------------------------------------------------------------
(***************************************************************************)
(* The set-up of the firewall, step by step.                               *)
(***************************************************************************)
LEMMA AppendOne ==
  ASSUME NEW S, NEW s \in Seq(S), NEW c \in S
  PROVE  /\ s \o <<c>> \in Seq(S) /\ Len(s \o <<c>>) = Len(s) + 1
         /\ (s \o <<c>>)[Len(s) + 1] = c
         /\ \A i \in 1 .. Len(s) : (s \o <<c>>)[i] = s[i]
  OBVIOUS

LEMMA BeginFirewall ==
  ASSUME NEW k \in KernelType
  PROVE  FirewallInv(k, SetUpFirewall, Coarse(k)) /\ AddMss \in ToSet(SetUpFirewall)
<1> DEFINE F == Firewallers
           q == <<NewChain, Hook>>
           u == q \o <<AddMss>>
           v == u \o <<ForwardOn>>
           s == v \o <<Ipv6Off>>
<1>1. SetUpFirewall = s
  BY DEF SetUpFirewall, NatApply, MssApply, EnableIpForward, DisableIpv6Wan,
         NewChain, Hook, AddMss, ForwardOn, Ipv6Off
<1>2. NewChain \in F /\ Hook \in F /\ AddMss \in F /\ ForwardOn \in F /\ Ipv6Off \in F
  BY DEF Firewallers
<1> HIDE DEF F
<1>3. q \in Seq(F) /\ Len(q) = 2 /\ q[1] = NewChain /\ q[2] = Hook
  BY <1>2
<1> HIDE DEF q
<1>4. u \in Seq(F) /\ Len(u) = 3 /\ u[1] = NewChain /\ u[2] = Hook /\ u[3] = AddMss
  <2>1. u \in Seq(F)
    BY <1>2, <1>3, AppendOne
  <2>2. Len(u) = Len(q) + 1 /\ u[Len(q) + 1] = AddMss
    <3>1. q \in Seq(F)
      BY <1>3
    <3> QED BY <1>2, <3>1, AppendOne, Zenon
  <2>3. u[1] = q[1] /\ u[2] = q[2]
    <3>1. \A i \in 1 .. Len(q) : u[i] = q[i]
      <4>1. q \in Seq(F)
        BY <1>3
      <4> QED BY <1>2, <4>1, AppendOne
    <3>2. Len(q) = 2
      BY <1>3
    <3>3. \A i \in 1 .. 2 : u[i] = q[i]
      BY <3>1, <3>2
    <3>4. 1 \in 1 .. 2 /\ 2 \in 1 .. 2
      OBVIOUS
    <3> QED BY <3>3, <3>4, Zenon
  <2> QED BY <1>3, <2>1, <2>2, <2>3
<1> HIDE DEF u
<1>5. v \in Seq(F) /\ Len(v) = 4 /\ v[1] = NewChain /\ v[2] = Hook /\ v[3] = AddMss
       /\ v[4] = ForwardOn
  <2>1. v \in Seq(F)
    BY <1>2, <1>4, AppendOne
  <2>2. Len(v) = Len(u) + 1 /\ v[Len(u) + 1] = ForwardOn
    <3>1. u \in Seq(F)
      BY <1>4
    <3> QED BY <1>2, <3>1, AppendOne, Zenon
  <2>3. v[1] = u[1] /\ v[2] = u[2] /\ v[3] = u[3]
    <3>1. \A i \in 1 .. Len(u) : v[i] = u[i]
      <4>1. u \in Seq(F)
        BY <1>4
      <4> QED BY <1>2, <4>1, AppendOne
    <3>2. Len(u) = 3
      BY <1>4
    <3>3. \A i \in 1 .. 3 : v[i] = u[i]
      BY <3>1, <3>2
    <3>4. 1 \in 1 .. 3 /\ 2 \in 1 .. 3 /\ 3 \in 1 .. 3
      OBVIOUS
    <3> QED BY <3>3, <3>4, Zenon
  <2> QED BY <1>4, <2>1, <2>2, <2>3
<1> HIDE DEF v
<1>6. s \in Seq(F) /\ Len(s) = 5 /\ s[1] = NewChain /\ s[2] = Hook /\ s[3] = AddMss
       /\ s[4] = ForwardOn /\ s[5] = Ipv6Off
  <2>1. s \in Seq(F)
    BY <1>2, <1>5, AppendOne
  <2>2. Len(s) = Len(v) + 1 /\ s[Len(v) + 1] = Ipv6Off
    <3>1. v \in Seq(F)
      BY <1>5
    <3> QED BY <1>2, <3>1, AppendOne, Zenon
  <2>3. s[1] = v[1] /\ s[2] = v[2] /\ s[3] = v[3] /\ s[4] = v[4]
    <3>1. \A i \in 1 .. Len(v) : s[i] = v[i]
      <4>1. v \in Seq(F)
        BY <1>5
      <4> QED BY <1>2, <4>1, AppendOne
    <3>2. Len(v) = 4
      BY <1>5
    <3>3. \A i \in 1 .. 4 : s[i] = v[i]
      BY <3>1, <3>2
    <3>4. 1 \in 1 .. 4 /\ 2 \in 1 .. 4 /\ 3 \in 1 .. 4 /\ 4 \in 1 .. 4
      OBVIOUS
    <3> QED BY <3>3, <3>4, Zenon
  <2> QED BY <1>5, <2>1, <2>2, <2>3
<1> HIDE DEF s
<1>7. s \in Seq(Firewallers) /\ s # << >> /\ DOMAIN s = 1 .. 5
  BY <1>6 DEF F
<1>8. s[1] = NewChain /\ s[2] = Hook /\ s[3] = AddMss /\ s[4] = ForwardOn /\ s[5] = Ipv6Off
  BY <1>6
<1>9. ToSet(s) = Firewallers
  <2>1. ToSet(s) = {s[i] : i \in 1 .. 5}
    BY <1>7 DEF ToSet
  <2>2. {s[i] : i \in 1 .. 5} = {s[1], s[2], s[3], s[4], s[5]}
    OBVIOUS
  <2> QED BY <1>8, <2>1, <2>2 DEF Firewallers
<1>10. \A i \in 1 .. 5 : /\ s[i] = NewChain => i = 1
                         /\ s[i] = Hook => i = 2
                         /\ s[i] = AddMss => i = 3
                         /\ s[i] = Ipv6Off => i = 5
  BY <1>8, FixedOps
<1>11. Before({NewChain}, {Hook, AddMss}, s) /\ Before({AddMss}, {AddMss}, s)
      /\ Before(Firewallers, {Ipv6Off}, s)
  <2>1. Before({NewChain}, {Hook, AddMss}, s)
    BY <1>7, <1>10 DEF Before
  <2>2. Before({AddMss}, {AddMss}, s)
    BY <1>7, <1>10 DEF Before
  <2>3. Before(Firewallers, {Ipv6Off}, s)
    <3> SUFFICES ASSUME NEW i \in 1 .. 5, NEW j \in 1 .. 5, s[j] = Ipv6Off
                 PROVE  i =< j
      BY <1>7 DEF Before
    <3> QED BY <1>10
  <2> QED BY <2>1, <2>2, <2>3
<1>12. FirewallInv(k, s, Coarse(k))
  BY <1>7, <1>9, <1>11, CoarseFields DEF FirewallInv, Hooking, Clamping, Firewallers
<1>13. AddMss \in ToSet(s)
  BY <1>9 DEF Firewallers
<1> QED BY <1>1, <1>12, <1>13

LEMMA StepFirewall ==
  ASSUME NEW k \in KernelType, NEW s, NEW b \in HostType,
         FirewallInv(k, s, b), Hooked(k), s # << >>
  PROVE  FirewallInv(Exec(k, Head(s)), Tail(s), b) /\ Hooked(Exec(k, Head(s)))
<1> DEFINE c == Head(s)  t == Tail(s)  l == Exec(k, c)
<1>1. /\ s \in Seq(Firewallers) /\ c \in Firewallers /\ t \in Seq(Firewallers)
      /\ ToSet(s) = {c} \cup ToSet(t)
  BY StepSet DEF FirewallInv
<1>2. c.op \in Op /\ l \in KernelType
  BY <1>1, CommandOp, ExecType DEF Command
<1>3. k.hooks \in {0, 1} /\ k.chain \in BOOLEAN /\ k.mss \in Nat
      /\ l.hooks \in Nat /\ l.chain \in BOOLEAN
  BY <1>2, Fields DEF Hooked
<1>4. /\ Before({NewChain}, {Hook, AddMss}, t)
      /\ c \in {Hook, AddMss} => NewChain \notin ToSet(t)
  BY <1>1, StepBefore DEF FirewallInv, Hooking
<1>5. l.chain <=> k.chain \/ c = NewChain
  BY <1>1, <1>2, <1>3, ExecNat, FirewallerOps, FixedOps
<1>6. l.hooks = IF c = Hook THEN 1 ELSE k.hooks
  BY <1>1, <1>2, <1>3, ExecNat, FirewallerOps, FixedOps
<1>7. c \in {Hook, AddMss} => k.chain
  BY <1>1, <1>4, FixedOps DEF FirewallInv, Hooking
<1>8. Hooked(l)
  BY <1>3, <1>5, <1>6, <1>7 DEF Hooked
<1>9. Hooking(l, t, b)
  <2>1. l.chain \/ NewChain \in ToSet(t)
    BY <1>1, <1>5 DEF FirewallInv, Hooking
  <2>2. Coarse(k).nat => Coarse(l).nat
    BY <1>2, <1>3, <1>5, <1>6, CoarseFields
  <2> QED BY <1>4, <2>1, <2>2 DEF FirewallInv, Hooking
<1>10. Clamping(l, t, b)
  <2>1. /\ Before({AddMss}, {AddMss}, t)
        /\ c = AddMss => AddMss \notin ToSet(t)
    BY <1>1, StepBefore DEF FirewallInv, Clamping
  <2>2. l.mss = IF c = AddMss THEN k.mss + 1 ELSE k.mss
    BY <1>1, <1>2, ExecMss, FirewallerOps, FixedOps
  <2> QED BY <1>1, <1>5, <1>7, <2>1, <2>2 DEF FirewallInv, Clamping
<1>11. /\ Before(Firewallers, {Ipv6Off}, t)
       /\ IF t = << >> THEN l.ipv6off ELSE Ipv6Off \in ToSet(t) /\ l.ipv6off = b.ipv6off
  <2>1. /\ Before(Firewallers, {Ipv6Off}, t)
        /\ c = Ipv6Off => ToSet(t) \cap Firewallers = {}
    BY <1>1, StepBefore DEF FirewallInv
  <2>2. t # << >> => Head(t) \in ToSet(t) \cap Firewallers
    BY <1>1, StepSet
  <2>3. /\ c = Ipv6Off => l.ipv6off
        /\ c # Ipv6Off => l.ipv6off = k.ipv6off
    BY <1>1, <1>2, ExecIpv6, FirewallerOps, FixedOps, FixedArgs
  <2>4. c = Ipv6Off => t = << >>
    BY <2>1, <2>2
  <2>5. c # Ipv6Off => Ipv6Off \in ToSet(t) /\ t # << >>
    BY <1>1, EmptySet DEF FirewallInv
  <2>6. k.ipv6off = b.ipv6off
    BY DEF FirewallInv
  <2> QED BY <2>1, <2>3, <2>4, <2>5, <2>6
<1>12. Coarse(l).routing = b.routing
  <2>1. l.rules = k.rules /\ l.table = k.table
    BY <1>1, <1>2, ExecRules, ExecTable, FirewallerOps
  <2>2. Coarse(l).routing = Coarse(k).routing
    BY <2>1 DEF Coarse, Captures, OwnRules
  <2> QED BY <2>2 DEF FirewallInv
<1> QED BY <1>1, <1>8, <1>9, <1>10, <1>11, <1>12 DEF FirewallInv

LEMMA EndFirewall ==
  ASSUME NEW k \in KernelType, NEW s, NEW b \in HostType, FirewallInv(k, s, b)
  PROVE  /\ s = << >> => Coarse(k) \in After("firewall", b)
         /\ s # << >> => Coarse(k) \in During("firewall", b)
<1>1. Coarse(k) = Host(b.routing, Coarse(k).nat, k.mss, k.ipv6off)
  BY CoarseFields DEF FirewallInv
<1>2. k.chain => Coarse(k).nat = TRUE
  BY CoarseFields
<1>3. k.ipv6off \in BOOLEAN /\ b.ipv6off \in BOOLEAN
  BY Fields, HostFields
<1>4. ASSUME s = << >>
      PROVE  Coarse(k) \in After("firewall", b)
  <2>1. k.mss = b.mss + 1 /\ k.chain
    BY <1>4, EmptySet DEF FirewallInv, Clamping
  <2>2. k.ipv6off = TRUE
    BY <1>3, <1>4 DEF FirewallInv
  <2>3. After("firewall", b) = {FirewallApplied(b)}
    BY DEF After
  <2>4. Coarse(k) = Host(b.routing, TRUE, b.mss + 1, TRUE)
    BY <1>1, <1>2, <2>1, <2>2
  <2> QED BY <2>3, <2>4, HostOps
<1>5. ASSUME s # << >>
      PROVE  Coarse(k) \in {b} \cup PartlyFirewalled(b)
  <2>1. k.ipv6off = b.ipv6off
    BY <1>5 DEF FirewallInv
  <2>2. k.mss = b.mss \/ (k.mss = b.mss + 1 /\ k.chain)
    <3>1. CASE AddMss \in ToSet(s)
      <4>1. k.mss = b.mss
        BY <3>1 DEF FirewallInv, Clamping
      <4> QED BY <4>1
    <3>2. CASE AddMss \notin ToSet(s)
      <4>1. k.mss = b.mss + 1
        BY <3>2 DEF FirewallInv, Clamping
      <4>2. k.chain
        BY <3>2 DEF FirewallInv, Clamping
      <4> QED BY <4>1, <4>2
    <3> QED BY <3>1, <3>2
  <2>3. Coarse(k).nat = b.nat \/ Coarse(k).nat = TRUE
    BY CoarseFields, HostFields DEF FirewallInv, Hooking
  <2>4. CASE Coarse(k).nat = TRUE
    <3>1. Coarse(k) = Host(b.routing, TRUE, k.mss, b.ipv6off)
      BY <1>1, <2>1, <2>4
    <3> QED BY <2>2, <3>1, PartlyOps
  <2>5. CASE Coarse(k).nat = b.nat /\ Coarse(k).nat # TRUE
    <3>1. k.mss = b.mss
      BY <1>2, <2>2, <2>5
    <3>2. Coarse(k) = Host(b.routing, b.nat, b.mss, b.ipv6off)
      BY <1>1, <2>1, <2>5, <3>1
    <3> QED BY <3>2, HostFields
  <2> QED BY <2>3, <2>4, <2>5
<1> QED BY <1>4, <1>5 DEF During

-----------------------------------------------------------------------------
(***************************************************************************)
(* A server change, step by step.                                          *)
(***************************************************************************)
LEMMA SwitchScript ==
  ASSUME NEW ips \in SUBSET Server
  PROVE  SwitchBypasses(ips) \in Seq(Changers)
<1>1. ClearServerBypasses = <<Clear(PRIO_SERVER_IPS)>>
  BY DEF ClearServerBypasses, Clear
<1>2. ClearServerBypasses \in Seq(Changers)
  BY <1>1 DEF Changers
<1>3. ServerBypasses(ips) \in Seq(Changers)
  <2>1. ServerBypasses(ips) \in Seq(Routers) /\ ToSet(ServerBypasses(ips)) \subseteq Changers
    BY ServerStretch DEF Stretch
  <2>2. \A i \in DOMAIN ServerBypasses(ips) : ServerBypasses(ips)[i] \in Changers
    BY <2>1 DEF ToSet
  <2> QED BY <2>1, <2>2
<1> QED BY <1>2, <1>3 DEF SwitchBypasses

LEMMA BeginChange ==
  ASSUME NEW ips \in SUBSET Server, NEW k \in KernelType
  PROVE  ChangeInv(k, SwitchBypasses(ips), Coarse(k))
  BY SwitchScript, CoarseFields DEF ChangeInv, SameFirewall

LEMMA StepChange ==
  ASSUME NEW k \in KernelType, NEW s, NEW b \in HostType, ChangeInv(k, s, b), s # << >>
  PROVE  ChangeInv(Exec(k, Head(s)), Tail(s), b)
<1> DEFINE c == Head(s)  t == Tail(s)  l == Exec(k, c)
<1>1. s \in Seq(Changers) /\ c \in Changers /\ t \in Seq(Changers)
  BY StepSet DEF ChangeInv
<1>2. c.op \in Op /\ l \in KernelType
  BY <1>1, CommandOp, ExecType DEF Command
<1>3. /\ CatchAll \in k.rules <=> CatchAll \in l.rules
      /\ l.table = k.table
  <2>1. CatchAll.to = "all" /\ CatchAll.table = "vpn" /\ CatchAll.prio = 30
    BY RuleFields DEF CatchAll, PRIO_CATCHALL
  <2>2. "all" \notin Server
    BY SetupAssumption DEF SetupAssumption, Address
  <2>3. c.op = "rule-clear" => c.arg # 30
    BY <1>1, ChangerOps DEF PRIO_SERVER_IPS
  <2>4. c.op = "rule-add" => c.arg # CatchAll
    BY <1>1, <2>1, ChangerOps, RuleFields
  <2>5. c.op = "rule-del-to" => CatchAll \notin FirstTo(k.rules, c.arg)
    BY <1>1, <2>1, <2>2, ChangerOps DEF FirstTo
  <2>6. l.rules = IF c.op = "rule-add" THEN k.rules \cup {c.arg}
                  ELSE IF c.op = "rule-del-to" THEN k.rules \ FirstTo(k.rules, c.arg)
                  ELSE {r \in k.rules : r.prio # c.arg}
    BY <1>1, <1>2, ExecRules, ChangerOps
  <2>7. CatchAll \in k.rules <=> CatchAll \in l.rules
    BY <1>1, <2>1, <2>3, <2>4, <2>5, <2>6, ChangerOps
  <2>8. l.table = k.table
    BY <1>1, <1>2, ExecTable, ChangerOps
  <2> QED BY <2>7, <2>8
<1>4. Captures(l) <=> b.routing = "full"
  BY <1>3 DEF ChangeInv, Captures
<1>5. SameFirewall(l, b)
  <2>1. c.op \notin {"nat-hook-once", "nat-unhook", "nat-chain", "nat-delete", "mss-add",
                     "mss-del", "ipv6"}
    BY <1>1, ChangerOps
  <2>2. l.hooks = k.hooks /\ l.chain = k.chain /\ l.mss = k.mss /\ l.ipv6off = k.ipv6off
    BY <1>2, <2>1, ExecNat, ExecMss, ExecIpv6
  <2>3. Coarse(l).nat = Coarse(k).nat
    BY <2>2 DEF Coarse
  <2> QED BY <2>2, <2>3 DEF ChangeInv, SameFirewall
<1> QED BY <1>1, <1>4, <1>5 DEF ChangeInv

LEMMA EndChange ==
  ASSUME NEW k \in KernelType, NEW s, NEW b \in HostType, ChangeInv(k, s, b)
  PROVE  Coarse(k) \in After("server.change", b) /\ Coarse(k) \in During("server.change", b)
<1>1. After("server.change", b) = Rebypassed(b)
  BY DEF After
<1>2. Coarse(k) = Host(Coarse(k).routing, b.nat, b.mss, b.ipv6off)
  BY CoarseFields DEF ChangeInv, SameFirewall
<1>3. Coarse(k).routing = "full" <=> b.routing = "full"
  BY CoarseFields DEF ChangeInv
<1>4. CASE b.routing = "full"
  <2>1. Coarse(k) = b
    BY <1>2, <1>3, <1>4, HostFields
  <2> QED BY <1>1, <2>1 DEF Rebypassed, During
<1>5. CASE b.routing # "full"
  <2>1. SomeRouting(b) = Host("partial", b.nat, b.mss, b.ipv6off)
    BY <1>5, HostOps DEF SomeRouting
  <2>2. [b EXCEPT !.routing = "none"] = Host("none", b.nat, b.mss, b.ipv6off)
    BY HostOps
  <2>3. Rebypassed(b) = {b, SomeRouting(b)} \cup {[b EXCEPT !.routing = "none"]}
    BY <1>5 DEF Rebypassed
  <2>4. Coarse(k).routing \in {"none", "partial"}
    BY <1>3, <1>5, CoarseFields
  <2>5. Coarse(k) \in Rebypassed(b)
    BY <1>2, <2>1, <2>2, <2>3, <2>4
  <2> QED BY <1>1, <2>5 DEF During
<1> QED BY <1>4, <1>5

-----------------------------------------------------------------------------
(***************************************************************************)
(* The bypasses, whatever the job.                                         *)
(***************************************************************************)
LEMMA StepServerRules ==
  ASSUME NEW k \in KernelType, NEW c \in Command, ServerRules(k)
  PROVE  ServerRules(Exec(k, c))
<1>1. c.op \in Op
  BY CommandOp
<1>2. c.op = "rule-add" => (c.arg.prio = PRIO_SERVER_IPS => c.arg.to \in Server)
  <2>1. CASE c \in Removers \cup Firewallers
    BY <2>1, RemoverOps, FirewallerOps
  <2>2. CASE c \in Routers /\ c.op = "rule-add"
    <3>1. CatchAll.prio = 30 /\ Torrent.prio = 20
      BY RuleFields DEF CatchAll, Torrent, PRIO_CATCHALL, PRIO_TORRENT
    <3>2. CASE c \in Bypasses
      BY <3>2, BypassRule, RuleFields
    <3> QED BY <2>2, <3>1, <3>2, RouterOps, FixedArgs DEF PRIO_SERVER_IPS
  <2>3. CASE c \in Changers
    BY <2>3, ChangerOps, RuleFields
  <2> QED BY <2>1, <2>2, <2>3 DEF Command
<1>3. \A r \in Exec(k, c).rules : r \in k.rules \/ (c.op = "rule-add" /\ r = c.arg)
  BY <1>1, ExecRules
<1> QED BY <1>2, <1>3 DEF ServerRules

LEMMA BypassView ==
  /\ BypassFirst <=> BypassHolds(kernel, excused)
  /\ BypassFirst' <=> BypassHolds(kernel', excused')
<1>1. \A n, x : BypassedBelow(n, x) <=> HasBypass(kernel, n, x)
  BY DEF BypassedBelow, HasBypass
<1>2. \A n, x : BypassedBelow(n, x)' <=> HasBypass(kernel', n, x)
  BY DEF BypassedBelow, HasBypass
<1>3. PRIO_CATCHALL = 30 /\ WireGuardPrio = 8
  BY DEF PRIO_CATCHALL, WireGuardPrio
<1>4. BypassFirst <=> BypassHolds(kernel, excused)
  BY <1>1, <1>3, EmptySet DEF BypassFirst, BypassHolds, Assured
<1>5. BypassFirst' <=> BypassHolds(kernel', excused')
  BY <1>2, <1>3, EmptySet DEF BypassFirst, BypassHolds, Assured
<1> QED BY <1>4, <1>5

\* More excuses, fewer promises.
LEMMA BypassExcused ==
  ASSUME NEW k, NEW e, NEW d, BypassHolds(k, e)
  PROVE  BypassHolds(k, e \cup d)
  BY DEF BypassHolds, Assured

LEMMA RoutingBypass ==
  ASSUME NEW k, NEW s, NEW b, NEW e, RoutingInv(k, s, b, e)
  PROVE  BypassHolds(k, e)
<1> SUFFICES ASSUME Captures(k), "rules" \notin e
             PROVE  Assured(k, << >>, e)
  BY DEF BypassHolds
<1>1. Assured(k, s, e) /\ ToSet(s) \cap Bypassing = {} /\ s \in Seq(Routers)
  BY DEF RoutingInv, Bypassed
<1>2. ASSUME NEW p, NEW x \in Address, AddMain(p, x) \in ToSet(s)
      PROVE  FALSE
  <2>1. AddMain(p, x) \in Routers
    BY <1>1, <1>2 DEF ToSet
  <2>2. AddMain(p, x) \in Bypasses \cup {AddAll, AddTorrent}
    BY <2>1, RouterOps, RuleOps
  <2>3. AddMain(p, x).arg = Rule(p, x, "main") /\ AddAll.arg = CatchAll
        /\ AddTorrent.arg = Torrent
    BY RuleOps, FixedArgs
  <2>4. Rule(p, x, "main").table = "main" /\ Rule(p, x, "main").to = x
        /\ CatchAll.table = "vpn" /\ Torrent.to = "fwmark"
    BY RuleFields DEF CatchAll, Torrent
  <2>5. x # "fwmark"
    BY SetupAssumption DEF SetupAssumption
  <2>6. AddMain(p, x) \in Bypasses
    BY <2>2, <2>3, <2>4, <2>5
  <2> QED BY <1>1, <1>2, <2>6 DEF Bypassing
<1> QED BY <1>1, <1>2, EmptySet DEF Assured, Address

\* A server change deletes rules to servers only.
LEMMA ChangeBypass ==
  ASSUME NEW k \in KernelType, NEW c \in Changers, NEW e, "servers" \in e,
         "server.change" \in Rpcs, ServerRules(k), BypassHolds(k, e),
         Captures(Exec(k, c)) => Captures(k)
  PROVE  BypassHolds(Exec(k, c), e)
<1> DEFINE l == Exec(k, c)
<1>1. c.op \in Op
  BY CommandOp DEF Command
<1>2. ASSUME NEW n, NEW x \in ToSet(DnsServer) \cup ToSet(LanSubnet), HasBypass(k, n, x)
      PROVE  HasBypass(l, n, x)
  <2>1. x \notin Server
    BY ServersApart
  <2>2. PICK r \in k.rules : r.to = x /\ r.table = "main" /\ r.prio < n
    BY <1>2 DEF HasBypass
  <2>3. c.op = "rule-clear" => r.prio # c.arg
    BY <2>1, <2>2, ChangerOps DEF ServerRules
  <2>4. c.op = "rule-del-to" => r \notin FirstTo(k.rules, c.arg)
    BY <2>1, <2>2, ChangerOps DEF FirstTo
  <2>5. r \in l.rules
    BY <1>1, <2>2, <2>3, <2>4, ExecRules, ChangerOps
  <2> QED BY <2>2, <2>5 DEF HasBypass
<1> QED BY <1>2, EmptySet DEF BypassHolds, Assured

-----------------------------------------------------------------------------
(***************************************************************************)
(* The jobs of the daemon.                                                 *)
(***************************************************************************)
LEMMA JobKinds ==
  /\ Job \ {"none"} = Removal \cup {"routing", "firewall", "server.change"}
  /\ Chunk \subseteq Job
  /\ Removal \cap {"none", "routing", "firewall", "server.change"} = {}
  BY DEF Job, Chunk, Removal

LEMMA ResolvedServers == Resolved \subseteq SUBSET Server
  BY DEF Resolved

LEMMA WiderSeq ==
  ASSUME NEW S, NEW T, S \subseteq T, NEW s \in Seq(S)
  PROVE  s \in Seq(T)
  OBVIOUS

LEMMA ScriptCommands ==
  ASSUME NEW j \in Job \ {"none"}, NEW s \in Scripts(j)
  PROVE  s \in Seq(Command)
<1>1. Removers \subseteq Command /\ Routers \subseteq Command
      /\ Firewallers \subseteq Command /\ Changers \subseteq Command
  BY DEF Command
<1>2. CASE j \in Removal
  <2>1. s \in Seq(Removers)
    BY <1>2, RemovalScripts DEF RemovalScript
  <2> QED BY <1>1, <2>1, WiderSeq
<1>3. CASE j = "routing"
  <2>1. PICK ips \in Resolved : s = SetUpRouting(ips)
    BY <1>3 DEF Scripts
  <2>2. s \in Seq(Routers)
    BY <2>1, ResolvedServers, SetUpScript DEF RoutingScript
  <2> QED BY <1>1, <2>2, WiderSeq
<1>4. CASE j = "firewall"
  <2>1. s = SetUpFirewall
    BY <1>4 DEF Scripts
  <2>2. s \in Seq(Firewallers)
    BY <2>1 DEF SetUpFirewall, NatApply, MssApply, EnableIpForward, DisableIpv6Wan,
         Firewallers, NewChain, Hook, AddMss, ForwardOn, Ipv6Off
  <2> QED BY <1>1, <2>2, WiderSeq
<1>5. CASE j = "server.change"
  <2>1. PICK ips \in Resolved : s = SwitchBypasses(ips)
    BY <1>5 DEF Scripts
  <2>2. s \in Seq(Changers)
    BY <2>1, ResolvedServers, SwitchScript
  <2> QED BY <1>1, <2>2, WiderSeq
<1> QED BY <1>2, <1>3, <1>4, <1>5, JobKinds

\* A job begins, with the excuses it has.
LEMMA Begun ==
  ASSUME kernel \in KernelType, Hooked(kernel),
         NEW j \in Job \ {"none"}, NEW s \in Scripts(j), NEW e, Excuses(j, s) \subseteq e
  PROVE  /\ j \in Removal =>
              RemovalInv(j, kernel, s, Coarse(kernel)) /\ DelMss \in ToSet(s)
         /\ j = "routing" => RoutingInv(kernel, s, Coarse(kernel), e)
         /\ j = "firewall" =>
              FirewallInv(kernel, s, Coarse(kernel)) /\ AddMss \in ToSet(s)
         /\ j = "server.change" => ChangeInv(kernel, s, Coarse(kernel)) /\ "servers" \in e
<1>1. CASE j \in Removal
  BY <1>1, BeginRemoval, JobKinds
<1>2. CASE j = "routing"
  <2>1. PICK ips \in Resolved : s = SetUpRouting(ips)
    BY <1>2 DEF Scripts
  <2>2. ips \in SUBSET Server
    BY ResolvedServers
  <2>3. Captures(kernel) => "rules" \in e
    BY <1>2 DEF Excuses
  <2>4. "servers" \notin e => \A x \in Server : AddMain(PRIO_SERVER_IPS, x) \in ToSet(s)
    BY <1>2 DEF Excuses, AddMain
  <2>5. RoutingInv(kernel, s, Coarse(kernel), e)
    BY <2>1, <2>2, <2>3, <2>4, BeginRouting
  <2> QED BY <1>2, <2>5, JobKinds
<1>3. CASE j = "firewall"
  <2>1. s = SetUpFirewall
    BY <1>3 DEF Scripts
  <2> QED BY <1>3, <2>1, BeginFirewall, JobKinds
<1>4. CASE j = "server.change"
  <2>1. PICK ips \in Resolved : s = SwitchBypasses(ips)
    BY <1>4 DEF Scripts
  <2>2. ChangeInv(kernel, s, Coarse(kernel))
    BY <2>1, ResolvedServers, BeginChange
  <2>3. "servers" \in e
    BY <1>4 DEF Excuses
  <2> QED BY <1>4, <2>2, <2>3, JobKinds
<1> QED BY <1>1, <1>2, <1>3, <1>4, JobKinds

LEMMA StepCommands ==
  ASSUME NEW j \in Job, NEW k, NEW s, NEW b, NEW e, JobHolds(j, k, s, b, e), s # << >>
  PROVE  s \in Seq(Command) /\ Head(s) \in Command
<1>1. Removers \subseteq Command /\ Routers \subseteq Command
      /\ Firewallers \subseteq Command /\ Changers \subseteq Command
  BY DEF Command
<1>2. CASE j \in Removal
  BY <1>1, <1>2, WiderSeq DEF JobHolds, RemovalInv
<1>3. CASE j = "routing"
  BY <1>1, <1>3, WiderSeq DEF JobHolds, RoutingInv
<1>4. CASE j = "firewall"
  BY <1>1, <1>4, WiderSeq DEF JobHolds, FirewallInv
<1>5. CASE j = "server.change"
  BY <1>1, <1>5, WiderSeq DEF JobHolds, ChangeInv
<1>6. s \in Seq(Command)
  BY <1>2, <1>3, <1>4, <1>5, JobKinds DEF JobHolds
<1> QED BY <1>6, StepSet

\* One command of any job.
LEMMA StepJob ==
  ASSUME NEW j \in Job, NEW k \in KernelType, NEW s, NEW b \in HostType, NEW e,
         JobHolds(j, k, s, b, e), Hooked(k), ServerRules(k), BypassHolds(k, e), s # << >>
  PROVE  /\ JobHolds(j, Exec(k, Head(s)), Tail(s), b, e)
         /\ Hooked(Exec(k, Head(s))) /\ BypassHolds(Exec(k, Head(s)), e)
<1> DEFINE c == Head(s)  l == Exec(k, Head(s))
<1>1. c \in Command /\ c.op \in Op
  BY StepCommands, CommandOp
<1>2. CASE j \in Removal
  <2>1. RemovalInv(j, k, s, b)
    BY <1>2 DEF JobHolds
  <2>2. RemovalInv(j, l, Tail(s), b) /\ Hooked(l) /\ ~Captures(l)
    BY <2>1, StepRemoval
  <2> QED BY <1>2, <2>2, JobKinds DEF JobHolds, BypassHolds
<1>3. CASE j = "routing"
  <2>1. RoutingInv(k, s, b, e)
    BY <1>3 DEF JobHolds
  <2>2. RoutingInv(l, Tail(s), b, e)
    BY <2>1, StepRouting
  <2>3. BypassHolds(l, e)
    BY <2>2, RoutingBypass
  <2>4. Hooked(l)
    <3>1. c \in Routers
      BY <2>1, StepSet DEF RoutingInv
    <3>2. l.hooks = k.hooks /\ l.chain = k.chain
      BY <1>1, <3>1, ExecNat, RouterOps
    <3> QED BY <3>2 DEF Hooked
  <2> QED BY <1>3, <2>2, <2>3, <2>4, JobKinds DEF JobHolds
<1>4. CASE j = "firewall"
  <2>1. FirewallInv(k, s, b)
    BY <1>4 DEF JobHolds
  <2>2. FirewallInv(l, Tail(s), b) /\ Hooked(l)
    BY <2>1, StepFirewall
  <2>3. l.rules = k.rules /\ l.table = k.table
    <3>1. c \in Firewallers
      BY <2>1, StepSet DEF FirewallInv
    <3> QED BY <1>1, <3>1, ExecRules, ExecTable, FirewallerOps
  <2>4. BypassHolds(l, e)
    BY <2>3 DEF BypassHolds, Captures, Assured, HasBypass
  <2> QED BY <1>4, <2>2, <2>4, JobKinds DEF JobHolds
<1>5. CASE j = "server.change"
  <2>1. ChangeInv(k, s, b) /\ "servers" \in e /\ "server.change" \in Rpcs
    BY <1>5 DEF JobHolds
  <2>2. ChangeInv(l, Tail(s), b)
    BY <2>1, StepChange
  <2>3. c \in Changers
    BY <2>1, StepSet DEF ChangeInv
  <2>4. Captures(l) => Captures(k)
    BY <2>1, <2>2 DEF ChangeInv
  <2>5. BypassHolds(l, e)
    BY <2>1, <2>3, <2>4, ChangeBypass
  <2>6. Hooked(l)
    <3>1. l.hooks = k.hooks /\ l.chain = k.chain
      BY <1>1, <2>3, ExecNat, ChangerOps
    <3> QED BY <3>1 DEF Hooked
  <2> QED BY <1>5, <2>1, <2>2, <2>5, <2>6, JobKinds DEF JobHolds
<1> QED BY <1>2, <1>3, <1>4, <1>5, JobKinds DEF JobHolds

\* The count of TCPMSS rules when a command runs.
LEMMA StepCount ==
  ASSUME NEW j \in Job, NEW k \in KernelType, NEW s, NEW b, NEW e,
         NEW f \in [Chunk -> Nat],
         JobHolds(j, k, s, b, e), Counted(j, s, k.mss, f), s # << >>
  PROVE  Counted(j, Tail(s), Exec(k, Head(s)).mss, f)
<1> DEFINE c == Head(s)  t == Tail(s)  m == Exec(k, Head(s)).mss
           n == f["launch"] + f["routing"] + f["firewall"]
<1>1. c \in Command /\ c.op \in Op /\ ToSet(s) = {c} \cup ToSet(t)
  BY StepCommands, CommandOp, StepSet
<1>2. /\ k.mss \in Nat /\ MaxBoots \in Nat /\ MaxBoots > 0
      /\ f["launch"] \in Nat /\ f["routing"] \in Nat /\ f["firewall"] \in Nat
  BY Fields, SetupAssumption DEF SetupAssumption, Chunk
<1>3. m = IF c.op = "mss-add" THEN k.mss + 1
          ELSE IF c.op = "mss-del" THEN DropMssRule(k.mss) ELSE k.mss
  BY <1>1, ExecMss
<1>4. CASE j = "firewall"
  <2>1. FirewallInv(k, s, b) /\ c \in Firewallers
    BY <1>4, StepSet DEF JobHolds, FirewallInv
  <2>2. m = IF c = AddMss THEN k.mss + 1 ELSE k.mss
    BY <1>3, <2>1, FirewallerOps, FixedOps
  <2>3. c = AddMss => AddMss \notin ToSet(t)
    BY <2>1, StepBefore DEF FirewallInv, Clamping
  <2>4. CASE c = AddMss
    <3>1. /\ n =< MaxBoots /\ (j \in Chunk => f[j] > 0)
          /\ k.mss + f["routing"] + f["firewall"] =< MaxBoots
      BY <1>1, <1>4, <2>4 DEF Counted
    <3>2. m = k.mss + 1
      BY <2>2, <2>4
    <3> HIDE DEF m, n
    <3>3. m + f["routing"] + f["firewall"] =< MaxBoots + 1
      BY <1>2, <3>1, <3>2
    <3> QED BY <1>4, <2>3, <2>4, <3>1, <3>3 DEF Counted, m, n
  <2>5. CASE c # AddMss
    BY <1>1, <1>2, <1>4, <2>2, <2>5 DEF Counted
  <2> QED BY <2>4, <2>5
<1>5. CASE j # "firewall"
  <2>1. c.op # "mss-add" /\ (c.op = "mss-del" => c = DelMss)
    BY <1>5, StepSet, RemoverOps, RouterOps, ChangerOps, JobKinds
       DEF JobHolds, RemovalInv, RoutingInv, ChangeInv
  <2>2. m = IF c = DelMss THEN DropMssRule(k.mss) ELSE k.mss
    BY <1>3, <2>1, FixedOps
  <2>3. CASE c = DelMss
    <3>1. m \in Nat /\ m =< k.mss /\ (m = 0 \/ m < k.mss)
      BY <1>2, <2>2, <2>3 DEF DropMssRule
    <3>2. j = "launch" => f["launch"] > 0
      BY DEF Counted, Chunk
    <3>3. /\ n =< MaxBoots /\ (j \in Chunk => f[j] > 0) /\ (j = "start" => n < MaxBoots)
          /\ k.mss + f["routing"] + f["firewall"] =< MaxBoots
      BY <1>5 DEF Counted
    <3> DEFINE x == f["launch"]  y == f["routing"]  z == f["firewall"]  r == k.mss
    <3>4. /\ x \in Nat /\ y \in Nat /\ z \in Nat /\ r \in Nat /\ m \in Nat
          /\ x + y + z =< MaxBoots /\ r + y + z =< MaxBoots /\ (m = 0 \/ m < r)
      BY <1>2, <3>1, <3>3
    <3> HIDE DEF m, x, y, z, r
    <3>5. m + y + z =< MaxBoots /\ (x > 0 => m + y + z < MaxBoots) /\ m < MaxBoots
      BY <1>2, <3>4
    <3>6. j = "launch" => m + y + z < MaxBoots
      BY <3>2, <3>5 DEF x
    <3>7. m + y + z =< MaxBoots + 1
      BY <1>2, <3>4, <3>5
    <3> USE DEF x, y, z
    <3> QED BY <1>5, <3>3, <3>5, <3>6, <3>7 DEF Counted, m
  <2>4. CASE c # DelMss
    BY <1>1, <1>2, <1>5, <2>2, <2>4 DEF Counted
  <2> QED BY <2>3, <2>4
<1> QED BY <1>4, <1>5

-----------------------------------------------------------------------------
(***************************************************************************)
(* Inv is inductive: one lemma per action.                                 *)
(***************************************************************************)
LEMMA InitInv == Init => Inv
<1> SUFFICES ASSUME Init PROVE Inv
  OBVIOUS
<1>1. PICK forward \in BOOLEAN :
        origin = [rules |-> {Rule(p, "foreign", "other") : p \in Foreign},
                  table |-> {}, tun |-> "absent", chain |-> FALSE, hooks |-> 0,
                  mss |-> 0, forward |-> forward, ipv6off |-> FALSE]
  BY DEF Init
<1>2. \A r \in origin.rules : r \in RuleType /\ r.table = "other"
  <2>1. \A p \in Foreign : Rule(p, "foreign", "other") \in RuleType
    BY SetupAssumption DEF SetupAssumption, Rule, RuleType, Selector
  <2>2. \A p \in Foreign : Rule(p, "foreign", "other").table = "other"
    BY RuleFields
  <2> QED BY <1>1, <2>1, <2>2
<1>3. origin \in KernelType /\ kernel = origin
  BY <1>1, <1>2 DEF KernelType, Init
<1>4. kernel.hooks = 0 /\ kernel.mss = 0 /\ kernel.table = {}
  BY <1>1, <1>3
<1>5. Coarse(kernel) \in HostType
  BY <1>3, CoarseFields
<1>6. boots = [c \in Chunk |-> IF c = "launch" THEN 1 ELSE 0]
  BY DEF Init, OneLaunch
<1>7. /\ boots \in [Chunk -> Nat]
      /\ boots["launch"] = 1 /\ boots["routing"] = 0 /\ boots["firewall"] = 0
  BY <1>6 DEF Chunk
<1>8. /\ proc = "up" /\ job = "none" /\ todo = << >> /\ before = Coarse(origin)
      /\ excused = {} /\ attached = FALSE
  BY DEF Init
<1>9. TypeOK
  BY <1>3, <1>5, <1>7, <1>8 DEF TypeOK, Job
<1>10. Hooked(kernel) /\ ServerRules(kernel) /\ BypassHolds(kernel, excused)
  BY <1>2, <1>3, <1>4 DEF Hooked, ServerRules, BypassHolds, Captures
<1>11. /\ JobHolds(job, kernel, todo, before, excused) /\ ProcHolds(proc, job, boots)
       /\ TunHolds(job, kernel, todo, attached)
  BY <1>8, JobKinds DEF JobHolds, TunHolds, ProcHolds
<1>12. Counted(job, todo, kernel.mss, boots)
  BY <1>4, <1>7, <1>8, SetupAssumption DEF Counted, SetupAssumption, Chunk
<1>13. Residue
  BY <1>8 DEF Residue
<1> QED BY <1>9, <1>10, <1>11, <1>12, <1>13 DEF Inv

\* A job of the daemon begins.
LEMMA BeginInv ==
  ASSUME Inv, NEW j \in Job \ {"none", "cleanup"}, Begin(j), boots' = boots,
         j \in Chunk => boots[j] > 0,
         j = "start" => BootCount < MaxBoots,
         j = "server.change" => "server.change" \in Rpcs
  PROVE  Inv'
<1>1. /\ kernel' = kernel /\ origin' = origin /\ proc' = proc /\ proc = "up"
      /\ job = "none" /\ job' = j /\ before' = Coarse(kernel) /\ todo' \in Scripts(j)
      /\ excused' = excused \cup Excuses(j, todo')
      /\ (TunBusy \in ToSet(todo') => attached)
      /\ attached' = (attached \/ j = "server.change")
  BY DEF Begin, Idle
<1>2. TypeOK'
  <2>1. Coarse(kernel) \in HostType
    BY CoarseFields DEF Inv, TypeOK
  <2>2. excused' \subseteq {"rules", "servers"}
    BY <1>1 DEF Excuses, Inv, TypeOK
  <2>3. IsSuffix(todo', todo')
    BY <1>1, ScriptCommands, SuffixSelf
  <2>4. attached' \in BOOLEAN
    BY <1>1
  <2> QED BY <1>1, <2>1, <2>2, <2>3, <2>4 DEF Inv, TypeOK
<1>3. /\ j \in Removal =>
           RemovalInv(j, kernel, todo', Coarse(kernel)) /\ DelMss \in ToSet(todo')
      /\ j = "routing" => RoutingInv(kernel, todo', Coarse(kernel), excused')
      /\ j = "firewall" =>
           FirewallInv(kernel, todo', Coarse(kernel)) /\ AddMss \in ToSet(todo')
      /\ j = "server.change" =>
           ChangeInv(kernel, todo', Coarse(kernel)) /\ "servers" \in excused'
  BY <1>1, Begun DEF Inv, TypeOK
<1>4. JobHolds(j, kernel, todo', Coarse(kernel), excused')
  BY <1>3 DEF JobHolds
<1>5. BypassHolds(kernel, excused')
  BY <1>1, BypassExcused DEF Inv
<1>6. Counted(j, todo', kernel.mss, boots)
  BY <1>1, <1>3 DEF Inv, Counted, Removal, BootCount
<1>7. ProcHolds("up", j, boots)
  BY DEF ProcHolds
<1>8. Residue'
  BY <1>1 DEF Residue
<1>9. TunHolds(j, kernel, todo', attached')
  BY <1>1, BeginTun DEF TunHolds
<1> QED BY <1>1, <1>2, <1>4, <1>5, <1>6, <1>7, <1>8, <1>9 DEF Inv

LEMMA CleanUpInv == Inv /\ CleanUp => Inv'
<1> SUFFICES ASSUME Inv, CleanUp PROVE Inv'
  OBVIOUS
<1>1. /\ kernel' = kernel /\ origin' = origin /\ proc' = proc /\ proc # "up"
      /\ job = "none" /\ job' = "cleanup" /\ before' = Coarse(kernel)
      /\ boots' = boots /\ excused' = excused /\ attached' = FALSE
  BY DEF CleanUp
<1>2. todo' \in Scripts("cleanup") /\ "cleanup" \in Job \ {"none"} /\ "cleanup" \in Removal
  BY DEF CleanUp, Scripts, Job, Removal
<1>3. TypeOK'
  <2>1. Coarse(kernel) \in HostType
    BY CoarseFields DEF Inv, TypeOK
  <2>2. IsSuffix(todo', todo')
    BY <1>2, ScriptCommands, SuffixSelf
  <2> QED BY <1>1, <1>2, <2>1, <2>2 DEF Inv, TypeOK
<1>4. RemovalInv("cleanup", kernel, todo', Coarse(kernel)) /\ DelMss \in ToSet(todo')
  BY <1>2, BeginRemoval DEF Inv, TypeOK
<1>5. JobHolds("cleanup", kernel, todo', Coarse(kernel), excused)
  BY <1>4 DEF JobHolds
<1>6. Counted("cleanup", todo', kernel.mss, boots)
  BY <1>1, <1>4 DEF Inv, Counted, Chunk
<1>7. ProcHolds(proc, "cleanup", boots)
  BY <1>1 DEF Inv, ProcHolds
<1>8. Residue'
  BY <1>1 DEF Residue
<1>9. TunHolds("cleanup", kernel, todo', attached')
  BY <1>2, BeginTun DEF TunHolds
<1> QED BY <1>1, <1>3, <1>5, <1>6, <1>7, <1>8, <1>9 DEF Inv

LEMMA RebootstrapInv == Inv /\ Rebootstrap => Inv'
<1> SUFFICES ASSUME Inv, Rebootstrap PROVE Inv'
  OBVIOUS
<1>1. /\ UNCHANGED <<kernel, origin, proc, job, todo, before, excused, attached>>
      /\ proc = "up" /\ job = "none" /\ BootCount < MaxBoots
      /\ boots' = [boots EXCEPT !["launch"] = @ + 1]
  BY DEF Rebootstrap, Idle
<1>2. boots \in [Chunk -> Nat] /\ MaxBoots \in Nat
  BY SetupAssumption DEF Inv, TypeOK, SetupAssumption
<1>3. /\ boots' \in [Chunk -> Nat]
      /\ boots'["launch"] = boots["launch"] + 1 /\ boots'["routing"] = boots["routing"]
      /\ boots'["firewall"] = boots["firewall"]
  BY <1>1, <1>2 DEF Chunk
<1>4. TypeOK'
  BY <1>1, <1>3 DEF Inv, TypeOK
<1>5. Counted(job, todo, kernel.mss, boots')
  <2>1. boots["launch"] \in Nat /\ boots["routing"] \in Nat /\ boots["firewall"] \in Nat
    BY <1>2 DEF Chunk
  <2> QED BY <1>1, <1>2, <1>3, <2>1 DEF Inv, Counted, BootCount, Chunk
<1>6. ProcHolds(proc, job, boots')
  BY <1>1 DEF ProcHolds
<1>7. Residue'
  BY <1>1 DEF Residue
<1> QED BY <1>1, <1>4, <1>5, <1>6, <1>7 DEF Inv

\* One command of the job.
LEMMA StepInv == Inv /\ Step => Inv'
<1> SUFFICES ASSUME Inv, Step PROVE Inv'
  OBVIOUS
<1>1. /\ todo # << >> /\ kernel' = Exec(kernel, Head(todo)) /\ todo' = Tail(todo)
      /\ UNCHANGED <<origin, proc, boots, job, before, excused, attached>>
  BY DEF Step
<1>2. /\ kernel \in KernelType /\ job \in Job /\ before \in HostType
      /\ boots \in [Chunk -> Nat]
  BY DEF Inv, TypeOK
<1>3. JobHolds(job, kernel, todo, before, excused) /\ job # "none"
  BY <1>1 DEF Inv, JobHolds
<1>4. todo \in Seq(Command) /\ Head(todo) \in Command
  BY <1>1, <1>2, <1>3, StepCommands
<1>5. kernel' \in KernelType
  BY <1>1, <1>2, <1>4, ExecType
<1>6. \E s \in Scripts(job) : IsSuffix(todo', s)
  <2>1. PICK s \in Scripts(job) : IsSuffix(todo, s)
    BY <1>1 DEF Inv, TypeOK
  <2>2. s \in Seq(Command)
    BY <1>2, <1>3, ScriptCommands
  <2>3. IsSuffix(Tail(todo), s)
    BY <1>1, <1>4, <2>1, <2>2, SuffixTail
  <2> QED BY <1>1, <2>3
<1>7. TypeOK'
  BY <1>1, <1>5, <1>6 DEF Inv, TypeOK
<1>8. /\ JobHolds(job, kernel', todo', before, excused)
      /\ Hooked(kernel') /\ BypassHolds(kernel', excused)
  BY <1>1, <1>2, <1>3, StepJob DEF Inv
<1>9. ServerRules(kernel')
  BY <1>1, <1>2, <1>4, StepServerRules DEF Inv
<1>10. Counted(job, todo', kernel'.mss, boots)
  BY <1>1, <1>2, <1>3, StepCount DEF Inv
<1>11. Residue'
  BY <1>1, <1>3 DEF Residue
<1>12. TunHolds(job, kernel', todo', attached)
  BY <1>1, <1>2, <1>3, StepTun DEF JobHolds, RemovalInv, TunHolds, Inv
<1> QED BY <1>1, <1>7, <1>8, <1>9, <1>10, <1>11, <1>12 DEF Inv

\* The bootstraps that are left when the job is over.
LEMMA FinishCount ==
  ASSUME Inv, Finish
  PROVE  boots' \in [Chunk -> Nat] /\ Counted("none", << >>, kernel.mss, boots')
<1> DEFINE l == boots["launch"]  r == boots["routing"]  f == boots["firewall"]
<1>1. /\ boots \in [Chunk -> Nat] /\ l \in Nat /\ r \in Nat /\ f \in Nat
      /\ MaxBoots \in Nat /\ kernel.mss \in Nat /\ job \in Job \ {"none"}
  BY SetupAssumption, Fields DEF Inv, TypeOK, SetupAssumption, Chunk, Finish, Done
<1>2. DelMss \notin ToSet(todo) /\ AddMss \notin ToSet(todo)
  BY EmptySet DEF Finish, Done
<1>3. /\ l + r + f =< MaxBoots /\ (job \in Chunk => boots[job] > 0)
      /\ (job = "start" => l + r + f < MaxBoots)
      /\ (job # "firewall" => kernel.mss + r + f =< MaxBoots)
      /\ kernel.mss + r + f =< MaxBoots + 1
      /\ (job = "launch" => kernel.mss + r + f < MaxBoots)
      /\ (job = "exit" => kernel.mss < MaxBoots)
  BY <1>2 DEF Inv, Counted
<1>4. CASE job = "launch"
  <2>1. boots' = [boots EXCEPT !["launch"] = @ - 1, !["routing"] = @ + 1]
    BY <1>4 DEF Finish, NextChunk
  <2>2. /\ boots' \in [Chunk -> Nat] /\ boots'["launch"] = l - 1
        /\ boots'["routing"] = r + 1 /\ boots'["firewall"] = f
    BY <1>1, <1>3, <1>4, <2>1 DEF Chunk
  <2> QED BY <1>1, <1>3, <1>4, <2>2 DEF Counted, Chunk
<1>5. CASE job = "routing"
  <2>1. boots' = [boots EXCEPT !["routing"] = @ - 1, !["firewall"] = @ + 1]
    BY <1>5 DEF Finish, NextChunk
  <2>2. /\ boots' \in [Chunk -> Nat] /\ boots'["launch"] = l
        /\ boots'["routing"] = r - 1 /\ boots'["firewall"] = f + 1
    BY <1>1, <1>3, <1>5, <2>1 DEF Chunk
  <2> QED BY <1>1, <1>3, <1>5, <2>2 DEF Counted, Chunk
<1>6. CASE job = "firewall"
  <2>1. boots' = [boots EXCEPT !["firewall"] = @ - 1]
    BY <1>6 DEF Finish
  <2>2. /\ boots' \in [Chunk -> Nat] /\ boots'["launch"] = l
        /\ boots'["routing"] = r /\ boots'["firewall"] = f - 1
    BY <1>1, <1>3, <1>6, <2>1 DEF Chunk
  <2> QED BY <1>1, <1>3, <2>2 DEF Counted, Chunk
<1>7. CASE job = "start"
  <2>1. boots' = [boots EXCEPT !["launch"] = @ + 1]
    BY <1>7 DEF Finish
  <2>2. /\ boots' \in [Chunk -> Nat] /\ boots'["launch"] = l + 1
        /\ boots'["routing"] = r /\ boots'["firewall"] = f
    BY <1>1, <2>1 DEF Chunk
  <2> QED BY <1>1, <1>3, <1>7, <2>2 DEF Counted, Chunk
<1>8. CASE job = "exit"
  <2>1. boots' = [c \in Chunk |-> 0]
    BY <1>8 DEF Finish, NoBoots
  <2>2. /\ boots' \in [Chunk -> Nat] /\ boots'["launch"] = 0
        /\ boots'["routing"] = 0 /\ boots'["firewall"] = 0
    BY <2>1 DEF Chunk
  <2> QED BY <1>1, <1>3, <1>8, <2>2 DEF Counted, Chunk
<1>9. CASE job \in {"stop", "server.change", "cleanup"}
  <2>1. boots' = boots
    BY <1>9 DEF Finish
  <2> QED BY <1>1, <1>3, <1>9, <2>1 DEF Counted, Chunk
<1> QED BY <1>1, <1>4, <1>5, <1>6, <1>7, <1>8, <1>9 DEF Job, Chunk

LEMMA FinishInv == Inv /\ Finish => Inv'
<1> SUFFICES ASSUME Inv, Finish PROVE Inv'
  OBVIOUS
<1>1. /\ kernel' = kernel /\ origin' = origin /\ todo' = << >> /\ before' = before
      /\ todo = << >> /\ job' = "none" /\ job # "none"
      /\ attached' = (job = "firewall" \/ StillOpen)
  BY DEF Finish, Done
<1>2. boots' \in [Chunk -> Nat] /\ Counted("none", << >>, kernel.mss, boots')
  BY FinishCount
<1>3. /\ kernel \in KernelType /\ before \in HostType /\ job \in Job
      /\ JobHolds(job, kernel, << >>, before, excused)
  BY <1>1 DEF Inv, TypeOK
<1>4. job \in Removal =>
        /\ kernel.rules = {} /\ kernel.table = {}
        /\ ~kernel.chain /\ kernel.hooks = 0 /\ (job # "start" => ~kernel.ipv6off)
  BY <1>3, EndRemoval DEF JobHolds, Inv
<1>5. TypeOK'
  <2>1. excused' \subseteq {"rules", "servers"} /\ proc' \in {"up", "exited", "killed"}
    BY DEF Finish, Inv, TypeOK
  <2>2. attached' \in BOOLEAN
    BY <1>1
  <2> QED BY <1>1, <1>2, <2>1, <2>2 DEF Inv, TypeOK, Job
<1>6. BypassHolds(kernel, excused')
  <2>1. CASE job \in Removal
    BY <1>4, <2>1 DEF BypassHolds, Captures
  <2>2. CASE job \notin Removal
    <3>1. excused' = excused
      BY <1>1, <1>3, <2>2, JobKinds DEF Finish
    <3> QED BY <3>1 DEF Inv
  <2> QED BY <2>1, <2>2
<1>7. JobHolds("none", kernel, << >>, before, excused')
      /\ TunHolds("none", kernel, << >>, attached')
  BY JobKinds DEF JobHolds, TunHolds
<1>8. ProcHolds(proc', "none", boots')
  <2>1. CASE job = "exit"
    BY <2>1 DEF Finish, ProcHolds
  <2>2. CASE job = "cleanup"
    BY <2>2 DEF Finish, ProcHolds, Inv
  <2>3. CASE job \notin {"exit", "cleanup"}
    BY <1>1, <2>3 DEF Finish, ProcHolds, Inv
  <2> QED BY <2>1, <2>2, <2>3
<1>9. Residue'
  <2> SUFFICES ASSUME proc' = "exited"
               PROVE  /\ OwnRules(kernel) = {} /\ kernel.table = {}
                      /\ kernel.tun = "absent" \/ (attached' /\ kernel.tun = "down")
                      /\ ~kernel.chain /\ kernel.hooks = 0 /\ ~kernel.ipv6off
                      /\ kernel.mss < MaxBoots
    BY <1>1 DEF Residue
  <2>1. job \in {"exit", "cleanup"}
    BY <1>1 DEF Finish, ProcHolds, Inv
  <2>2. kernel.mss < MaxBoots
    BY <1>1, <2>1, EmptySet DEF Inv, Counted
  <2>3. OwnRules(kernel) = {}
    BY <1>4, <2>1 DEF OwnRules, Removal
  <2>4. kernel.tun = "absent" \/ (attached' /\ kernel.tun = "down")
    <3>1. Untunnelling(kernel, << >>, attached)
      BY <1>1, <2>1 DEF Inv, TunHolds, Removal
    <3>2. kernel.tun # "up" /\ (kernel.tun = "absent" \/ attached)
      BY <3>1, EmptySet DEF Untunnelling
    <3> QED BY <1>1, <1>3, <3>2, Fields DEF StillOpen
  <2> QED BY <1>4, <2>1, <2>2, <2>3, <2>4 DEF Removal
<1> QED BY <1>1, <1>2, <1>5, <1>6, <1>7, <1>8, <1>9 DEF Inv

\* A bootstrap is over before its end.
LEMMA RaiseInv == Inv /\ Raise => Inv'
<1> SUFFICES ASSUME Inv, Raise PROVE Inv'
  OBVIOUS
<1>1. /\ UNCHANGED <<kernel, origin, proc, before, excused>>
      /\ job \in Chunk /\ job' = "none" /\ todo' = << >>
      /\ boots' = [boots EXCEPT ![job] = @ - 1]
      /\ attached' \in {StillOpen, job = "firewall" \/ StillOpen}
  BY DEF Raise
<1>2. /\ boots \in [Chunk -> Nat] /\ MaxBoots \in Nat /\ kernel.mss \in Nat
      /\ boots["launch"] \in Nat /\ boots["routing"] \in Nat /\ boots["firewall"] \in Nat
  BY SetupAssumption, Fields DEF Inv, TypeOK, SetupAssumption, Chunk
<1>3. boots[job] > 0
  BY <1>1 DEF Inv, Counted
<1>4. boots' \in [Chunk -> Nat] /\ \A c \in Chunk :
        boots'[c] = IF c = job THEN boots[c] - 1 ELSE boots[c]
  BY <1>1, <1>2, <1>3
<1>5. TypeOK'
  <2>1. attached' \in BOOLEAN
    BY <1>1 DEF StillOpen, Inv, TypeOK
  <2> QED BY <1>1, <1>4, <2>1 DEF Inv, TypeOK, Job
<1>6. JobHolds("none", kernel, << >>, before, excused)
      /\ TunHolds("none", kernel, << >>, attached')
  BY JobKinds DEF JobHolds, TunHolds
<1>7. ProcHolds(proc, "none", boots')
  BY <1>1 DEF Inv, ProcHolds, Chunk
<1>8. Counted("none", << >>, kernel.mss, boots')
  <2>1. /\ boots["launch"] + boots["routing"] + boots["firewall"] =< MaxBoots
        /\ job # "firewall" => kernel.mss + boots["routing"] + boots["firewall"] =< MaxBoots
        /\ kernel.mss + boots["routing"] + boots["firewall"] =< MaxBoots + 1
    BY DEF Inv, Counted
  <2>2. /\ boots'["launch"] = IF job = "launch" THEN boots["launch"] - 1 ELSE boots["launch"]
        /\ boots'["routing"] = IF job = "routing" THEN boots["routing"] - 1 ELSE boots["routing"]
        /\ boots'["firewall"] =
             IF job = "firewall" THEN boots["firewall"] - 1 ELSE boots["firewall"]
    BY <1>4 DEF Chunk
  <2>3. CASE job = "launch"
    BY <1>2, <2>1, <2>2, <2>3 DEF Counted, Chunk
  <2>4. CASE job = "routing"
    BY <1>2, <2>1, <2>2, <2>4 DEF Counted, Chunk
  <2>5. CASE job = "firewall"
    BY <1>2, <2>1, <2>2, <2>5 DEF Counted, Chunk
  <2> QED BY <1>1, <2>3, <2>4, <2>5 DEF Chunk
<1>9. Residue'
  BY <1>1 DEF Inv, Residue, ProcHolds, Chunk
<1> QED BY <1>1, <1>5, <1>6, <1>7, <1>8, <1>9 DEF Inv

LEMMA KillInv == Inv /\ Kill => Inv'
<1> SUFFICES ASSUME Inv, Kill PROVE Inv'
  OBVIOUS
<1>1. /\ UNCHANGED <<kernel, origin, before, excused>>
      /\ proc' = "killed" /\ boots' = NoBoots /\ job' = "none" /\ todo' = << >>
      /\ attached' = FALSE
  BY DEF Kill
<1>2. /\ MaxBoots \in Nat /\ kernel.mss \in Nat
      /\ boots["launch"] \in Nat /\ boots["routing"] \in Nat /\ boots["firewall"] \in Nat
  BY SetupAssumption, Fields DEF Inv, TypeOK, SetupAssumption, Chunk
<1>3. /\ boots' \in [Chunk -> Nat]
      /\ boots'["launch"] = 0 /\ boots'["routing"] = 0 /\ boots'["firewall"] = 0
  BY <1>1 DEF NoBoots, Chunk
<1>4. kernel.mss =< MaxBoots
  <2>1. CASE job = "firewall"
    BY <1>2, <2>1 DEF Inv, Counted, Chunk
  <2>2. CASE job # "firewall"
    BY <1>2, <2>2 DEF Inv, Counted
  <2> QED BY <2>1, <2>2
<1>5. TypeOK'
  BY <1>1, <1>3 DEF Inv, TypeOK, Job
<1>6. JobHolds("none", kernel, << >>, before, excused)
      /\ TunHolds("none", kernel, << >>, attached')
  BY JobKinds DEF JobHolds, TunHolds
<1>7. ProcHolds("killed", "none", boots')
  BY <1>1 DEF ProcHolds
<1>8. Counted("none", << >>, kernel.mss, boots')
  BY <1>2, <1>3, <1>4 DEF Counted, Chunk
<1>9. Residue'
  BY <1>1 DEF Residue
<1> QED BY <1>1, <1>5, <1>6, <1>7, <1>8, <1>9 DEF Inv

LEMMA ContainerRestartInv == Inv /\ ContainerRestart => Inv'
<1> SUFFICES ASSUME Inv, ContainerRestart PROVE Inv'
  OBVIOUS
<1>1. /\ UNCHANGED <<kernel, origin, job, todo, before, excused>>
      /\ proc' = "up" /\ job = "none" /\ boots' = OneLaunch /\ attached' = FALSE
  BY DEF ContainerRestart
<1>2. /\ MaxBoots \in Nat /\ MaxBoots > 0 /\ kernel.mss \in Nat
      /\ boots["routing"] \in Nat /\ boots["firewall"] \in Nat
  BY SetupAssumption, Fields DEF Inv, TypeOK, SetupAssumption, Chunk
<1>3. /\ boots' \in [Chunk -> Nat]
      /\ boots'["launch"] = 1 /\ boots'["routing"] = 0 /\ boots'["firewall"] = 0
  BY <1>1 DEF OneLaunch, Chunk
<1>4. Counted(job, todo, kernel.mss, boots')
  BY <1>1, <1>2, <1>3 DEF Inv, Counted, Chunk
<1>5. TypeOK'
  BY <1>1, <1>3 DEF Inv, TypeOK
<1>6. ProcHolds("up", job, boots')
  BY <1>1 DEF ProcHolds
<1>7. Residue'
  BY <1>1 DEF Residue
<1>8. TunHolds(job, kernel, todo, attached')
  BY <1>1, JobKinds DEF TunHolds
<1> QED BY <1>1, <1>4, <1>5, <1>6, <1>7, <1>8 DEF Inv

LEMMA InvInductive == Inv /\ [Next]_vars => Inv'
<1> SUFFICES ASSUME Inv, [Next]_vars PROVE Inv'
  OBVIOUS
<1>1. CASE Resume
  <2>1. PICK c \in Chunk : boots[c] > 0 /\ Begin(c)
    BY <1>1 DEF Resume
  <2> QED BY <1>1, <2>1, BeginInv DEF Resume, Chunk, Job
<1>2. CASE Stop
  BY <1>2, BeginInv DEF Stop, Chunk, Job
<1>3. CASE Start
  BY <1>3, BeginInv DEF Start, Chunk, Job
<1>4. CASE ServerChange
  BY <1>4, BeginInv DEF ServerChange, Chunk, Job
<1>5. CASE Fail
  BY <1>5, BeginInv DEF Fail, Chunk, Job
<1>6. CASE UNCHANGED vars
  BY <1>6 DEF vars, Inv, TypeOK, Residue
<1> QED BY <1>1, <1>2, <1>3, <1>4, <1>5, <1>6, RebootstrapInv, CleanUpInv, StepInv,
           FinishInv, RaiseInv, KillInv, ContainerRestartInv DEF Next

THEOREM InvAlways == Spec => []Inv
  BY InitInv, InvInductive, PTL DEF Spec

-----------------------------------------------------------------------------
(***************************************************************************)
(* What the runs check, for all values of the constants.                   *)
(***************************************************************************)

\* Every variable keeps its type: the kernel's state and the host that
\* VpnDaemon sees of it, whatever the methods of RuleManager, RouteTable,
\* TunInterface, NatManager, MssClamp and SysctlManager do to it.
THEOREM TypeCorrect == Spec => []TypeOK
<1>1. Inv => TypeOK
  BY DEF Inv
<1> QED BY <1>1, InvAlways, PTL

\* nat.py: for any number of bootstraps in flight, and wherever a kill comes,
\* there is one jump to the chain at most, and none to a chain that is gone.
THEOREM HookedAlways == Spec => []HookedOnce
<1>1. Inv => HookedOnce
  BY DEF Inv, Hooked, HookedOnce
<1> QED BY <1>1, InvAlways, PTL

\* setup_routing (orchestrator.py): for any servers, DNS servers and LANs, the
\* catch-all and the default route never take effect before the bypasses.
THEOREM BypassesFirst == Spec => []BypassFirst
<1>1. Inv => BypassFirst
  BY BypassView DEF Inv
<1> QED BY <1>1, InvAlways, PTL

\* teardown_network and vpn-emergency-cleanup.sh leave no rule, no route, no NAT
\* chain, no jump to one and no IPv6 switch behind them, whatever was cut short
\* before they ran, and fewer TCPMSS rules than bootstraps may overlap; tun0
\* stays only when a tun2socks of the daemon still had it open, and it is down.
THEOREM NothingLeft == Spec => []Residue
<1>1. Inv => Residue
  BY DEF Inv
<1> QED BY <1>1, InvAlways, PTL

\* The host that VpnDaemon has after a job, and after a part of one, is what
\* the commands of the job make of the kernel.
THEOREM DaemonViewRight == Spec => []DaemonView
<1>1. Inv => DaemonView
  <2> SUFFICES ASSUME Inv, job # "none"
               PROVE  /\ todo = << >> => Coarse(kernel) \in After(job, before)
                      /\ todo # << >> => Coarse(kernel) \in During(job, before)
    BY DEF DaemonView, Done, Inv, JobHolds
  <2>1. /\ kernel \in KernelType /\ before \in HostType /\ job \in Job /\ Hooked(kernel)
        /\ JobHolds(job, kernel, todo, before, excused)
    BY DEF Inv, TypeOK
  <2>2. CASE job \in Removal
    BY <2>1, <2>2, EndRemoval DEF JobHolds
  <2>3. CASE job = "routing"
    BY <2>1, <2>3, EndRouting DEF JobHolds
  <2>4. CASE job = "firewall"
    BY <2>1, <2>4, EndFirewall DEF JobHolds
  <2>5. CASE job = "server.change"
    BY <2>1, <2>5, EndChange DEF JobHolds
  <2> QED BY <2>1, <2>2, <2>3, <2>4, <2>5, JobKinds
<1> QED BY <1>1, InvAlways, PTL

=============================================================================
