---------------------------- MODULE Party_proofs ----------------------------
(***************************************************************************)
(* Proofs about Party for every set of players and addresses: pointers and *)
(* lists agree, however parties are founded, led, left and deleted.        *)
(***************************************************************************)
EXTENDS Party, FiniteSetTheorems, TLAPS

Types ==
  /\ leader \in [Parties -> Players \cup {Nobody}]
  /\ memberList \in [Parties -> Seq(Players)]
  /\ inviteList \in [Parties -> SUBSET Players]
  /\ party \in [Players -> Parties \cup {NoParty}]
  /\ invitePartyList \in [Players -> SUBSET Parties]

IInv == Types /\ PartyAgrees /\ NoLonelyParty

-----------------------------------------------------------------------------
(* The list of members, each of them once. *)
LEMMA AppendSet ==
  ASSUME NEW s \in Seq(Players), NEW p \in Players, IsInjective(s), p \notin ToSet(s)
  PROVE  /\ Append(s, p) \in Seq(Players) /\ IsInjective(Append(s, p))
         /\ ToSet(Append(s, p)) = ToSet(s) \cup {p}
         /\ Append(s, p) # <<>>
<1>1. /\ Append(s, p) \in Seq(Players) /\ DOMAIN Append(s, p) = DOMAIN s \cup {Len(s) + 1}
      /\ Append(s, p)[Len(s) + 1] = p /\ Len(s) + 1 \notin DOMAIN s
      /\ \A i \in DOMAIN s : Append(s, p)[i] = s[i]
  OBVIOUS
<1>2. IsInjective(Append(s, p))
  BY <1>1 DEF IsInjective, ToSet
<1>3. ToSet(Append(s, p)) = ToSet(s) \cup {p}
  BY <1>1 DEF ToSet
<1>4. ToSet(<<>>) = {}
  BY DEF ToSet
<1> QED
  BY <1>1, <1>2, <1>3, <1>4

LEMMA TailSet ==
  ASSUME NEW s \in Seq(Players), s # <<>>, IsInjective(s)
  PROVE  /\ Tail(s) \in Seq(Players) /\ IsInjective(Tail(s))
         /\ Head(s) \in ToSet(s) /\ Head(s) \in Players
         /\ ToSet(Tail(s)) = ToSet(s) \ {Head(s)}
         /\ Tail(s) = <<>> => Len(s) = 1
<1>1. /\ Tail(s) \in Seq(Players) /\ Head(s) = s[1] /\ 1 \in DOMAIN s /\ s[1] \in Players
      /\ \A i \in DOMAIN Tail(s) :
           i \in Nat \ {0} /\ i + 1 \in DOMAIN s /\ Tail(s)[i] = s[i + 1]
      /\ \A i \in DOMAIN s : i = 1 \/ (i - 1 \in DOMAIN Tail(s) /\ Tail(s)[i - 1] = s[i])
  OBVIOUS
<1>2. IsInjective(Tail(s))
  BY <1>1 DEF IsInjective
<1>3. ToSet(Tail(s)) = ToSet(s) \ {Head(s)}
  <2>1. ASSUME NEW i \in DOMAIN Tail(s) PROVE Tail(s)[i] \in ToSet(s) \ {s[1]}
    BY <1>1, <2>1 DEF IsInjective, ToSet
  <2>2. ASSUME NEW i \in DOMAIN s, s[i] # s[1] PROVE s[i] \in ToSet(Tail(s))
    BY <1>1, <2>2 DEF ToSet
  <2>3. ToSet(Tail(s)) \subseteq ToSet(s) \ {s[1]}
    BY <2>1 DEF ToSet
  <2>4. ToSet(s) \ {s[1]} \subseteq ToSet(Tail(s))
    BY <2>2 DEF ToSet
  <2> QED
    BY <1>1, <2>3, <2>4
<1>4. Tail(s) = <<>> => Len(s) = 1
  <2>1. Len(Tail(s)) = Len(s) - 1 /\ Len(s) \in Nat
    OBVIOUS
  <2>2. Len(<<>>) = 0
    OBVIOUS
  <2>3. ASSUME Tail(s) = <<>> PROVE Len(Tail(s)) = 0
    BY <2>2, <2>3, Zenon
  <2> QED
    BY <2>1, <2>3
<1> QED
  BY <1>1, <1>2, <1>3, <1>4 DEF ToSet

LEMMA PushSet ==
  ASSUME NEW s \in Seq(Players), NEW p \in Players, IsInjective(s), p \notin ToSet(s)
  PROVE  /\ <<p>> \o s \in Seq(Players) /\ IsInjective(<<p>> \o s)
         /\ ToSet(<<p>> \o s) = ToSet(s) \cup {p}
         /\ <<p>> \o s # <<>>
<1>1. /\ <<p>> \o s \in Seq(Players) /\ 1 \in DOMAIN (<<p>> \o s) /\ (<<p>> \o s)[1] = p
      /\ \A i \in DOMAIN (<<p>> \o s) :
           i = 1 \/ (i \in Nat /\ i - 1 \in DOMAIN s /\ (<<p>> \o s)[i] = s[i - 1])
      /\ \A i \in DOMAIN s : i \in Nat /\ i + 1 \in DOMAIN (<<p>> \o s) /\ (<<p>> \o s)[i + 1] = s[i]
  OBVIOUS
<1>2. IsInjective(<<p>> \o s)
  BY <1>1 DEF IsInjective, ToSet
<1>3. ToSet(<<p>> \o s) = ToSet(s) \cup {p}
  <2> DEFINE r == <<p>> \o s
  <2>1. /\ 1 \in DOMAIN r /\ r[1] = p
        /\ \A i \in DOMAIN r : i = 1 \/ (i - 1 \in DOMAIN s /\ r[i] = s[i - 1])
        /\ \A i \in DOMAIN s : i + 1 \in DOMAIN r /\ r[i + 1] = s[i]
    BY <1>1
  <2> HIDE DEF r
  <2>2. ToSet(r) \subseteq ToSet(s) \cup {p}
    BY <2>1 DEF ToSet
  <2>3. ToSet(s) \cup {p} \subseteq ToSet(r)
    BY <2>1 DEF ToSet
  <2>4. ToSet(r) = ToSet(s) \cup {p}
    BY <2>2, <2>3
  <2> QED
    BY <2>4 DEF r
<1>4. ToSet(<<>>) = {}
  BY DEF ToSet
<1> QED
  BY <1>1, <1>2, <1>3, <1>4

LEMMA ConcatElements ==
  \A u, v \in Seq(Players) :
    /\ u \o v \in Seq(Players) /\ Len(u \o v) = Len(u) + Len(v)
    /\ \A i \in 1..(Len(u) + Len(v)) :
         (u \o v)[i] = IF i <= Len(u) THEN u[i] ELSE v[i - Len(u)]
  OBVIOUS

LEMMA WithoutSet ==
  ASSUME NEW s \in Seq(Players), NEW p \in Players, IsInjective(s)
  PROVE  /\ Without(s, p) \in Seq(Players) /\ IsInjective(Without(s, p))
         /\ ToSet(Without(s, p)) = ToSet(s) \ {p}
         /\ p \in ToSet(s) /\ Without(s, p) = <<>> => Len(s) = 1
<1>1. CASE p \notin ToSet(s)
  BY <1>1 DEF Without
<1>2. CASE p \in ToSet(s)
  <2> DEFINE k == CHOOSE i \in DOMAIN s : s[i] = p
             r == RemoveAt(s, k)
  <2>1. k \in DOMAIN s /\ s[k] = p
    BY <1>2 DEF ToSet
  <2> HIDE DEF k
  <2>2. k \in 1..Len(s)
    BY <2>1
  <2>3. /\ SubSeq(s, 1, k - 1) \in Seq(Players) /\ Len(SubSeq(s, 1, k - 1)) = k - 1
        /\ \A i \in 1..(k - 1) : SubSeq(s, 1, k - 1)[i] = s[i]
    BY <2>2
  <2>4. /\ SubSeq(s, k + 1, Len(s)) \in Seq(Players)
        /\ Len(SubSeq(s, k + 1, Len(s))) = Len(s) - k
        /\ \A i \in 1..(Len(s) - k) : SubSeq(s, k + 1, Len(s))[i] = s[k + i]
    BY <2>2
  <2>5. /\ r \in Seq(Players) /\ Len(r) = Len(s) - 1
        /\ \A i \in 1..(Len(s) - 1) : r[i] = IF i < k THEN s[i] ELSE s[i + 1]
    <3> DEFINE u == SubSeq(s, 1, k - 1)
               v == SubSeq(s, k + 1, Len(s))
    <3>1. /\ u \in Seq(Players) /\ v \in Seq(Players) /\ r = u \o v
          /\ Len(u) = k - 1 /\ Len(v) = Len(s) - k
      BY <2>3, <2>4 DEF RemoveAt
    <3>2. ASSUME NEW i \in 1..(Len(s) - 1)
          PROVE  /\ i < k => u[i] = s[i]
                 /\ i >= k => i - (k - 1) \in 1..(Len(s) - k) /\ v[i - (k - 1)] = s[i + 1]
      BY <2>2, <2>3, <2>4
    <3> HIDE DEF u, v, r
    <3>3. r \in Seq(Players) /\ Len(r) = Len(s) - 1
      <4>1. r \in Seq(Players) /\ Len(r) = Len(u) + Len(v)
        BY <3>1, ConcatElements
      <4>2. Len(s) \in Nat /\ k \in Nat
        BY <2>2
      <4> QED
        BY <3>1, <4>1, <4>2
    <3>4. ASSUME NEW i \in 1..(Len(s) - 1) PROVE r[i] = IF i < k THEN s[i] ELSE s[i + 1]
      <4>1. r[i] = IF i <= Len(u) THEN u[i] ELSE v[i - Len(u)]
        <5>1. i \in 1..(Len(u) + Len(v))
          BY <2>2, <3>1
        <5> QED
          BY <3>1, <5>1, ConcatElements
      <4> QED
        BY <2>2, <3>1, <3>2, <4>1
    <3> QED
      BY <3>3, <3>4
  <2>6. Without(s, p) = r
    BY <1>2 DEF Without, k
  <2> HIDE DEF r
  <2>7. IsInjective(r)
    <3> SUFFICES ASSUME NEW i \in DOMAIN r, NEW j \in DOMAIN r, r[i] = r[j] PROVE i = j
      BY DEF IsInjective
    <3>1. /\ i \in 1..(Len(s) - 1) /\ j \in 1..(Len(s) - 1)
          /\ r[i] = IF i < k THEN s[i] ELSE s[i + 1]
          /\ r[j] = IF j < k THEN s[j] ELSE s[j + 1]
      BY <2>5
    <3>2. \A m, n \in 1..Len(s) : s[m] = s[n] => m = n
      BY DEF IsInjective
    <3>3. k \in Nat /\ Len(s) \in Nat /\ i \in Nat /\ j \in Nat
      BY <2>2, <3>1
    <3> DEFINE m == IF i < k THEN i ELSE i + 1
               n == IF j < k THEN j ELSE j + 1
    <3>4. m \in 1..Len(s) /\ n \in 1..Len(s) /\ r[i] = s[m] /\ r[j] = s[n]
      <4>1. m \in 1..Len(s) /\ n \in 1..Len(s)
        BY <3>1, <3>3
      <4>2. r[i] = s[m]
        BY <3>1
      <4>3. r[j] = s[n]
        BY <3>1
      <4> QED
        BY <4>1, <4>2, <4>3
    <3>5. m = n
      <4> HIDE DEF m, n
      <4> QED
        BY <3>2, <3>4
    <3> QED
      BY <3>3, <3>5
  <2>8. ASSUME NEW i \in DOMAIN r PROVE r[i] \in ToSet(s) \ {p}
    BY <2>1, <2>2, <2>5, <2>8 DEF IsInjective, ToSet
  <2>9. ASSUME NEW i \in DOMAIN s, s[i] # p PROVE s[i] \in ToSet(r)
    <3>1. CASE i < k
      BY <2>2, <2>5, <3>1 DEF ToSet
    <3>2. CASE i > k
      <4>1. i - 1 \in DOMAIN r /\ r[i - 1] = s[i]
        BY <2>2, <2>5, <3>2
      <4> QED
        BY <4>1 DEF ToSet
    <3> QED
      BY <2>1, <2>2, <2>9, <3>1, <3>2
  <2>10. ToSet(r) = ToSet(s) \ {p}
    BY <2>8, <2>9 DEF ToSet
  <2>11. r = <<>> => Len(s) = 1
    <3>1. Len(<<>>) = 0 /\ Len(s) \in Nat
      OBVIOUS
    <3> QED
      BY <2>5, <3>1
  <2> QED
    BY <2>5, <2>6, <2>7, <2>10, <2>11
<1> QED
  BY <1>1, <1>2

-----------------------------------------------------------------------------
(* At first there is no party. *)
LEMMA InitIInv == Init => IInv
<1> SUFFICES ASSUME Init PROVE IInv
  OBVIOUS
<1>1. ToSet(<<>>) = {} /\ IsInjective(<<>>)
  BY DEF ToSet, IsInjective
<1>2. Types
  BY DEF Init, Types
<1>3. PartyAgrees
  BY <1>1, PartyAssumption DEF Init, PartyAgrees, People
<1>4. NoLonelyParty
  BY DEF Init, NoLonelyParty
<1> QED
  BY <1>2, <1>3, <1>4 DEF IInv

(* Whoever leaves, is refused or logs out: what is left of each party is one. *)
LEMMA WithdrawKeeps ==
  ASSUME IInv, NEW p \in Players, NEW R \in SUBSET invitePartyList[p],
         NEW own \in {party[p], NoParty}, NEW T \in SUBSET Parties,
         EndsWithout(own, p) \subseteq T, LeftAlone(p, R) \subseteq T,
         Withdraw(p, R, own, T)
  PROVE  IInv'
<1> USE PartyAssumption
<1>1. Types /\ PartyAgrees /\ NoLonelyParty
  BY DEF IInv
<1>2. ASSUME NEW t \in T
      PROVE  leader'[t] = Nobody /\ memberList'[t] = <<>> /\ inviteList'[t] = {}
  BY DEF Withdraw
<1>3. ASSUME NEW t \in Parties \ T, t # own
      PROVE  /\ leader'[t] = leader[t] /\ memberList'[t] = memberList[t]
             /\ inviteList'[t] = IF t \in R THEN inviteList[t] \ {p} ELSE inviteList[t]
  BY <1>3 DEF Withdraw
<1>4. ASSUME NEW q \in Players
      PROVE  /\ party'[q] = IF party[q] \in T \/ (q = p /\ own # NoParty)
                             THEN NoParty ELSE party[q]
             /\ invitePartyList'[q] = invitePartyList[q] \ (T \cup IF q = p THEN R ELSE {})
  BY DEF Withdraw, Partyless, LostInvitations
<1>5. ASSUME own # NoParty, own \notin T
      PROVE  /\ own \in Parties /\ own \notin R /\ party[p] = own
             /\ inviteList'[own] = inviteList[own] \ {p} /\ p \notin inviteList[own]
             /\ leader'[own] \in Players /\ memberList'[own] \in Seq(Players)
             /\ IsInjective(memberList'[own]) /\ leader'[own] \notin ToSet(memberList'[own])
             /\ ToSet(memberList'[own]) \cup {leader'[own]} = People(own) \ {p}
             /\ memberList'[own] # <<>> \/ inviteList'[own] # {}
  <2>1. own \in Parties /\ party[p] = own /\ p \in People(own)
    BY <1>1, <1>5 DEF Types, PartyAgrees
  <2>2. p \notin inviteList[own] /\ own \notin R
    BY <1>1, <2>1 DEF PartyAgrees
  <2>3. /\ leader'[own] = LedBy(own, p) /\ memberList'[own] = Staying(own, p)
        /\ inviteList'[own] = inviteList[own] \ {p}
    BY <1>5, <2>1 DEF Withdraw
  <2>4. /\ ~(leader[own] = p /\ memberList[own] = <<>>)
        /\ Len(memberList[own]) = 1 => inviteList[own] \ {p} # {}
    BY <1>5, <2>1 DEF EndsWithout
  <2>5. /\ memberList[own] \in Seq(Players) /\ IsInjective(memberList[own])
        /\ leader[own] \notin ToSet(memberList[own])
        /\ leader[own] \in Players \cup {Nobody}
    BY <1>1, <2>1 DEF Types, PartyAgrees
  <2>6. CASE leader[own] = p
    <3>1. /\ memberList'[own] = Tail(memberList[own]) /\ leader'[own] = Head(memberList[own])
          /\ memberList[own] # <<>>
      BY <2>3, <2>4, <2>6 DEF LedBy, Staying
    <3>2. /\ memberList'[own] \in Seq(Players) /\ IsInjective(memberList'[own])
          /\ leader'[own] \in ToSet(memberList[own]) /\ leader'[own] \in Players
          /\ ToSet(memberList'[own]) = ToSet(memberList[own]) \ {leader'[own]}
          /\ memberList'[own] = <<>> => Len(memberList[own]) = 1
      BY <2>5, <3>1, TailSet
    <3>3. People(own) \ {p} = ToSet(memberList[own])
      BY <2>5, <2>6 DEF People
    <3> QED
      BY <2>1, <2>2, <2>3, <2>4, <3>2, <3>3
  <2>7. CASE leader[own] # p
    <3>1. p \in ToSet(memberList[own])
      BY <2>1, <2>7 DEF People
    <3>2. /\ memberList'[own] = Without(memberList[own], p) /\ leader'[own] = leader[own]
      BY <2>3, <2>7 DEF LedBy, Staying
    <3> DEFINE s == memberList[own]
    <3> HIDE DEF s
    <3>3a. s \in Seq(Players) /\ IsInjective(s) /\ p \in ToSet(s)
      BY <2>5, <3>1 DEF s
    <3>3b. /\ Without(s, p) \in Seq(Players) /\ IsInjective(Without(s, p))
           /\ ToSet(Without(s, p)) = ToSet(s) \ {p}
           /\ Without(s, p) = <<>> => Len(s) = 1
      BY <3>3a, WithoutSet
    <3>3. /\ memberList'[own] \in Seq(Players) /\ IsInjective(memberList'[own])
          /\ ToSet(memberList'[own]) = ToSet(memberList[own]) \ {p}
          /\ memberList'[own] = <<>> => Len(memberList[own]) = 1
      BY <3>2, <3>3b, Zenon DEF s
    <3>4. leader[own] # Nobody
      <4>1. ToSet(<<>>) = {}
        BY DEF ToSet
      <4> QED
        BY <1>1, <2>1, <3>1, <4>1 DEF PartyAgrees
    <3>5. People(own) \ {p} = (ToSet(memberList[own]) \ {p}) \cup {leader[own]}
      BY <2>7, <3>4 DEF People
    <3> QED
      BY <2>1, <2>2, <2>3, <2>4, <2>5, <3>2, <3>3, <3>4, <3>5
  <2> QED
    BY <2>6, <2>7
<1>6. Types'
  <2>1. /\ leader' \in [Parties -> Players \cup {Nobody}]
        /\ memberList' \in [Parties -> Seq(Players)]
        /\ inviteList' \in [Parties -> SUBSET Players]
    <3>1. ASSUME NEW t \in Parties
          PROVE  /\ leader'[t] \in Players \cup {Nobody} /\ memberList'[t] \in Seq(Players)
                 /\ inviteList'[t] \in SUBSET Players
      <4>1. /\ leader[t] \in Players \cup {Nobody} /\ memberList[t] \in Seq(Players)
            /\ inviteList[t] \in SUBSET Players
        BY <1>1 DEF Types
      <4>2. CASE t \in T
        <5>1. <<>> \in Seq(Players)
          OBVIOUS
        <5> QED
          BY <1>2, <4>2, <5>1
      <4>3. CASE t \notin T /\ t # own
        BY <1>3, <4>1, <4>3
      <4>4. CASE t \notin T /\ t = own
        <5>1. /\ leader'[t] \in Players /\ memberList'[t] \in Seq(Players)
              /\ inviteList'[t] = inviteList[t] \ {p}
          BY <1>5, <4>4
        <5> QED
          BY <4>1, <5>1
      <4> QED
        BY <4>2, <4>3, <4>4
    <3>2. /\ leader' = [t \in Parties |-> leader'[t]]
          /\ memberList' = [t \in Parties |-> memberList'[t]]
          /\ inviteList' = [t \in Parties |-> inviteList'[t]]
      BY DEF Withdraw
    <3> QED
      BY <3>1, <3>2
  <2>2. /\ party' \in [Players -> Parties \cup {NoParty}]
        /\ invitePartyList' \in [Players -> SUBSET Parties]
    BY <1>1 DEF Types, Withdraw
  <2> QED
    BY <2>1, <2>2 DEF Types
<1>7. ASSUME NEW t \in Parties
      PROVE  /\ \A q \in Players : party'[q] = t <=> q \in People(t)'
             /\ leader'[t] \notin ToSet(memberList'[t])
             /\ IsInjective(memberList'[t])
             /\ leader'[t] = Nobody => memberList'[t] = <<>> /\ inviteList'[t] = {}
             /\ \A q \in Players :
                  /\ t \in invitePartyList'[q] <=> q \in inviteList'[t]
                  /\ q \in inviteList'[t] => q \notin People(t)'
             /\ leader'[t] # Nobody => memberList'[t] # <<>> \/ inviteList'[t] # {}
  <2>1. CASE t \in T
    <3>1. ToSet(<<>>) = {} /\ IsInjective(<<>>)
      BY DEF ToSet, IsInjective
    <3>2. People(t)' = {}
      BY <1>2, <2>1, <3>1 DEF People
    <3> QED
      BY <1>2, <1>4, <2>1, <3>1, <3>2
  <2>2. CASE t \notin T /\ t # own
    <3>1. People(t)' = People(t)
      BY <1>3, <2>2 DEF People
    <3>2. \A q \in Players : party'[q] = t <=> party[q] = t
      BY <1>4, <2>2
    <3>3. \A q \in Players :
            t \in invitePartyList'[q] <=> t \in invitePartyList[q] /\ ~(q = p /\ t \in R)
      BY <1>4, <2>2
    <3>4. leader[t] # Nobody /\ memberList[t] = <<>> /\ t \in R => inviteList[t] \ {p} # {}
      <4>1. t \in R => p \in inviteList[t]
        BY <1>1 DEF PartyAgrees
      <4> QED
        BY <2>2, <4>1 DEF LeftAlone
    <3>5. /\ leader'[t] = leader[t] /\ memberList'[t] = memberList[t]
          /\ inviteList'[t] = IF t \in R THEN inviteList[t] \ {p} ELSE inviteList[t]
      BY <1>3, <2>2
    <3>6. /\ \A q \in Players : party[q] = t <=> q \in People(t)
          /\ leader[t] \notin ToSet(memberList[t]) /\ IsInjective(memberList[t])
          /\ leader[t] = Nobody => memberList[t] = <<>> /\ inviteList[t] = {}
          /\ \A q \in Players : t \in invitePartyList[q] <=> q \in inviteList[t]
          /\ \A q \in Players : q \in inviteList[t] => q \notin People(t)
          /\ leader[t] # Nobody => memberList[t] # <<>> \/ inviteList[t] # {}
      BY <1>1 DEF PartyAgrees, NoLonelyParty
    <3>7. \A q \in Players : party'[q] = t <=> q \in People(t)'
      BY <3>1, <3>2, <3>6
    <3>8. /\ leader'[t] \notin ToSet(memberList'[t]) /\ IsInjective(memberList'[t])
      BY <3>5, <3>6
    <3>9. leader'[t] = Nobody => memberList'[t] = <<>> /\ inviteList'[t] = {}
      BY <3>5, <3>6
    <3>10. \A q \in Players : t \in invitePartyList'[q] <=> q \in inviteList'[t]
      BY <3>3, <3>5, <3>6
    <3>11. \A q \in Players : q \in inviteList'[t] => q \notin People(t)'
      BY <3>1, <3>5, <3>6
    <3>12. leader'[t] # Nobody => memberList'[t] # <<>> \/ inviteList'[t] # {}
      BY <3>4, <3>5, <3>6
    <3> QED
      BY <3>7, <3>8, <3>9, <3>10, <3>11, <3>12
  <2>3. CASE t \notin T /\ t = own
    <3>1. own # NoParty
      BY <2>3
    <3>2. People(t)' = People(t) \ {p}
      BY <1>5, <2>3, <3>1 DEF People
    <3>3. \A q \in Players : party'[q] = t <=> party[q] = t /\ q # p
      BY <1>4, <2>3, <3>1
    <3>4. \A q \in Players : t \in invitePartyList'[q] <=> t \in invitePartyList[q]
      BY <1>4, <1>5, <2>3, <3>1
    <3>5. inviteList'[t] = inviteList[t] /\ leader'[t] # Nobody
      BY <1>5, <2>3, <3>1
    <3> QED
      BY <1>1, <1>5, <2>3, <3>1, <3>2, <3>3, <3>4, <3>5 DEF PartyAgrees
  <2> QED
    BY <2>1, <2>2, <2>3
<1>8. PartyAgrees' /\ NoLonelyParty'
  BY <1>7 DEF PartyAgrees, NoLonelyParty
<1> QED
  BY <1>6, <1>8 DEF IInv

(* A new party, or a new invitation of an old one. *)
LEMMA InviteKeeps ==
  ASSUME IInv, NEW p \in Players, NEW q \in Players,
         Invite(p, q) \/ \E t \in Parties : Found(p, q, t)
  PROVE  IInv'
<1>1. Types /\ PartyAgrees /\ NoLonelyParty
  BY DEF IInv
<1>2. CASE Invite(p, q)
  <2> DEFINE t == party[p]
  <2>1. /\ t \in Parties /\ leader[t] = p /\ q \notin People(t)
    BY <1>1, <1>2 DEF Invite, Leads, Types, PartyAgrees
  <2>2. /\ leader' = leader /\ memberList' = memberList /\ party' = party
        /\ inviteList' = [inviteList EXCEPT ![t] = @ \cup {q}]
        /\ invitePartyList' = [invitePartyList EXCEPT ![q] = @ \cup {t}]
    BY <1>2 DEF Invite
  <2> HIDE DEF t
  <2>3. Types'
    BY <1>1, <2>1, <2>2 DEF Types
  <2>4. ASSUME NEW u \in Parties PROVE People(u)' = People(u)
    BY <2>2 DEF People
  <2>5. PartyAgrees'
    <3> SUFFICES ASSUME NEW u \in Parties
                 PROVE  /\ \A r \in Players : party'[r] = u <=> r \in People(u)'
                        /\ leader'[u] \notin ToSet(memberList'[u])
                        /\ IsInjective(memberList'[u])
                        /\ leader'[u] = Nobody => memberList'[u] = <<>> /\ inviteList'[u] = {}
                        /\ \A r \in Players :
                             /\ u \in invitePartyList'[r] <=> r \in inviteList'[u]
                             /\ r \in inviteList'[u] => r \notin People(u)'
      BY DEF PartyAgrees
    <3>1. \A r \in Players : party'[r] = u <=> r \in People(u)'
      BY <1>1, <2>2, <2>4 DEF PartyAgrees
    <3>2. leader'[u] \notin ToSet(memberList'[u]) /\ IsInjective(memberList'[u])
      BY <1>1, <2>2 DEF PartyAgrees
    <3>3. leader'[u] = Nobody => memberList'[u] = <<>> /\ inviteList'[u] = {}
      BY <1>1, <2>1, <2>2, PartyAssumption DEF PartyAgrees, Types
    <3>4. ASSUME NEW r \in Players PROVE u \in invitePartyList'[r] <=> r \in inviteList'[u]
      BY <1>1, <2>1, <2>2 DEF PartyAgrees, Types
    <3>5. ASSUME NEW r \in Players, r \in inviteList'[u] PROVE r \notin People(u)'
      BY <1>1, <2>1, <2>2, <2>4, <3>5 DEF PartyAgrees, Types
    <3> QED
      BY <3>1, <3>2, <3>3, <3>4, <3>5
  <2>6. NoLonelyParty'
    BY <1>1, <2>1, <2>2 DEF NoLonelyParty, Types
  <2> QED
    BY <2>3, <2>5, <2>6 DEF IInv
<1>3. ASSUME NEW t \in Parties, Found(p, q, t) PROVE IInv'
  <2>1. /\ p # q /\ party[p] = NoParty /\ party[q] = NoParty /\ leader[t] = Nobody
        /\ memberList' = memberList
        /\ leader' = [leader EXCEPT ![t] = p]
        /\ party' = [party EXCEPT ![p] = t]
        /\ inviteList' = [inviteList EXCEPT ![t] = {q}]
        /\ invitePartyList' = [invitePartyList EXCEPT ![q] = @ \cup {t}]
    BY <1>3 DEF Found
  <2>2. /\ memberList[t] = <<>> /\ inviteList[t] = {} /\ ToSet(<<>>) = {}
        /\ \A r \in Players : t \notin invitePartyList[r] /\ party[r] # t
    <3>1. ToSet(<<>>) = {}
      BY DEF ToSet
    <3>2. memberList[t] = <<>> /\ inviteList[t] = {}
      BY <1>1, <2>1 DEF PartyAgrees
    <3>3. People(t) = {}
      BY <2>1, <3>1, <3>2 DEF People
    <3> QED
      BY <1>1, <3>1, <3>2, <3>3 DEF PartyAgrees
  <2>3. Types'
    BY <1>1, <2>1 DEF Types
  <2>4. ASSUME NEW u \in Parties PROVE People(u)' = IF u = t THEN {p} ELSE People(u)
    BY <1>1, <2>1, <2>2, PartyAssumption DEF People, Types
  <2>5. PartyAgrees'
    <3> SUFFICES ASSUME NEW u \in Parties
                 PROVE  /\ \A r \in Players : party'[r] = u <=> r \in People(u)'
                        /\ leader'[u] \notin ToSet(memberList'[u])
                        /\ IsInjective(memberList'[u])
                        /\ leader'[u] = Nobody => memberList'[u] = <<>> /\ inviteList'[u] = {}
                        /\ \A r \in Players :
                             /\ u \in invitePartyList'[r] <=> r \in inviteList'[u]
                             /\ r \in inviteList'[u] => r \notin People(u)'
      BY DEF PartyAgrees
    <3>1. ASSUME NEW r \in Players PROVE party'[r] = u <=> r \in People(u)'
      BY <1>1, <2>1, <2>2, <2>4, PartyAssumption DEF PartyAgrees, Types
    <3>2. leader'[u] \notin ToSet(memberList'[u]) /\ IsInjective(memberList'[u])
      BY <1>1, <2>1, <2>2 DEF PartyAgrees, Types
    <3>3. leader'[u] = Nobody => memberList'[u] = <<>> /\ inviteList'[u] = {}
      BY <1>1, <2>1, <2>2, PartyAssumption DEF PartyAgrees, Types
    <3>4. ASSUME NEW r \in Players PROVE u \in invitePartyList'[r] <=> r \in inviteList'[u]
      BY <1>1, <2>1, <2>2 DEF PartyAgrees, Types
    <3>5. ASSUME NEW r \in Players, r \in inviteList'[u] PROVE r \notin People(u)'
      BY <1>1, <2>1, <2>2, <2>4, <3>5 DEF PartyAgrees, Types
    <3> QED
      BY <3>1, <3>2, <3>3, <3>4, <3>5
  <2>6. NoLonelyParty'
    BY <1>1, <2>1 DEF NoLonelyParty, Types
  <2> QED
    BY <2>3, <2>5, <2>6 DEF IInv
<1> QED
  BY <1>2, <1>3

(* Whoever joins goes from the invited to the members. *)
LEMMA JoinKeeps ==
  ASSUME IInv, NEW p \in Players, NEW l \in Players, Join(p, l)
  PROVE  IInv'
<1>1. Types /\ PartyAgrees /\ NoLonelyParty
  BY DEF IInv
<1>0. PICK t \in Parties : t = party[l] /\ leader[t] = l
  BY <1>1 DEF Join, isInviting, Leads, Types
<1>2. /\ leader' = leader /\ party[p] = NoParty
      /\ memberList' = [memberList EXCEPT ![t] = Append(@, p)]
      /\ inviteList' = [inviteList EXCEPT ![t] = @ \ {p}]
      /\ party' = [party EXCEPT ![p] = t]
      /\ invitePartyList' = [invitePartyList EXCEPT ![p] = @ \ {t}]
  BY <1>0 DEF Join
<1>3. /\ t \in Parties /\ leader[t] = l /\ p \in inviteList[t]
  BY <1>0 DEF Join, isInviting
<1>4. /\ p \notin People(t) /\ l \in People(t) /\ leader[t] # Nobody
  BY <1>1, <1>3, PartyAssumption DEF PartyAgrees, People
<1>5. /\ p # l /\ p \notin ToSet(memberList[t]) /\ l \notin ToSet(memberList[t])
  BY <1>1, <1>3, <1>4 DEF People, PartyAgrees
<1>6. memberList[t] \in Seq(Players) /\ IsInjective(memberList[t])
  BY <1>1, <1>3 DEF Types, PartyAgrees
<1>7. /\ Append(memberList[t], p) \in Seq(Players) /\ IsInjective(Append(memberList[t], p))
      /\ ToSet(Append(memberList[t], p)) = ToSet(memberList[t]) \cup {p}
      /\ Append(memberList[t], p) # <<>>
  BY <1>5, <1>6, AppendSet
<1>8. memberList'[t] = Append(memberList[t], p)
  BY <1>1, <1>2, <1>3 DEF Types
<1>9. ASSUME NEW u \in Parties, u # t PROVE memberList'[u] = memberList[u]
  BY <1>1, <1>2, <1>9 DEF Types
<1>10. Types'
  <2>1. memberList' \in [Parties -> Seq(Players)]
    BY <1>1, <1>2, <1>7 DEF Types
  <2> QED
    BY <1>1, <1>2, <1>3, <2>1 DEF Types
<1>11. /\ People(t)' = People(t) \cup {p}
       /\ \A u \in Parties \ {t} : People(u)' = People(u)
  <2>1. People(t)' = People(t) \cup {p}
    BY <1>2, <1>7, <1>8 DEF People
  <2> QED
    BY <1>2, <1>9, <2>1 DEF People
<1>12. PartyAgrees'
  <2> SUFFICES ASSUME NEW u \in Parties
               PROVE  /\ \A r \in Players : party'[r] = u <=> r \in People(u)'
                      /\ leader'[u] \notin ToSet(memberList'[u])
                      /\ IsInjective(memberList'[u])
                      /\ leader'[u] = Nobody => memberList'[u] = <<>> /\ inviteList'[u] = {}
                      /\ \A r \in Players :
                           /\ u \in invitePartyList'[r] <=> r \in inviteList'[u]
                           /\ r \in inviteList'[u] => r \notin People(u)'
    BY DEF PartyAgrees
  <2>1. ASSUME NEW r \in Players PROVE party'[r] = u <=> r \in People(u)'
    BY <1>1, <1>2, <1>3, <1>11, PartyAssumption DEF PartyAgrees, Types
  <2>2. leader'[u] \notin ToSet(memberList'[u]) /\ IsInjective(memberList'[u])
    BY <1>1, <1>2, <1>3, <1>5, <1>7, <1>8, <1>9 DEF PartyAgrees
  <2>3. leader'[u] = Nobody => memberList'[u] = <<>> /\ inviteList'[u] = {}
    BY <1>1, <1>2, <1>4, <1>9 DEF PartyAgrees, Types
  <2>4. ASSUME NEW r \in Players PROVE u \in invitePartyList'[r] <=> r \in inviteList'[u]
    BY <1>1, <1>2, <1>3 DEF PartyAgrees, Types
  <2>5. ASSUME NEW r \in Players, r \in inviteList'[u] PROVE r \notin People(u)'
    BY <1>1, <1>2, <1>3, <1>11, <2>5 DEF PartyAgrees, Types
  <2> QED
    BY <2>1, <2>2, <2>3, <2>4, <2>5
<1>13. NoLonelyParty'
  <2> SUFFICES ASSUME NEW u \in Parties, leader'[u] # Nobody
               PROVE  memberList'[u] # <<>> \/ inviteList'[u] # {}
    BY DEF NoLonelyParty
  <2>1. CASE u = t
    BY <1>7, <1>8, <2>1
  <2>2. CASE u # t
    BY <1>1, <1>2, <1>9, <2>2 DEF NoLonelyParty, Types
  <2> QED
    BY <2>1, <2>2
<1> QED
  BY <1>10, <1>12, <1>13 DEF IInv

(* A new leader and the old one change places. *)
LEMMA PassKeeps ==
  ASSUME IInv, NEW l \in Players, NEW m \in Players, PassLeadership(l, m)
  PROVE  IInv'
<1>1. Types /\ PartyAgrees /\ NoLonelyParty
  BY DEF IInv
<1>0. PICK t \in Parties : t = party[l] /\ leader[t] = l
  BY <1>1 DEF PassLeadership, Leads, Types
<1> DEFINE s == Without(memberList[t], m)
<1>2. /\ leader' = [leader EXCEPT ![t] = m]
      /\ memberList' = [memberList EXCEPT ![t] = <<l>> \o s]
      /\ inviteList' = inviteList /\ party' = party /\ invitePartyList' = invitePartyList
  BY <1>0 DEF PassLeadership
<1>3. /\ t \in Parties /\ leader[t] = l /\ m \in ToSet(memberList[t])
  BY <1>0 DEF PassLeadership
<1>4. /\ memberList[t] \in Seq(Players) /\ IsInjective(memberList[t])
      /\ l \notin ToSet(memberList[t])
  BY <1>1, <1>3 DEF Types, PartyAgrees
<1>5. /\ s \in Seq(Players) /\ IsInjective(s) /\ ToSet(s) = ToSet(memberList[t]) \ {m}
  BY <1>4, WithoutSet
<1> HIDE DEF s
<1>6. /\ <<l>> \o s \in Seq(Players) /\ IsInjective(<<l>> \o s)
      /\ ToSet(<<l>> \o s) = ToSet(s) \cup {l} /\ <<l>> \o s # <<>>
  BY <1>4, <1>5, PushSet
<1>7. memberList'[t] = <<l>> \o s /\ leader'[t] = m
  BY <1>1, <1>2, <1>3 DEF Types
<1>8. ASSUME NEW u \in Parties, u # t
      PROVE  memberList'[u] = memberList[u] /\ leader'[u] = leader[u]
  BY <1>1, <1>2, <1>8 DEF Types
<1>9. Types'
  <2>1. memberList' \in [Parties -> Seq(Players)]
    BY <1>1, <1>2, <1>6 DEF Types
  <2> QED
    BY <1>1, <1>2, <1>3, <2>1 DEF Types
<1>10. ASSUME NEW u \in Parties PROVE People(u)' = People(u)
  <2>1. CASE u = t
    <3>1. People(t) = ToSet(memberList[t]) \cup {l}
      BY <1>3, PartyAssumption DEF People
    <3>2. People(t)' = ToSet(<<l>> \o s) \cup {m}
      BY <1>7, PartyAssumption DEF People
    <3> QED
      BY <1>3, <1>5, <1>6, <2>1, <3>1, <3>2
  <2>2. CASE u # t
    BY <1>8, <2>2 DEF People
  <2> QED
    BY <2>1, <2>2
<1>11. m \notin ToSet(<<l>> \o s)
  BY <1>3, <1>4, <1>5, <1>6
<1>12. PartyAgrees'
  <2> SUFFICES ASSUME NEW u \in Parties
               PROVE  /\ \A r \in Players : party'[r] = u <=> r \in People(u)'
                      /\ leader'[u] \notin ToSet(memberList'[u])
                      /\ IsInjective(memberList'[u])
                      /\ leader'[u] = Nobody => memberList'[u] = <<>> /\ inviteList'[u] = {}
                      /\ \A r \in Players :
                           /\ u \in invitePartyList'[r] <=> r \in inviteList'[u]
                           /\ r \in inviteList'[u] => r \notin People(u)'
    BY DEF PartyAgrees
  <2>1. \A r \in Players :
          /\ party'[r] = u <=> r \in People(u)'
          /\ u \in invitePartyList'[r] <=> r \in inviteList'[u]
          /\ r \in inviteList'[u] => r \notin People(u)'
    BY <1>1, <1>2, <1>10 DEF PartyAgrees
  <2>2. CASE u = t
    BY <1>6, <1>7, <1>11, <2>1, <2>2, PartyAssumption
  <2>3. CASE u # t
    BY <1>1, <1>2, <1>8, <2>1, <2>3 DEF PartyAgrees
  <2> QED
    BY <2>2, <2>3
<1>13. NoLonelyParty'
  <2> SUFFICES ASSUME NEW u \in Parties, leader'[u] # Nobody
               PROVE  memberList'[u] # <<>> \/ inviteList'[u] # {}
    BY DEF NoLonelyParty
  <2>1. CASE u = t
    BY <1>6, <1>7, <2>1
  <2>2. CASE u # t
    BY <1>1, <1>2, <1>8, <2>2 DEF NoLonelyParty
  <2> QED
    BY <2>1, <2>2
<1> QED
  BY <1>9, <1>12, <1>13 DEF IInv

LEMMA StepIInv == IInv /\ [Next]_vars => IInv'
<1> SUFFICES ASSUME IInv, [Next]_vars PROVE IInv'
  OBVIOUS
<1>1. Types
  BY DEF IInv
<1>2. CASE UNCHANGED partyVars
  BY <1>2 DEF IInv, Types, PartyAgrees, NoLonelyParty, People, partyVars
<1>3. ASSUME NEW p \in Players, NEW q \in Players,
             Invite(p, q) \/ \E t \in Parties : Found(p, q, t)
      PROVE  IInv'
  BY <1>3, InviteKeeps
<1>4. ASSUME NEW p \in Players, NEW q \in Players, Join(p, q) PROVE IInv'
  BY <1>4, JoinKeeps
<1>5. ASSUME NEW p \in Players, NEW q \in Players, PassLeadership(p, q) PROVE IInv'
  BY <1>5, PassKeeps
<1>6. ASSUME NEW p \in Players, NEW q \in Players, Revoke(p, q) PROVE IInv'
  <2> DEFINE T == LeftAlone(q, {party[p]})
  <2>1. /\ party[p] \in Parties /\ party[p] \in invitePartyList[q]
        /\ Withdraw(q, {party[p]}, NoParty, T)
    BY <1>1, <1>6 DEF IInv, PartyAgrees, Types, Revoke, isInviting, Leads
  <2>2. T \subseteq Parties /\ EndsWithout(NoParty, q) = {}
    BY <2>1 DEF LeftAlone, EndsWithout
  <2> HIDE DEF T
  <2>3. LeftAlone(q, {party[p]}) \subseteq T /\ {party[p]} \subseteq invitePartyList[q]
    BY <2>1 DEF T
  <2> QED
    BY <2>1, <2>2, <2>3, WithdrawKeeps
<1>7. ASSUME NEW p \in Players, Leave(p) PROVE IInv'
  <2> DEFINE T == EndsWithout(party[p], p)
  <2>1. Withdraw(p, {}, party[p], T)
    BY <1>7 DEF Leave
  <2>2. T \subseteq Parties /\ LeftAlone(p, {}) = {}
    BY <1>1 DEF LeftAlone, EndsWithout, Types
  <2>3. EndsWithout(party[p], p) \subseteq T
    OBVIOUS
  <2> HIDE DEF T
  <2> QED
    BY <2>1, <2>2, <2>3, WithdrawKeeps
<1>8. ASSUME NEW p \in Players, Withdraw(p, invitePartyList[p], party[p], Departs(p))
      PROVE  IInv'
  <2>1. /\ Departs(p) \subseteq Parties
        /\ EndsWithout(party[p], p) \subseteq Departs(p)
        /\ LeftAlone(p, invitePartyList[p]) \subseteq Departs(p)
    BY <1>1 DEF Departs, LeftAlone, EndsWithout, Types
  <2> QED
    BY <1>8, <2>1, WithdrawKeeps
<1>9. CASE Next
  BY <1>2, <1>3, <1>4, <1>5, <1>6, <1>7, <1>8, <1>9
     DEF Next, Ghost, Logout, CreateChannel, OpenChannel, CloseChannel, ClientChanges
<1> QED
  BY <1>2, <1>9 DEF vars, partyVars

-----------------------------------------------------------------------------
(* Player::party, the lists of members and the lists of invitations agree, and
   none of them names a party that was deleted. *)
THEOREM PartyAgreesHolds == Spec => []PartyAgrees
<1>1. IInv => PartyAgrees
  BY DEF IInv
<1> QED
  BY InitIInv, StepIInv, <1>1, PTL DEF Spec

(* A party whose last member or invitation goes is disbanded by that step. *)
THEOREM NoLonelyPartyHolds == Spec => []NoLonelyParty
<1>1. IInv => NoLonelyParty
  BY DEF IInv
<1> QED
  BY InitIInv, StepIInv, <1>1, PTL DEF Spec
-----------------------------------------------------------------------------
(* What a step takes from a party. *)
Lost(t) == {q \in Players : party[q] = t /\ party'[q] # t}

(* The people of a party are those who have the pointer to it, before a step
   and after. *)
LEMMA LostFromParty ==
  ASSUME IInv, IInv', NEW t \in Parties
  PROVE  People(t) \ People(t)' = Lost(t)
<1>1. People(t) \subseteq Players
  BY DEF IInv, Types, People, ToSet
<1>2. \A q \in Players : (party[q] = t <=> q \in People(t)) /\ (party'[q] = t <=> q \in People(t)')
  BY DEF IInv, PartyAgrees
<1> QED
  BY <1>1, <1>2 DEF Lost

LEMMA AtMostOne ==
  ASSUME NEW S, NEW x, S \subseteq {x}
  PROVE  Cardinality(S) <= 1
<1>1. IsFiniteSet({x}) /\ Cardinality({x}) = 1
  BY FS_Singleton
<1>2. Cardinality(S) <= Cardinality({x})
  BY <1>1, FS_Subset
<1> QED
  BY <1>1, <1>2

(* A party without members has its leader; one with a member has two. *)
LEMMA SmallParty ==
  ASSUME IInv, NEW t \in Parties
  PROVE  /\ memberList[t] = <<>> => People(t) \subseteq {leader[t]}
         /\ Len(memberList[t]) = 1 => Cardinality(People(t)) = 2
<1>1. ASSUME memberList[t] = <<>> PROVE People(t) \subseteq {leader[t]}
  <2>1. ToSet(<<>>) = {}
    BY DEF ToSet
  <2> QED
    BY <1>1, <2>1 DEF People
<1>2. ASSUME Len(memberList[t]) = 1 PROVE Cardinality(People(t)) = 2
  <2> DEFINE m == memberList[t][1]
             l == leader[t]
  <2>1. ToSet(memberList[t]) = {m} /\ memberList[t] # <<>>
    <3>1. memberList[t] \in Seq(Players) /\ DOMAIN memberList[t] = {1}
      BY <1>2 DEF IInv, Types
    <3>2. memberList[t] # <<>>
      BY <3>1
    <3> QED
      BY <3>1, <3>2 DEF ToSet
  <2>2. l # Nobody /\ l # m
    BY <2>1 DEF IInv, PartyAgrees
  <2>3. People(t) = {m} \cup {l}
    BY <2>1, <2>2 DEF People
  <2>4. IsFiniteSet({m}) /\ Cardinality({m}) = 1 /\ l \notin {m}
    BY <2>2, FS_Singleton
  <2> HIDE DEF m, l
  <2>5. Cardinality({m} \cup {l}) = Cardinality({m}) + 1
    BY <2>4, FS_AddElement
  <2> QED
    BY <2>3, <2>4, <2>5
<1> QED
  BY <1>1, <1>2

(* Leaving and revoking cost a party its one who goes, or, where they disband
   it, the two that were left. *)
LEMMA WithdrawLoses ==
  ASSUME IInv, IInv', NEW p \in Players, NEW R, NEW own, NEW T,
         Withdraw(p, R, own, T), own \in Parties \cup {NoParty},
         T \subseteq LeftAlone(p, R) \cup EndsWithout(own, p), NEW t \in Parties
  PROVE  Cardinality(Lost(t)) <= 1 \/ Cardinality(People(t)) = 2
<1>1. CASE t \notin T
  <2>1. Lost(t) \subseteq {p}
    BY <1>1, PartyAssumption DEF Withdraw, Partyless, Lost
  <2> QED
    BY <2>1, AtMostOne
<1>2. CASE t \in T
  <2>1. memberList[t] = <<>> \/ Len(memberList[t]) = 1
    BY <1>2 DEF LeftAlone, EndsWithout
  <2>2. Lost(t) \subseteq People(t)
    BY LostFromParty
  <2> QED
    BY <2>1, <2>2, SmallParty, AtMostOne
<1> QED
  BY <1>1, <1>2

LEMMA StepLosesOne ==
  ASSUME IInv, [Next]_vars, NEW t \in Parties
  PROVE  LET lost == People(t) \ People(t)'
         IN  Cardinality(lost) <= 1 \/ Cardinality(People(t)) = 2
<1>1. IInv'
  BY StepIInv
<1>2. People(t) \ People(t)' = Lost(t)
  BY <1>1, LostFromParty
<1> SUFFICES Cardinality(Lost(t)) <= 1 \/ Cardinality(People(t)) = 2
  BY <1>2
<1>3. CASE \A q \in Players : party[q] # NoParty => party'[q] = party[q]
  <2>1. Lost(t) = {}
    BY <1>3, PartyAssumption DEF Lost
  <2> QED
    BY <2>1, FS_EmptySet
<1>4. \A q \in Players : party[q] \in Parties \cup {NoParty}
  BY DEF IInv, Types
<1>5. ASSUME NEW p \in Players, NEW q \in Players, Revoke(p, q)
      PROVE  Cardinality(Lost(t)) <= 1 \/ Cardinality(People(t)) = 2
  <2> DEFINE T == LeftAlone(q, {party[p]})
  <2>1. Withdraw(q, {party[p]}, NoParty, T)
    BY <1>5 DEF Revoke
  <2>2. T \subseteq LeftAlone(q, {party[p]}) \cup EndsWithout(NoParty, q)
    OBVIOUS
  <2> HIDE DEF T
  <2> QED
    BY <1>1, <2>1, <2>2, WithdrawLoses
<1>6. ASSUME NEW p \in Players, Leave(p)
      PROVE  Cardinality(Lost(t)) <= 1 \/ Cardinality(People(t)) = 2
  <2> DEFINE T == EndsWithout(party[p], p)
  <2>1. Withdraw(p, {}, party[p], T)
    BY <1>6 DEF Leave
  <2>2. T \subseteq LeftAlone(p, {}) \cup EndsWithout(party[p], p)
    OBVIOUS
  <2> HIDE DEF T
  <2> QED
    BY <1>1, <1>4, <2>1, <2>2, WithdrawLoses
<1>7. ASSUME NEW p \in Players, Ghost(p) \/ Logout(p)
      PROVE  Cardinality(Lost(t)) <= 1 \/ Cardinality(People(t)) = 2
  <2>1. Withdraw(p, invitePartyList[p], party[p], Departs(p))
    BY <1>7 DEF Ghost, Logout
  <2>2. Departs(p) \subseteq LeftAlone(p, invitePartyList[p]) \cup EndsWithout(party[p], p)
    BY DEF Departs
  <2> QED
    BY <1>1, <1>4, <2>1, <2>2, WithdrawLoses
<1>8. ASSUME NEW p \in Players, NEW q \in Players,
             \/ Invite(p, q) \/ Join(p, q) \/ PassLeadership(p, q)
             \/ \E u \in Parties : Found(p, q, u)
      PROVE  \A r \in Players : party[r] # NoParty => party'[r] = party[r]
  BY <1>8, <1>4 DEF Invite, Join, PassLeadership, Found, IInv, Types
<1>9. ASSUME NEW p \in Players,
             CreateChannel(p) \/ OpenChannel(p) \/ CloseChannel(p) \/ ClientChanges(p)
      PROVE  party' = party
  BY <1>9 DEF CreateChannel, OpenChannel, CloseChannel, ClientChanges, partyVars
<1>10. CASE UNCHANGED vars
  BY <1>3, <1>10 DEF vars, partyVars
<1> QED
  BY <1>3, <1>5, <1>6, <1>7, <1>8, <1>9, <1>10 DEF Next

(* An action property: no command, logout or disbanding takes more than one
   person from a party, except from a party of two, which ends. *)
THEOREM NobodyThrownOutHolds == Spec => NobodyThrownOut
<1>1. IInv /\ [Next]_vars =>
        [\A t \in Parties :
           LET lost == People(t) \ People(t)'
           IN  Cardinality(lost) <= 1 \/ Cardinality(People(t)) = 2]_vars
  BY StepLosesOne
<1> QED
  BY InitIInv, StepIInv, <1>1, PTL DEF Spec, NobodyThrownOut
=============================================================================
