-------------------------- MODULE HookFilesProofs --------------------------
(* Theorems about HookFiles, for any file system in which links resolve,   *)
(* any configurations and any lengths of paths.                            *)
EXTENDS HookFiles, FiniteSetTheorems, SequenceTheorems, WellFoundedInduction, TLAPS

Paths == Seq(Segments)

-----------------------------------------------------------------------------
(* Sequences.                                                              *)

\* Taking a path apart and putting it together.
LEMMA FrontOfAppend ==
    ASSUME NEW p \in Paths, NEW s \in Segments
    PROVE  /\ Append(p, s) \in Paths /\ Append(p, s) # <<>>
           /\ Front(Append(p, s)) = p /\ Last(Append(p, s)) = s
  <1>1. Len(Append(p, s)) = Len(p) + 1
    BY DEF Paths
  <1>2. Front(Append(p, s)) = p
    BY <1>1 DEF Front, Paths
  <1> QED
    BY <1>1, <1>2 DEF Last, Paths

LEMMA AppendOfFront ==
    ASSUME NEW p \in Paths, p # <<>>
    PROVE  /\ Front(p) \in Paths /\ Last(p) \in Segments
           /\ p = Append(Front(p), Last(p))
           /\ Len(Front(p)) = Len(p) - 1
  <1>1. Len(p) \in Nat /\ Len(p) > 0
    BY DEF Paths
  <1>2. Front(p) \in Paths /\ Len(Front(p)) = Len(p) - 1
    BY <1>1 DEF Front, Paths
  <1>3. Last(p) \in Segments
    BY <1>1 DEF Last, Paths
  <1>4. \A i \in 1..Len(p) - 1 : Front(p)[i] = p[i]
    BY <1>1 DEF Front, Paths
  <1>5. p = Append(Front(p), Last(p))
    BY <1>1, <1>2, <1>3, <1>4 DEF Last, Paths
  <1> QED
    BY <1>2, <1>3, <1>5

LEMMA FrontOfRoot == Front(<<>>) = <<>>
  BY DEF Front

\* Of a set of paths that is not empty one is shortest: induction over paths.
LEMMA ShortestPath ==
    ASSUME NEW S, S \subseteq Paths, S # {}
    PROVE  \E p \in S : \A q \in S : Len(p) <= Len(q)
  <1> DEFINE T == {Len(p) : p \in S}
  <1>0. \A p \in S : Len(p) \in Nat
    BY DEF Paths
  <1>1. T \subseteq Nat /\ T # {}
    BY <1>0
  <1>2. PICK m \in T : \A k \in T : ~(<<k, m>> \in OpToRel(<, Nat))
    BY <1>1, NatLessThanWellFounded, WFMin
  <1>3. \A k \in T : m <= k
    <2> SUFFICES ASSUME NEW k \in T, k < m PROVE FALSE
      BY <1>1
    <2>1. <<k, m>> \in Nat \X Nat /\ <<k, m>>[1] < <<k, m>>[2]
      BY <1>1
    <2>2. <<k, m>> \in OpToRel(<, Nat)
      BY <2>1 DEF OpToRel
    <2> QED
      BY <1>2, <2>2
  <1> QED
    BY <1>3

\* isPathWithin, segment by segment.
LEMMA WithinPointwise ==
    ASSUME NEW p \in Paths, NEW q \in Paths
    PROVE  IsPathWithin(p, q) <=> Len(p) <= Len(q) /\ \A i \in 1..Len(p) : p[i] = q[i]
  <1>1. Len(p) \in Nat /\ Len(q) \in Nat
    BY DEF Paths
  <1>2. SubSeq(p, 1, Len(p)) = p
    BY SubSeqFull DEF Paths
  <1>3. ASSUME Len(p) <= Len(q)
        PROVE  /\ SubSeq(q, 1, Len(p)) \in Paths /\ Len(SubSeq(q, 1, Len(p))) = Len(p)
               /\ \A i \in 1..Len(p) : SubSeq(q, 1, Len(p))[i] = q[i]
    BY <1>1, <1>3 DEF Paths
  <1>4. ASSUME Len(p) <= Len(q)
        PROVE  p = SubSeq(q, 1, Len(p)) <=> \A i \in 1..Len(p) : p[i] = q[i]
    BY <1>1, <1>3, <1>4, SeqEqual DEF Paths
  <1> QED
    BY <1>2, <1>4 DEF IsPathWithin, IsPrefix

LEMMA WithinTransitive ==
    ASSUME NEW p \in Paths, NEW q \in Paths, NEW r \in Paths,
           IsPathWithin(p, q), IsPathWithin(q, r)
    PROVE  IsPathWithin(p, r)
  <1>1. Len(p) \in Nat /\ Len(q) \in Nat /\ Len(r) \in Nat
    BY DEF Paths
  <1> QED
    BY <1>1, WithinPointwise

\* One segment at a time.
LEMMA WithinSelf == \A p \in Paths : IsPathWithin(p, p)
  BY DEF IsPathWithin, IsPrefix, Paths

LEMMA WithinFront ==
    ASSUME NEW p \in Paths, NEW q \in Paths, q # <<>>
    PROVE  IsPathWithin(p, q) <=> p = q \/ IsPathWithin(p, Front(q))
  <1>1. Front(q) \in Paths /\ Len(Front(q)) = Len(q) - 1 /\ Len(p) \in Nat /\ Len(q) \in Nat
    BY AppendOfFront DEF Paths
  <1>2. \A i \in 1..Len(q) - 1 : Front(q)[i] = q[i]
    BY <1>1 DEF Front, Paths
  <1>3. IsPathWithin(p, q) <=> Len(p) <= Len(q) /\ \A i \in 1..Len(p) : p[i] = q[i]
    BY WithinPointwise
  <1>4. IsPathWithin(p, Front(q)) <=>
          Len(p) <= Len(Front(q)) /\ \A i \in 1..Len(p) : p[i] = Front(q)[i]
    BY <1>1, WithinPointwise
  <1>5. p = q <=> Len(p) = Len(q) /\ \A i \in 1..Len(p) : p[i] = q[i]
    BY <1>1, SeqEqual DEF Paths
  <1>6. CASE Len(p) <= Len(q) - 1
    BY <1>1, <1>2, <1>3, <1>4, <1>5, <1>6
  <1>7. CASE ~(Len(p) <= Len(q) - 1)
    BY <1>1, <1>3, <1>4, <1>5, <1>7
  <1> QED
    BY <1>6, <1>7

LEMMA WithinAppend ==
    ASSUME NEW p \in Paths, NEW q \in Paths, NEW s \in Segments
    PROVE  IsPathWithin(p, Append(q, s)) <=> p = Append(q, s) \/ IsPathWithin(p, q)
  <1> DEFINE a == Append(q, s)
  <1>1. a \in Paths /\ a # <<>> /\ Front(a) = q
    BY FrontOfAppend
  <1> HIDE DEF a
  <1> QED
    BY <1>1, WithinFront DEF a

\* The prefixes of a path are the directories it is in, and itself.
LEMMA PrefixesWithin ==
    ASSUME NEW p \in Paths, NEW m
    PROVE  m \in Prefixes(p) <=> m \in Paths /\ IsPathWithin(m, p)
  <1>1. ASSUME NEW l \in 0..Len(p)
        PROVE  SubSeq(p, 1, l) \in Paths /\ IsPathWithin(SubSeq(p, 1, l), p)
    <2> DEFINE q == SubSeq(p, 1, l)
    <2>1. q \in Paths /\ Len(q) = l /\ \A i \in 1..l : q[i] = p[i]
      BY DEF Paths
    <2>2. l <= Len(p)
      BY DEF Paths
    <2> HIDE DEF q
    <2>3. IsPathWithin(q, p)
      BY <2>1, <2>2, WithinPointwise
    <2> QED
      BY <2>1, <2>3 DEF q
  <1>2. ASSUME m \in Paths, IsPathWithin(m, p)
        PROVE  \E l \in 0..Len(p) : m = SubSeq(p, 1, l)
    <2>1. Len(m) \in Nat /\ Len(p) \in Nat
      BY <1>2 DEF Paths
    <2>2. SubSeq(m, 1, Len(m)) = m
      BY <1>2, SubSeqFull DEF Paths
    <2>3. Len(m) <= Len(p) /\ m = SubSeq(p, 1, Len(m))
      BY <1>2, <2>2 DEF IsPathWithin, IsPrefix
    <2> DEFINE n == Len(m)
    <2>4. n \in 0..Len(p) /\ m = SubSeq(p, 1, n)
      BY <2>1, <2>3
    <2> HIDE DEF n
    <2> QED
      BY <2>4
  <1> QED
    BY <1>1, <1>2 DEF Prefixes

-----------------------------------------------------------------------------
(* Resolving links.                                                        *)

\* A set of pairs of a path and where it leads that following one more segment
\* does not leave.
Closed(f, S) ==
    /\ <<<<>>, <<>>>> \in S
    /\ \A p, r \in Paths, s \in Segments : <<p, r>> \in S =>
         IF IsLinkOf(f, Append(r, s))
           THEN \A t \in Paths :
                  <<f[Append(r, s)].to, t>> \in S => <<Append(p, s), t>> \in S
           ELSE <<Append(p, s), Append(r, s)>> \in S

\* The least such set: each pair in it is found in finitely many steps.
Leads(f) == {pr \in Paths \X Paths :
               \A S \in SUBSET (Paths \X Paths) : Closed(f, S) => pr \in S}

\* Rule induction.
LEMMA LeadsLeast ==
    ASSUME NEW f, NEW S \in SUBSET (Paths \X Paths), Closed(f, S)
    PROVE  Leads(f) \subseteq S
  BY DEF Leads

LEMMA LeadsClosed ==
    ASSUME NEW f
    PROVE  Closed(f, Leads(f))
  <1>1. <<<<>>, <<>>>> \in Leads(f)
    <2>1. <<>> \in Paths
      BY DEF Paths
    <2> QED
      BY <2>1 DEF Leads, Closed
  <1>2. ASSUME NEW p \in Paths, NEW r \in Paths, NEW s \in Segments, <<p, r>> \in Leads(f),
               IsLinkOf(f, Append(r, s)),
               NEW t \in Paths, <<f[Append(r, s)].to, t>> \in Leads(f)
        PROVE  <<Append(p, s), t>> \in Leads(f)
    <2>1. Append(p, s) \in Paths
      BY FrontOfAppend
    <2>2. ASSUME NEW S \in SUBSET (Paths \X Paths), Closed(f, S)
          PROVE  <<Append(p, s), t>> \in S
      <3>1. <<p, r>> \in S /\ <<f[Append(r, s)].to, t>> \in S
        BY <1>2, <2>2 DEF Leads
      <3> QED
        BY <1>2, <2>2, <3>1 DEF Closed
    <2> QED
      BY <2>1, <2>2 DEF Leads
  <1>3. ASSUME NEW p \in Paths, NEW r \in Paths, NEW s \in Segments, <<p, r>> \in Leads(f),
               ~IsLinkOf(f, Append(r, s))
        PROVE  <<Append(p, s), Append(r, s)>> \in Leads(f)
    <2>1. Append(p, s) \in Paths /\ Append(r, s) \in Paths
      BY FrontOfAppend
    <2>2. ASSUME NEW S \in SUBSET (Paths \X Paths), Closed(f, S)
          PROVE  <<Append(p, s), Append(r, s)>> \in S
      <3>1. <<p, r>> \in S
        BY <1>3, <2>2 DEF Leads
      <3> QED
        BY <1>3, <2>2, <3>1 DEF Closed
    <2> QED
      BY <2>1, <2>2 DEF Leads
  <1> QED
    BY <1>1, <1>2, <1>3 DEF Closed

\* The step from r over the segment s ends at t.
LastStep(f, r, s, t) ==
    /\ IsLinkOf(f, Append(r, s)) => <<f[Append(r, s)].to, t>> \in Leads(f)
    /\ ~IsLinkOf(f, Append(r, s)) => t = Append(r, s)

\* The last step of a resolution.
LEMMA LeadsLast ==
    ASSUME NEW f, NEW p \in Paths, NEW t \in Paths, <<p, t>> \in Leads(f)
    PROVE  /\ p = <<>> => t = <<>>
           /\ p # <<>> => \E r \in Paths :
                <<Front(p), r>> \in Leads(f) /\ LastStep(f, r, Last(p), t)
  <1> DEFINE Good(q, u) ==
         /\ q = <<>> => u = <<>>
         /\ q # <<>> => \E r \in Paths :
              <<Front(q), r>> \in Leads(f) /\ LastStep(f, r, Last(q), u)
      S == {pr \in Leads(f) : Good(pr[1], pr[2])}
  <1>1. S \in SUBSET (Paths \X Paths)
    BY DEF Leads
  <1>2. Closed(f, S)
    <2>1. <<<<>>, <<>>>> \in S
      BY LeadsClosed DEF Closed
    <2>2. ASSUME NEW q \in Paths, NEW r \in Paths, NEW s \in Segments, <<q, r>> \in S,
                 IsLinkOf(f, Append(r, s)),
                 NEW u \in Paths, <<f[Append(r, s)].to, u>> \in S
          PROVE  <<Append(q, s), u>> \in S
      <3>1. <<Append(q, s), u>> \in Leads(f)
        BY <2>2, LeadsClosed DEF Closed
      <3>2. Good(Append(q, s), u)
        BY <2>2, FrontOfAppend DEF LastStep
      <3> QED
        BY <3>1, <3>2
    <2>3. ASSUME NEW q \in Paths, NEW r \in Paths, NEW s \in Segments, <<q, r>> \in S,
                 ~IsLinkOf(f, Append(r, s))
          PROVE  <<Append(q, s), Append(r, s)>> \in S
      <3>1. <<Append(q, s), Append(r, s)>> \in Leads(f)
        BY <2>3, LeadsClosed DEF Closed
      <3>2. Good(Append(q, s), Append(r, s))
        BY <2>3, FrontOfAppend DEF LastStep
      <3> QED
        BY <3>1, <3>2
    <2> HIDE DEF S
    <2> QED
      BY <2>1, <2>2, <2>3 DEF Closed
  <1>3. <<p, t>> \in S
    BY <1>1, <1>2, LeadsLeast
  <1> QED
    BY <1>3

LEMMA LeadsAppend ==
    ASSUME NEW f, NEW p \in Paths, NEW s \in Segments, NEW t \in Paths,
           <<Append(p, s), t>> \in Leads(f)
    PROVE  \E r \in Paths : <<p, r>> \in Leads(f) /\ LastStep(f, r, s, t)
  <1> DEFINE q == Append(p, s)
  <1>1. q \in Paths /\ q # <<>> /\ Front(q) = p /\ Last(q) = s /\ <<q, t>> \in Leads(f)
    BY FrontOfAppend
  <1> HIDE DEF q
  <1> QED
    BY <1>1, LeadsLast

\* A path leads to one place.
LEMMA LeadsOnce ==
    ASSUME NEW f, NEW p \in Paths, NEW t \in Paths, NEW u \in Paths,
           <<p, t>> \in Leads(f), <<p, u>> \in Leads(f)
    PROVE  t = u
  <1> DEFINE Only(q, v) == \A w \in Paths : <<q, w>> \in Leads(f) => w = v
             S == {pr \in Leads(f) : Only(pr[1], pr[2])}
  <1>1. S \in SUBSET (Paths \X Paths)
    BY DEF Leads
  <1>2. Closed(f, S)
    <2>0. <<>> \in Paths
      BY DEF Paths
    <2>1. <<<<>>, <<>>>> \in S
      <3>1. Only(<<>>, <<>>)
        BY <2>0, LeadsLast
      <3> QED
        BY <3>1, LeadsClosed DEF Closed
    <2>2. ASSUME NEW q \in Paths, NEW r \in Paths, NEW s \in Segments, <<q, r>> \in S,
                 IsLinkOf(f, Append(r, s)),
                 NEW v \in Paths, <<f[Append(r, s)].to, v>> \in S
          PROVE  <<Append(q, s), v>> \in S
      <3>1. <<Append(q, s), v>> \in Leads(f)
        BY <2>2, LeadsClosed DEF Closed
      <3>2. Only(q, r) /\ Only(f[Append(r, s)].to, v)
        BY <2>2
      <3>3. ASSUME NEW w \in Paths, <<Append(q, s), w>> \in Leads(f)
            PROVE  w = v
        <4>1. PICK r2 \in Paths : <<q, r2>> \in Leads(f) /\ LastStep(f, r2, s, w)
          BY <3>3, LeadsAppend
        <4> QED
          BY <2>2, <3>2, <4>1 DEF LastStep
      <3> QED
        BY <3>1, <3>3
    <2>3. ASSUME NEW q \in Paths, NEW r \in Paths, NEW s \in Segments, <<q, r>> \in S,
                 ~IsLinkOf(f, Append(r, s))
          PROVE  <<Append(q, s), Append(r, s)>> \in S
      <3>1. <<Append(q, s), Append(r, s)>> \in Leads(f)
        BY <2>3, LeadsClosed DEF Closed
      <3>2. Only(q, r)
        BY <2>3
      <3>3. ASSUME NEW w \in Paths, <<Append(q, s), w>> \in Leads(f)
            PROVE  w = Append(r, s)
        <4>1. PICK r2 \in Paths : <<q, r2>> \in Leads(f) /\ LastStep(f, r2, s, w)
          BY <3>3, LeadsAppend
        <4> QED
          BY <2>3, <3>2, <4>1 DEF LastStep
      <3> QED
        BY <3>1, <3>3
    <2> HIDE DEF S
    <2> QED
      BY <2>1, <2>2, <2>3 DEF Closed
  <1>3. <<p, t>> \in S
    BY <1>1, <1>2, LeadsLeast
  <1> QED
    BY <1>3

\* Every path leads somewhere.
Resolves(f) == \A p \in Paths : \E r \in Paths : <<p, r>> \in Leads(f)

\* What the definition of Real says of a function.
IsReal(f, g) ==
    g = [p \in Seq(Segments) |->
            IF p = <<>> THEN p
            ELSE LET q == Append(g[Front(p)], Last(p))
                 IN  IF q \in DOMAIN f /\ f[q].kind = "link" THEN g[f[q].to] ELSE q]

OneStep(f, g, p) ==
    LET q == Append(g[Front(p)], Last(p))
    IN  IF IsLinkOf(f, q) THEN g[f[q].to] ELSE q

RealOf(f) == CHOOSE g : IsReal(f, g)

LEMMA RealChoice == Real = RealOf(fs) /\ Real' = RealOf(fs')
  BY DEF Real, RealOf, IsReal

LEMMA IsRealSteps ==
    ASSUME NEW f, NEW g, IsReal(f, g)
    PROVE  \A p \in Paths : g[p] = IF p = <<>> THEN p ELSE OneStep(f, g, p)
  <1> DEFINE e(p) == IF p = <<>> THEN p
                     ELSE LET q == Append(g[Front(p)], Last(p))
                          IN  IF q \in DOMAIN f /\ f[q].kind = "link" THEN g[f[q].to] ELSE q
  <1>1. g = [p \in Paths |-> e(p)]
    BY DEF IsReal, Paths
  <1> HIDE DEF e
  <1>2. \A p \in Paths : g[p] = e(p)
    BY <1>1
  <1> QED
    BY <1>2 DEF e, OneStep, IsLinkOf

LEMMA StepsAreReal ==
    ASSUME NEW f, NEW g, g \in [Paths -> Paths],
           \A p \in Paths : g[p] = IF p = <<>> THEN p ELSE OneStep(f, g, p)
    PROVE  IsReal(f, g)
  <1> DEFINE e(p) == IF p = <<>> THEN p
                     ELSE LET q == Append(g[Front(p)], Last(p))
                          IN  IF q \in DOMAIN f /\ f[q].kind = "link" THEN g[f[q].to] ELSE q
  <1>1. \A p \in Paths : g[p] = e(p)
    BY DEF OneStep, IsLinkOf
  <1> HIDE DEF e
  <1>2. g = [p \in Paths |-> e(p)]
    BY <1>1
  <1> QED
    BY <1>2 DEF e, IsReal, Paths

\* Where links resolve, Real is where a path leads.
LEMMA RealLeads ==
    ASSUME NEW f, Resolves(f), NEW p \in Paths
    PROVE  RealOf(f)[p] \in Paths /\ <<p, RealOf(f)[p]>> \in Leads(f)
  <1> DEFINE g == [q \in Paths |-> CHOOSE r \in Paths : <<q, r>> \in Leads(f)]
  <1>1. \A q \in Paths : g[q] \in Paths /\ <<q, g[q]>> \in Leads(f)
    BY DEF Resolves
  <1>2. g \in [Paths -> Paths]
    BY <1>1
  <1> HIDE DEF g
  <1>3. IsReal(f, g)
    <2>1. ASSUME NEW q \in Paths, q # <<>>
          PROVE  g[q] = OneStep(f, g, q)
      <3>1. Front(q) \in Paths /\ Last(q) \in Segments
        BY <2>1, AppendOfFront
      <3>2. PICK r \in Paths :
              <<Front(q), r>> \in Leads(f) /\ LastStep(f, r, Last(q), g[q])
        BY <1>1, <2>1, LeadsLast
      <3>3. g[Front(q)] = r
        BY <1>1, <3>1, <3>2, LeadsOnce
      <3>4. CASE ~IsLinkOf(f, Append(r, Last(q)))
        BY <3>2, <3>3, <3>4 DEF OneStep, LastStep
      <3>5. CASE IsLinkOf(f, Append(r, Last(q)))
        <4> DEFINE to == f[Append(r, Last(q))].to
        <4>1. to \in Paths /\ <<to, g[q]>> \in Leads(f)
          BY <3>2, <3>5 DEF Leads, LastStep
        <4>2. g[to] = g[q]
          BY <1>1, <2>1, <4>1, LeadsOnce
        <4> QED
          BY <3>3, <3>5, <4>2 DEF OneStep
      <3> QED
        BY <3>4, <3>5
    <2>2. g[<<>>] = <<>>
      <3>1. <<>> \in Paths
        BY DEF Paths
      <3>2. <<<<>>, g[<<>>]>> \in Leads(f) /\ g[<<>>] \in Paths
        BY <1>1, <3>1
      <3> QED
        BY <3>1, <3>2, LeadsLast
    <2>3. \A q \in Paths : g[q] = IF q = <<>> THEN q ELSE OneStep(f, g, q)
      BY <2>1, <2>2
    <2> QED
      BY <1>2, <2>3, StepsAreReal
  <1>4. IsReal(f, RealOf(f))
    BY <1>3, Zenon DEF RealOf
  <1>5. \A q \in Paths : RealOf(f)[q] = IF q = <<>> THEN q ELSE OneStep(f, RealOf(f), q)
    BY <1>4, IsRealSteps
  <1> DEFINE S == {pr \in Leads(f) : RealOf(f)[pr[1]] = pr[2]}
  <1>6. S \in SUBSET (Paths \X Paths)
    BY DEF Leads
  <1>7. Closed(f, S)
    <2>0. <<>> \in Paths
      BY DEF Paths
    <2>1. <<<<>>, <<>>>> \in S
      BY <1>5, <2>0, LeadsClosed DEF Closed
    <2>2. ASSUME NEW q \in Paths, NEW r \in Paths, NEW s \in Segments, <<q, r>> \in S,
                 IsLinkOf(f, Append(r, s)),
                 NEW v \in Paths, <<f[Append(r, s)].to, v>> \in S
          PROVE  <<Append(q, s), v>> \in S
      <3>1. <<Append(q, s), v>> \in Leads(f)
        BY <2>2, LeadsClosed DEF Closed
      <3>2. /\ Append(q, s) \in Paths /\ Append(q, s) # <<>>
            /\ Front(Append(q, s)) = q /\ Last(Append(q, s)) = s
        BY FrontOfAppend
      <3>3. RealOf(f)[Append(q, s)] = RealOf(f)[f[Append(r, s)].to]
        BY <1>5, <2>2, <3>2 DEF OneStep
      <3> QED
        BY <2>2, <3>1, <3>3
    <2>3. ASSUME NEW q \in Paths, NEW r \in Paths, NEW s \in Segments, <<q, r>> \in S,
                 ~IsLinkOf(f, Append(r, s))
          PROVE  <<Append(q, s), Append(r, s)>> \in S
      <3>1. <<Append(q, s), Append(r, s)>> \in Leads(f)
        BY <2>3, LeadsClosed DEF Closed
      <3>2. /\ Append(q, s) \in Paths /\ Append(q, s) # <<>>
            /\ Front(Append(q, s)) = q /\ Last(Append(q, s)) = s
        BY FrontOfAppend
      <3>3. RealOf(f)[Append(q, s)] = Append(r, s)
        BY <1>5, <2>3, <3>2 DEF OneStep
      <3> QED
        BY <2>3, <3>1, <3>3
    <2> HIDE DEF S
    <2> QED
      BY <2>1, <2>2, <2>3 DEF Closed
  <1>8. \A r \in Paths : <<p, r>> \in Leads(f) => RealOf(f)[p] = r
    BY <1>6, <1>7, LeadsLeast
  <1> QED
    BY <1>8 DEF Resolves

LEMMA RealIs ==
    ASSUME NEW f, Resolves(f), NEW p \in Paths, NEW r \in Paths, <<p, r>> \in Leads(f)
    PROVE  RealOf(f)[p] = r
  BY RealLeads, LeadsOnce

\* Real one segment further.
LEMMA RealStep ==
    ASSUME NEW f, Resolves(f), Tree(f), NEW p \in Paths, NEW s \in Segments
    PROVE  /\ Append(RealOf(f)[p], s) \in Paths
           /\ RealOf(f)[Append(p, s)] =
                IF IsLinkOf(f, Append(RealOf(f)[p], s))
                  THEN RealOf(f)[f[Append(RealOf(f)[p], s)].to] ELSE Append(RealOf(f)[p], s)
  <1> DEFINE a == Append(RealOf(f)[p], s)
  <1>1. /\ RealOf(f)[p] \in Paths /\ <<p, RealOf(f)[p]>> \in Leads(f)
        /\ a \in Paths /\ Append(p, s) \in Paths
    BY RealLeads, FrontOfAppend
  <1>2. CASE ~IsLinkOf(f, a)
    <2>1. <<Append(p, s), a>> \in Leads(f)
      BY <1>1, <1>2, LeadsClosed DEF Closed
    <2> QED
      BY <1>1, <1>2, <2>1, RealIs
  <1>3. CASE IsLinkOf(f, a)
    <2> DEFINE to == f[a].to
    <2>1. to \in Paths
      BY <1>3 DEF Tree, Node, IsLinkOf, Paths
    <2>2. RealOf(f)[to] \in Paths /\ <<to, RealOf(f)[to]>> \in Leads(f)
      BY <2>1, RealLeads
    <2>3. <<Append(p, s), RealOf(f)[to]>> \in Leads(f)
      BY <1>1, <1>3, <2>2, LeadsClosed DEF Closed
    <2> QED
      BY <1>1, <1>3, <2>2, <2>3, RealIs
  <1> QED
    BY <1>1, <1>2, <1>3

LEMMA RealRoot ==
    ASSUME NEW f, Resolves(f)
    PROVE  RealOf(f)[<<>>] = <<>>
  <1>1. <<>> \in Paths
    BY DEF Paths
  <1>2. ASSUME NEW r \in Paths, <<<<>>, r>> \in Leads(f) PROVE r = <<>>
    BY <1>1, <1>2, LeadsLast
  <1> QED
    BY <1>1, <1>2, RealLeads

-----------------------------------------------------------------------------
(* Trees.                                                                  *)

\* Every link leads to a place in a directory that exists.
LinksLead(f) ==
    \A p \in DOMAIN f :
        f[p].kind = "link" => IsDirOf(f, Front(RealOf(f)[f[p].to]))

Sound(f) == Tree(f) /\ Resolves(f) /\ LinksLead(f)

\* The directories above a path of a tree are in the tree.
LEMMA TreeUp ==
    ASSUME NEW f, Tree(f), NEW p \in DOMAIN f, NEW q \in Paths, IsPathWithin(q, p), q # p
    PROVE  IsDirOf(f, q)
  <1> DEFINE S == {r \in DOMAIN f : IsPathWithin(q, r) /\ q # r}
  <1> SUFFICES ASSUME ~IsDirOf(f, q) PROVE FALSE
    OBVIOUS
  <1>1. DOMAIN f \subseteq Paths
    BY DEF Tree, Paths
  <1>2. PICK r \in S : \A r2 \in S : Len(r) <= Len(r2)
    <2>1. S \subseteq Paths /\ S # {}
      BY <1>1
    <2> QED
      BY <2>1, ShortestPath
  <1>3. r \in Paths /\ r # <<>>
    <2>1. CASE r = <<>>
      <3>1. Len(q) <= 0 /\ Len(q) \in Nat
        BY <1>1, <2>1, WithinPointwise DEF Paths
      <3>2. q = <<>>
        BY <3>1 DEF Paths
      <3> QED
        BY <2>1, <3>2
    <2> QED
      BY <1>1, <2>1
  <1>4. Front(r) \in Paths /\ Len(Front(r)) < Len(r) /\ IsPathWithin(q, Front(r))
    <2>1. Len(r) \in Nat
      BY <1>3 DEF Paths
    <2> QED
      BY <1>3, <2>1, AppendOfFront, WithinFront
  <1>5. IsDirOf(f, Front(r))
    BY DEF Tree
  <1>6. CASE q = Front(r)
    BY <1>5, <1>6
  <1>7. CASE q # Front(r)
    <2>1. Front(r) \in S
      BY <1>4, <1>5, <1>7 DEF IsDirOf
    <2>2. Len(r) \in Nat /\ Len(Front(r)) \in Nat
      BY <1>3, <1>4 DEF Paths
    <2> QED
      BY <1>2, <1>4, <2>1, <2>2
  <1> QED
    BY <1>6, <1>7

\* What is not a link is where it is, and so is the directory it is in.
LEMMA NodeReal ==
    ASSUME NEW f, Tree(f), Resolves(f), NEW p \in DOMAIN f
    PROVE  /\ RealOf(f)[Front(p)] = Front(p)
           /\ f[p].kind # "link" => RealOf(f)[p] = p
  <1>0. DOMAIN f \subseteq Paths
    BY DEF Tree, Paths
  <1> DEFINE S == {r \in DOMAIN f : f[r].kind # "link" /\ RealOf(f)[r] # r}
  <1>1. ASSUME NEW r \in DOMAIN f, f[r].kind # "link", RealOf(f)[Front(r)] = Front(r)
        PROVE  RealOf(f)[r] = r
    <2>1. CASE r = <<>>
      BY <2>1, RealRoot
    <2>2. CASE r # <<>>
      <3>1. Front(r) \in Paths /\ Last(r) \in Segments /\ r = Append(Front(r), Last(r))
        BY <1>0, <2>2, AppendOfFront
      <3> DEFINE d == Front(r)
                 s == Last(r)
      <3>2. d \in Paths /\ s \in Segments /\ r = Append(d, s) /\ RealOf(f)[d] = d
        BY <1>1, <3>1
      <3> HIDE DEF d, s
      <3>3. RealOf(f)[Append(d, s)] = Append(d, s)
        BY <1>1, <3>2, RealStep DEF IsLinkOf
      <3> QED
        BY <3>2, <3>3
    <2> QED
      BY <2>1, <2>2
  <1>2. S = {}
    <2> SUFFICES ASSUME S # {} PROVE FALSE
      OBVIOUS
    <2>1. PICK r \in S : \A r2 \in S : Len(r) <= Len(r2)
      <3>1. S \subseteq Paths
        BY <1>0
      <3> QED
        BY <3>1, ShortestPath
    <2>2. r # <<>>
      BY RealRoot
    <2>3. /\ Front(r) \in Paths /\ Len(Front(r)) < Len(r)
          /\ Len(r) \in Nat /\ Len(Front(r)) \in Nat
      <3>1. Len(r) \in Nat
        BY <1>0 DEF Paths
      <3> QED
        BY <1>0, <2>2, <3>1, AppendOfFront
    <2>4. IsDirOf(f, Front(r))
      BY DEF Tree
    <2>5. Front(r) \notin S
      BY <2>1, <2>3
    <2>6. RealOf(f)[Front(r)] = Front(r)
      BY <2>4, <2>5 DEF IsDirOf
    <2> QED
      BY <1>1, <2>6
  <1>3. RealOf(f)[Front(p)] = Front(p)
    <2>1. IsDirOf(f, Front(p))
      BY DEF Tree
    <2> QED
      BY <1>2, <2>1 DEF IsDirOf
  <1> QED
    BY <1>1, <1>3

\* Where a path leads is no link, and following that further changes nothing.
LEMMA RealIsReal ==
    ASSUME NEW f, Tree(f), Resolves(f), NEW p \in Paths
    PROVE  /\ RealOf(f)[p] \in Paths
           /\ ~IsLinkOf(f, RealOf(f)[p])
           /\ RealOf(f)[RealOf(f)[p]] = RealOf(f)[p]
           /\ RealOf(f)[Front(RealOf(f)[p])] = Front(RealOf(f)[p])
  <1> DEFINE S == {pr \in Leads(f) : /\ ~IsLinkOf(f, pr[2])
                                     /\ <<pr[2], pr[2]>> \in Leads(f)
                                     /\ <<Front(pr[2]), Front(pr[2])>> \in Leads(f)}
  <1>1. S \in SUBSET (Paths \X Paths)
    BY DEF Leads
  <1>2. Closed(f, S)
    <2>1. <<<<>>, <<>>>> \in S
      <3>1. ~IsLinkOf(f, <<>>)
        BY DEF Tree, IsDirOf, IsLinkOf
      <3> QED
        BY <3>1, FrontOfRoot, LeadsClosed DEF Closed
    <2>2. ASSUME NEW q \in Paths, NEW r \in Paths, NEW s \in Segments, <<q, r>> \in S,
                 IsLinkOf(f, Append(r, s)),
                 NEW t \in Paths, <<f[Append(r, s)].to, t>> \in S
          PROVE  <<Append(q, s), t>> \in S
      BY <2>2, LeadsClosed DEF Closed
    <2>3. ASSUME NEW q \in Paths, NEW r \in Paths, NEW s \in Segments, <<q, r>> \in S,
                 ~IsLinkOf(f, Append(r, s))
          PROVE  <<Append(q, s), Append(r, s)>> \in S
      <3>1. <<Append(q, s), Append(r, s)>> \in Leads(f)
        BY <2>3, LeadsClosed DEF Closed
      <3>2. <<Append(r, s), Append(r, s)>> \in Leads(f)
        BY <2>3, LeadsClosed DEF Closed
      <3>3. Front(Append(r, s)) = r /\ <<r, r>> \in Leads(f)
        BY <2>3, FrontOfAppend
      <3> QED
        BY <2>3, <3>1, <3>2, <3>3
    <2> HIDE DEF S
    <2> QED
      BY <2>1, <2>2, <2>3 DEF Closed
  <1>3. RealOf(f)[p] \in Paths /\ <<p, RealOf(f)[p]>> \in S
    BY <1>1, <1>2, LeadsLeast, RealLeads
  <1> DEFINE r == RealOf(f)[p]
  <1>4. r \in Paths /\ Front(r) \in Paths
    BY <1>3, FrontOfRoot, AppendOfFront
  <1>5. <<r, r>> \in Leads(f) /\ <<Front(r), Front(r)>> \in Leads(f) /\ ~IsLinkOf(f, r)
    BY <1>3
  <1> HIDE DEF r, S
  <1>6. RealOf(f)[r] = r /\ RealOf(f)[Front(r)] = Front(r)
    BY <1>4, <1>5, RealIs
  <1> QED
    BY <1>4, <1>5, <1>6 DEF r

-----------------------------------------------------------------------------
(* Changes of the tree.                                                    *)

\* Without a new link, and without a link that changes, paths lead where they led.
SameLinks(f, h) ==
    /\ \A p \in Paths : IsLinkOf(h, p) <=> IsLinkOf(f, p)
    /\ \A p \in Paths : IsLinkOf(f, p) => h[p].to = f[p].to

LEMMA SameLinksSameReal ==
    ASSUME NEW f, NEW h, SameLinks(f, h)
    PROVE  /\ Leads(h) = Leads(f)
           /\ Resolves(f) => Resolves(h) /\ \A p \in Paths : RealOf(h)[p] = RealOf(f)[p]
  <1>1. \A S \in SUBSET (Paths \X Paths) : Closed(h, S) <=> Closed(f, S)
    <2> SUFFICES ASSUME NEW S PROVE Closed(h, S) <=> Closed(f, S)
      OBVIOUS
    <2>1. \A r \in Paths, s \in Segments : Append(r, s) \in Paths
      BY FrontOfAppend
    <2>2. \A r \in Paths, s \in Segments :
            /\ IsLinkOf(h, Append(r, s)) <=> IsLinkOf(f, Append(r, s))
            /\ IsLinkOf(f, Append(r, s)) => h[Append(r, s)].to = f[Append(r, s)].to
      BY <2>1 DEF SameLinks
    <2> QED
      BY <2>2 DEF Closed
  <1>2. Leads(h) = Leads(f)
    BY <1>1 DEF Leads
  <1>3. ASSUME Resolves(f)
        PROVE  Resolves(h) /\ \A p \in Paths : RealOf(h)[p] = RealOf(f)[p]
    <2>1. Resolves(h)
      BY <1>2, <1>3 DEF Resolves
    <2>2. ASSUME NEW p \in Paths PROVE RealOf(h)[p] = RealOf(f)[p]
      <3>1. RealOf(f)[p] \in Paths /\ <<p, RealOf(f)[p]>> \in Leads(h)
        BY <1>2, <1>3, RealLeads
      <3> QED
        BY <2>1, <3>1, RealIs
    <2> QED
      BY <2>1, <2>2
  <1> QED
    BY <1>2, <1>3

\* A change that leaves directories and links as they are.
LEMMA SoundSame ==
    ASSUME NEW f, NEW h, Sound(f), Tree(h), SameLinks(f, h),
           \A p \in Paths : IsDirOf(f, p) => IsDirOf(h, p)
    PROVE  Sound(h) /\ \A p \in Paths : RealOf(h)[p] = RealOf(f)[p]
  <1>1. Resolves(h) /\ \A p \in Paths : RealOf(h)[p] = RealOf(f)[p]
    BY SameLinksSameReal DEF Sound
  <1>2. ASSUME NEW p \in DOMAIN h, h[p].kind = "link"
        PROVE  IsDirOf(h, Front(RealOf(h)[h[p].to]))
    <2>1. p \in Paths /\ h[p].to \in Paths
      BY DEF Tree, Node, Paths
    <2>2. p \in DOMAIN f /\ f[p].kind = "link" /\ h[p].to = f[p].to
      BY <1>2, <2>1 DEF SameLinks, IsLinkOf
    <2>3. IsDirOf(f, Front(RealOf(f)[f[p].to]))
      BY <2>2 DEF Sound, LinksLead
    <2>4. Front(RealOf(f)[f[p].to]) \in Paths
      <3>1. RealOf(f)[f[p].to] \in Paths
        BY <2>1, <2>2, RealLeads DEF Sound
      <3> QED
        BY <3>1, FrontOfRoot, AppendOfFront
    <2> QED
      BY <1>1, <2>1, <2>2, <2>3, <2>4
  <1> QED
    BY <1>1, <1>2 DEF Sound, LinksLead

\* A path with an entry on it that does not exist, and where that entry's place is.
LEMMA NotThere ==
    ASSUME NEW f, Tree(f), NEW a \in Paths, a \notin DOMAIN f,
           NEW t \in Paths, t \in DOMAIN f \/ (t # a /\ IsDirOf(f, Front(t)))
    PROVE  ~IsPathWithin(a, t)
  <1>1. CASE t \in DOMAIN f
    BY <1>1, TreeUp DEF IsDirOf
  <1>2. CASE t # a /\ IsDirOf(f, Front(t))
    <2>1. CASE t = <<>>
      BY <1>1, <2>1 DEF Tree, IsDirOf
    <2>2. CASE t # <<>>
      <3>1. Front(t) \in Paths
        BY <2>2, AppendOfFront
      <3>2. ~IsPathWithin(a, Front(t))
        BY <1>2, <3>1, TreeUp DEF IsDirOf
      <3> QED
        BY <1>2, <2>2, <3>2, WithinFront
    <2> QED
      BY <2>1, <2>2
  <1> QED
    BY <1>1, <1>2

\* A new link at a free place, to a path that leads elsewhere into a directory,
\* closes no circle: what led to its place leads on to where it points.
LEMMA NewLink ==
    ASSUME NEW f, NEW h, Sound(f), Tree(h),
           NEW a \in Paths, a \notin DOMAIN f, NEW to \in Paths,
           DOMAIN h = DOMAIN f \cup {a}, \A p \in DOMAIN f : h[p] = f[p],
           h[a].kind = "link", h[a].to = to,
           RealOf(f)[to] # a, IsDirOf(f, Front(RealOf(f)[to]))
    PROVE  /\ Sound(h)
           /\ \A p \in Paths :
                ~IsPathWithin(a, RealOf(f)[p]) => RealOf(h)[p] = RealOf(f)[p]
  <1> DEFINE end == RealOf(f)[to]
  <1>1. end \in Paths /\ <<to, end>> \in Leads(f) /\ end # a /\ IsDirOf(f, Front(end))
    BY RealLeads DEF Sound
  <1>2. ~IsPathWithin(a, end)
    BY <1>1, NotThere DEF Sound
  <1>3. a # <<>> /\ IsDirOf(f, Front(a)) /\ Front(a) \in Paths
    <2>1. a # <<>>
      BY DEF Sound, Tree, IsDirOf
    <2>2. Front(a) \in Paths /\ Front(a) # a
      <3>1. Front(a) \in Paths /\ Len(Front(a)) = Len(a) - 1 /\ Len(a) \in Nat
        BY <2>1, AppendOfFront DEF Paths
      <3> QED
        BY <3>1
    <2>3. IsDirOf(h, Front(a))
      BY DEF Tree
    <2> QED
      BY <2>1, <2>2, <2>3 DEF IsDirOf
  <1> HIDE DEF end
  <1>4. \A p \in Paths : IsLinkOf(f, p) => IsLinkOf(h, p) /\ h[p].to = f[p].to
    BY DEF IsLinkOf
  <1>5. \A p \in Paths : IsLinkOf(h, p) /\ p # a => IsLinkOf(f, p)
    BY DEF IsLinkOf
  <1>6. IsLinkOf(h, a) /\ h[a].to = to
    BY DEF IsLinkOf
  <1>7. \A p, r \in Paths : <<p, r>> \in Leads(f) /\ ~IsPathWithin(a, r) => <<p, r>> \in Leads(h)
    <2> DEFINE S == {pr \in Paths \X Paths : ~IsPathWithin(a, pr[2]) => pr \in Leads(h)}
    <2>1. Closed(f, S)
      <3>1. <<<<>>, <<>>>> \in S
        <4>1. <<>> \in Paths
          BY DEF Paths
        <4> QED
          BY <4>1, LeadsClosed DEF Closed
      <3>2. ASSUME NEW q \in Paths, NEW r \in Paths, NEW s \in Segments, <<q, r>> \in S,
                   IsLinkOf(f, Append(r, s)),
                   NEW t \in Paths, <<f[Append(r, s)].to, t>> \in S
            PROVE  <<Append(q, s), t>> \in S
        <4>1. Append(q, s) \in Paths /\ Append(r, s) \in Paths
          BY FrontOfAppend
        <4>2. ~IsPathWithin(a, Append(r, s))
          BY <3>2, <4>1, NotThere DEF Sound, IsLinkOf
        <4>3. <<q, r>> \in Leads(h)
          BY <3>2, <4>2, WithinAppend
        <4>4. IsLinkOf(h, Append(r, s)) /\ h[Append(r, s)].to = f[Append(r, s)].to
          BY <1>4, <3>2, <4>1
        <4>5. ASSUME ~IsPathWithin(a, t) PROVE <<Append(q, s), t>> \in Leads(h)
          BY <3>2, <4>3, <4>4, <4>5, LeadsClosed DEF Closed
        <4> QED
          BY <4>1, <4>5
      <3>3. ASSUME NEW q \in Paths, NEW r \in Paths, NEW s \in Segments, <<q, r>> \in S,
                   ~IsLinkOf(f, Append(r, s))
            PROVE  <<Append(q, s), Append(r, s)>> \in S
        <4>1. Append(q, s) \in Paths /\ Append(r, s) \in Paths
          BY FrontOfAppend
        <4>2. ASSUME ~IsPathWithin(a, Append(r, s))
              PROVE  <<Append(q, s), Append(r, s)>> \in Leads(h)
          <5>1. <<q, r>> \in Leads(h) /\ Append(r, s) # a
            BY <3>3, <4>2, WithinAppend
          <5>2. ~IsLinkOf(h, Append(r, s))
            BY <1>5, <3>3, <4>1, <5>1
          <5> QED
            BY <5>1, <5>2, LeadsClosed DEF Closed
        <4> QED
          BY <4>1, <4>2
      <3> HIDE DEF S
      <3> QED
        BY <3>1, <3>2, <3>3 DEF Closed
    <2>2. Leads(f) \subseteq S
      BY <2>1, LeadsLeast
    <2> QED
      BY <2>2
  <1>8. <<to, end>> \in Leads(h)
    BY <1>1, <1>2, <1>7
  <1>9. \A p \in Paths : <<p, a>> \in Leads(f) => <<p, end>> \in Leads(h)
    <2> DEFINE S == {pr \in Leads(f) : pr[2] = a => <<pr[1], end>> \in Leads(h)}
    <2>0. S \in SUBSET (Paths \X Paths)
      BY DEF Leads
    <2>1. Closed(f, S)
      <3>1. <<<<>>, <<>>>> \in S
        BY <1>3, LeadsClosed DEF Closed
      <3>2. ASSUME NEW q \in Paths, NEW r \in Paths, NEW s \in Segments, <<q, r>> \in S,
                   IsLinkOf(f, Append(r, s)),
                   NEW t \in Paths, <<f[Append(r, s)].to, t>> \in S
            PROVE  <<Append(q, s), t>> \in S
        <4>1. Append(q, s) \in Paths /\ Append(r, s) \in Paths
          BY FrontOfAppend
        <4>2. ~IsPathWithin(a, Append(r, s))
          BY <3>2, <4>1, NotThere DEF Sound, IsLinkOf
        <4>3. <<q, r>> \in Leads(h)
          BY <1>7, <3>2, <4>2, WithinAppend
        <4>4. IsLinkOf(h, Append(r, s)) /\ h[Append(r, s)].to = f[Append(r, s)].to
          BY <1>4, <3>2, <4>1
        <4>5. ASSUME t = a PROVE <<Append(q, s), end>> \in Leads(h)
          BY <1>1, <3>2, <4>3, <4>4, <4>5, LeadsClosed DEF Closed
        <4>6. <<Append(q, s), t>> \in Leads(f)
          BY <3>2, LeadsClosed DEF Closed
        <4> QED
          BY <4>5, <4>6
      <3>3. ASSUME NEW q \in Paths, NEW r \in Paths, NEW s \in Segments, <<q, r>> \in S,
                   ~IsLinkOf(f, Append(r, s))
            PROVE  <<Append(q, s), Append(r, s)>> \in S
        <4>1. Append(q, s) \in Paths /\ Append(r, s) \in Paths
          BY FrontOfAppend
        <4>2. ASSUME Append(r, s) = a PROVE <<Append(q, s), end>> \in Leads(h)
          <5>1. r = Front(a) /\ r # a
            <6>1. r = Front(a)
              BY <4>2, FrontOfAppend
            <6>2. Len(Append(r, s)) = Len(r) + 1 /\ Len(r) \in Nat
              BY DEF Paths
            <6> QED
              BY <4>2, <6>1, <6>2
          <5>2. ~IsPathWithin(a, r)
            BY <1>3, <5>1, NotThere DEF Sound, IsDirOf
          <5>3. <<q, r>> \in Leads(h)
            BY <1>7, <3>3, <5>2
          <5> QED
            BY <1>1, <1>6, <1>8, <4>2, <5>3, LeadsClosed DEF Closed
        <4>3. <<Append(q, s), Append(r, s)>> \in Leads(f)
          BY <3>3, LeadsClosed DEF Closed
        <4> QED
          BY <4>2, <4>3
      <3> HIDE DEF S
      <3> QED
        BY <3>1, <3>2, <3>3 DEF Closed
    <2>2. Leads(f) \subseteq S
      BY <2>0, <2>1, LeadsLeast
    <2> QED
      BY <2>2
  <1>10. ASSUME NEW p \in DOMAIN f, f[p].kind = "link"
        PROVE  LET t == RealOf(f)[f[p].to]
               IN  /\ f[p].to \in Paths /\ t \in Paths /\ <<f[p].to, t>> \in Leads(f)
                   /\ IsDirOf(f, Front(t))
                   /\ t # a => ~IsPathWithin(a, t)
    <2>1. f[p].to \in Paths
      BY DEF Sound, Tree, Node, Paths
    <2>2. IsDirOf(f, Front(RealOf(f)[f[p].to]))
      BY <1>10 DEF Sound, LinksLead
    <2>3. RealOf(f)[f[p].to] \in Paths /\ <<f[p].to, RealOf(f)[f[p].to]>> \in Leads(f)
      BY <2>1, RealLeads DEF Sound
    <2> QED
      BY <2>1, <2>2, <2>3, NotThere DEF Sound
  <1>11. Resolves(h)
    <2> DEFINE S == {p \in Paths : \A r \in Paths : <<p, r>> \notin Leads(h)}
    <2> SUFFICES ASSUME S # {} PROVE FALSE
      BY DEF Resolves
    <2>1. PICK p \in S : \A q \in S : Len(p) <= Len(q)
      BY ShortestPath
    <2>2. p # <<>>
      BY LeadsClosed DEF Closed
    <2>3. /\ Front(p) \in Paths /\ Last(p) \in Segments /\ p = Append(Front(p), Last(p))
          /\ Len(Front(p)) < Len(p) /\ Len(p) \in Nat /\ Len(Front(p)) \in Nat
      <3>1. Len(p) \in Nat
        BY DEF Paths
      <3> QED
        BY <2>2, <3>1, AppendOfFront
    <2> DEFINE q == Front(p)
               s == Last(p)
    <2>4. q \in Paths /\ s \in Segments /\ p = Append(q, s) /\ q \notin S
      BY <2>1, <2>3
    <2> HIDE DEF q, s
    <2>5. PICK r \in Paths : <<q, r>> \in Leads(h)
      BY <2>4
    <2>6. CASE ~IsLinkOf(h, Append(r, s))
      <3>1. Append(r, s) \in Paths /\ <<Append(q, s), Append(r, s)>> \in Leads(h)
        BY <2>4, <2>5, <2>6, LeadsClosed, FrontOfAppend DEF Closed
      <3> QED
        BY <2>4, <3>1
    <2>7. CASE Append(r, s) = a
      <3>1. <<Append(q, s), end>> \in Leads(h)
        BY <1>1, <1>6, <1>8, <2>4, <2>5, <2>7, LeadsClosed DEF Closed
      <3> QED
        BY <1>1, <2>4, <3>1
    <2>8. CASE IsLinkOf(h, Append(r, s)) /\ Append(r, s) # a
      <3> DEFINE l == Append(r, s)
      <3>1. l \in Paths /\ l \in DOMAIN f /\ f[l].kind = "link" /\ h[l].to = f[l].to
        <4>1. l \in Paths
          BY <2>4, FrontOfAppend
        <4> QED
          BY <1>4, <1>5, <2>8, <4>1 DEF IsLinkOf
      <3>2. PICK t \in Paths : <<h[l].to, t>> \in Leads(h)
        BY <1>1, <1>7, <1>9, <1>10, <3>1
      <3>3. <<Append(q, s), t>> \in Leads(h)
        BY <2>4, <2>5, <2>8, <3>2, LeadsClosed DEF Closed
      <3> QED
        BY <2>4, <3>3
    <2> QED
      BY <2>6, <2>7, <2>8
  <1>12. \A p \in Paths : ~IsPathWithin(a, RealOf(f)[p]) => RealOf(h)[p] = RealOf(f)[p]
    BY <1>7, <1>11, RealLeads, RealIs DEF Sound
  <1>13. ASSUME NEW p \in DOMAIN h, h[p].kind = "link"
         PROVE  IsDirOf(h, Front(RealOf(h)[h[p].to]))
    <2>1. CASE p = a
      <3>1. RealOf(h)[h[p].to] = end
        BY <1>2, <1>12, <2>1 DEF end
      <3> QED
        BY <1>1, <3>1 DEF IsDirOf
    <2>2. CASE p # a
      <3>1. p \in DOMAIN f /\ f[p].kind = "link" /\ h[p].to = f[p].to
        BY <1>13, <2>2
      <3>2. CASE RealOf(f)[f[p].to] = a
        <4>1. <<f[p].to, end>> \in Leads(h) /\ f[p].to \in Paths
          BY <1>9, <1>10, <3>1, <3>2
        <4>2. RealOf(h)[f[p].to] = end
          BY <1>1, <1>11, <4>1, RealIs
        <4> QED
          BY <1>1, <3>1, <4>2 DEF IsDirOf
      <3>3. CASE RealOf(f)[f[p].to] # a
        <4>1. RealOf(h)[f[p].to] = RealOf(f)[f[p].to]
          BY <1>10, <1>12, <3>1, <3>3
        <4>2. IsDirOf(f, Front(RealOf(f)[f[p].to]))
          BY <1>10, <3>1
        <4> QED
          BY <3>1, <4>1, <4>2 DEF IsDirOf
      <3> QED
        BY <3>2, <3>3
    <2> QED
      BY <2>1, <2>2
  <1> QED
    BY <1>11, <1>12, <1>13 DEF Sound, LinksLead

\* The assumption on the links there are at first.
LEMMA InitSound == Sound(InitFiles)
  <1> DEFINE f == InitFiles
  <1>1. Tree(f)
    BY HookFilesAssumption
  <1>2. \A p \in DOMAIN f : f[p].kind = "link" => LeadsToDir(f, f[p])
    BY HookFilesAssumption
  <1> HIDE DEF f
  <1>3. ASSUME NEW p \in Paths, <<Front(p), Front(p)>> \in Leads(f), ~IsLinkOf(f, p)
        PROVE  <<p, p>> \in Leads(f)
    <2>1. CASE p = <<>>
      BY <2>1, LeadsClosed DEF Closed
    <2>2. CASE p # <<>>
      <3> DEFINE d == Front(p)
                 s == Last(p)
      <3>1. d \in Paths /\ s \in Segments /\ p = Append(d, s) /\ <<d, d>> \in Leads(f)
        BY <1>3, <2>2, AppendOfFront
      <3> HIDE DEF d, s
      <3> QED
        BY <1>3, <3>1, LeadsClosed DEF Closed
    <2> QED
      BY <2>1, <2>2
  <1>4. \A p \in DOMAIN f : f[p].kind # "link" => <<p, p>> \in Leads(f)
    <2> DEFINE S == {p \in DOMAIN f : f[p].kind # "link" /\ <<p, p>> \notin Leads(f)}
    <2> SUFFICES ASSUME S # {} PROVE FALSE
      OBVIOUS
    <2>0. DOMAIN f \subseteq Paths
      BY <1>1 DEF Tree, Paths
    <2>1. PICK p \in S : \A q \in S : Len(p) <= Len(q)
      <3>1. S \subseteq Paths
        BY <2>0
      <3> QED
        BY <3>1, ShortestPath
    <2>2. p # <<>>
      BY LeadsClosed DEF Closed
    <2>3. /\ Front(p) \in Paths /\ Len(Front(p)) < Len(p)
          /\ Len(p) \in Nat /\ Len(Front(p)) \in Nat
      <3>1. Len(p) \in Nat
        BY <2>0 DEF Paths
      <3> QED
        BY <2>0, <2>2, <3>1, AppendOfFront
    <2>4. IsDirOf(f, Front(p)) /\ Front(p) \notin S
      BY <1>1, <2>1, <2>3 DEF Tree
    <2>5. <<Front(p), Front(p)>> \in Leads(f)
      BY <2>4 DEF IsDirOf
    <2> QED
      BY <1>3, <2>0, <2>5 DEF IsLinkOf
  <1>5. ASSUME NEW p \in DOMAIN f, f[p].kind = "link"
        PROVE  f[p].to \in Paths /\ <<f[p].to, f[p].to>> \in Leads(f)
    <2>1. f[p].to \in Paths
      BY <1>1 DEF Tree, Node, Paths
    <2>2. ~IsLinkOf(f, f[p].to) /\ IsDirOf(f, Front(f[p].to))
      BY <1>2, <1>5 DEF LeadsToDir
    <2>3. <<Front(f[p].to), Front(f[p].to)>> \in Leads(f)
      BY <1>4, <2>2 DEF IsDirOf
    <2> QED
      BY <1>3, <2>1, <2>2, <2>3
  <1>6. Resolves(f)
    <2> DEFINE S == {p \in Paths : \A r \in Paths : <<p, r>> \notin Leads(f)}
    <2> SUFFICES ASSUME S # {} PROVE FALSE
      BY DEF Resolves
    <2>1. PICK p \in S : \A q \in S : Len(p) <= Len(q)
      BY ShortestPath
    <2>2. p # <<>>
      BY LeadsClosed DEF Closed
    <2>3. /\ Front(p) \in Paths /\ Last(p) \in Segments /\ p = Append(Front(p), Last(p))
          /\ Len(Front(p)) < Len(p) /\ Len(p) \in Nat /\ Len(Front(p)) \in Nat
      <3>1. Len(p) \in Nat
        BY DEF Paths
      <3> QED
        BY <2>2, <3>1, AppendOfFront
    <2> DEFINE q == Front(p)
               s == Last(p)
    <2>4. q \in Paths /\ s \in Segments /\ p = Append(q, s) /\ q \notin S
      BY <2>1, <2>3
    <2> HIDE DEF q, s
    <2>5. PICK r \in Paths : <<q, r>> \in Leads(f)
      BY <2>4
    <2>6. Append(r, s) \in Paths
      BY <2>4, FrontOfAppend
    <2>7. CASE ~IsLinkOf(f, Append(r, s))
      BY <2>4, <2>5, <2>6, <2>7, LeadsClosed DEF Closed
    <2>8. CASE IsLinkOf(f, Append(r, s))
      <3> DEFINE to == f[Append(r, s)].to
      <3>1. to \in Paths /\ <<to, to>> \in Leads(f)
        BY <1>5, <2>8 DEF IsLinkOf
      <3>2. <<Append(q, s), to>> \in Leads(f)
        BY <2>4, <2>5, <2>8, <3>1, LeadsClosed DEF Closed
      <3> QED
        BY <2>4, <3>1, <3>2
    <2> QED
      BY <2>7, <2>8
  <1>7. LinksLead(f)
    <2> SUFFICES ASSUME NEW p \in DOMAIN f, f[p].kind = "link"
                 PROVE  IsDirOf(f, Front(RealOf(f)[f[p].to]))
      BY DEF LinksLead
    <2>1. RealOf(f)[f[p].to] = f[p].to
      BY <1>5, <1>6, RealIs
    <2> QED
      BY <1>2, <2>1 DEF LeadsToDir
  <1> QED
    BY <1>1, <1>6, <1>7 DEF Sound, f

-----------------------------------------------------------------------------
(* What the system calls do to the file system.                            *)

\* The place of a path, seen from its directory.
LEMMA EntryPlace ==
    ASSUME Sound(fs), NEW p \in Paths
    PROVE  /\ Real[p] \in Paths /\ Entry(p) \in Paths /\ Front(p) \in Paths
           /\ p # <<>> => Entry(p) # <<>> /\ Front(Entry(p)) = Real[Front(p)]
           /\ p = <<>> => Entry(p) = <<>>
           /\ ~IsLinkOf(fs, Entry(p)) => Real[p] = Entry(p)
           /\ IsLinkOf(fs, Entry(p)) => Real[p] = Real[fs[Entry(p)].to]
  <1>0. Resolves(fs) /\ Tree(fs) /\ Real = RealOf(fs)
    BY RealChoice DEF Sound
  <1>1. Real[p] \in Paths
    BY <1>0, RealLeads
  <1>2. CASE p = <<>>
    <2>1. ~IsLinkOf(fs, <<>>)
      BY <1>0 DEF Tree, IsDirOf, IsLinkOf
    <2> QED
      BY <1>0, <1>1, <1>2, <2>1, RealRoot, FrontOfRoot DEF Entry
  <1>3. CASE p # <<>>
    <2> DEFINE d == Front(p)
               s == Last(p)
    <2>1. d \in Paths /\ s \in Segments /\ p = Append(d, s)
      BY <1>3, AppendOfFront
    <2>2. Entry(p) = Append(Real[d], s)
      BY <1>3 DEF Entry
    <2> HIDE DEF d, s
    <2>3. Real[d] \in Paths
      BY <1>0, <2>1, RealLeads
    <2>4. Entry(p) \in Paths /\ Entry(p) # <<>> /\ Front(Entry(p)) = Real[d]
      BY <2>1, <2>2, <2>3, FrontOfAppend
    <2>5. Real[p] = IF IsLinkOf(fs, Entry(p)) THEN Real[fs[Entry(p)].to] ELSE Entry(p)
      BY <1>0, <2>1, <2>2, RealStep
    <2> QED
      BY <1>1, <1>3, <2>1, <2>4, <2>5 DEF d
  <1> QED
    BY <1>2, <1>3

\* os.MkdirAll: it makes the missing directories, each in one that exists then.
LEMMA MadeSound ==
    ASSUME Sound(fs), NEW p \in Paths, CanMkdirAll(p), NEW write \in BOOLEAN,
           NEW h, h = Made(fs, p, write)
    PROVE  /\ Sound(h)
           /\ \A q \in Paths : RealOf(h)[q] = Real[q]
           /\ \A q \in DOMAIN fs : q \in DOMAIN h /\ h[q] = fs[q]
           /\ \A q \in DOMAIN h \ DOMAIN fs :
                 h[q] = Dir(write) /\ \E m \in Missing(p) : q = Real[m]
           /\ IsDirOf(h, Real[p])
  <1>0. Tree(fs) /\ DOMAIN fs \subseteq Paths /\ Real = RealOf(fs)
    BY RealChoice DEF Sound, Tree, Paths
  <1>1. \A m \in Missing(p) :
          /\ m \in Paths /\ m # <<>> /\ Front(m) \in Prefixes(p)
          /\ Real[m] \in Paths /\ Real[m] \notin DOMAIN fs
          /\ Front(Real[m]) = Real[Front(m)]
    <2> SUFFICES ASSUME NEW m \in Missing(p)
                 PROVE  /\ m \in Paths /\ m # <<>> /\ Front(m) \in Prefixes(p)
                        /\ Real[m] \in Paths /\ Real[m] \notin DOMAIN fs
                        /\ Front(Real[m]) = Real[Front(m)]
      OBVIOUS
    <2>1. m \in Paths /\ IsPathWithin(m, p) /\ ~Exists(m)
      BY PrefixesWithin DEF Missing
    <2>2. m # <<>>
      BY <1>0, <2>1, RealRoot DEF Exists, Tree, IsDirOf, Sound
    <2>3. Entry(m) \notin DOMAIN fs
      BY DEF CanMkdirAll
    <2>4. Real[m] = Entry(m) /\ Front(Entry(m)) = Real[Front(m)] /\ Real[m] \in Paths
      BY <2>1, <2>2, <2>3, EntryPlace DEF IsLinkOf
    <2>5. Front(m) \in Prefixes(p)
      <3>1. Front(m) \in Paths /\ IsPathWithin(Front(m), m)
        BY <2>1, <2>2, AppendOfFront, WithinFront, WithinSelf
      <3> QED
        BY <2>1, <3>1, PrefixesWithin, WithinTransitive
    <2> QED
      BY <2>1, <2>2, <2>3, <2>4, <2>5
  <1>2. DOMAIN h = DOMAIN fs \cup {Real[m] : m \in Missing(p)}
    BY DEF Made
  <1>3. \A q \in DOMAIN h : h[q] = IF q \in DOMAIN fs THEN fs[q] ELSE Dir(write)
    BY DEF Made
  <1>4. Node(Dir(write)) /\ Dir(write).kind = "dir"
    BY DEF Dir, Node
  <1>5. \A m \in Prefixes(p) : IsDirOf(h, Real[m])
    <2> SUFFICES ASSUME NEW m \in Prefixes(p) PROVE IsDirOf(h, Real[m])
      OBVIOUS
    <2>1. CASE m \in Missing(p)
      BY <1>1, <1>2, <1>3, <1>4, <2>1 DEF IsDirOf
    <2>2. CASE m \notin Missing(p)
      <3>1. IsDir(m)
        BY <2>2 DEF CanMkdirAll
      <3> QED
        BY <1>2, <1>3, <3>1 DEF IsDir, Exists, IsDirOf
    <2> QED
      BY <2>1, <2>2
  <1>6. Tree(h)
    <2>1. DOMAIN h \subseteq Paths
      BY <1>0, <1>1, <1>2
    <2>2. \A q \in Paths : IsDirOf(fs, q) => IsDirOf(h, q)
      BY <1>2, <1>3 DEF IsDirOf
    <2>3. IsDirOf(h, <<>>)
      BY <1>0, <1>2, <1>3 DEF Tree, IsDirOf
    <2>4. ASSUME NEW q \in DOMAIN h PROVE Node(h[q]) /\ IsDirOf(h, Front(q))
      <3>1. CASE q \in DOMAIN fs
        <4>1. Node(fs[q]) /\ IsDirOf(fs, Front(q))
          BY <1>0, <3>1 DEF Tree
        <4> QED
          BY <1>2, <1>3, <3>1, <4>1 DEF IsDirOf
      <3>2. CASE q \notin DOMAIN fs
        <4>1. PICK m \in Missing(p) : q = Real[m]
          BY <1>2, <3>2
        <4>2. IsDirOf(h, Front(q))
          BY <1>1, <1>5, <4>1
        <4> QED
          BY <1>3, <1>4, <3>2, <4>2
      <3> QED
        BY <3>1, <3>2
    <2> QED
      BY <2>1, <2>3, <2>4 DEF Tree, Paths
  <1>7. SameLinks(fs, h)
    <2>1. \A q \in Paths : IsLinkOf(h, q) <=> IsLinkOf(fs, q)
      BY <1>2, <1>3, <1>4 DEF IsLinkOf
    <2>2. \A q \in Paths : IsLinkOf(fs, q) => h[q].to = fs[q].to
      BY <1>2, <1>3 DEF IsLinkOf
    <2> QED
      BY <2>1, <2>2 DEF SameLinks
  <1>8. \A q \in Paths : IsDirOf(fs, q) => IsDirOf(h, q)
    BY <1>2, <1>3 DEF IsDirOf
  <1>9. Sound(h) /\ \A q \in Paths : RealOf(h)[q] = Real[q]
    BY <1>0, <1>6, <1>7, <1>8, SoundSame
  <1>10. p \in Prefixes(p)
    BY PrefixesWithin, WithinSelf
  <1> QED
    BY <1>2, <1>3, <1>5, <1>9, <1>10

\* os.Create and writing: a file at a free place in a directory, or at a file's.
LEMMA WrittenSound ==
    ASSUME Sound(fs), NEW at \in Paths, NEW n, Node(n), n.kind = "file",
           at \in DOMAIN fs => fs[at].kind = "file",
           at \notin DOMAIN fs => IsDirOf(fs, Front(at)),
           NEW h, DOMAIN h = DOMAIN fs \cup {at}, h[at] = n,
           \A q \in DOMAIN fs : q # at => h[q] = fs[q]
    PROVE  /\ Sound(h)
           /\ \A q \in Paths : RealOf(h)[q] = Real[q]
           /\ \A q \in Paths : IsDirOf(fs, q) => IsDirOf(h, q)
  <1>0. Tree(fs) /\ DOMAIN fs \subseteq Paths /\ Real = RealOf(fs)
    BY RealChoice DEF Sound, Tree, Paths
  <1>1. \A q \in Paths : IsDirOf(fs, q) => IsDirOf(h, q)
    BY DEF IsDirOf
  <1>2. SameLinks(fs, h)
    <2>1. \A q \in Paths : IsLinkOf(h, q) <=> IsLinkOf(fs, q)
      BY DEF IsLinkOf
    <2>2. \A q \in Paths : IsLinkOf(fs, q) => h[q].to = fs[q].to
      BY DEF IsLinkOf
    <2> QED
      BY <2>1, <2>2 DEF SameLinks
  <1>3. Tree(h)
    <2>1. DOMAIN h \subseteq Paths
      BY <1>0
    <2>2. IsDirOf(h, <<>>)
      <3>1. IsDirOf(fs, <<>>) /\ <<>> \in Paths
        BY <1>0 DEF Tree, Paths
      <3> QED
        BY <1>1, <3>1
    <2>3. ASSUME NEW q \in DOMAIN h PROVE Node(h[q]) /\ IsDirOf(h, Front(q))
      <3>1. q \in Paths /\ Front(q) \in Paths
        BY <2>1, FrontOfRoot, AppendOfFront
      <3>2. CASE q \in DOMAIN fs
        <4>1. Node(fs[q]) /\ IsDirOf(fs, Front(q))
          BY <1>0, <3>2 DEF Tree
        <4> QED
          BY <1>1, <3>1, <3>2, <4>1
      <3>3. CASE q \notin DOMAIN fs
        BY <1>1, <3>1, <3>3
      <3> QED
        BY <3>2, <3>3
    <2> QED
      BY <2>1, <2>2, <2>3 DEF Tree, Paths
  <1> QED
    BY <1>0, <1>1, <1>2, <1>3, SoundSame

\* A file goes away.
LEMMA RemovedSound ==
    ASSUME Sound(fs), NEW p \in DOMAIN fs, fs[p].kind = "file",
           NEW h, h = [q \in DOMAIN fs \ {p} |-> fs[q]]
    PROVE  /\ Sound(h)
           /\ \A q \in Paths : RealOf(h)[q] = Real[q]
           /\ \A q \in Paths : IsDirOf(fs, q) => IsDirOf(h, q)
  <1>0. Tree(fs) /\ DOMAIN fs \subseteq Paths /\ Real = RealOf(fs)
    BY RealChoice DEF Sound, Tree, Paths
  <1>1. \A q \in Paths : IsDirOf(fs, q) => IsDirOf(h, q)
    BY DEF IsDirOf
  <1>2. SameLinks(fs, h)
    <2>1. \A q \in Paths : IsLinkOf(h, q) <=> IsLinkOf(fs, q)
      BY DEF IsLinkOf
    <2>2. \A q \in Paths : IsLinkOf(fs, q) => h[q].to = fs[q].to
      BY DEF IsLinkOf
    <2> QED
      BY <2>1, <2>2 DEF SameLinks
  <1>3. Tree(h)
    <2>1. IsDirOf(h, <<>>)
      <3>1. IsDirOf(fs, <<>>) /\ <<>> \in Paths
        BY <1>0 DEF Tree, Paths
      <3> QED
        BY <1>1, <3>1
    <2>2. ASSUME NEW q \in DOMAIN h PROVE Node(h[q]) /\ IsDirOf(h, Front(q))
      <3>1. q \in Paths /\ Front(q) \in Paths
        BY <1>0, FrontOfRoot, AppendOfFront
      <3>2. Node(fs[q]) /\ IsDirOf(fs, Front(q))
        BY <1>0 DEF Tree
      <3> QED
        BY <1>1, <3>1, <3>2
    <2> QED
      BY <1>0, <2>1, <2>2 DEF Tree, Paths
  <1> QED
    BY <1>0, <1>1, <1>2, <1>3, SoundSame

-----------------------------------------------------------------------------
(* The inductive invariant.                                                *)

HookSet == [type : STRING, from : Places, to : Places, command : BOOLEAN]
Items == [src : Paths, dst : Paths, isDir : BOOLEAN]
PCs == {"load", "start", "link", "copy", "fill", "confirm", "failed", "end"}

\* os.Symlink may go ahead: its source leads to a place in a directory, and not
\* to where the link will be.
CanLink ==
    LET end == Real[Source(Current)]
        at == Entry(Target(Current))
    IN  /\ end # at /\ IsDirOf(fs, Front(end))
        /\ Target(Current) # <<>> => IsDirOf(fs, Front(at))

\* The destination of the copy in hand is a file.
Opened ==
    /\ todo # <<>> /\ ~Head(todo).isDir
    /\ Real[Head(todo).dst] \in DOMAIN fs
    /\ fs[Real[Head(todo).dst]].kind = "file"

FilesInv ==
    /\ Sound(fs)
    /\ \A p \in Paths : IsDirOf(InitFiles, p) => IsDirOf(fs, p)
    /\ hooks \in Seq(HookSet) /\ todo \in Seq(Items)
    /\ hook \in 1..Len(hooks) \/ (hooks = <<>> /\ hook = 1)
    /\ pc \in PCs
    /\ pc = "load" => hooks = <<>>
    /\ Running => hooks # <<>>
    /\ \A i \in 1..Len(hooks) : Valid(hooks[i])
    /\ pc = "link" => Current.type = "symlink" /\ CanLink
    /\ pc \in {"copy", "fill"} => Current.type = "copy"
    /\ pc = "fill" => Opened

LEMMA InitFilesInv == Init => FilesInv
  <1> SUFFICES ASSUME Init PROVE FilesInv
    OBVIOUS
  <1>1. Sound(fs)
    BY InitSound DEF Init
  <1> QED
    BY <1>1 DEF Init, FilesInv, PCs, Running

\* Where a hook comes from and goes to are paths.
LEMMA PlaceType ==
    ASSUME NEW base \in Paths, NEW place \in Places
    PROVE  PlaceIn(base, place) \in Paths
  <1>0. place.up \in Nat /\ place.rest \in Paths
    BY DEF Places, Paths
  <1> DEFINE n == IF place.up < Len(base) THEN Len(base) - place.up ELSE 0
  <1>1. n \in 0..Len(base)
    BY <1>0 DEF Paths
  <1>2. SubSeq(base, 1, n) \in Paths
    BY <1>1 DEF Paths
  <1> HIDE DEF n
  <1>3. SubSeq(base, 1, n) \o place.rest \in Paths
    BY <1>0, <1>2 DEF Paths
  <1> QED
    BY <1>0, <1>3 DEF PlaceIn, n

LEMMA WorktreeIsDir ==
    /\ MainRoot \in Paths /\ Worktree \in Paths /\ IsDirOf(InitFiles, Worktree)
  <1>1. MainRoot \in Paths
    BY NamingAssumption DEF Paths
  <1>2. Worktree \in DOMAIN InitFiles /\ IsDirOf(InitFiles, Worktree)
    BY HookFilesAssumption DEF IsDirOf
  <1>3. DOMAIN InitFiles \subseteq Paths
    BY HookFilesAssumption DEF Tree, Paths
  <1> QED
    BY <1>1, <1>2, <1>3

LEMMA CurrentType ==
    ASSUME FilesInv, hooks # <<>>
    PROVE  /\ Current \in HookSet
           /\ Source(Current) \in Paths /\ Target(Current) \in Paths
  <1>1. Current \in HookSet
    BY DEF FilesInv, Current
  <1>2. Current.from \in Places /\ Current.to \in Places
    BY <1>1 DEF HookSet
  <1> QED
    BY <1>1, <1>2, PlaceType, WorktreeIsDir DEF Source, Target

LEMMA HeadType ==
    ASSUME FilesInv, todo # <<>>
    PROVE  /\ Head(todo).src \in Paths /\ Head(todo).dst \in Paths
           /\ Head(todo).isDir \in BOOLEAN /\ Tail(todo) \in Seq(Items)
  <1>1. Head(todo) \in Items /\ Tail(todo) \in Seq(Items)
    BY DEF FilesInv
  <1> QED
    BY <1>1 DEF Items

-----------------------------------------------------------------------------
(* Every step keeps the invariant.                                         *)

\* A step within a hook that keeps the tree sound.
LEMMA WithinHook ==
    ASSUME FilesInv, Sound(fs'), hooks # <<>>,
           \A p \in Paths : IsDirOf(fs, p) => IsDirOf(fs', p),
           UNCHANGED <<hooks, hook>>, todo' \in Seq(Items), pc' \in PCs \ {"load"},
           pc' = "link" => (Current.type = "symlink" /\ CanLink)',
           pc' \in {"copy", "fill"} => Current.type = "copy",
           pc' = "fill" => Opened'
    PROVE  FilesInv'
  BY DEF FilesInv, Current, Running

LEMMA LoadKeeps ==
    ASSUME FilesInv, Load
    PROVE  FilesInv'
  <1>1. PICK c \in Configs :
          LET loaded == [i \in DOMAIN c |-> WithDefaults(c[i])]
          IN  IF \A i \in DOMAIN c : Valid(loaded[i])
                THEN hooks' = loaded /\ pc' = IF c = <<>> THEN "end" ELSE "start"
                ELSE pc' = "end" /\ UNCHANGED hooks
    BY DEF Load
  <1> DEFINE loaded == [i \in DOMAIN c |-> WithDefaults(c[i])]
  <1>2. c \in Seq(HookSet)
    BY HookFilesAssumption DEF HookSet
  <1>3. \A h \in HookSet : WithDefaults(h) \in HookSet
    <2> SUFFICES ASSUME NEW h \in HookSet PROVE WithDefaults(h) \in HookSet
      OBVIOUS
    <2>1. h.from \in Places
      BY DEF HookSet
    <2>2. [h EXCEPT !.to = h.from] \in HookSet
      BY <2>1 DEF HookSet
    <2> QED
      BY <2>2 DEF WithDefaults
  <1>4. loaded \in Seq(HookSet) /\ Len(loaded) = Len(c)
    <2>1. DOMAIN c = 1..Len(c) /\ Len(c) \in Nat
      BY <1>2
    <2>2. \A i \in 1..Len(c) : c[i] \in HookSet
      BY <1>2
    <2>3. loaded = [i \in 1..Len(c) |-> WithDefaults(c[i])]
      BY <2>1
    <2>4. loaded \in [1..Len(c) -> HookSet]
      BY <1>3, <2>2, <2>3
    <2> HIDE DEF loaded
    <2> QED
      BY <2>1, <2>4
  <1>5. hooks = <<>> /\ hook = 1 /\ UNCHANGED <<fs, hook, todo>>
    BY DEF Load, FilesInv
  <1>6. CASE /\ \A i \in DOMAIN c : Valid(loaded[i])
            /\ hooks' = loaded /\ pc' = IF c = <<>> THEN "end" ELSE "start"
    <2>1. CASE c = <<>>
      <3>1. Len(loaded) = 0
        BY <1>4, <2>1
      <3>2. hooks' = <<>> /\ pc' = "end"
        BY <1>4, <1>6, <2>1, <3>1
      <3> QED
        BY <1>5, <3>2 DEF FilesInv, PCs, Running
    <2>2. CASE c # <<>>
      <3>1. Len(c) \in Nat /\ Len(c) > 0
        BY <1>2, <2>2
      <3>2. hooks' \in Seq(HookSet) /\ hooks' # <<>> /\ 1 \in 1..Len(hooks') /\ pc' = "start"
        BY <1>4, <1>6, <2>2, <3>1
      <3>3. \A i \in 1..Len(hooks') : Valid(hooks'[i])
        BY <1>2, <1>4, <1>6
      <3> QED
        BY <1>5, <3>2, <3>3 DEF FilesInv, PCs, Running
    <2> QED
      BY <2>1, <2>2
  <1>7. CASE pc' = "end" /\ UNCHANGED hooks
    BY <1>5, <1>7 DEF FilesInv, PCs, Running
  <1> QED
    BY <1>1, <1>6, <1>7

LEMMA FailKeeps ==
    ASSUME FilesInv, Running, Fail
    PROVE  FilesInv'
  <1>1. hooks # <<>> /\ UNCHANGED <<fs, hooks, hook, todo>> /\ pc' = "failed"
    BY DEF FilesInv, Fail
  <1> QED
    BY <1>1 DEF FilesInv, PCs, Running

LEMMA DirKind == \A write : Dir(write).kind = "dir"
  BY Zenon DEF Dir

\* An os.MkdirAll that fails leaves the tree sound and what was there as it was.
LEMMA ParentStays ==
    ASSUME Sound(fs), NEW p \in Paths, ParentFails(p)
    PROVE  /\ pc' = "failed" /\ UNCHANGED todo
           /\ \E q \in Paths, write \in BOOLEAN :
                 /\ IsPathWithin(q, p) /\ CanMkdirAll(q)
                 /\ fs' = Made(fs, q, write)
           /\ Sound(fs')
           /\ \A q \in DOMAIN fs : q \in DOMAIN fs' /\ fs'[q] = fs[q]
           /\ \A q \in DOMAIN fs' \ DOMAIN fs : fs'[q].kind = "dir"
  <1>1. PICK write \in BOOLEAN : write = TRUE
    OBVIOUS
  <1>2. PICK q \in Prefixes(p) : CanMkdirAll(q) /\ fs' = Made(fs, q, write)
    BY <1>1 DEF ParentFails
  <1>3. q \in Paths /\ IsPathWithin(q, p)
    BY PrefixesWithin
  <1>4. /\ Sound(fs')
        /\ \A m \in DOMAIN fs : m \in DOMAIN fs' /\ fs'[m] = fs[m]
        /\ \A m \in DOMAIN fs' \ DOMAIN fs : fs'[m] = Dir(write)
    BY <1>2, <1>3, MadeSound
  <1>5. pc' = "failed" /\ UNCHANGED todo
    BY DEF ParentFails
  <1> QED
    BY <1>2, <1>3, <1>4, <1>5, DirKind

\* What the checks of a copy or symlink hook establish for what follows.
LEMMA StartKeeps ==
    ASSUME FilesInv, Start
    PROVE  FilesInv'
  <1>1. pc = "start" /\ hooks # <<>> /\ UNCHANGED <<hooks, hook>>
    BY DEF Start, FilesInv, Running
  <1>2. Current \in HookSet /\ Source(Current) \in Paths /\ Target(Current) \in Paths
    BY <1>1, CurrentType
  <1>3. Current' = Current
    BY <1>1 DEF Current
  <1>4. CASE Current.type = "command"
    <2>1. pc' \in {"confirm", "failed"} /\ UNCHANGED <<fs, todo>>
      BY <1>4 DEF Start
    <2> QED
      BY <1>1, <2>1 DEF FilesInv, PCs, Running
  <1>5. CASE pc' = "failed" /\ UNCHANGED <<fs, todo>>
    BY <1>1, <1>5 DEF FilesInv, PCs, Running
  <1>6. CASE /\ Current.type # "command" /\ StartOK(Current)
             /\ fs' = Made(fs, Front(Target(Current)), TRUE)
             /\ pc' = IF Current.type = "copy" THEN "copy" ELSE "link"
             /\ todo' = IF Current.type = "symlink" THEN <<>>
                        ELSE <<[src |-> Source(Current), dst |-> Target(Current),
                                isDir |-> IsDir(Source(Current))]>>
    <2>1. PICK src, dst, p : src = Source(Current) /\ dst = Target(Current) /\ p = Front(dst)
      OBVIOUS
    <2>2. PICK write \in BOOLEAN : write = TRUE
      OBVIOUS
    <2>3. /\ fs' = Made(fs, p, write)
          /\ pc' = IF Current.type = "copy" THEN "copy" ELSE "link"
          /\ todo' = IF Current.type = "symlink" THEN <<>>
                     ELSE <<[src |-> src, dst |-> dst, isDir |-> IsDir(src)]>>
      BY <1>6, <2>1, <2>2
    <2>4. Sound(fs) /\ p \in Paths /\ src \in Paths /\ dst \in Paths
      BY <1>2, <2>1, EntryPlace DEF FilesInv
    <2>5. /\ Exists(src) /\ src # dst /\ (Exists(dst) => Real[src] # Real[dst])
          /\ CanMkdirAll(p)
      BY <1>6, <2>1 DEF StartOK, Checked
    <2>6. /\ Sound(fs')
          /\ \A q \in Paths : RealOf(fs')[q] = Real[q]
          /\ \A q \in DOMAIN fs : q \in DOMAIN fs' /\ fs'[q] = fs[q]
          /\ IsDirOf(fs', Real[p])
      BY <2>3, <2>4, <2>5, MadeSound
    <2>7. \A q \in Paths : IsDirOf(fs, q) => IsDirOf(fs', q)
      BY <2>6 DEF IsDirOf
    <2>8. Current.type \in {"copy", "symlink"}
      <3>1. Valid(Current)
        BY <1>1 DEF FilesInv, Current
      <3> QED
        BY <1>6, <3>1 DEF Valid
    <2>9. todo' \in Seq(Items)
      <3>1. IsDir(src) \in BOOLEAN
        BY DEF IsDir, Exists
      <3>2. [src |-> src, dst |-> dst, isDir |-> IsDir(src)] \in Items
        BY <2>4, <3>1 DEF Items
      <3> QED
        BY <2>3, <3>2
    <2>10. Real' = RealOf(fs')
      BY RealChoice
    <2>11. CanLink'
      <3>1. Source(Current)' = src /\ Target(Current)' = dst
        BY <1>3, <2>1 DEF Source, Target
      <3>2. Real'[src] = Real[src] /\ Real[src] \in DOMAIN fs
        BY <2>4, <2>6, <2>10, <2>5 DEF Exists
      <3>3. Entry(dst)' = Entry(dst)
        BY <2>4, <2>6, <2>10, <2>1 DEF Entry
      <3>4. Entry(Target(Current))' = Entry(dst) /\ Real[Source(Current)]' = Real[src]
        BY <3>1, <3>2, <3>3
      <3>5. Real[src] # Entry(dst)
        <4> SUFFICES ASSUME Real[src] = Entry(dst) PROVE FALSE
          OBVIOUS
        <4>1. ~IsLinkOf(fs, Real[src])
          BY <2>4, RealIsReal, RealChoice DEF Sound
        <4>2. Real[dst] = Real[src]
          BY <2>4, <4>1, EntryPlace
        <4> QED
          BY <2>5, <3>2, <4>2 DEF Exists
      <3>6. IsDirOf(fs', Front(Real[src]))
        <4>1. IsDirOf(fs, Front(Real[src])) /\ Front(Real[src]) \in Paths
          <5>1. Real[src] \in Paths
            BY <2>4, EntryPlace
          <5> QED
            BY <2>4, <3>2, <5>1, EntryPlace DEF Sound, Tree
        <4> QED
          BY <2>7, <4>1
      <3>7. dst # <<>> => IsDirOf(fs', Front(Entry(dst)))
        BY <2>4, <2>6, <2>1, EntryPlace
      <3> QED
        BY <3>1, <3>4, <3>5, <3>6, <3>7 DEF CanLink
    <2> QED
      BY <1>1, <1>3, <2>3, <2>6, <2>7, <2>8, <2>9, <2>11, WithinHook DEF PCs
  <1>7. CASE ParentFails(Front(Target(Current)))
    <2>1. PICK p : p = Front(Target(Current))
      OBVIOUS
    <2>2. p \in Paths
      BY <1>2, <2>1, EntryPlace DEF FilesInv
    <2>3. /\ Sound(fs') /\ UNCHANGED todo /\ pc' = "failed"
          /\ \A q \in DOMAIN fs : q \in DOMAIN fs' /\ fs'[q] = fs[q]
      BY <1>7, <2>1, <2>2, ParentStays DEF FilesInv
    <2>4. \A q \in Paths : IsDirOf(fs, q) => IsDirOf(fs', q)
      BY <2>3 DEF IsDirOf
    <2> QED
      BY <1>1, <2>3, <2>4 DEF FilesInv, PCs, Running
  <1> QED
    BY <1>4, <1>5, <1>6, <1>7 DEF Start

-----------------------------------------------------------------------------
(* What os.ReadDir lists.                                                  *)

\* Nth numbers the elements of a set: the place of an element, counted from below,
\* is an injection into an interval with as many elements.
LEMMA NthNumbers ==
    ASSUME NEW k \in Nat, NEW C \in SUBSET (1..k)
    PROVE  /\ Cardinality(C) \in Nat
           /\ \A n \in 1..Cardinality(C) : Nth(C, n) \in C
           /\ \A i \in C : \E n \in 1..Cardinality(C) : Nth(C, n) = i
  <1> DEFINE Below(i) == {j \in C : j <= i}
             m == Cardinality(C)
             rank == [i \in C |-> Cardinality(Below(i))]
  <1>1. IsFiniteSet(C) /\ m \in Nat
    <2>1. IsFiniteSet(1..k)
      BY FS_Interval
    <2>2. IsFiniteSet(C)
      BY <2>1, FS_Subset
    <2> QED
      BY <2>2, FS_CardinalityType
  <1>2. \A i \in C : IsFiniteSet(Below(i)) /\ Cardinality(Below(i)) \in 1..m
    <2> SUFFICES ASSUME NEW i \in C
                 PROVE  IsFiniteSet(Below(i)) /\ Cardinality(Below(i)) \in 1..m
      OBVIOUS
    <2>1. Below(i) \in SUBSET C /\ i \in Below(i)
      OBVIOUS
    <2> HIDE DEF Below
    <2>2. IsFiniteSet(Below(i)) /\ Cardinality(Below(i)) <= m
      BY <1>1, <2>1, FS_Subset
    <2>3. Cardinality(Below(i)) \in Nat /\ Cardinality(Below(i)) # 0
      BY <2>1, <2>2, FS_CardinalityType, FS_EmptySet
    <2> QED
      BY <1>1, <2>2, <2>3
  <1>3. \A i \in C, j \in C : i < j => Cardinality(Below(i)) # Cardinality(Below(j))
    <2> SUFFICES ASSUME NEW i \in C, NEW j \in C, i < j
                 PROVE  Cardinality(Below(i)) # Cardinality(Below(j))
      OBVIOUS
    <2>1. Below(i) \in SUBSET Below(j) /\ Below(i) # Below(j)
      <3>1. C \subseteq Nat
        OBVIOUS
      <3>2. j \in Below(j) /\ j \notin Below(i)
        BY <3>1
      <3>3. \A x \in Below(i) : x \in Below(j)
        BY <3>1
      <3> QED
        BY <3>2, <3>3
    <2>2. IsFiniteSet(Below(j))
      BY <1>2
    <2> HIDE DEF Below
    <2> QED
      BY <2>1, <2>2, FS_Subset
  <1>4. rank \in Injection(C, 1..m)
    <2>1. rank \in [C -> 1..m]
      BY <1>2
    <2>2. \A i \in C, j \in C : rank[i] = rank[j] => i = j
      <3>1. C \subseteq Nat
        OBVIOUS
      <3> QED
        BY <1>3, <3>1
    <2> HIDE DEF rank
    <2> QED
      BY <2>1, <2>2 DEF Injection, IsInjective
  <1>5. IsFiniteSet(1..m) /\ Cardinality(1..m) = m
    BY <1>1, FS_Interval
  <1>6. rank \in Surjection(C, 1..m)
    BY <1>1, <1>4, <1>5, FS_Injection
  <1>7. ASSUME NEW n \in 1..m
        PROVE  \E i \in C : Cardinality(Below(i)) = n
    <2>1. PICK i \in C : rank[i] = n
      BY <1>6 DEF Surjection
    <2> QED
      BY <2>1
  <1>8. \A i \in C, j \in C : Cardinality(Below(i)) = Cardinality(Below(j)) => i = j
    <2>1. C \subseteq Nat
      OBVIOUS
    <2> HIDE DEF Below
    <2> QED
      BY <1>3, <2>1
  <1>9. \A n : Nth(C, n) = CHOOSE i \in C : Cardinality(Below(i)) = n
    BY DEF Nth
  <1> HIDE DEF Below, m
  <1>10. \A n \in 1..m : Nth(C, n) \in C
    BY <1>7, <1>9
  <1>11. ASSUME NEW i \in C
         PROVE  \E n \in 1..m : Nth(C, n) = i
    <2>1. Cardinality(Below(i)) \in 1..m
      BY <1>2
    <2>2. Nth(C, Cardinality(Below(i))) = i
      BY <1>8, <1>9
    <2> QED
      BY <2>1, <2>2
  <1> QED
    BY <1>1, <1>10, <1>11 DEF m

\* What copyDir has left to do for one name in a directory.
ItemAt(t, s) ==
    [src |-> Append(t.src, s), dst |-> Append(t.dst, s), isDir |-> IsDirEntry(t.src, s)]

LEMMA EntriesAre ==
    ASSUME Sound(fs), NEW t, t.src \in Paths, t.dst \in Paths
    PROVE  /\ Entries(t) \in Seq(Items)
           /\ \A i \in DOMAIN Entries(t) : \E s \in Segments :
                 Append(Real[t.src], s) \in DOMAIN fs /\ Entries(t)[i] = ItemAt(t, s)
           /\ \A s \in Segments : Append(Real[t.src], s) \in DOMAIN fs =>
                 \E i \in DOMAIN Entries(t) : Entries(t)[i] = ItemAt(t, s)
  <1> DEFINE C == {i \in DOMAIN Order : Append(Real[t.src], Order[i]) \in DOMAIN fs}
             m == Cardinality(C)
             names == [n \in 1..m |-> Order[Nth(C, n)]]
             e == [i \in 1..m |-> ItemAt(t, names[i])]
  <1>1. Listing(t.src) = names
    BY DEF Listing
  <1>2. Len(Order) \in Nat /\ DOMAIN Order = 1..Len(Order)
    BY HookFilesAssumption
  <1>3. C \in SUBSET (1..Len(Order))
    BY <1>2
  <1>4. \A i \in C : Append(Real[t.src], Order[i]) \in DOMAIN fs /\ i \in DOMAIN Order
    OBVIOUS
  <1>5. \A s \in Segments : Append(Real[t.src], s) \in DOMAIN fs =>
            \E i \in C : Order[i] = s
    BY HookFilesAssumption
  <1>6. \A i \in DOMAIN Order : Order[i] \in Segments
    BY HookFilesAssumption
  <1> HIDE DEF C
  <1>7. /\ m \in Nat /\ \A n \in 1..m : Nth(C, n) \in C
        /\ \A i \in C : \E n \in 1..m : Nth(C, n) = i
    BY <1>2, <1>3, NthNumbers
  <1> HIDE DEF m
  <1>8. Entries(t) = e
    <2>1. DOMAIN names = 1..m
      OBVIOUS
    <2> HIDE DEF names
    <2> QED
      BY <1>1, <2>1 DEF Entries, ItemAt
  <1>9. \A s \in Segments : Append(Real[t.src], s) \in DOMAIN fs =>
          ItemAt(t, s) \in Items
    <2> SUFFICES ASSUME NEW s \in Segments
                 PROVE  ItemAt(t, s) \in Items
      OBVIOUS
    <2>1. Append(t.src, s) \in Paths /\ Append(t.dst, s) \in Paths
      BY FrontOfAppend
    <2>2. IsDirEntry(t.src, s) \in BOOLEAN
      BY DEF IsDirEntry
    <2> QED
      BY <2>1, <2>2 DEF ItemAt, Items
  <1>10. \A n \in 1..m : /\ names[n] \in Segments
                         /\ Append(Real[t.src], names[n]) \in DOMAIN fs
    BY <1>4, <1>6, <1>7
  <1>11. \A s \in Segments : Append(Real[t.src], s) \in DOMAIN fs =>
          \E n \in 1..m : names[n] = s
    BY <1>5, <1>7
  <1> HIDE DEF names
  <1>12. e \in Seq(Items)
    <2>1. e \in [1..m -> Items]
      BY <1>9, <1>10
    <2> HIDE DEF e
    <2> QED
      BY <1>7, <2>1
  <1>13. DOMAIN e = 1..m /\ \A i \in 1..m : e[i] = ItemAt(t, names[i])
    OBVIOUS
  <1> HIDE DEF e
  <1> QED
    BY <1>8, <1>10, <1>11, <1>12, <1>13

-----------------------------------------------------------------------------
(* The other steps.                                                        *)

LEMMA LinkKeeps ==
    ASSUME FilesInv, Link
    PROVE  FilesInv'
  <1>1. pc = "link" /\ hooks # <<>> /\ Running /\ Current.type = "symlink" /\ CanLink
    BY DEF Link, FilesInv, Running
  <1>2. PICK src, dst, at : src = Source(Current) /\ dst = Target(Current) /\ at = Entry(dst)
    OBVIOUS
  <1>3. Sound(fs) /\ src \in Paths /\ dst \in Paths /\ at \in Paths
    BY <1>1, <1>2, CurrentType, EntryPlace DEF FilesInv
  <1>4. CASE at \in DOMAIN fs \/ ~fs[Front(at)].write \/ Len(at) > MaxLength
    BY <1>1, <1>2, <1>4, FailKeeps DEF Link
  <1>5. CASE ~(at \in DOMAIN fs \/ ~fs[Front(at)].write \/ Len(at) > MaxLength)
    <2>1. PICK n : n = LinkTo(Current)
      OBVIOUS
    <2>2. /\ fs' = [p \in DOMAIN fs \cup {at} |-> IF p = at THEN n ELSE fs[p]]
          /\ pc' = "confirm" /\ UNCHANGED <<hooks, hook, todo>>
      BY <1>2, <1>5, <2>1 DEF Link
    <2>3. n.kind = "link" /\ n.to = src /\ Node(n)
      BY <1>2, <1>3, <2>1 DEF LinkTo, Dir, Node, Paths
    <2>4. at # <<>> /\ dst # <<>>
      BY <1>2, <1>3, <1>5, EntryPlace DEF Sound, Tree, IsDirOf
    <2>5. /\ IsDirOf(fs, Front(at)) /\ Real[src] # at /\ IsDirOf(fs, Front(Real[src]))
      BY <1>1, <1>2, <2>4 DEF CanLink
    <2>6. /\ DOMAIN fs' = DOMAIN fs \cup {at} /\ fs'[at] = n
          /\ \A p \in DOMAIN fs : fs'[p] = fs[p]
      BY <1>5, <2>2
    <2>7. Tree(fs')
      <3>1. DOMAIN fs \subseteq Seq(Segments) /\ IsDirOf(fs, <<>>)
        BY <1>3 DEF Sound, Tree
      <3>2. \A p \in DOMAIN fs : Node(fs[p]) /\ IsDirOf(fs, Front(p))
        BY <1>3 DEF Sound, Tree
      <3>3. \A p : IsDirOf(fs, p) => IsDirOf(fs', p)
        BY <2>6 DEF IsDirOf
      <3>4. \A p \in DOMAIN fs' : Node(fs'[p]) /\ IsDirOf(fs', Front(p))
        BY <2>3, <2>5, <2>6, <3>2, <3>3
      <3> QED
        BY <1>3, <2>6, <3>1, <3>3, <3>4 DEF Tree, Paths
    <2>8. Sound(fs')
      BY <1>3, <1>5, <2>3, <2>5, <2>6, <2>7, NewLink, RealChoice
    <2>9. \A p \in Paths : IsDirOf(fs, p) => IsDirOf(fs', p)
      BY <2>6 DEF IsDirOf
    <2>10. todo' \in Seq(Items)
      BY <2>2 DEF FilesInv
    <2> QED
      BY <1>1, <2>2, <2>8, <2>9, <2>10, WithinHook DEF PCs
  <1> QED
    BY <1>4, <1>5

LEMMA CopyDirKeeps ==
    ASSUME FilesInv, CopyDir
    PROVE  FilesInv'
  <1>1. /\ pc = "copy" /\ hooks # <<>> /\ Running /\ Current.type = "copy"
        /\ todo # <<>> /\ Sound(fs)
    BY DEF CopyDir, FilesInv, Running
  <1>2. PICK t, d : t = Head(todo) /\ d = fs[Real[t.src]]
    OBVIOUS
  <1>3. t.src \in Paths /\ t.dst \in Paths /\ Tail(todo) \in Seq(Items)
    BY <1>1, <1>2, HeadType
  <1>4. CASE /\ IsDir(t.src) /\ fs[Real[t.src]].read
             /\ ParentWritable(t.dst) /\ CanMkdirAll(t.dst)
    <2>1. /\ fs' = Made(fs, t.dst, d.write) /\ UNCHANGED <<hooks, hook>>
          /\ \/ todo' = Entries(t) \o Tail(todo) /\ UNCHANGED pc
             \/ pc' = "failed" /\ UNCHANGED todo
      BY <1>2, <1>4 DEF CopyDir
    <2>2. d.write \in BOOLEAN
      <3>1. Real[t.src] \in DOMAIN fs
        BY <1>4 DEF IsDir, Exists
      <3>2. Node(d)
        BY <1>1, <1>2, <3>1 DEF Sound, Tree
      <3> QED
        BY <3>2, Zenon DEF Node
    <2>3. Sound(fs') /\ \A q \in DOMAIN fs : q \in DOMAIN fs' /\ fs'[q] = fs[q]
      BY <1>1, <1>3, <1>4, <2>1, <2>2, MadeSound
    <2>4. \A p \in Paths : IsDirOf(fs, p) => IsDirOf(fs', p)
      BY <2>3 DEF IsDirOf
    <2>5. todo' \in Seq(Items)
      <3>1. Entries(t) \in Seq(Items)
        BY <1>1, <1>3, EntriesAre
      <3>2. todo \in Seq(Items)
        BY DEF FilesInv
      <3>3. PICK head : head = Entries(t)
        OBVIOUS
      <3>4. head \o Tail(todo) \in Seq(Items)
        BY <1>3, <3>1, <3>3
      <3> QED
        BY <2>1, <3>2, <3>3, <3>4
    <2>6. CASE UNCHANGED pc
      BY <1>1, <2>1, <2>3, <2>4, <2>5, <2>6, WithinHook DEF PCs
    <2>7. CASE pc' = "failed"
      BY <1>1, <2>1, <2>3, <2>4, <2>5, <2>7, WithinHook DEF PCs
    <2> QED
      BY <2>1, <2>6, <2>7
  <1>5. CASE ~(/\ IsDir(t.src) /\ fs[Real[t.src]].read
               /\ ParentWritable(t.dst) /\ CanMkdirAll(t.dst))
    BY <1>1, <1>2, <1>5, FailKeeps DEF CopyDir
  <1> QED
    BY <1>4, <1>5

\* What os.Create makes of the destination.
Emptied(f, at) ==
    [Dir(TRUE) EXCEPT !.kind = "file", !.read = at \in DOMAIN f => f[at].read]

\* os.Create may go ahead.
CanOpen(t) ==
    LET at == Real[t.dst]
    IN  /\ Exists(t.src) /\ fs[Real[t.src]].read
        /\ ParentWritable(t.dst)
        /\ IF at \in DOMAIN fs
             THEN fs[at].kind = "file" /\ fs[at].write
             ELSE IsDir(Front(at)) /\ fs[Front(at)].write /\ Len(at) <= MaxLength

LEMMA OpenWrites ==
    ASSUME FilesInv, CopyOpen, CanOpen(Head(todo)), NEW at, at = Real[Head(todo).dst]
    PROVE  /\ pc' = "fill" /\ UNCHANGED <<hooks, hook, todo>>
           /\ at \in Paths /\ Node(Emptied(fs, at)) /\ Emptied(fs, at).kind = "file"
           /\ at \in DOMAIN fs => fs[at].kind = "file"
           /\ at \notin DOMAIN fs => IsDirOf(fs, Front(at))
           /\ DOMAIN fs' = DOMAIN fs \cup {at} /\ fs'[at] = Emptied(fs, at)
           /\ \A q \in DOMAIN fs : q # at => fs'[q] = fs[q]
           /\ Sound(fs') /\ \A q \in Paths : RealOf(fs')[q] = Real[q]
           /\ \A q \in Paths : IsDirOf(fs, q) => IsDirOf(fs', q)
  <1>1. pc = "copy" /\ todo # <<>> /\ ~Head(todo).isDir /\ Sound(fs)
    BY DEF CopyOpen, FilesInv
  <1>2. Head(todo).src \in Paths /\ Head(todo).dst \in Paths
    BY <1>1, HeadType
  <1>3. at \in Paths /\ Real[Front(at)] = Front(at)
    BY <1>1, <1>2, EntryPlace, RealIsReal, RealChoice DEF Sound
  <1>4. PICK n : n = Emptied(fs, at)
    OBVIOUS
  <1>5. /\ fs' = [p \in DOMAIN fs \cup {at} |-> IF p # at THEN fs[p] ELSE n]
        /\ pc' = "fill" /\ UNCHANGED <<hooks, hook, todo>>
    BY <1>4 DEF CopyOpen, CanOpen, Emptied
  <1>6. at \in DOMAIN fs => fs[at].kind = "file"
    BY DEF CanOpen
  <1>7. at \notin DOMAIN fs => IsDirOf(fs, Front(at))
    BY <1>3 DEF CanOpen, IsDir, Exists, IsDirOf
  <1>8. Node(n) /\ n.kind = "file"
    <2>1. (at \in DOMAIN fs => fs[at].read) \in BOOLEAN
      OBVIOUS
    <2>2. <<>> \in Seq(Segments)
      OBVIOUS
    <2> QED
      BY <1>4, <2>1, <2>2 DEF Emptied, Dir, Node
  <1>9. /\ DOMAIN fs' = DOMAIN fs \cup {at} /\ fs'[at] = n
        /\ \A q \in DOMAIN fs : q # at => fs'[q] = fs[q]
    BY <1>5
  <1>10. /\ Sound(fs') /\ \A q \in Paths : RealOf(fs')[q] = Real[q]
         /\ \A q \in Paths : IsDirOf(fs, q) => IsDirOf(fs', q)
    <2>1. PICK h : h = fs'
      OBVIOUS
    <2>2. /\ DOMAIN h = DOMAIN fs \cup {at} /\ h[at] = n
          /\ \A q \in DOMAIN fs : q # at => h[q] = fs[q]
      BY <1>9, <2>1
    <2>3. /\ Sound(h) /\ \A q \in Paths : RealOf(h)[q] = Real[q]
          /\ \A q \in Paths : IsDirOf(fs, q) => IsDirOf(h, q)
      <3>1. Node(n)
        BY <1>8
      <3> QED
        BY <1>1, <1>3, <1>6, <1>7, <1>8, <2>2, <3>1, WrittenSound, SMTT(60)
    <2> QED
      BY <2>1, <2>3
  <1> QED
    BY <1>3, <1>4, <1>5, <1>6, <1>7, <1>8, <1>9, <1>10

LEMMA CopyOpenKeeps ==
    ASSUME FilesInv, CopyOpen
    PROVE  FilesInv'
  <1>1. /\ pc = "copy" /\ hooks # <<>> /\ Running /\ Current.type = "copy"
        /\ todo # <<>> /\ ~Head(todo).isDir
    BY DEF CopyOpen, FilesInv, Running
  <1>2. PICK at, dst : dst = Head(todo).dst /\ at = Real[dst]
    OBVIOUS
  <1>3. CASE CanOpen(Head(todo))
    <2>1. /\ pc' = "fill" /\ UNCHANGED <<hooks, hook, todo>>
          /\ Emptied(fs, at).kind = "file"
          /\ DOMAIN fs' = DOMAIN fs \cup {at} /\ fs'[at] = Emptied(fs, at)
          /\ Sound(fs') /\ \A q \in Paths : RealOf(fs')[q] = Real[q]
          /\ \A q \in Paths : IsDirOf(fs, q) => IsDirOf(fs', q)
      BY <1>2, <1>3, OpenWrites
    <2>2. Opened'
      <3>1. Head(todo)' = Head(todo) /\ todo' # <<>>
        BY <1>1, <2>1
      <3>2. dst \in Paths
        BY <1>1, <1>2, HeadType
      <3>3. Real'[dst] = at
        BY <1>2, <2>1, <3>2, RealChoice
      <3> QED
        BY <1>1, <1>2, <2>1, <3>1, <3>3 DEF Opened
    <2>3. todo' \in Seq(Items)
      BY <2>1 DEF FilesInv
    <2> QED
      BY <1>1, <2>1, <2>2, <2>3, WithinHook DEF PCs
  <1>4. CASE ~CanOpen(Head(todo))
    <2>1. Fail
      BY <1>4 DEF CopyOpen, CanOpen
    <2> QED
      BY <1>1, <2>1, FailKeeps
  <1> QED
    BY <1>3, <1>4

\* The content arrives in a file that is there, and Real says what it said.
LEMMA FillWrites ==
    ASSUME FilesInv, CopyFill, NEW src, src = Real[Head(todo).src],
           src \in DOMAIN fs, fs[src].kind = "file",
           NEW at, at = Real[Head(todo).dst]
    PROVE  /\ pc' = "copy" /\ todo' = Tail(todo) /\ UNCHANGED <<hooks, hook>>
           /\ at \in DOMAIN fs /\ fs[at].kind = "file"
           /\ DOMAIN fs' = DOMAIN fs /\ fs'[at] = fs[src]
           /\ \A q \in DOMAIN fs : q # at => fs'[q] = fs[q]
           /\ Sound(fs') /\ \A q \in Paths : RealOf(fs')[q] = Real[q]
           /\ \A q \in Paths : IsDirOf(fs, q) => IsDirOf(fs', q)
  <1>1. Sound(fs) /\ Opened
    BY DEF CopyFill, FilesInv
  <1>2. at \in DOMAIN fs /\ fs[at].kind = "file" /\ at \in Paths
    BY <1>1 DEF Opened, Sound, Tree, Paths
  <1>3. fs' = [fs EXCEPT ![at] = fs[src]] /\ pc' = "copy" /\ todo' = Tail(todo)
        /\ UNCHANGED <<hooks, hook>>
    BY DEF CopyFill
  <1>5. /\ DOMAIN fs' = DOMAIN fs /\ fs'[at] = fs[src]
        /\ \A q \in DOMAIN fs : q # at => fs'[q] = fs[q]
    BY <1>2, <1>3
  <1>6. Node(fs[src])
    BY <1>1 DEF Sound, Tree
  <1>7. /\ Sound(fs') /\ \A q \in Paths : RealOf(fs')[q] = Real[q]
        /\ \A q \in Paths : IsDirOf(fs, q) => IsDirOf(fs', q)
    <2>1. DOMAIN fs' = DOMAIN fs \cup {at}
      BY <1>2, <1>5
    <2> QED
      BY <1>1, <1>2, <1>5, <1>6, <2>1, WrittenSound
  <1> QED
    BY <1>2, <1>3, <1>5, <1>7

LEMMA CopyFillKeeps ==
    ASSUME FilesInv, CopyFill
    PROVE  FilesInv'
  <1>1. /\ pc = "fill" /\ hooks # <<>> /\ Running /\ Current.type = "copy" /\ todo # <<>>
    BY DEF CopyFill, FilesInv, Running, Opened
  <1>2. PICK src, at : src = Real[Head(todo).src] /\ at = Real[Head(todo).dst]
    OBVIOUS
  <1>3. CASE src \in DOMAIN fs /\ fs[src].kind = "file"
    <2>1. /\ pc' = "copy" /\ todo' = Tail(todo) /\ UNCHANGED <<hooks, hook>>
          /\ Sound(fs') /\ \A q \in Paths : IsDirOf(fs, q) => IsDirOf(fs', q)
      BY <1>2, <1>3, FillWrites
    <2>2. todo' \in Seq(Items)
      BY <1>1, <2>1, HeadType
    <2> QED
      BY <1>1, <2>1, <2>2, WithinHook DEF PCs
  <1>4. CASE ~(src \in DOMAIN fs /\ fs[src].kind = "file")
    BY <1>1, <1>2, <1>4, FailKeeps DEF CopyFill
  <1> QED
    BY <1>3, <1>4

LEMMA MovesOnKeep ==
    ASSUME FilesInv, CopyDone \/ Confirm
    PROVE  FilesInv'
  <1>1. hooks # <<>> /\ UNCHANGED <<fs, hooks, todo>> /\ pc' \in {"start", "confirm", "end"}
    BY DEF CopyDone, Confirm, FilesInv, Running
  <1>2. hook' \in 1..Len(hooks)
    <2>1. hook \in 1..Len(hooks) /\ Len(hooks) \in Nat
      BY <1>1 DEF FilesInv
    <2>2. hook' = hook \/ (hook < Len(hooks) /\ hook' = hook + 1)
      BY DEF CopyDone, Confirm
    <2> QED
      BY <2>1, <2>2
  <1> QED
    BY <1>1, <1>2 DEF FilesInv, PCs, Running

\* The user removes one file, and Real says what it said.
LEMMA UserRemovesFile ==
    ASSUME FilesInv, UserRemoves
    PROVE  \E p \in DOMAIN fs :
             /\ p \in Removable /\ fs[p].kind = "file"
             /\ pc = "fill" => p \notin {Real[Head(todo).src], Real[Head(todo).dst]}
             /\ UNCHANGED <<hooks, hook, todo, pc>>
             /\ DOMAIN fs' = DOMAIN fs \ {p} /\ \A q \in DOMAIN fs' : fs'[q] = fs[q]
             /\ Sound(fs') /\ \A q \in Paths : RealOf(fs')[q] = Real[q]
             /\ \A q \in Paths : IsDirOf(fs, q) => IsDirOf(fs', q)
  <1>1. PICK p \in Removable \cap DOMAIN fs :
          /\ fs[p].kind = "file"
          /\ pc = "fill" => p \notin {Real[Head(todo).src], Real[Head(todo).dst]}
          /\ fs' = [q \in DOMAIN fs \ {p} |-> fs[q]]
    BY DEF UserRemoves
  <1>2. Sound(fs)
    BY DEF FilesInv
  <1>3. /\ Sound(fs') /\ \A q \in Paths : RealOf(fs')[q] = Real[q]
        /\ \A q \in Paths : IsDirOf(fs, q) => IsDirOf(fs', q)
    BY <1>1, <1>2, RemovedSound
  <1>4. UNCHANGED <<hooks, hook, todo, pc>>
    BY DEF UserRemoves
  <1> QED
    BY <1>1, <1>3, <1>4

LEMMA UserRemovesKeeps ==
    ASSUME FilesInv, UserRemoves
    PROVE  FilesInv'
  <1>1. PICK p \in DOMAIN fs :
          /\ p \in Removable /\ fs[p].kind = "file"
          /\ pc = "fill" => p \notin {Real[Head(todo).src], Real[Head(todo).dst]}
          /\ UNCHANGED <<hooks, hook, todo, pc>>
          /\ DOMAIN fs' = DOMAIN fs \ {p} /\ \A q \in DOMAIN fs' : fs'[q] = fs[q]
          /\ Sound(fs') /\ \A q \in Paths : RealOf(fs')[q] = Real[q]
          /\ \A q \in Paths : IsDirOf(fs, q) => IsDirOf(fs', q)
    BY UserRemovesFile
  <1>2. Real' = RealOf(fs')
    BY RealChoice
  <1>3. Current' = Current
    BY <1>1 DEF Current
  <1>4. ASSUME pc = "link" PROVE CanLink'
    <2>1. CanLink /\ hooks # <<>>
      BY <1>4 DEF FilesInv, Running
    <2>2. PICK src, dst : src = Source(Current) /\ dst = Target(Current)
      OBVIOUS
    <2>3. src \in Paths /\ dst \in Paths /\ Front(dst) \in Paths
      BY <2>1, <2>2, CurrentType, EntryPlace DEF FilesInv
    <2>4. Source(Current)' = src /\ Target(Current)' = dst
      BY <1>3, <2>2 DEF Source, Target
    <2>5. Real'[src] = Real[src] /\ Entry(dst)' = Entry(dst)
      BY <1>1, <1>2, <2>3 DEF Entry
    <2>6. Entry(dst) \in Paths /\ Real[src] \in Paths
      BY <2>3, EntryPlace DEF FilesInv
    <2>7. \A q \in Paths : Front(q) \in Paths
      BY EntryPlace DEF FilesInv
    <2>8. /\ Real[src] # Entry(dst) /\ IsDirOf(fs, Front(Real[src]))
          /\ dst # <<>> => IsDirOf(fs, Front(Entry(dst)))
      BY <2>1, <2>2 DEF CanLink
    <2>9. /\ IsDirOf(fs', Front(Real[src]))
          /\ dst # <<>> => IsDirOf(fs', Front(Entry(dst)))
      BY <1>1, <2>6, <2>7, <2>8
    <2>10. Real[Source(Current)]' = Real[src] /\ Entry(Target(Current))' = Entry(dst)
      BY <2>4, <2>5
    <2> QED
      BY <2>4, <2>8, <2>9, <2>10 DEF CanLink
  <1>5. ASSUME pc = "fill" PROVE Opened'
    <2>1. Opened
      BY <1>5 DEF FilesInv
    <2>2. PICK dst : dst = Head(todo).dst
      OBVIOUS
    <2>3. dst \in Paths
      BY <2>1, <2>2, HeadType DEF Opened
    <2>4. Real'[dst] = Real[dst] /\ Head(todo)' = Head(todo) /\ todo' # <<>>
      BY <1>1, <1>2, <2>1, <2>3 DEF Opened
    <2> QED
      BY <1>1, <1>5, <2>1, <2>2, <2>4 DEF Opened
  <1> QED
    BY <1>1, <1>3, <1>4, <1>5 DEF FilesInv, Running

\* The inductive invariant: the files form a tree in which links resolve, and what
\* jtp has in hand fits to it.
THEOREM FilesInvHolds == Spec => []FilesInv
  <1>1. Init => FilesInv
    BY InitFilesInv
  <1>2. FilesInv /\ [Next]_vars => FilesInv'
    <2> SUFFICES ASSUME FilesInv, [Next]_vars PROVE FilesInv'
      OBVIOUS
    <2>1. CASE Load
      BY <2>1, LoadKeeps
    <2>2. CASE Start
      BY <2>2, StartKeeps
    <2>3. CASE Link
      BY <2>3, LinkKeeps
    <2>4. CASE CopyDir
      BY <2>4, CopyDirKeeps
    <2>5. CASE CopyOpen
      BY <2>5, CopyOpenKeeps
    <2>6. CASE CopyFill
      BY <2>6, CopyFillKeeps
    <2>7. CASE CopyDone \/ Confirm
      BY <2>7, MovesOnKeep
    <2>8. CASE IOError
      BY <2>8, FailKeeps DEF IOError
    <2>9. CASE UserRemoves
      BY <2>9, UserRemovesKeeps
    <2>10. CASE UNCHANGED vars
      <3>1. Current' = Current /\ Real' = Real
        BY <2>10, RealChoice DEF vars, Current
      <3> QED
        BY <2>10, <3>1 DEF vars, FilesInv, Running, CanLink, Opened, Entry, Source, Target
    <2> QED
      BY <2>1, <2>2, <2>3, <2>4, <2>5, <2>6, <2>7, <2>8, <2>9, <2>10 DEF Next, Step
  <1> QED
    BY <1>1, <1>2, PTL DEF Spec

\* The file system stays a tree, whatever the hooks make, link and copy.
THEOREM FilesTypeCorrect == Spec => []TypeOK
  <1>1. FilesInv => TypeOK
    BY DEF FilesInv, Sound, TypeOK, PCs, Opened
  <1> QED
    BY <1>1, FilesInvHolds, PTL

-----------------------------------------------------------------------------
(* Symlink hooks.                                                          *)

\* os.Symlink makes the destination lead to where the source leads.
LEMMA LinkMakesShare ==
    ASSUME FilesInv, Link, pc' = "confirm"
    PROVE  LinkSharesSource'
  <1>1. /\ pc = "link" /\ hooks # <<>> /\ CanLink /\ Sound(fs) /\ Tree(fs) /\ Resolves(fs)
    BY DEF Link, FilesInv, Running, Sound
  <1>2. PICK src, dst, at : src = Source(Current) /\ dst = Target(Current) /\ at = Entry(dst)
    OBVIOUS
  <1>3. src \in Paths /\ dst \in Paths /\ at \in Paths
    BY <1>1, <1>2, CurrentType, EntryPlace
  <1>4. at \notin DOMAIN fs /\ UNCHANGED <<hooks, hook>>
    BY <1>2 DEF Link, Fail
  <1>5. PICK n : n = LinkTo(Current)
    OBVIOUS
  <1>6. fs' = [p \in DOMAIN fs \cup {at} |-> IF p = at THEN n ELSE fs[p]]
    BY <1>2, <1>5 DEF Link, Fail
  <1>7. n.kind = "link" /\ n.to = src
    BY <1>2, <1>5 DEF LinkTo, Dir
  <1>8. /\ at # <<>> /\ dst # <<>> /\ Front(at) = Real[Front(dst)] /\ Front(dst) \in Paths
    BY <1>1, <1>2, <1>3, <1>4, EntryPlace DEF Tree, IsDirOf
  <1>9. Real[src] # at /\ IsDirOf(fs, Front(Real[src])) /\ IsDirOf(fs, Front(at))
    BY <1>1, <1>2, <1>8 DEF CanLink
  <1>10. Sound(fs')
    BY LinkKeeps DEF FilesInv
  <1>11. /\ DOMAIN fs' = DOMAIN fs \cup {at} /\ \A p \in DOMAIN fs : fs'[p] = fs[p]
         /\ fs'[at] = n /\ IsLinkOf(fs', at)
    BY <1>4, <1>6, <1>7 DEF IsLinkOf
  <1>12. \A p \in Paths : ~IsPathWithin(at, Real[p]) => RealOf(fs')[p] = Real[p]
    <2>1. Tree(fs')
      BY <1>10 DEF Sound
    <2> QED
      BY <1>1, <1>3, <1>4, <1>7, <1>9, <1>11, <2>1, NewLink, RealChoice
  <1>13. RealOf(fs')[src] = Real[src]
    <2>1. Real[src] \in Paths
      BY <1>1, <1>3, EntryPlace
    <2>2. ~IsPathWithin(at, Real[src])
      BY <1>1, <1>3, <1>4, <1>9, <2>1, NotThere
    <2> QED
      BY <1>3, <1>12, <2>2
  <1>14. RealOf(fs')[Front(dst)] = Front(at)
    <2>1. Front(at) \in Paths /\ Front(at) \in DOMAIN fs
      BY <1>1, <1>8, <1>9, EntryPlace DEF IsDirOf
    <2>2. ~IsPathWithin(at, Front(at))
      BY <1>1, <1>3, <1>4, <2>1, NotThere
    <2> QED
      BY <1>8, <1>12, <2>2
  <1>15. RealOf(fs')[dst] = RealOf(fs')[src]
    <2>1. PICK d, s : d = Front(dst) /\ s = Last(dst)
      OBVIOUS
    <2>2. d \in Paths /\ s \in Segments /\ dst = Append(d, s)
      BY <1>3, <1>8, <2>1, AppendOfFront
    <2>3. at = Append(Front(at), s)
      BY <1>2, <1>8, <2>1 DEF Entry
    <2>4. PICK b : b = Front(at)
      OBVIOUS
    <2>5. at = Append(b, s) /\ RealOf(fs')[d] = b
      BY <1>14, <2>1, <2>3, <2>4
    <2> QED
      BY <1>7, <1>10, <1>11, <2>2, <2>5, RealStep DEF Sound
  <1>16. Source(Current)' = src /\ Target(Current)' = dst
    BY <1>2, <1>4 DEF Source, Target, Current
  <1> QED
    BY <1>15, <1>16, RealChoice DEF LinkSharesSource

\* A confirmed symlink hook shares its source: the path in the worktree leads to
\* where the path in the main worktree leads.
THEOREM LinkShares == Spec => []LinkSharesSource
  <1>1. Init => LinkSharesSource
    BY DEF Init, LinkSharesSource
  <1>2. FilesInv /\ LinkSharesSource /\ [Next]_vars => LinkSharesSource'
    <2> SUFFICES ASSUME FilesInv, LinkSharesSource, [Next]_vars, pc' = "confirm"
                 PROVE  LinkSharesSource'
      BY DEF LinkSharesSource
    <2>1. CASE Start
      <3>1. Current' = Current /\ Current.type = "command"
        BY <2>1 DEF Start, ParentFails, Current
      <3> QED
        BY <3>1 DEF LinkSharesSource
    <2>2. CASE Link
      BY <2>2, LinkMakesShare
    <2>3. CASE CopyDone
      <3>1. Current' = Current /\ Current.type = "copy"
        BY <2>3 DEF CopyDone, Current, FilesInv
      <3> QED
        BY <3>1 DEF LinkSharesSource
    <2>4. CASE UserRemoves
      <3>1. /\ UNCHANGED <<hooks, hook, pc>>
            /\ \A q \in Paths : RealOf(fs')[q] = Real[q]
        BY <2>4, UserRemovesFile
      <3>2. hooks # <<>>
        BY <3>1 DEF FilesInv, Running
      <3>3. PICK src, dst, ty : /\ src = Source(Current) /\ dst = Target(Current)
                                /\ ty = Current.type
        OBVIOUS
      <3>4. src \in Paths /\ dst \in Paths
        BY <3>2, <3>3, CurrentType
      <3>5. /\ Source(Current)' = src /\ Target(Current)' = dst
            /\ (Current.type)' = ty
        BY <3>1, <3>3 DEF Source, Target, Current
      <3>6. Real'[src] = Real[src] /\ Real'[dst] = Real[dst]
        BY <3>1, <3>4, RealChoice
      <3> QED
        BY <3>1, <3>3, <3>5, <3>6 DEF LinkSharesSource
    <2>5. CASE UNCHANGED vars
      BY <2>5, RealChoice DEF vars, LinkSharesSource, Source, Target, Current
    <2>6. ~Load /\ ~CopyDir /\ ~CopyOpen /\ ~CopyFill /\ ~Confirm /\ ~IOError
      <3>1. ~Load /\ ~CopyFill /\ ~Confirm /\ ~IOError
        BY DEF Load, CopyFill, Confirm, IOError, Fail
      <3>2. ~CopyDir /\ ~CopyOpen
        BY DEF CopyDir, CopyOpen, Fail
      <3> QED
        BY <3>1, <3>2
    <2> QED
      BY <2>1, <2>2, <2>3, <2>4, <2>5, <2>6 DEF Next, Step
  <1> QED
    BY <1>1, <1>2, FilesInvHolds, PTL DEF Spec

-----------------------------------------------------------------------------
(* What a copy has left to do.                                             *)

LEMMA JoinWithin ==
    ASSUME NEW p \in Paths, NEW u \in Paths
    PROVE  p \o u \in Paths /\ IsPathWithin(p, p \o u)
  <1>1. p \o u \in Paths /\ Len(p \o u) = Len(p) + Len(u)
    BY DEF Paths
  <1>2. Len(p) \in Nat /\ Len(u) \in Nat /\ \A i \in 1..Len(p) : (p \o u)[i] = p[i]
    BY DEF Paths
  <1>3. PICK j : j = p \o u
    OBVIOUS
  <1>4. j \in Paths /\ Len(p) <= Len(j) /\ \A i \in 1..Len(p) : p[i] = j[i]
    BY <1>1, <1>2, <1>3
  <1>5. IsPathWithin(p, j)
    BY <1>4, WithinPointwise
  <1> QED
    BY <1>3, <1>4, <1>5

LEMMA JoinAppend ==
    ASSUME NEW p \in Paths, NEW u \in Paths, NEW s \in Segments
    PROVE  p \o Append(u, s) = Append(p \o u, s) /\ p \o <<>> = p
  BY DEF Paths

\* A file or directory that is left to copy has the same place below the source and
\* below the destination of the hook.
SamePlace(t) ==
    \E u \in Paths : t.src = Source(Current) \o u /\ t.dst = Target(Current) \o u

TodoInv ==
    /\ pc \in {"copy", "fill"} => \A i \in 1..Len(todo) : SamePlace(todo[i])
    /\ pc \in {"link", "copy", "fill"} =>
          (Current.to.kind = "rel" => IsPathWithin(Worktree, Target(Current)))

LEMMA StartTodo ==
    ASSUME FilesInv, TodoInv, Start
    PROVE  TodoInv'
  <1>1. hooks # <<>> /\ UNCHANGED <<hooks, hook>> /\ Current' = Current
    BY DEF Start, FilesInv, Running, Current
  <1>2. CASE pc' \in {"link", "copy", "fill"}
    <2>1. /\ StartOK(Current) /\ Current.type # "command"
          /\ pc' = IF Current.type = "copy" THEN "copy" ELSE "link"
          /\ todo' = IF Current.type = "symlink" THEN <<>>
                     ELSE <<[src |-> Source(Current), dst |-> Target(Current),
                             isDir |-> IsDir(Source(Current))]>>
      BY <1>2 DEF Start, ParentFails
    <2>2. Current.to.kind = "rel" => IsPathWithin(Worktree, Target(Current))
      <3>1. WithinBase(Worktree, Current.to)
        BY <2>1 DEF StartOK, Checked
      <3> QED
        BY <3>1 DEF WithinBase, Target
    <2>3. PICK src, dst, ty : /\ src = Source(Current) /\ dst = Target(Current)
                              /\ ty = Current.type
      OBVIOUS
    <2>4. Source(Current)' = src /\ Target(Current)' = dst
      BY <1>1, <2>3 DEF Source, Target
    <2>5. pc' = "copy" =>
            \A i \in 1..Len(todo') : todo'[i].src = src /\ todo'[i].dst = dst
      <3>1. src \in Paths /\ dst \in Paths
        BY <1>1, <2>3, CurrentType
      <3>2. PICK b : b = IsDir(src)
        OBVIOUS
      <3>4. pc' = "copy" => todo' = <<[src |-> src, dst |-> dst, isDir |-> b]>>
        <4>1. /\ pc' = IF ty = "copy" THEN "copy" ELSE "link"
              /\ todo' = IF ty = "symlink" THEN <<>>
                         ELSE <<[src |-> src, dst |-> dst, isDir |-> b]>>
          BY <2>1, <2>3, <3>2
        <4> QED
          BY <4>1
      <3>5. PICK t : t = [src |-> src, dst |-> dst, isDir |-> b]
        OBVIOUS
      <3>6. t.src = src /\ t.dst = dst
        BY <3>5
      <3>7. pc' = "copy" => \A i \in 1..Len(todo') : todo'[i] = t
        <4>1. pc' = "copy" => todo' = <<t>>
          BY <3>4, <3>5, Zenon
        <4>2. Len(<<t>>) = 1 /\ \A i \in 1..1 : <<t>>[i] = t
          OBVIOUS
        <4>3. PICK q : q = <<t>>
          OBVIOUS
        <4>4. Len(q) = 1 /\ \A i \in 1..1 : q[i] = t
          BY <4>2, <4>3, Zenon
        <4>5. pc' = "copy" => todo' = q
          BY <4>1, <4>3, Zenon
        <4> QED
          BY <4>4, <4>5
      <3> QED
        BY <3>6, <3>7
    <2>6. <<>> \in Paths /\ pc' # "fill"
      BY <2>1 DEF Paths
    <2>7. pc' = "copy" => \A i \in 1..Len(todo') : SamePlace(todo[i])'
      <3>1. src \o <<>> = src /\ dst \o <<>> = dst
        BY <1>1, <2>3, CurrentType, JoinAppend
      <3> QED
        BY <2>4, <2>5, <2>6, <3>1, Zenon DEF SamePlace
    <2>8. Current'.to.kind = "rel" => IsPathWithin(Worktree, dst)
      BY <1>1, <2>2, <2>3
    <2> QED
      BY <2>4, <2>6, <2>7, <2>8 DEF TodoInv
  <1> QED
    BY <1>2 DEF TodoInv

LEMMA CopyDirTodo ==
    ASSUME FilesInv, TodoInv, CopyDir
    PROVE  TodoInv'
  <1>1. /\ pc = "copy" /\ hooks # <<>> /\ todo # <<>> /\ Sound(fs)
        /\ UNCHANGED <<hooks, hook>> /\ Current' = Current
    BY DEF CopyDir, FilesInv, Running, Current, Fail
  <1>2. CASE pc' = "copy"
    <2>1. PICK t : t = Head(todo)
      OBVIOUS
    <2>2. /\ t.src \in Paths /\ t.dst \in Paths /\ Tail(todo) \in Seq(Items)
      BY <1>1, <2>1, HeadType
    <2>3. todo' = Entries(t) \o Tail(todo)
      BY <1>2, <2>1 DEF CopyDir, Fail
    <2>4. PICK src, dst : src = Source(Current) /\ dst = Target(Current)
      OBVIOUS
    <2>5. src \in Paths /\ dst \in Paths /\ Source(Current)' = src /\ Target(Current)' = dst
      BY <1>1, <2>4, CurrentType DEF Source, Target
    <2> DEFINE Good(x) == \E u \in Paths : x.src = src \o u /\ x.dst = dst \o u
    <2>6. \A i \in 1..Len(todo) : Good(todo[i])
      BY <1>1, <2>4 DEF TodoInv, SamePlace
    <2>7. todo \in Seq(Items)
      BY DEF FilesInv
    <2>8. PICK u \in Paths : t.src = src \o u /\ t.dst = dst \o u
      <3>1. t = todo[1] /\ 1 \in 1..Len(todo)
        BY <1>1, <2>1, <2>7
      <3> QED
        BY <2>6, <3>1
    <2>9. \A s \in Segments : Good(ItemAt(t, s))
      <3> SUFFICES ASSUME NEW s \in Segments PROVE Good(ItemAt(t, s))
        OBVIOUS
      <3>1. Append(u, s) \in Paths
        BY FrontOfAppend
      <3>2. Append(t.src, s) = src \o Append(u, s) /\ Append(t.dst, s) = dst \o Append(u, s)
        <4>1. /\ src \o Append(u, s) = Append(src \o u, s)
              /\ dst \o Append(u, s) = Append(dst \o u, s)
          BY <2>5, JoinAppend
        <4> QED
          BY <2>8, <4>1, Zenon
      <3>3. /\ ItemAt(t, s).src = Append(t.src, s)
            /\ ItemAt(t, s).dst = Append(t.dst, s)
        BY DEF ItemAt
      <3> QED
        BY <3>1, <3>2, <3>3
    <2> HIDE DEF Good
    <2>10. Entries(t) \in Seq(Items) /\ \A i \in DOMAIN Entries(t) : Good(Entries(t)[i])
      BY <1>1, <2>2, <2>9, EntriesAre
    <2>11. \A i \in 1..Len(Tail(todo)) : Good(Tail(todo)[i])
      <3>1. \A i \in 1..Len(Tail(todo)) : i + 1 \in 1..Len(todo) /\ Tail(todo)[i] = todo[i + 1]
        BY <1>1, <2>7
      <3> QED
        BY <2>6, <3>1
    <2>12. \A i \in 1..Len(todo') : Good(todo'[i])
      <3>1. PICK a, b : a = Entries(t) /\ b = Tail(todo)
        OBVIOUS
      <3>2. a \in Seq(Items) /\ b \in Seq(Items) /\ todo' = a \o b
        BY <2>2, <2>3, <2>10, <3>1
      <3>3. /\ Len(a) \in Nat /\ Len(b) \in Nat /\ Len(a \o b) = Len(a) + Len(b)
            /\ DOMAIN a = 1..Len(a)
            /\ \A i \in 1..Len(a) + Len(b) :
                  (a \o b)[i] = IF i <= Len(a) THEN a[i] ELSE b[i - Len(a)]
        BY <3>2
      <3>4. /\ \A i \in 1..Len(a) : Good(a[i])
            /\ \A i \in 1..Len(b) : Good(b[i])
        BY <2>10, <2>11, <3>1, <3>3
      <3>5. ASSUME NEW i \in 1..Len(a) + Len(b) PROVE Good((a \o b)[i])
        <4>1. CASE i <= Len(a)
          <5>1. i \in 1..Len(a) /\ (a \o b)[i] = a[i]
            BY <3>3, <4>1
          <5> QED
            BY <3>4, <5>1
        <4>2. CASE ~(i <= Len(a))
          <5>1. i - Len(a) \in 1..Len(b) /\ (a \o b)[i] = b[i - Len(a)]
            BY <3>3, <4>2
          <5> QED
            BY <3>4, <5>1
        <4> QED
          BY <4>1, <4>2
      <3> QED
        BY <3>2, <3>3, <3>5
    <2>13. \A i \in 1..Len(todo') : SamePlace(todo[i])'
      BY <2>5, <2>12 DEF SamePlace, Good
    <2>14. Current'.to.kind = "rel" => IsPathWithin(Worktree, dst)
      BY <1>1, <2>4 DEF TodoInv
    <2> QED
      BY <1>2, <2>5, <2>13, <2>14 DEF TodoInv
  <1>3. CASE pc' # "copy"
    <2>1. pc' = "failed"
      BY <1>1, <1>3 DEF CopyDir, Fail
    <2> QED
      BY <2>1 DEF TodoInv
  <1> QED
    BY <1>2, <1>3

\* Steps that take items away or leave them.
LEMMA TailTodo ==
    ASSUME FilesInv, TodoInv, hooks # <<>>, UNCHANGED <<hooks, hook>>,
           pc' \in {"link", "copy", "fill"} => pc' = pc \/ {pc, pc'} = {"copy", "fill"},
           pc' \in {"copy", "fill"} => todo' = todo \/ (todo # <<>> /\ todo' = Tail(todo))
    PROVE  TodoInv'
  <1>1. PICK src, dst, rel : /\ src = Source(Current) /\ dst = Target(Current)
                             /\ rel = Current.to.kind
    OBVIOUS
  <1>2. Source(Current)' = src /\ Target(Current)' = dst /\ Current'.to.kind = rel
    BY <1>1 DEF Source, Target, Current
  <1>3. pc' \in {"copy", "fill"} =>
          \A i \in 1..Len(todo') : \E j \in 1..Len(todo) : todo'[i] = todo[j]
    <2>1. todo \in Seq(Items)
      BY DEF FilesInv
    <2>2. todo # <<>> => \A i \in 1..Len(Tail(todo)) :
            i + 1 \in 1..Len(todo) /\ Tail(todo)[i] = todo[i + 1]
      BY <2>1
    <2> QED
      BY <2>2
  <1>4. pc' \in {"copy", "fill"} => pc \in {"copy", "fill"}
    OBVIOUS
  <1>5. pc' \in {"copy", "fill"} => \A i \in 1..Len(todo') : SamePlace(todo[i])'
    <2> SUFFICES ASSUME pc' \in {"copy", "fill"}, NEW i \in 1..Len(todo')
                 PROVE  SamePlace(todo[i])'
      OBVIOUS
    <2>1. PICK j \in 1..Len(todo) : todo'[i] = todo[j]
      BY <1>3
    <2>2. SamePlace(todo[j])
      BY <1>4 DEF TodoInv
    <2> QED
      BY <1>1, <1>2, <2>1, <2>2 DEF SamePlace
  <1>6. pc' \in {"link", "copy", "fill"} => (rel = "rel" => IsPathWithin(Worktree, dst))
    BY <1>1 DEF TodoInv
  <1> QED
    BY <1>2, <1>5, <1>6 DEF TodoInv

LEMMA TodoInvHolds == Spec => []TodoInv
  <1>1. Init => TodoInv
    BY DEF Init, TodoInv
  <1>2. FilesInv /\ TodoInv /\ [Next]_vars => TodoInv'
    <2> SUFFICES ASSUME FilesInv, TodoInv, [Next]_vars PROVE TodoInv'
      OBVIOUS
    <2>1. CASE Start
      BY <2>1, StartTodo
    <2>2. CASE CopyDir
      BY <2>2, CopyDirTodo
    <2>3. CASE CopyFill
      <3>1. todo # <<>> /\ hooks # <<>>
        BY <2>3 DEF CopyFill, FilesInv, Opened, Running
      <3> QED
        BY <2>3, <3>1, TailTodo DEF CopyFill, Fail
    <2>4. CASE CopyOpen
      <3>1. hooks # <<>>
        BY <2>4 DEF CopyOpen, FilesInv, Running
      <3> QED
        BY <2>4, <3>1, TailTodo DEF CopyOpen, Fail
    <2>5. CASE UserRemoves
      <3>1. CASE hooks = <<>>
        BY <2>5, <3>1 DEF UserRemoves, FilesInv, TodoInv, Running
      <3>2. CASE hooks # <<>>
        BY <2>5, <3>2, TailTodo DEF UserRemoves
      <3> QED
        BY <3>1, <3>2
    <2>6. CASE Load \/ Link \/ CopyDone \/ Confirm \/ IOError
      <3>1. pc' \notin {"link", "copy", "fill"}
        BY <2>6 DEF Load, Link, CopyDone, Confirm, IOError, Fail
      <3> QED
        BY <3>1 DEF TodoInv
    <2>7. CASE UNCHANGED vars
      BY <2>7 DEF vars, TodoInv, SamePlace, Source, Target, Current
    <2> QED
      BY <2>1, <2>2, <2>3, <2>4, <2>5, <2>6, <2>7 DEF Next, Step
  <1> QED
    BY <1>1, <1>2, FilesInvHolds, PTL DEF Spec

-----------------------------------------------------------------------------
(* Where the hooks write.                                                  *)

\* Of two directories that a path is in, one is in the other.
LEMMA WithinLinear ==
    ASSUME NEW a \in Paths, NEW b \in Paths, NEW p \in Paths,
           IsPathWithin(a, p), IsPathWithin(b, p)
    PROVE  IsPathWithin(a, b) \/ IsPathWithin(b, a)
  <1>1. Len(a) \in Nat /\ Len(b) \in Nat
    BY DEF Paths
  <1>2. /\ Len(a) <= Len(p) /\ \A i \in 1..Len(a) : a[i] = p[i]
        /\ Len(b) <= Len(p) /\ \A i \in 1..Len(b) : b[i] = p[i]
    BY WithinPointwise
  <1>3. CASE Len(a) <= Len(b)
    <2>1. \A i \in 1..Len(a) : a[i] = b[i]
      BY <1>1, <1>2, <1>3
    <2> QED
      BY <1>3, <2>1, WithinPointwise
  <1>4. CASE Len(b) <= Len(a)
    <2>1. \A i \in 1..Len(b) : b[i] = a[i]
      BY <1>1, <1>2, <1>4
    <2> QED
      BY <1>4, <2>1, WithinPointwise
  <1> QED
    BY <1>1, <1>3, <1>4

\* Two paths that are in each other are one.
LEMMA WithinBoth ==
    ASSUME NEW a \in Paths, NEW b \in Paths, IsPathWithin(a, b), IsPathWithin(b, a)
    PROVE  a = b
  <1>1. Len(a) \in Nat /\ Len(b) \in Nat
    BY DEF Paths
  <1>2. /\ Len(a) <= Len(b) /\ Len(b) <= Len(a) /\ \A i \in 1..Len(a) : a[i] = b[i]
    BY WithinPointwise
  <1>3. Len(a) = Len(b)
    BY <1>1, <1>2
  <1> QED
    BY <1>2, <1>3 DEF Paths

\* Below a directory, a path on which no link lies leads to itself.
LEMMA Straight ==
    ASSUME NEW f, Tree(f), Resolves(f), NEW d \in Paths, IsDirOf(f, d),
           NEW p \in Paths, IsPathWithin(d, p),
           \A q \in Paths : IsLinkOf(f, q) /\ IsPathWithin(d, q) => ~IsPathWithin(q, p)
    PROVE  RealOf(f)[p] = p
  <1> DEFINE S == {r \in Paths : /\ IsPathWithin(d, r) /\ IsPathWithin(r, p)
                                 /\ RealOf(f)[r] # r}
  <1> SUFFICES ASSUME RealOf(f)[p] # p PROVE FALSE
    OBVIOUS
  <1>1. p \in S
    BY WithinSelf
  <1>2. PICK r \in S : \A r2 \in S : Len(r) <= Len(r2)
    <2>1. S \subseteq Paths /\ S # {}
      BY <1>1
    <2> QED
      BY <2>1, ShortestPath
  <1>3. r \in Paths /\ IsPathWithin(d, r) /\ IsPathWithin(r, p) /\ RealOf(f)[r] # r
    OBVIOUS
  <1>4. r # d
    <2>1. RealOf(f)[d] = d
      BY NodeReal DEF IsDirOf
    <2> QED
      BY <1>3, <2>1
  <1>5. r # <<>>
    BY <1>3, RealRoot
  <1>6. PICK b, s : b = Front(r) /\ s = Last(r)
    OBVIOUS
  <1>7. b \in Paths /\ s \in Segments /\ r = Append(b, s) /\ Len(b) < Len(r)
    <2>1. Len(r) \in Nat
      BY <1>3 DEF Paths
    <2> QED
      BY <1>3, <1>5, <1>6, <2>1, AppendOfFront
  <1>8. IsPathWithin(d, b) /\ IsPathWithin(b, p)
    <2>1. IsPathWithin(d, b)
      BY <1>3, <1>4, <1>5, <1>6, WithinFront
    <2>2. IsPathWithin(b, r)
      BY <1>7, WithinSelf, WithinAppend
    <2> QED
      BY <1>3, <1>7, <2>1, <2>2, WithinTransitive
  <1>9. RealOf(f)[b] = b
    <2>1. b \notin S
      <3>1. Len(b) \in Nat /\ Len(r) \in Nat
        BY <1>3, <1>7 DEF Paths
      <3> QED
        BY <1>2, <1>7, <3>1
    <2> QED
      BY <1>7, <1>8, <2>1
  <1>10. ~IsLinkOf(f, r)
    BY <1>3
  <1> QED
    <2>1. PICK a, e : a = Append(RealOf(f)[b], s) /\ e = Append(b, s)
      OBVIOUS
    <2>2. RealOf(f)[e] = IF IsLinkOf(f, a) THEN RealOf(f)[f[a].to] ELSE a
      BY <1>7, <2>1, RealStep
    <2>3. a = r /\ e = r
      BY <1>7, <1>9, <2>1, Zenon
    <2> QED
      BY <1>3, <1>10, <2>2, <2>3

\* The hook that runs has work to do.
Working ==
    pc \in {"link", "copy", "fill"} \/ (pc = "start" /\ Checked(Current))

\* No link of the worktree lies on the way to the destination of the hook that works,
\* and no link is in a destination that a copy fills.
DestinationClear ==
    Working /\ Current.type # "command" /\ Current.to.kind = "rel" =>
        \A p \in DOMAIN fs : fs[p].kind = "link" /\ IsPathWithin(Worktree, p) =>
            /\ ~IsPathWithin(p, Front(Target(Current)))
            /\ Current.type = "copy" => ~IsPathWithin(Target(Current), p)

\* Only paths of the worktree change.
OnlyWorktreeChanges ==
    \A p \in DOMAIN fs \cup DOMAIN fs' :
        ~IsPathWithin(Worktree, p) => p \in DOMAIN fs \cap DOMAIN fs' /\ fs'[p] = fs[p]

\* The new worktree stays a directory at its own place.
LEMMA WorktreeStays ==
    ASSUME FilesInv
    PROVE  /\ Sound(fs) /\ Tree(fs) /\ Resolves(fs) /\ Real = RealOf(fs)
           /\ Worktree \in Paths /\ IsDirOf(fs, Worktree)
           /\ \A q \in Paths : IsPathWithin(q, Worktree) => IsDirOf(fs, q) /\ Real[q] = q
  <1>1. Sound(fs) /\ Tree(fs) /\ Resolves(fs) /\ Real = RealOf(fs)
    BY RealChoice DEF FilesInv, Sound
  <1>2. Worktree \in Paths /\ IsDirOf(fs, Worktree)
    BY WorktreeIsDir DEF FilesInv
  <1>3. ASSUME NEW q \in Paths, IsPathWithin(q, Worktree)
        PROVE  IsDirOf(fs, q) /\ Real[q] = q
    <2>1. IsDirOf(fs, q)
      BY <1>1, <1>2, <1>3, TreeUp DEF IsDirOf
    <2>2. fs[q].kind # "link" /\ q \in DOMAIN fs
      BY <2>1 DEF IsDirOf
    <2> QED
      BY <1>1, <2>1, <2>2, NodeReal
  <1> QED
    BY <1>1, <1>2, <1>3

\* os.MkdirAll of a clear path of the worktree makes directories in the worktree.
LEMMA MadeWithin ==
    ASSUME FilesInv, NEW top \in Paths, IsPathWithin(Worktree, top),
           NEW p \in Paths, IsPathWithin(p, top), CanMkdirAll(p), NEW write \in BOOLEAN,
           \A q \in Paths : IsLinkOf(fs, q) /\ IsPathWithin(Worktree, q) =>
                               ~IsPathWithin(q, p),
           fs' = Made(fs, p, write)
    PROVE  OnlyWorktreeChanges
  <1>1. /\ Sound(fs) /\ Tree(fs) /\ Resolves(fs) /\ Real = RealOf(fs)
        /\ Worktree \in Paths /\ IsDirOf(fs, Worktree)
        /\ \A q \in Paths : IsPathWithin(q, Worktree) => IsDirOf(fs, q) /\ Real[q] = q
    BY WorktreeStays
  <1>2. /\ \A q \in DOMAIN fs : q \in DOMAIN fs' /\ fs'[q] = fs[q]
        /\ \A q \in DOMAIN fs' \ DOMAIN fs : \E m \in Missing(p) : q = Real[m]
    BY <1>1, MadeSound
  <1>3. ASSUME NEW m \in Missing(p) PROVE IsPathWithin(Worktree, Real[m])
    <2>1. m \in Paths /\ IsPathWithin(m, p) /\ ~Exists(m)
      BY PrefixesWithin DEF Missing
    <2>2. IsPathWithin(m, top)
      BY <2>1, WithinTransitive
    <2>3. ~IsPathWithin(m, Worktree)
      BY <1>1, <2>1 DEF Exists, IsDirOf
    <2>4. IsPathWithin(Worktree, m)
      BY <1>1, <2>1, <2>2, <2>3, WithinLinear
    <2>5. \A q \in Paths : IsLinkOf(fs, q) /\ IsPathWithin(Worktree, q) => ~IsPathWithin(q, m)
      BY <2>1, WithinTransitive
    <2>6. Real[m] = m
      BY <1>1, <2>1, <2>4, <2>5, Straight
    <2> QED
      BY <2>4, <2>6
  <1> QED
    BY <1>2, <1>3 DEF OnlyWorktreeChanges

\* What a copy has in hand leads to a place in the worktree.
LEMMA ItemWithin ==
    ASSUME FilesInv, TodoInv, DestinationClear, pc \in {"copy", "fill"}, todo # <<>>,
           Current.to.kind = "rel"
    PROVE  /\ Head(todo).dst \in Paths /\ IsPathWithin(Worktree, Head(todo).dst)
           /\ Real[Head(todo).dst] = Head(todo).dst
           /\ \A q \in Paths : IsLinkOf(fs, q) /\ IsPathWithin(Worktree, q) =>
                                  ~IsPathWithin(q, Head(todo).dst)
  <1>1. PICK d, dst : d = Head(todo).dst /\ dst = Target(Current)
    OBVIOUS
  <1>2. hooks # <<>> /\ Current.type = "copy" /\ Running
    BY DEF FilesInv, Running
  <1>3. d \in Paths /\ dst \in Paths /\ Source(Current) \in Paths
    BY <1>1, <1>2, CurrentType, HeadType
  <1>4. IsPathWithin(Worktree, dst) /\ Worktree \in Paths
    BY <1>1, WorktreeIsDir DEF TodoInv
  <1>5. IsPathWithin(dst, d)
    <2>1. Head(todo) = todo[1] /\ 1 \in 1..Len(todo)
      BY DEF FilesInv
    <2>2. PICK u \in Paths : d = dst \o u
      BY <1>1, <2>1 DEF TodoInv, SamePlace
    <2>3. IsPathWithin(dst, dst \o u)
      BY <1>3, JoinWithin
    <2> QED
      BY <2>2, <2>3, Zenon
  <1>6. IsPathWithin(Worktree, d)
    BY <1>3, <1>4, <1>5, WithinTransitive
  <1>7. ASSUME NEW q \in Paths, IsLinkOf(fs, q), IsPathWithin(Worktree, q),
               IsPathWithin(q, d)
        PROVE  FALSE
    <2>1. ~IsPathWithin(q, Front(dst)) /\ ~IsPathWithin(dst, q)
      BY <1>1, <1>2, <1>7 DEF DestinationClear, Working, IsLinkOf
    <2>2. IsPathWithin(q, dst)
      BY <1>3, <1>5, <1>7, <2>1, WithinLinear
    <2>3. q # dst
      BY <1>3, <2>1, WithinSelf
    <2>4. CASE dst = <<>>
      BY <2>1, <2>2, <2>4, FrontOfRoot
    <2>5. CASE dst # <<>>
      BY <1>3, <2>1, <2>2, <2>3, <2>5, WithinFront
    <2> QED
      BY <2>4, <2>5
  <1>8. Real[d] = d
    BY <1>3, <1>6, <1>7, WorktreeStays, Straight
  <1> QED
    BY <1>1, <1>3, <1>6, <1>7, <1>8

LEMMA StartWithin ==
    ASSUME FilesInv, DestinationClear, Start, Current.to.kind = "rel"
    PROVE  OnlyWorktreeChanges
  <1>1. CASE UNCHANGED fs
    BY <1>1 DEF OnlyWorktreeChanges
  <1>2. CASE ~UNCHANGED fs
    <2>1. PICK dst, p : dst = Target(Current) /\ p = Front(dst)
      OBVIOUS
    <2>2. PICK write \in BOOLEAN : write = TRUE
      OBVIOUS
    <2>3. /\ Checked(Current) /\ Current.type # "command" /\ Running /\ pc = "start"
          /\ \/ fs' = Made(fs, p, write) /\ CanMkdirAll(p)
             \/ ParentFails(p)
      BY <1>2, <2>1, <2>2 DEF Start, StartOK, Running
    <2>4. dst \in Paths /\ p \in Paths
      BY <2>1, <2>3, CurrentType, EntryPlace DEF FilesInv
    <2>5. IsPathWithin(Worktree, dst)
      <3>1. WithinBase(Worktree, Current.to)
        BY <2>3 DEF Checked
      <3> QED
        BY <2>1, <3>1 DEF WithinBase, Target
    <2>6. IsPathWithin(p, dst)
      <3>1. CASE dst = <<>>
        BY <2>1, <2>4, <3>1, FrontOfRoot, WithinSelf
      <3>2. CASE dst # <<>>
        BY <2>1, <2>4, <3>2, WithinFront, WithinSelf
      <3> QED
        BY <3>1, <3>2
    <2>7. \A q \in Paths : IsLinkOf(fs, q) /\ IsPathWithin(Worktree, q) => ~IsPathWithin(q, p)
      BY <2>1, <2>3 DEF DestinationClear, Working, IsLinkOf
    <2>8. PICK q \in Paths, w \in BOOLEAN :
            IsPathWithin(q, p) /\ CanMkdirAll(q) /\ fs' = Made(fs, q, w)
      <3>1. CASE fs' = Made(fs, p, write) /\ CanMkdirAll(p)
        BY <2>4, <3>1, WithinSelf
      <3>2. CASE ParentFails(p)
        BY <2>4, <3>2, ParentStays DEF FilesInv
      <3> QED
        BY <2>3, <3>1, <3>2
    <2>9. IsPathWithin(q, dst)
      BY <2>4, <2>6, <2>8, WithinTransitive
    <2>10. \A m \in Paths : IsLinkOf(fs, m) /\ IsPathWithin(Worktree, m) => ~IsPathWithin(m, q)
      BY <2>4, <2>7, <2>8, WithinTransitive
    <2> QED
      BY <2>4, <2>5, <2>8, <2>9, <2>10, MadeWithin
  <1> QED
    BY <1>1, <1>2

LEMMA LinkWithin ==
    ASSUME FilesInv, TodoInv, DestinationClear, Link, Current.to.kind = "rel"
    PROVE  OnlyWorktreeChanges
  <1>1. CASE UNCHANGED fs
    BY <1>1 DEF OnlyWorktreeChanges
  <1>2. CASE ~UNCHANGED fs
    <2>1. PICK dst, at : dst = Target(Current) /\ at = Entry(dst)
      OBVIOUS
    <2>2. /\ at \notin DOMAIN fs
          /\ DOMAIN fs' = DOMAIN fs \cup {at} /\ \A p \in DOMAIN fs : fs'[p] = fs[p]
      <3>1. PICK n : n = LinkTo(Current)
        OBVIOUS
      <3>2. /\ at \notin DOMAIN fs
            /\ fs' = [p \in DOMAIN fs \cup {at} |-> IF p = at THEN n ELSE fs[p]]
        BY <1>2, <2>1, <3>1 DEF Link, Fail
      <3> QED
        BY <3>2
    <2>3. /\ pc = "link" /\ Running /\ hooks # <<>> /\ Current.type # "command"
      BY DEF Link, FilesInv, Running
    <2>4. dst \in Paths /\ IsPathWithin(Worktree, dst) /\ at \in Paths
      BY <2>1, <2>3, CurrentType, EntryPlace DEF TodoInv, FilesInv
    <2>5. /\ Tree(fs) /\ Resolves(fs) /\ Real = RealOf(fs)
          /\ Worktree \in Paths /\ IsDirOf(fs, Worktree)
          /\ \A q \in Paths : IsPathWithin(q, Worktree) => IsDirOf(fs, q) /\ Real[q] = q
      BY WorktreeStays
    <2>6. dst # <<>>
      <3>1. Entry(<<>>) = <<>> /\ <<>> \in DOMAIN fs
        BY <2>5 DEF Entry, Tree, IsDirOf
      <3> QED
        BY <2>1, <2>2, <3>1
    <2>7. PICK b : b = Front(dst)
      OBVIOUS
    <2>8. b \in Paths /\ dst = Append(b, Last(dst)) /\ at = Append(Real[b], Last(dst))
      BY <2>1, <2>4, <2>6, <2>7, AppendOfFront DEF Entry
    <2>9. Worktree = dst \/ IsPathWithin(Worktree, b)
      BY <2>4, <2>5, <2>6, <2>7, WithinFront
    <2>10. \A q \in Paths : IsLinkOf(fs, q) /\ IsPathWithin(Worktree, q) => ~IsPathWithin(q, b)
      BY <2>1, <2>3, <2>7 DEF DestinationClear, Working, IsLinkOf
    <2>11. Real[b] = b
      <3>1. CASE Worktree = dst
        <4>1. IsPathWithin(b, dst)
          BY <2>4, <2>6, <2>7, <2>8, WithinFront, WithinSelf
        <4> QED
          BY <2>5, <2>8, <3>1, <4>1
      <3>2. CASE IsPathWithin(Worktree, b)
        BY <2>5, <2>8, <2>10, <3>2, Straight
      <3> QED
        BY <2>9, <3>1, <3>2
    <2>12. at = dst
      BY <2>8, <2>11
    <2> QED
      BY <2>2, <2>4, <2>12 DEF OnlyWorktreeChanges
  <1> QED
    BY <1>1, <1>2

LEMMA CopyWithin ==
    ASSUME FilesInv, TodoInv, DestinationClear, CopyDir \/ CopyOpen \/ CopyFill,
           Current.to.kind = "rel"
    PROVE  OnlyWorktreeChanges
  <1>1. CASE UNCHANGED fs
    BY <1>1 DEF OnlyWorktreeChanges
  <1>2. CASE ~UNCHANGED fs
    <2>1. pc \in {"copy", "fill"} /\ todo # <<>>
      BY DEF CopyDir, CopyOpen, CopyFill, FilesInv, Opened
    <2>2. PICK t : t = Head(todo)
      OBVIOUS
    <2>3. /\ t.dst \in Paths /\ IsPathWithin(Worktree, t.dst) /\ Real[t.dst] = t.dst
          /\ \A q \in Paths : IsLinkOf(fs, q) /\ IsPathWithin(Worktree, q) =>
                                 ~IsPathWithin(q, t.dst)
      BY <2>1, <2>2, ItemWithin
    <2>4. CASE CopyDir
      <3>1. PICK d : d = fs[Real[t.src]]
        OBVIOUS
      <3>2. /\ fs' = Made(fs, t.dst, d.write) /\ CanMkdirAll(t.dst)
            /\ Real[t.src] \in DOMAIN fs
        BY <1>2, <2>2, <2>4, <3>1 DEF CopyDir, Fail, IsDir, Exists
      <3>3. Node(d)
        BY <3>1, <3>2 DEF FilesInv, Sound, Tree
      <3>4. d.write \in BOOLEAN
        BY <3>3, Zenon DEF Node
      <3> QED
        BY <2>3, <3>2, <3>4, WithinSelf, MadeWithin
    <2>5. CASE CopyOpen
      <3>1. CanOpen(Head(todo))
        BY <1>2, <2>5 DEF CopyOpen, CanOpen, Fail
      <3>2. /\ DOMAIN fs' = DOMAIN fs \cup {t.dst}
            /\ \A q \in DOMAIN fs : q # t.dst => fs'[q] = fs[q]
        BY <2>2, <2>3, <2>5, <3>1, OpenWrites
      <3> QED
        BY <2>3, <3>2 DEF OnlyWorktreeChanges
    <2>6. CASE CopyFill
      <3>1. Real[t.src] \in DOMAIN fs /\ fs[Real[t.src]].kind = "file"
        BY <1>2, <2>2, <2>6 DEF CopyFill, Fail
      <3>2. /\ DOMAIN fs' = DOMAIN fs
            /\ \A q \in DOMAIN fs : q # t.dst => fs'[q] = fs[q]
        BY <2>2, <2>3, <2>6, <3>1, FillWrites
      <3> QED
        BY <2>3, <3>2 DEF OnlyWorktreeChanges
    <2> QED
      BY <2>4, <2>5, <2>6
  <1> QED
    BY <1>1, <1>2

\* A hook with a relative destination writes into the new worktree and nowhere else,
\* as long as no link of the worktree is in its way.  (An earlier hook may have made
\* one: that is the finding SharedCache shows.)
THEOREM OnlyWorktree == Spec /\ []DestinationClear => OnlyWorktreeWritten
  <1>1. FilesInv /\ TodoInv /\ DestinationClear /\ [Next]_vars =>
          [Running /\ Current.to.kind = "rel" /\ (Step \/ IOError) =>
             \A p \in DOMAIN fs \cup DOMAIN fs' :
                ~IsPathWithin(Worktree, p) =>
                    p \in DOMAIN fs \cap DOMAIN fs' /\ fs'[p] = fs[p]]_vars
    <2> SUFFICES ASSUME FilesInv, TodoInv, DestinationClear, Running,
                        Current.to.kind = "rel", Step \/ IOError
                 PROVE  OnlyWorktreeChanges
      BY DEF OnlyWorktreeChanges
    <2>1. CASE Load
      BY <2>1 DEF Load, Running
    <2>2. CASE Start
      BY <2>2, StartWithin
    <2>3. CASE Link
      BY <2>3, LinkWithin
    <2>4. CASE CopyDir \/ CopyOpen \/ CopyFill
      BY <2>4, CopyWithin
    <2>5. CASE CopyDone \/ Confirm \/ IOError
      BY <2>5 DEF CopyDone, Confirm, IOError, Fail, OnlyWorktreeChanges
    <2> QED
      BY <2>1, <2>2, <2>3, <2>4, <2>5 DEF Step
  <1> QED
    BY <1>1, FilesInvHolds, TodoInvHolds, PTL DEF Spec, OnlyWorktreeWritten

-----------------------------------------------------------------------------
(* Copies are complete.                                                    *)

\* The path u below p.
Below(p, u) == p \o u

LEMMA BelowType ==
    ASSUME NEW p \in Paths, NEW u \in Paths
    PROVE  Below(p, u) \in Paths /\ IsPathWithin(p, Below(p, u)) /\ Below(p, <<>>) = p
  BY JoinWithin DEF Below, Paths

LEMMA BelowNext ==
    ASSUME NEW p \in Paths, NEW u \in Paths, NEW s \in Segments
    PROVE  Below(p, Append(u, s)) = Append(Below(p, u), s)
  BY JoinAppend DEF Below

\* Below one path, places are told apart by the rest.
LEMMA BelowWithin ==
    ASSUME NEW p \in Paths, NEW u \in Paths, NEW w \in Paths
    PROVE  /\ IsPathWithin(Below(p, u), Below(p, w)) <=> IsPathWithin(u, w)
           /\ Below(p, u) = Below(p, w) <=> u = w
  <1>1. PICK a, b : a = Below(p, u) /\ b = Below(p, w)
    OBVIOUS
  <1>2. Len(p) \in Nat /\ Len(u) \in Nat /\ Len(w) \in Nat
    BY DEF Paths
  <1>3. /\ a \in Paths /\ Len(a) = Len(p) + Len(u)
        /\ \A i \in 1..Len(p) : a[i] = p[i]
        /\ \A i \in 1..Len(u) : a[Len(p) + i] = u[i]
    BY <1>1 DEF Below, Paths
  <1>4. /\ b \in Paths /\ Len(b) = Len(p) + Len(w)
        /\ \A i \in 1..Len(p) : b[i] = p[i]
        /\ \A i \in 1..Len(w) : b[Len(p) + i] = w[i]
    BY <1>1 DEF Below, Paths
  <1>5. ASSUME IsPathWithin(u, w) PROVE IsPathWithin(a, b)
    <2>1. Len(u) <= Len(w) /\ \A i \in 1..Len(u) : u[i] = w[i]
      BY <1>5, WithinPointwise
    <2>2. ASSUME NEW i \in 1..Len(a) PROVE a[i] = b[i]
      <3>1. CASE i <= Len(p)
        BY <1>2, <1>3, <1>4, <3>1
      <3>2. CASE ~(i <= Len(p))
        <4>1. PICK j \in 1..Len(u) : i = Len(p) + j
          <5>1. i - Len(p) \in 1..Len(u) /\ i = Len(p) + (i - Len(p))
            BY <1>2, <1>3, <3>2
          <5> QED
            BY <5>1
        <4> QED
          BY <1>2, <1>3, <1>4, <2>1, <4>1
      <3> QED
        BY <3>1, <3>2
    <2>3. Len(a) <= Len(b)
      BY <1>2, <1>3, <1>4, <2>1
    <2> QED
      BY <1>3, <1>4, <2>2, <2>3, WithinPointwise
  <1>6. ASSUME IsPathWithin(a, b) PROVE IsPathWithin(u, w)
    <2>1. Len(a) <= Len(b) /\ \A i \in 1..Len(a) : a[i] = b[i]
      BY <1>3, <1>4, <1>6, WithinPointwise
    <2>2. ASSUME NEW i \in 1..Len(u) PROVE u[i] = w[i]
      <3>1. Len(p) + i \in 1..Len(a) /\ i \in 1..Len(w)
        BY <1>2, <1>3, <1>4, <2>1
      <3> QED
        BY <1>3, <1>4, <2>1, <3>1
    <2>3. Len(u) <= Len(w)
      BY <1>2, <1>3, <1>4, <2>1
    <2> QED
      BY <2>2, <2>3, WithinPointwise
  <1>7. ASSUME a = b PROVE u = w
    <2>1. IsPathWithin(u, w)
      BY <1>3, <1>4, <1>6, <1>7, WithinSelf
    <2>2. Len(u) = Len(w) /\ Len(u) <= Len(w) /\ \A i \in 1..Len(u) : u[i] = w[i]
      BY <1>2, <1>3, <1>4, <1>7, <2>1, WithinPointwise
    <2> QED
      BY <2>2 DEF Paths
  <1> QED
    BY <1>1, <1>5, <1>6, <1>7

\* A path within p is below it.
LEMMA WithinBelow ==
    ASSUME NEW p \in Paths, NEW q \in Paths, IsPathWithin(p, q)
    PROVE  /\ SubSeq(q, Len(p) + 1, Len(q)) \in Paths
           /\ q = Below(p, SubSeq(q, Len(p) + 1, Len(q)))
  <1>1. /\ Len(p) \in Nat /\ Len(q) \in Nat /\ Len(p) <= Len(q)
        /\ \A i \in 1..Len(p) : p[i] = q[i]
    BY WithinPointwise DEF Paths
  <1>2. PICK w : w = SubSeq(q, Len(p) + 1, Len(q))
    OBVIOUS
  <1>3. /\ w \in Paths /\ Len(w) = Len(q) - Len(p)
        /\ \A i \in 1..Len(w) : w[i] = q[Len(p) + i]
    BY <1>1, <1>2 DEF Paths
  <1>4. PICK a : a = Below(p, w)
    OBVIOUS
  <1>5. /\ a \in Paths /\ Len(a) = Len(q)
        /\ \A i \in 1..Len(p) : a[i] = p[i]
        /\ \A i \in 1..Len(w) : a[Len(p) + i] = w[i]
    BY <1>1, <1>3, <1>4 DEF Below, Paths
  <1>6. ASSUME NEW i \in 1..Len(q) PROVE a[i] = q[i]
    <2>1. CASE i <= Len(p)
      BY <1>1, <1>5, <2>1
    <2>2. CASE ~(i <= Len(p))
      <3>1. i - Len(p) \in 1..Len(w) /\ i = Len(p) + (i - Len(p))
        BY <1>1, <1>3, <2>2
      <3> QED
        BY <1>3, <1>5, <3>1
    <2> QED
      BY <2>1, <2>2
  <1>7. a = q
    BY <1>5, <1>6 DEF Paths
  <1> QED
    BY <1>2, <1>3, <1>4, <1>7

\* The next segment on the way from u to w.
LEMMA NextSegment ==
    ASSUME NEW u \in Paths, NEW w \in Paths, IsPathWithin(u, w), u # w
    PROVE  \E s \in Segments : IsPathWithin(Append(u, s), w)
  <1>1. /\ Len(u) \in Nat /\ Len(w) \in Nat /\ Len(u) <= Len(w)
        /\ \A i \in 1..Len(u) : u[i] = w[i]
    BY WithinPointwise DEF Paths
  <1>2. Len(u) < Len(w)
    BY <1>1 DEF Paths
  <1>3. w[Len(u) + 1] \in Segments
    BY <1>1, <1>2 DEF Paths
  <1>4. PICK s \in Segments : s = w[Len(u) + 1]
    BY <1>3
  <1>5. PICK a : a = Append(u, s)
    OBVIOUS
  <1>6. /\ a \in Paths /\ Len(a) = Len(u) + 1
        /\ \A i \in 1..Len(u) : a[i] = u[i]
        /\ a[Len(u) + 1] = s
    BY <1>1, <1>5 DEF Paths
  <1>7. \A i \in 1..Len(a) : a[i] = w[i]
    BY <1>1, <1>4, <1>6
  <1>8. Len(a) <= Len(w)
    BY <1>1, <1>2, <1>6
  <1>9. IsPathWithin(a, w)
    BY <1>6, <1>7, <1>8, WithinPointwise
  <1> QED
    BY <1>5, <1>9

\* What leads to something is in a directory that leads to something.
LEMMA ExistsUp ==
    ASSUME NEW f, Tree(f), Resolves(f), NEW p \in Paths, RealOf(f)[p] \in DOMAIN f,
           NEW m \in Paths, IsPathWithin(m, p)
    PROVE  RealOf(f)[m] \in DOMAIN f
  <1> DEFINE S == {r \in Paths : IsPathWithin(m, r) /\ RealOf(f)[r] \in DOMAIN f}
  <1>1. p \in S
    OBVIOUS
  <1>2. PICK r \in S : \A r2 \in S : Len(r) <= Len(r2)
    <2>1. S \subseteq Paths /\ S # {}
      BY <1>1
    <2> QED
      BY <2>1, ShortestPath
  <1>3. r \in Paths /\ IsPathWithin(m, r) /\ RealOf(f)[r] \in DOMAIN f
    OBVIOUS
  <1> SUFFICES ASSUME r # m PROVE FALSE
    BY <1>3
  <1>4. r # <<>>
    <2>1. ASSUME r = <<>> PROVE m = <<>>
      <3>1. Len(m) <= Len(r)
        BY <1>3, WithinPointwise
      <3>2. Len(m) \in Nat /\ Len(r) = 0
        BY <2>1 DEF Paths
      <3> QED
        BY <3>1, <3>2 DEF Paths
    <2> QED
      BY <2>1
  <1>5. PICK b, s : b = Front(r) /\ s = Last(r)
    OBVIOUS
  <1>6. b \in Paths /\ s \in Segments /\ r = Append(b, s) /\ Len(b) < Len(r)
    <2>1. Len(r) \in Nat
      BY <1>3 DEF Paths
    <2> QED
      BY <1>3, <1>4, <1>5, <2>1, AppendOfFront
  <1>7. IsPathWithin(m, b)
    BY <1>3, <1>4, <1>5, WithinFront
  <1>8. RealOf(f)[b] \in DOMAIN f
    <2>1. PICK c, a : c = RealOf(f)[b] /\ a = Append(c, s)
      OBVIOUS
    <2>2. /\ c \in Paths /\ a \in Paths /\ Front(a) = c
      BY <1>6, <2>1, RealLeads, FrontOfAppend
    <2>3. RealOf(f)[r] = IF IsLinkOf(f, a) THEN RealOf(f)[f[a].to] ELSE a
      <3>1. PICK e : e = Append(b, s)
        OBVIOUS
      <3>2. RealOf(f)[e] = IF IsLinkOf(f, a) THEN RealOf(f)[f[a].to] ELSE a
        BY <1>6, <2>1, <3>1, RealStep
      <3> QED
        BY <1>6, <3>1, <3>2
    <2>4. a \in DOMAIN f
      BY <1>3, <2>3 DEF IsLinkOf
    <2> QED
      BY <2>1, <2>2, <2>4 DEF Tree, IsDirOf
  <1>9. Len(b) \in Nat /\ Len(r) \in Nat
    BY <1>3, <1>6 DEF Paths
  <1> QED
    BY <1>2, <1>6, <1>7, <1>8, <1>9

\* Where no link is in the directory that dst leads to, the paths below dst lead to
\* the paths below that directory.
LEMMA RealBelow ==
    ASSUME NEW f, Tree(f), Resolves(f), NEW dst \in Paths, NEW D, D = RealOf(f)[dst],
           \A p \in Paths : IsLinkOf(f, p) => ~IsPathWithin(D, p),
           NEW w \in Paths
    PROVE  RealOf(f)[Below(dst, w)] = Below(D, w)
  <1> DEFINE S == {v \in Paths : RealOf(f)[Below(dst, v)] # Below(D, v)}
  <1> SUFFICES ASSUME w \in S PROVE FALSE
    OBVIOUS
  <1>1. PICK v \in S : \A v2 \in S : Len(v) <= Len(v2)
    <2>1. S \subseteq Paths /\ S # {}
      OBVIOUS
    <2> QED
      BY <2>1, ShortestPath
  <1>2. v \in Paths /\ RealOf(f)[Below(dst, v)] # Below(D, v)
    OBVIOUS
  <1>3. D \in Paths
    BY RealLeads
  <1>4. v # <<>>
    BY <1>2, <1>3, BelowType
  <1>5. PICK b, s : b = Front(v) /\ s = Last(v)
    OBVIOUS
  <1>6. b \in Paths /\ s \in Segments /\ v = Append(b, s) /\ Len(b) < Len(v)
    <2>1. Len(v) \in Nat
      BY <1>2 DEF Paths
    <2> QED
      BY <1>2, <1>4, <1>5, <2>1, AppendOfFront
  <1>7. RealOf(f)[Below(dst, b)] = Below(D, b)
    <2>1. b \notin S
      <3>1. Len(b) \in Nat /\ Len(v) \in Nat
        BY <1>2, <1>6 DEF Paths
      <3> QED
        BY <1>1, <1>6, <3>1
    <2> QED
      BY <1>6, <2>1
  <1>8. PICK x, y, z : x = Below(dst, b) /\ y = Below(D, v) /\ z = Below(dst, v)
    OBVIOUS
  <1>9. /\ x \in Paths /\ y \in Paths /\ IsPathWithin(D, y) /\ z = Append(x, s)
        /\ y = Append(RealOf(f)[x], s)
    <2>1. /\ x \in Paths /\ y \in Paths /\ IsPathWithin(D, y)
      BY <1>2, <1>3, <1>6, <1>8, BelowType
    <2>2. Below(dst, Append(b, s)) = Append(Below(dst, b), s)
      BY <1>6, BelowNext
    <2>3. Below(D, Append(b, s)) = Append(Below(D, b), s)
      BY <1>3, <1>6, BelowNext
    <2> QED
      BY <1>6, <1>7, <1>8, <2>1, <2>2, <2>3, Zenon
  <1>10. ~IsLinkOf(f, y)
    BY <1>9
  <1>11. RealOf(f)[z] = y
    <2>1. PICK a, e : a = Append(RealOf(f)[x], s) /\ e = Append(x, s)
      OBVIOUS
    <2>2. RealOf(f)[e] = IF IsLinkOf(f, a) THEN RealOf(f)[f[a].to] ELSE a
      BY <1>6, <1>9, <2>1, RealStep
    <2>3. a = y /\ e = z
      BY <1>9, <2>1, Zenon
    <2> QED
      BY <1>10, <2>2, <2>3
  <1> QED
    BY <1>2, <1>8, <1>11

\* What a copy of S to D comes to, in the file system f.
Has(f, S, w) == Below(S, w) \in DOMAIN f /\ RealOf(f)[Below(S, w)] \in DOMAIN f

Copied(f, S, D, w) ==
    /\ Below(D, w) \in DOMAIN f
    /\ f[Below(D, w)].kind = f[RealOf(f)[Below(S, w)]].kind
    /\ f[Below(D, w)].data = f[RealOf(f)[Below(S, w)]].data

\* An item of todo is for the place u below the source and below the destination;
\* a directory is listed where it is, and no link leads to it.
IsItemFor(f, src, dst, S, t, u) ==
    /\ t.src = Below(src, u) /\ t.dst = Below(dst, u)
    /\ RealOf(f)[t.src] = RealOf(f)[Below(S, u)]
    /\ t.isDir => IsDirOf(f, Below(S, u)) /\ RealOf(f)[t.src] = Below(S, u)

\* A directory that is left to copy stands for all that is in it.
Covers(src, t, w) ==
    \E u \in Paths : t.src = Below(src, u) /\ IF t.isDir THEN IsPathWithin(u, w) ELSE u = w

CopyState(f, src, dst, S, D, items) ==
    /\ \A t \in items : \E u \in Paths : IsItemFor(f, src, dst, S, t, u)
    /\ \A w \in Paths : Has(f, S, w) =>
          Copied(f, S, D, w) \/ \E t \in items : Covers(src, t, w)

\* Source and destination are apart: no link is in the destination, no path of the
\* source leads into it, and the user removes nothing there.
Apart(f, S, D) ==
    /\ \A p \in Paths : IsLinkOf(f, p) => ~IsPathWithin(D, p)
    /\ \A p \in DOMAIN f : IsPathWithin(S, p) => ~IsPathWithin(D, RealOf(f)[p])
    /\ \A p \in Removable : ~IsPathWithin(D, p)

\* Nothing but one place of the destination changes: what the source has stays, and
\* so does what has been copied elsewhere.
LEMMA ApartKeeps ==
    ASSUME NEW f, Sound(f), NEW h, Sound(h), \A p \in Paths : RealOf(h)[p] = RealOf(f)[p],
           NEW S \in Paths, NEW D \in Paths, Apart(f, S, D), Apart(h, S, D),
           NEW at \in Paths, IsPathWithin(D, at), DOMAIN h = DOMAIN f \cup {at},
           \A p \in DOMAIN f : p # at => h[p] = f[p],
           NEW w \in Paths, Has(h, S, w)
    PROVE  /\ Has(f, S, w) /\ RealOf(f)[Below(S, w)] # at
           /\ h[RealOf(h)[Below(S, w)]] = f[RealOf(f)[Below(S, w)]]
           /\ Below(D, w) # at /\ Copied(f, S, D, w) => Copied(h, S, D, w)
  <1>1. PICK p, r : p = Below(S, w) /\ r = RealOf(f)[p]
    OBVIOUS
  <1>2. p \in Paths /\ IsPathWithin(S, p) /\ r \in Paths /\ RealOf(h)[p] = r
    BY <1>1, BelowType, RealLeads DEF Sound
  <1>3. p \in DOMAIN h /\ r \in DOMAIN h
    BY <1>1, <1>2 DEF Has
  <1>4. ~IsPathWithin(D, r)
    BY <1>2, <1>3 DEF Apart
  <1>5. r # at
    BY <1>4
  <1>6. p # at
    <2> SUFFICES ASSUME p = at PROVE FALSE
      OBVIOUS
    <2>1. ~IsLinkOf(h, p)
      BY <1>2 DEF Apart
    <2>2. RealOf(h)[p] = p
      BY <1>3, <2>1, NodeReal DEF Sound, IsLinkOf
    <2> QED
      BY <1>2, <1>5, <2>2
  <1>7. Has(f, S, w)
    BY <1>1, <1>3, <1>5, <1>6 DEF Has
  <1>8. h[r] = f[r]
    BY <1>3, <1>5
  <1>9. ASSUME Below(D, w) # at, Copied(f, S, D, w) PROVE Copied(h, S, D, w)
    <2>1. PICK q : q = Below(D, w)
      OBVIOUS
    <2>2. q \in DOMAIN f /\ f[q].kind = f[r].kind /\ f[q].data = f[r].data
      BY <1>1, <1>9, <2>1 DEF Copied
    <2>3. q \in DOMAIN h /\ h[q] = f[q]
      BY <1>9, <2>1, <2>2
    <2> QED
      BY <1>1, <1>2, <1>8, <2>1, <2>2, <2>3 DEF Copied
  <1> QED
    BY <1>1, <1>2, <1>5, <1>7, <1>8, <1>9

\* Items stay items while Real and the directories stay.
LEMMA ItemsKeep ==
    ASSUME NEW f, NEW h, Sound(f), \A p \in Paths : RealOf(h)[p] = RealOf(f)[p],
           \A p \in Paths : IsDirOf(f, p) => IsDirOf(h, p),
           NEW src \in Paths, NEW dst \in Paths, NEW S \in Paths, NEW t, NEW u \in Paths,
           IsItemFor(f, src, dst, S, t, u)
    PROVE  IsItemFor(h, src, dst, S, t, u)
  <1>1. PICK a, b, c : a = Below(src, u) /\ b = Below(S, u) /\ c = Below(dst, u)
    OBVIOUS
  <1>2. a \in Paths /\ b \in Paths
    BY <1>1, BelowType
  <1> QED
    BY <1>1, <1>2 DEF IsItemFor

\* What lists a directory stands for what is in it.
LEMMA EntriesCover ==
    ASSUME Sound(fs), NEW src \in Paths, NEW dst \in Paths, NEW S \in Paths,
           NEW t, NEW u \in Paths, IsItemFor(fs, src, dst, S, t, u), t.isDir,
           NEW w \in Paths, IsPathWithin(u, w), u # w, Below(S, w) \in DOMAIN fs
    PROVE  \E i \in DOMAIN Entries(t) : Covers(src, Entries(t)[i], w)
  <1>1. PICK s \in Segments : IsPathWithin(Append(u, s), w)
    BY NextSegment
  <1>2. PICK v, p : v = Append(u, s) /\ p = Below(S, v)
    OBVIOUS
  <1>3. v \in Paths /\ IsPathWithin(v, w)
    BY <1>1, <1>2, FrontOfAppend
  <1>4. p \in Paths /\ p = Append(Below(S, u), s)
    BY <1>2, <1>3, BelowType, BelowNext
  <1>5. t.src = Below(src, u) /\ t.dst = Below(dst, u) /\ Real[t.src] = Below(S, u)
    BY RealChoice DEF IsItemFor
  <1>6. t.src \in Paths /\ t.dst \in Paths
    BY <1>5, BelowType
  <1>7. p \in DOMAIN fs /\ (v # w => fs[p].kind = "dir")
    <2>1. PICK q : q = Below(S, w)
      OBVIOUS
    <2>2. q \in Paths /\ q \in DOMAIN fs /\ IsPathWithin(p, q) /\ (p = q <=> v = w)
      BY <1>2, <1>3, <2>1, BelowType, BelowWithin
    <2>3. CASE v = w
      BY <2>2, <2>3
    <2>4. CASE v # w
      BY <1>4, <2>2, <2>4, TreeUp DEF Sound, IsDirOf
    <2> QED
      BY <2>3, <2>4
  <1>8. Append(Real[t.src], s) = p
    BY <1>4, <1>5, Zenon
  <1>9. PICK i \in DOMAIN Entries(t) : Entries(t)[i] = ItemAt(t, s)
    BY <1>6, <1>7, <1>8, EntriesAre
  <1>10. /\ ItemAt(t, s).src = Append(t.src, s)
         /\ ItemAt(t, s).isDir = (fs[p].kind = "dir")
    BY <1>8 DEF ItemAt, IsDirEntry
  <1>11. Append(t.src, s) = Below(src, v)
    <2>1. Below(src, Append(u, s)) = Append(Below(src, u), s)
      BY BelowNext
    <2> QED
      BY <1>2, <1>5, <2>1, Zenon
  <1>12. Covers(src, ItemAt(t, s), w)
    <2>1. PICK x : x = ItemAt(t, s)
      OBVIOUS
    <2>2. x.src = Below(src, v) /\ (x.isDir <=> fs[p].kind = "dir")
      BY <1>10, <1>11, <2>1
    <2>3. Covers(src, x, w)
      BY <1>3, <1>7, <2>2 DEF Covers
    <2> QED
      BY <2>1, <2>3
  <1> QED
    BY <1>9, <1>12

\* What lists a directory is in its place.
LEMMA EntriesItems ==
    ASSUME Sound(fs), NEW src \in Paths, NEW dst \in Paths, NEW S \in Paths,
           NEW t, NEW u \in Paths, IsItemFor(fs, src, dst, S, t, u), t.isDir,
           NEW i \in DOMAIN Entries(t)
    PROVE  \E v \in Paths : IsItemFor(fs, src, dst, S, Entries(t)[i], v)
  <1>1. PICK g : g = RealOf(fs)
    OBVIOUS
  <1>2. t.src = Below(src, u) /\ t.dst = Below(dst, u) /\ Real[t.src] = Below(S, u)
    BY RealChoice DEF IsItemFor
  <1>3. t.src \in Paths /\ t.dst \in Paths /\ Below(S, u) \in Paths /\ Real = g
    BY <1>1, <1>2, BelowType, RealChoice
  <1>4. PICK s \in Segments :
          Append(Real[t.src], s) \in DOMAIN fs /\ Entries(t)[i] = ItemAt(t, s)
    BY <1>3, EntriesAre
  <1>5. PICK v, p, a, x : /\ v = Append(u, s) /\ p = Below(S, v) /\ a = Below(src, v)
                          /\ x = ItemAt(t, s)
    OBVIOUS
  <1>6. v \in Paths /\ p \in Paths /\ a \in Paths
    BY <1>5, FrontOfAppend, BelowType
  <1>7. /\ Append(Real[t.src], s) = p /\ Append(t.src, s) = a
        /\ Append(t.dst, s) = Below(dst, v) /\ Append(Below(S, u), s) = p
    <2>1. /\ Below(src, Append(u, s)) = Append(Below(src, u), s)
          /\ Below(S, Append(u, s)) = Append(Below(S, u), s)
          /\ Below(dst, Append(u, s)) = Append(Below(dst, u), s)
      BY BelowNext
    <2> QED
      BY <1>2, <1>5, <2>1, Zenon
  <1>8. /\ x.src = a /\ x.dst = Below(dst, v) /\ (x.isDir <=> fs[p].kind = "dir")
        /\ p \in DOMAIN fs
    <2>1. /\ x.src = Append(t.src, s) /\ x.dst = Append(t.dst, s)
          /\ x.isDir = (fs[Append(Real[t.src], s)].kind = "dir")
      BY <1>5 DEF ItemAt, IsDirEntry
    <2> QED
      BY <1>4, <1>7, <2>1
  <1>9. g[a] = IF IsLinkOf(fs, p) THEN g[fs[p].to] ELSE p
    <2>1. PICK b, e : b = t.src /\ e = Append(Below(S, u), s)
      OBVIOUS
    <2>2. b \in Paths /\ g[b] = Below(S, u)
      BY <1>2, <1>3, <2>1
    <2>3. PICK y, z : y = Append(g[b], s) /\ z = Append(b, s)
      OBVIOUS
    <2>4. g[z] = IF IsLinkOf(fs, y) THEN g[fs[y].to] ELSE y
      BY <1>1, <2>2, <2>3, RealStep DEF Sound
    <2>5. y = p /\ z = a
      BY <1>7, <2>1, <2>2, <2>3, Zenon
    <2> QED
      BY <2>4, <2>5
  <1>10. g[p] = IF IsLinkOf(fs, p) THEN g[fs[p].to] ELSE p
    <2>1. PICK b : b = Below(S, u)
      OBVIOUS
    <2>2. b \in Paths /\ g[b] = b
      <3>1. b \in DOMAIN fs /\ fs[b].kind = "dir"
        BY <2>1 DEF IsItemFor, IsDirOf
      <3> QED
        BY <1>1, <1>3, <2>1, <3>1, NodeReal DEF Sound
    <2>3. PICK y : y = Append(b, s)
      OBVIOUS
    <2>4. PICK z : z = Append(g[b], s)
      OBVIOUS
    <2>5. g[y] = IF IsLinkOf(fs, z) THEN g[fs[z].to] ELSE z
      BY <1>1, <2>2, <2>3, <2>4, RealStep DEF Sound
    <2>6. y = p /\ z = p
      BY <1>7, <2>1, <2>2, <2>3, <2>4, Zenon
    <2> QED
      BY <2>5, <2>6
  <1>11. x.isDir => IsDirOf(fs, p) /\ g[a] = p
    BY <1>8, <1>9 DEF IsDirOf, IsLinkOf
  <1>12. IsItemFor(fs, src, dst, S, x, v)
    BY <1>1, <1>5, <1>8, <1>9, <1>10, <1>11 DEF IsItemFor
  <1> QED
    BY <1>4, <1>5, <1>6, <1>12

\* The items of a list.
ItemsOf(list) == {list[i] : i \in 1..Len(list)}

LEMMA ItemsOfJoin ==
    ASSUME NEW a \in Seq(Items), NEW b \in Seq(Items)
    PROVE  ItemsOf(a \o b) = ItemsOf(a) \cup ItemsOf(b)
  <1>1. PICK c : c = a \o b
    OBVIOUS
  <1>2. /\ Len(a) \in Nat /\ Len(b) \in Nat /\ Len(c) = Len(a) + Len(b)
        /\ \A i \in 1..Len(a) : c[i] = a[i]
        /\ \A i \in 1..Len(b) : c[Len(a) + i] = b[i]
    BY <1>1
  <1>3. \A i \in 1..Len(c) : c[i] \in ItemsOf(a) \cup ItemsOf(b)
    <2> SUFFICES ASSUME NEW i \in 1..Len(c) PROVE c[i] \in ItemsOf(a) \cup ItemsOf(b)
      OBVIOUS
    <2>1. CASE i <= Len(a)
      BY <1>2, <2>1 DEF ItemsOf
    <2>2. CASE ~(i <= Len(a))
      <3>1. i - Len(a) \in 1..Len(b) /\ i = Len(a) + (i - Len(a))
        BY <1>2, <2>2
      <3>2. c[i] = b[i - Len(a)]
        BY <1>2, <3>1
      <3> QED
        BY <3>1, <3>2 DEF ItemsOf
    <2> QED
      BY <2>1, <2>2
  <1>4. \A i \in 1..Len(a) : i \in 1..Len(c) /\ a[i] = c[i]
    BY <1>2
  <1>5. \A i \in 1..Len(b) : Len(a) + i \in 1..Len(c) /\ b[i] = c[Len(a) + i]
    BY <1>2
  <1>6. ItemsOf(c) = ItemsOf(a) \cup ItemsOf(b)
    <2>1. ItemsOf(c) \subseteq ItemsOf(a) \cup ItemsOf(b)
      BY <1>3 DEF ItemsOf
    <2>2. ItemsOf(a) \subseteq ItemsOf(c)
      BY <1>4 DEF ItemsOf
    <2>3. ItemsOf(b) \subseteq ItemsOf(c)
      BY <1>5 DEF ItemsOf
    <2> QED
      BY <2>1, <2>2, <2>3
  <1> QED
    BY <1>1, <1>6

LEMMA ItemsOfTail ==
    ASSUME NEW a \in Seq(Items), a # <<>>
    PROVE  ItemsOf(a) = {Head(a)} \cup ItemsOf(Tail(a))
  <1>1. PICK b, x : b = Tail(a) /\ x = Head(a)
    OBVIOUS
  <1>2. /\ Len(a) \in Nat /\ Len(a) > 0 /\ Len(b) = Len(a) - 1 /\ x = a[1]
        /\ \A i \in 1..Len(b) : b[i] = a[i + 1]
    BY <1>1
  <1>3. \A i \in 1..Len(a) : a[i] = x \/ a[i] \in ItemsOf(b)
    <2> SUFFICES ASSUME NEW i \in 1..Len(a), i # 1 PROVE a[i] \in ItemsOf(b)
      BY <1>2
    <2>1. i - 1 \in 1..Len(b) /\ i = (i - 1) + 1
      BY <1>2
    <2>2. b[i - 1] = a[i]
      BY <1>2, <2>1
    <2> QED
      BY <2>1, <2>2 DEF ItemsOf
  <1>4. 1 \in 1..Len(a) /\ \A i \in 1..Len(b) : i + 1 \in 1..Len(a)
    BY <1>2
  <1>5. ItemsOf(a) = {x} \cup ItemsOf(b)
    BY <1>2, <1>3, <1>4 DEF ItemsOf
  <1> QED
    BY <1>1, <1>5

\* A copy is under way, or has just been confirmed.
Copying == pc \in {"copy", "fill", "confirm"} /\ Current.type = "copy"

CopyApart == Copying => Apart(fs, Real[Source(Current)], Real[Target(Current)])

CopyInv ==
    Copying =>
        /\ pc = "confirm" => todo = <<>>
        /\ CopyState(fs, Source(Current), Target(Current),
                     Real[Source(Current)], Real[Target(Current)], ItemsOf(todo))

\* A step within a copy: the paths of the hook lead where they led.
LEMMA CopyFrame ==
    ASSUME FilesInv, CopyInv, CopyApart, CopyApart', Copying, Copying',
           UNCHANGED <<hooks, hook>>, \A q \in Paths : RealOf(fs')[q] = Real[q],
           NEW src, NEW dst, NEW S, NEW D,
           src = Source(Current), dst = Target(Current), S = Real[src], D = Real[dst]
    PROVE  /\ Sound(fs) /\ Real = RealOf(fs)
           /\ src \in Paths /\ dst \in Paths /\ S \in Paths /\ D \in Paths
           /\ Apart(fs, S, D) /\ Apart(fs', S, D)
           /\ CopyState(fs, src, dst, S, D, ItemsOf(todo))
           /\ (pc' = "confirm" => todo' = <<>>)
                /\ CopyState(fs', src, dst, S, D, ItemsOf(todo')) => CopyInv'
  <1>1. hooks # <<>>
    BY DEF Copying, FilesInv, Running
  <1>2. Sound(fs) /\ Real = RealOf(fs) /\ Real' = RealOf(fs')
    BY RealChoice DEF FilesInv
  <1>3. src \in Paths /\ dst \in Paths /\ S \in Paths /\ D \in Paths
    BY <1>1, <1>2, CurrentType, EntryPlace
  <1>4. Source(Current)' = src /\ Target(Current)' = dst
    BY DEF Source, Target, Current
  <1>5. Real'[src] = S /\ Real'[dst] = D
    BY <1>2, <1>3
  <1>6. Apart(fs, S, D)
    BY DEF CopyApart
  <1>7. Apart(fs', S, D)
    BY <1>4, <1>5 DEF CopyApart
  <1>8. CopyState(fs, src, dst, S, D, ItemsOf(todo))
    BY DEF CopyInv
  <1>9. (pc' = "confirm" => todo' = <<>>)
          /\ CopyState(fs', src, dst, S, D, ItemsOf(todo')) => CopyInv'
    BY <1>4, <1>5 DEF CopyInv
  <1> QED
    BY <1>2, <1>3, <1>6, <1>7, <1>8, <1>9

LEMMA StartCopies ==
    ASSUME FilesInv, Start
    PROVE  CopyInv'
  <1> SUFFICES ASSUME Copying' PROVE CopyInv'
    BY DEF CopyInv
  <1>1. hooks # <<>> /\ UNCHANGED <<hooks, hook>> /\ Current' = Current
    BY DEF Start, FilesInv, Running, Current
  <1>2. /\ StartOK(Current) /\ Current.type = "copy" /\ pc' = "copy"
    BY <1>1 DEF Copying, Start, ParentFails
  <1>3. PICK src, dst, p, b : /\ src = Source(Current) /\ dst = Target(Current)
                              /\ p = Front(dst) /\ b = IsDir(src)
    OBVIOUS
  <1>4. PICK write \in BOOLEAN : write = TRUE
    OBVIOUS
  <1>5. PICK t : t = [src |-> src, dst |-> dst, isDir |-> b]
    OBVIOUS
  <1>6. fs' = Made(fs, p, write) /\ todo' = <<t>>
    <2>1. /\ fs' = Made(fs, Front(Target(Current)), TRUE)
          /\ todo' = IF Current.type = "symlink" THEN <<>>
                     ELSE <<[src |-> Source(Current), dst |-> Target(Current),
                             isDir |-> IsDir(Source(Current))]>>
      BY <1>2 DEF Start, ParentFails
    <2> QED
      BY <1>2, <1>3, <1>4, <1>5, <2>1, Zenon
  <1>7. ItemsOf(todo') = {t}
    <2>1. Len(<<t>>) = 1 /\ <<t>>[1] = t
      OBVIOUS
    <2>2. \A list : Len(list) = 1 /\ list[1] = t => ItemsOf(list) = {t}
      BY DEF ItemsOf
    <2> QED
      BY <1>6, <2>1, <2>2, Zenon
  <1>8. src \in Paths /\ dst \in Paths /\ p \in Paths /\ Sound(fs) /\ Real = RealOf(fs)
    BY <1>1, <1>3, CurrentType, EntryPlace, RealChoice DEF FilesInv
  <1>9. Exists(src) /\ CanMkdirAll(p)
    BY <1>2, <1>3 DEF StartOK, Checked
  <1>10. /\ Sound(fs') /\ \A q \in Paths : RealOf(fs')[q] = Real[q]
         /\ \A q \in DOMAIN fs : q \in DOMAIN fs' /\ fs'[q] = fs[q]
    BY <1>6, <1>8, <1>9, MadeSound
  <1>11. PICK S, D : S = Real[src] /\ D = Real[dst]
    OBVIOUS
  <1>12. /\ S \in Paths /\ S \in DOMAIN fs /\ RealOf(fs')[S] = S
         /\ b <=> IsDirOf(fs, S)
    <2>1. S \in Paths /\ RealOf(fs)[S] = S
      BY <1>8, <1>11, RealIsReal DEF Sound
    <2>2. S \in DOMAIN fs /\ (b <=> fs[S].kind = "dir")
      BY <1>3, <1>9, <1>11 DEF Exists, IsDir
    <2> QED
      BY <1>8, <1>10, <2>1, <2>2 DEF IsDirOf
  <1>13. <<>> \in Paths /\ \A w \in Paths : IsPathWithin(<<>>, w)
    <2>1. <<>> \in Paths
      BY DEF Paths
    <2>2. ASSUME NEW w \in Paths PROVE IsPathWithin(<<>>, w)
      <3>1. Below(<<>>, w) = w
        BY DEF Below, Paths
      <3>2. IsPathWithin(<<>>, Below(<<>>, w))
        BY <2>1, BelowType
      <3> QED
        BY <3>1, <3>2, Zenon
    <2> QED
      BY <2>1, <2>2
  <1>14. /\ t.src = src /\ t.dst = dst /\ (t.isDir <=> b)
         /\ Below(src, <<>>) = src /\ Below(dst, <<>>) = dst /\ Below(S, <<>>) = S
    BY <1>5, <1>8, <1>12, BelowType
  <1>15. PICK e : e = <<>>
    OBVIOUS
  <1>16. IsItemFor(fs', src, dst, S, t, e)
    <2>1. b => IsDirOf(fs', S)
      BY <1>10, <1>12 DEF IsDirOf
    <2> QED
      BY <1>8, <1>10, <1>11, <1>12, <1>14, <1>15, <2>1 DEF IsItemFor
  <1>17. ASSUME NEW w \in Paths, Has(fs', S, w) PROVE Covers(src, t, w)
    <2>1. CASE b
      BY <1>13, <1>14, <1>15, <2>1 DEF Covers
    <2>2. CASE ~b
      <3>1. PICK q : q = Below(S, w)
        OBVIOUS
      <3>2. q \in DOMAIN fs' /\ q \in Paths /\ IsPathWithin(S, q)
        BY <1>12, <1>17, <3>1, BelowType DEF Has
      <3>3. ~IsDirOf(fs', S)
        BY <1>10, <1>12, <2>2 DEF IsDirOf
      <3>4. q = S
        BY <1>10, <1>12, <3>2, <3>3, TreeUp DEF Sound
      <3>5. w = e
        <4>1. Below(S, w) = Below(S, e) <=> w = e
          BY <1>12, <1>13, <1>15, BelowWithin
        <4> QED
          BY <1>14, <1>15, <3>1, <3>4, <4>1, Zenon
      <3> QED
        BY <1>13, <1>14, <1>15, <2>2, <3>5 DEF Covers
    <2> QED
      BY <2>1, <2>2
  <1>18. CopyState(fs', src, dst, S, D, {t})
    BY <1>13, <1>15, <1>16, <1>17 DEF CopyState
  <1>19. Source(Current)' = src /\ Target(Current)' = dst
    BY <1>1, <1>3 DEF Source, Target
  <1>20. Real'[src] = S /\ Real'[dst] = D
    BY <1>8, <1>10, <1>11, RealChoice
  <1> QED
    BY <1>2, <1>7, <1>18, <1>19, <1>20 DEF CopyInv

\* What the item t in hand is for: the place u, and where it goes.
HeadFor(src, dst, S, D, t, u) ==
    /\ IsItemFor(fs, src, dst, S, t, u)
    /\ Real[t.src] = Real[Below(S, u)] /\ Real[t.dst] = Below(D, u)
    /\ Below(D, u) \in Paths /\ IsPathWithin(D, Below(D, u))
    /\ \A w \in Paths : Below(D, w) = Below(D, u) <=> w = u
    /\ t.isDir => \A w \in Paths : Covers(src, t, w) <=> IsPathWithin(u, w)
    /\ ~t.isDir => \A w \in Paths : Covers(src, t, w) <=> u = w

LEMMA HeadItem ==
    ASSUME FilesInv, todo # <<>>, NEW src \in Paths, NEW dst \in Paths,
           NEW S \in Paths, NEW D \in Paths, D = Real[dst], Apart(fs, S, D),
           CopyState(fs, src, dst, S, D, ItemsOf(todo)), NEW t, t = Head(todo)
    PROVE  /\ ItemsOf(todo) = {t} \cup ItemsOf(Tail(todo))
           /\ \E u \in Paths : HeadFor(src, dst, S, D, t, u)
  <1>1. ItemsOf(todo) = {t} \cup ItemsOf(Tail(todo))
    BY ItemsOfTail DEF FilesInv
  <1>2. PICK u \in Paths : IsItemFor(fs, src, dst, S, t, u)
    BY <1>1 DEF CopyState
  <1>3. t.src = Below(src, u) /\ t.dst = Below(dst, u) /\ Real[t.src] = Real[Below(S, u)]
    BY <1>2, RealChoice DEF IsItemFor
  <1>4. /\ t.src \in Paths /\ t.dst \in Paths /\ Below(D, u) \in Paths
        /\ IsPathWithin(D, Below(D, u))
    BY <1>3, BelowType
  <1>5. Real[t.dst] = Below(D, u)
    <2>1. \A p \in Paths : IsLinkOf(fs, p) => ~IsPathWithin(D, p)
      BY DEF Apart
    <2> QED
      BY <1>3, <2>1, RealBelow, RealChoice DEF FilesInv, Sound
  <1>6. \A w \in Paths : Below(D, w) = Below(D, u) <=> w = u
    BY BelowWithin
  <1>7. \A v \in Paths : t.src = Below(src, v) <=> v = u
    <2>1. \A v \in Paths : Below(src, u) = Below(src, v) <=> u = v
      BY BelowWithin
    <2> QED
      BY <1>3, <2>1
  <1>8. /\ t.isDir => \A w \in Paths : Covers(src, t, w) <=> IsPathWithin(u, w)
        /\ ~t.isDir => \A w \in Paths : Covers(src, t, w) <=> u = w
    BY <1>7 DEF Covers
  <1>9. HeadFor(src, dst, S, D, t, u)
    BY <1>2, <1>3, <1>4, <1>5, <1>6, <1>8 DEF HeadFor
  <1> QED
    BY <1>1, <1>9

LEMMA CopyDirCopies ==
    ASSUME FilesInv, CopyInv, CopyApart, CopyApart', CopyDir
    PROVE  CopyInv'
  <1> SUFFICES ASSUME Copying' PROVE CopyInv'
    BY DEF CopyInv
  <1>1. /\ pc = "copy" /\ pc' = "copy" /\ todo # <<>> /\ Copying /\ UNCHANGED <<hooks, hook>>
    BY DEF CopyDir, Fail, Copying, FilesInv
  <1>2. PICK t, d : t = Head(todo) /\ d = fs[Real[t.src]]
    OBVIOUS
  <1>3. /\ t.isDir /\ IsDir(t.src) /\ ParentWritable(t.dst) /\ CanMkdirAll(t.dst)
        /\ fs' = Made(fs, t.dst, d.write) /\ todo' = Entries(t) \o Tail(todo)
    BY <1>1, <1>2 DEF CopyDir, Fail
  <1>4. /\ t.src \in Paths /\ t.dst \in Paths /\ Tail(todo) \in Seq(Items)
        /\ Sound(fs) /\ Real = RealOf(fs)
    BY <1>1, <1>2, HeadType, RealChoice DEF FilesInv
  <1>5. d.write \in BOOLEAN
    <2>1. Node(d)
      BY <1>2, <1>3, <1>4 DEF IsDir, Exists, Sound, Tree
    <2> QED
      BY <2>1, Zenon DEF Node
  <1>6. PICK at : at = Real[t.dst]
    OBVIOUS
  <1>7. /\ Sound(fs') /\ \A q \in Paths : RealOf(fs')[q] = Real[q]
        /\ \A q \in DOMAIN fs : q \in DOMAIN fs' /\ fs'[q] = fs[q]
        /\ \A q \in DOMAIN fs' \ DOMAIN fs : \E m \in Missing(t.dst) : q = Real[m]
        /\ IsDirOf(fs', at)
    BY <1>3, <1>4, <1>5, <1>6, MadeSound
  <1>8. \A q \in Paths : IsDirOf(fs, q) => IsDirOf(fs', q)
    BY <1>7 DEF IsDirOf
  <1>9. \A m \in Missing(t.dst) : m = t.dst
    <2> SUFFICES ASSUME NEW m \in Missing(t.dst), m # t.dst PROVE FALSE
      OBVIOUS
    <2>1. m \in Paths /\ IsPathWithin(m, t.dst) /\ ~Exists(m)
      BY <1>4, PrefixesWithin DEF Missing
    <2>2. Exists(Front(t.dst)) /\ Front(t.dst) \in Paths
      BY <1>3, <1>4, EntryPlace DEF ParentWritable, IsDir
    <2>3. IsPathWithin(m, Front(t.dst))
      <3>1. CASE t.dst = <<>>
        BY <2>1, <3>1, FrontOfRoot
      <3>2. CASE t.dst # <<>>
        BY <1>4, <2>1, <3>2, WithinFront
      <3> QED
        BY <3>1, <3>2
    <2> QED
      BY <1>4, <2>1, <2>2, <2>3, ExistsUp DEF Exists, Sound
  <1>10. DOMAIN fs' = DOMAIN fs \cup {at}
    BY <1>6, <1>7, <1>9 DEF IsDirOf
  <1>11. PICK src, dst, S, D : /\ src = Source(Current) /\ dst = Target(Current)
                               /\ S = Real[src] /\ D = Real[dst]
    OBVIOUS
  <1>12. /\ src \in Paths /\ dst \in Paths /\ S \in Paths /\ D \in Paths
         /\ Apart(fs, S, D) /\ Apart(fs', S, D)
         /\ CopyState(fs, src, dst, S, D, ItemsOf(todo))
         /\ (pc' = "confirm" => todo' = <<>>)
              /\ CopyState(fs', src, dst, S, D, ItemsOf(todo')) => CopyInv'
    BY <1>1, <1>7, <1>11, CopyFrame
  <1>13. /\ ItemsOf(todo) = {t} \cup ItemsOf(Tail(todo))
         /\ \E u \in Paths : HeadFor(src, dst, S, D, t, u)
    BY <1>1, <1>2, <1>11, <1>12, HeadItem
  <1>14. PICK u \in Paths : HeadFor(src, dst, S, D, t, u)
    BY <1>13
  <1>15. /\ IsItemFor(fs, src, dst, S, t, u)
         /\ Real[t.src] = Real[Below(S, u)] /\ at = Below(D, u)
         /\ at \in Paths /\ IsPathWithin(D, at)
         /\ t.isDir => \A w \in Paths : Covers(src, t, w) <=> IsPathWithin(u, w)
         /\ ~t.isDir => \A w \in Paths : Covers(src, t, w) <=> u = w
    BY <1>14, <1>6 DEF HeadFor
  <1>16. PICK e : e = Entries(t)
    OBVIOUS
  <1>17. e \in Seq(Items) /\ DOMAIN e = 1..Len(e)
    <2>1. e \in Seq(Items)
      BY <1>4, <1>16, EntriesAre
    <2> QED
      BY <2>1
  <1>18. ItemsOf(todo') = ItemsOf(e) \cup ItemsOf(Tail(todo))
    BY <1>3, <1>4, <1>16, <1>17, ItemsOfJoin
  <1>19. \A x \in ItemsOf(e) : \E v \in Paths : IsItemFor(fs, src, dst, S, x, v)
    <2> SUFFICES ASSUME NEW i \in 1..Len(e)
                 PROVE  \E v \in Paths : IsItemFor(fs, src, dst, S, e[i], v)
      BY DEF ItemsOf
    <2>1. i \in DOMAIN Entries(t)
      BY <1>16, <1>17
    <2>2. \E v \in Paths : IsItemFor(fs, src, dst, S, Entries(t)[i], v)
      BY <1>3, <1>4, <1>12, <1>15, <2>1, EntriesItems
    <2> QED
      BY <1>16, <2>2
  <1>20. \A x \in ItemsOf(todo') : \E v \in Paths : IsItemFor(fs', src, dst, S, x, v)
    <2>1. \A x \in ItemsOf(todo') : \E v \in Paths : IsItemFor(fs, src, dst, S, x, v)
      BY <1>12, <1>13, <1>18, <1>19 DEF CopyState
    <2> QED
      BY <1>4, <1>7, <1>8, <1>12, <2>1, ItemsKeep
  <1>21. ASSUME NEW w \in Paths, Has(fs', S, w)
         PROVE  Copied(fs', S, D, w) \/ \E x \in ItemsOf(todo') : Covers(src, x, w)
    <2>1. /\ Has(fs, S, w)
          /\ Below(D, w) # at /\ Copied(fs, S, D, w) => Copied(fs', S, D, w)
          /\ fs'[RealOf(fs')[Below(S, w)]] = fs[RealOf(fs)[Below(S, w)]]
      BY <1>4, <1>7, <1>10, <1>12, <1>15, <1>21, ApartKeeps
    <2>2. CASE Copied(fs, S, D, w)
      <3>1. Below(D, w) \in DOMAIN fs
        BY <2>2 DEF Copied
      <3> QED
        BY <1>7, <2>1, <2>2, <3>1 DEF Copied
    <2>3. CASE \E x \in ItemsOf(Tail(todo)) : Covers(src, x, w)
      BY <1>18, <2>3
    <2>4. CASE Covers(src, t, w) /\ u # w
      <3>1. IsPathWithin(u, w) /\ Below(S, w) \in DOMAIN fs
        <4>1. IsPathWithin(u, w)
          BY <1>3, <1>15, <2>4
        <4>2. Below(S, w) \in DOMAIN fs
          BY <2>1 DEF Has
        <4> QED
          BY <4>1, <4>2
      <3>2. \E i \in DOMAIN Entries(t) : Covers(src, Entries(t)[i], w)
        BY <1>3, <1>4, <1>12, <1>15, <2>4, <3>1, EntriesCover
      <3> QED
        BY <1>16, <1>17, <1>18, <3>2 DEF ItemsOf
    <2>5. CASE u = w
      <3>1. PICK r : r = Below(S, u)
        OBVIOUS
      <3>2. r \in DOMAIN fs /\ fs[r].kind = "dir" /\ RealOf(fs)[r] = r
        <4>1. IsDirOf(fs, r) /\ RealOf(fs)[t.src] = r /\ RealOf(fs)[t.src] = RealOf(fs)[r]
          BY <1>3, <1>15, <3>1 DEF IsItemFor
        <4> QED
          BY <4>1 DEF IsDirOf
      <3>3. fs[r].data = "" /\ fs'[at].data = "" /\ fs'[at].kind = "dir" /\ at \in DOMAIN fs'
        <4>1. Node(fs[r]) /\ Node(fs'[at]) /\ fs'[at].kind = "dir" /\ at \in DOMAIN fs'
          BY <1>4, <1>7, <3>2 DEF Sound, Tree, IsDirOf
        <4> QED
          BY <3>2, <4>1, Zenon DEF Node
      <3>4. Below(D, w) = at /\ fs'[RealOf(fs')[Below(S, w)]] = fs[r]
        BY <1>15, <2>1, <2>5, <3>1, <3>2
      <3>5. PICK b, c : b = Below(D, w) /\ c = RealOf(fs')[Below(S, w)]
        OBVIOUS
      <3>6. /\ b \in DOMAIN fs'
            /\ fs'[b].kind = fs'[c].kind /\ fs'[b].data = fs'[c].data
        BY <3>2, <3>3, <3>4, <3>5
      <3>7. Copied(fs', S, D, w)
        BY <3>5, <3>6 DEF Copied
      <3> QED
        BY <3>7
    <2>6. Copied(fs, S, D, w) \/ \E x \in ItemsOf(todo) : Covers(src, x, w)
      BY <1>12, <2>1 DEF CopyState
    <2> QED
      BY <1>13, <2>2, <2>3, <2>4, <2>5, <2>6
  <1>22. CopyState(fs', src, dst, S, D, ItemsOf(todo'))
    BY <1>20, <1>21 DEF CopyState
  <1> QED
    BY <1>1, <1>12, <1>22

LEMMA CopyOpenCopies ==
    ASSUME FilesInv, CopyInv, CopyApart, CopyApart', CopyOpen
    PROVE  CopyInv'
  <1> SUFFICES ASSUME Copying' PROVE CopyInv'
    BY DEF CopyInv
  <1>1. /\ pc = "copy" /\ pc' = "fill" /\ todo # <<>> /\ Copying /\ CanOpen(Head(todo))
        /\ ~Head(todo).isDir
    BY DEF CopyOpen, Fail, Copying, FilesInv, CanOpen
  <1>2. PICK t, at : t = Head(todo) /\ at = Real[t.dst]
    OBVIOUS
  <1>3. /\ UNCHANGED <<hooks, hook, todo>>
        /\ DOMAIN fs' = DOMAIN fs \cup {at}
        /\ \A q \in DOMAIN fs : q # at => fs'[q] = fs[q]
        /\ Sound(fs') /\ \A q \in Paths : RealOf(fs')[q] = Real[q]
        /\ \A q \in Paths : IsDirOf(fs, q) => IsDirOf(fs', q)
    BY <1>1, <1>2, OpenWrites
  <1>4. Sound(fs) /\ Real = RealOf(fs)
    BY RealChoice DEF FilesInv
  <1>5. PICK src, dst, S, D : /\ src = Source(Current) /\ dst = Target(Current)
                              /\ S = Real[src] /\ D = Real[dst]
    OBVIOUS
  <1>6. /\ src \in Paths /\ dst \in Paths /\ S \in Paths /\ D \in Paths
        /\ Apart(fs, S, D) /\ Apart(fs', S, D)
        /\ CopyState(fs, src, dst, S, D, ItemsOf(todo))
        /\ (pc' = "confirm" => todo' = <<>>)
             /\ CopyState(fs', src, dst, S, D, ItemsOf(todo')) => CopyInv'
    BY <1>1, <1>3, <1>5, CopyFrame
  <1>7. /\ ItemsOf(todo) = {t} \cup ItemsOf(Tail(todo))
        /\ \E u \in Paths : HeadFor(src, dst, S, D, t, u)
    BY <1>1, <1>2, <1>5, <1>6, HeadItem
  <1>8. PICK u \in Paths : HeadFor(src, dst, S, D, t, u)
    BY <1>7
  <1>9. /\ at \in Paths /\ IsPathWithin(D, at)
        /\ \A w \in Paths : Below(D, w) = at <=> w = u
        /\ t.isDir => \A w \in Paths : Covers(src, t, w) <=> IsPathWithin(u, w)
        /\ ~t.isDir => \A w \in Paths : Covers(src, t, w) <=> u = w
    BY <1>1, <1>2, <1>8 DEF HeadFor
  <1>10. \A x \in ItemsOf(todo') : \E v \in Paths : IsItemFor(fs', src, dst, S, x, v)
    <2>1. \A x \in ItemsOf(todo') : \E v \in Paths : IsItemFor(fs, src, dst, S, x, v)
      BY <1>3, <1>6 DEF CopyState
    <2> QED
      BY <1>3, <1>4, <1>6, <2>1, ItemsKeep
  <1>11. ASSUME NEW w \in Paths, Has(fs', S, w)
         PROVE  Copied(fs', S, D, w) \/ \E x \in ItemsOf(todo') : Covers(src, x, w)
    <2>1. Has(fs, S, w) /\ (Below(D, w) # at /\ Copied(fs, S, D, w) => Copied(fs', S, D, w))
      BY <1>3, <1>4, <1>6, <1>9, <1>11, ApartKeeps
    <2>2. Copied(fs, S, D, w) \/ \E x \in ItemsOf(todo) : Covers(src, x, w)
      BY <1>6, <2>1 DEF CopyState
    <2>3. w = u => \E x \in ItemsOf(todo) : Covers(src, x, w)
      BY <1>1, <1>2, <1>7, <1>9
    <2> QED
      BY <1>3, <1>9, <2>1, <2>2, <2>3
  <1>12. CopyState(fs', src, dst, S, D, ItemsOf(todo'))
    BY <1>10, <1>11 DEF CopyState
  <1> QED
    BY <1>1, <1>6, <1>12

LEMMA CopyFillCopies ==
    ASSUME FilesInv, CopyInv, CopyApart, CopyApart', CopyFill
    PROVE  CopyInv'
  <1> SUFFICES ASSUME Copying' PROVE CopyInv'
    BY DEF CopyInv
  <1>1. PICK t, at, s : t = Head(todo) /\ at = Real[t.dst] /\ s = Real[t.src]
    OBVIOUS
  <1>2. /\ pc = "fill" /\ pc' = "copy" /\ Copying /\ todo # <<>> /\ ~t.isDir
        /\ s \in DOMAIN fs /\ fs[s].kind = "file"
    BY <1>1 DEF CopyFill, Fail, Copying, FilesInv, Opened
  <1>3. /\ UNCHANGED <<hooks, hook>> /\ todo' = Tail(todo)
        /\ at \in DOMAIN fs /\ DOMAIN fs' = DOMAIN fs /\ fs'[at] = fs[s]
        /\ \A q \in DOMAIN fs : q # at => fs'[q] = fs[q]
        /\ Sound(fs') /\ \A q \in Paths : RealOf(fs')[q] = Real[q]
        /\ \A q \in Paths : IsDirOf(fs, q) => IsDirOf(fs', q)
    BY <1>1, <1>2, FillWrites
  <1>4. Sound(fs) /\ Real = RealOf(fs)
    BY RealChoice DEF FilesInv
  <1>5. PICK src, dst, S, D : /\ src = Source(Current) /\ dst = Target(Current)
                              /\ S = Real[src] /\ D = Real[dst]
    OBVIOUS
  <1>6. /\ src \in Paths /\ dst \in Paths /\ S \in Paths /\ D \in Paths
        /\ Apart(fs, S, D) /\ Apart(fs', S, D)
        /\ CopyState(fs, src, dst, S, D, ItemsOf(todo))
        /\ (pc' = "confirm" => todo' = <<>>)
             /\ CopyState(fs', src, dst, S, D, ItemsOf(todo')) => CopyInv'
    BY <1>2, <1>3, <1>5, CopyFrame
  <1>7. /\ ItemsOf(todo) = {t} \cup ItemsOf(Tail(todo))
        /\ \E u \in Paths : HeadFor(src, dst, S, D, t, u)
    BY <1>1, <1>2, <1>5, <1>6, HeadItem
  <1>8. PICK u \in Paths : HeadFor(src, dst, S, D, t, u)
    BY <1>7
  <1>9. /\ s = Real[Below(S, u)] /\ at = Below(D, u)
        /\ at \in Paths /\ IsPathWithin(D, at)
        /\ \A w \in Paths : Below(D, w) = at <=> w = u
        /\ t.isDir => \A w \in Paths : Covers(src, t, w) <=> IsPathWithin(u, w)
        /\ ~t.isDir => \A w \in Paths : Covers(src, t, w) <=> u = w
    BY <1>1, <1>2, <1>8 DEF HeadFor
  <1>10. \A x \in ItemsOf(todo') : \E v \in Paths : IsItemFor(fs', src, dst, S, x, v)
    <2>1. \A x \in ItemsOf(todo') : \E v \in Paths : IsItemFor(fs, src, dst, S, x, v)
      BY <1>3, <1>6, <1>7 DEF CopyState
    <2> QED
      BY <1>3, <1>4, <1>6, <2>1, ItemsKeep
  <1>11. ASSUME NEW w \in Paths, Has(fs', S, w)
         PROVE  Copied(fs', S, D, w) \/ \E x \in ItemsOf(todo') : Covers(src, x, w)
    <2>0. DOMAIN fs' = DOMAIN fs \cup {at}
      BY <1>3
    <2>1. /\ Has(fs, S, w) /\ (Below(D, w) # at /\ Copied(fs, S, D, w) => Copied(fs', S, D, w))
          /\ fs'[RealOf(fs')[Below(S, w)]] = fs[RealOf(fs)[Below(S, w)]]
      BY <1>3, <1>4, <1>6, <1>9, <1>11, <2>0, ApartKeeps
    <2>2. Copied(fs, S, D, w) \/ \E x \in ItemsOf(todo) : Covers(src, x, w)
      BY <1>6, <2>1 DEF CopyState
    <2>3. w = u => Copied(fs', S, D, w)
      <3>1. w = u => /\ Below(D, w) \in DOMAIN fs'
                     /\ fs'[Below(D, w)] = fs[s]
                     /\ fs'[RealOf(fs')[Below(S, w)]] = fs[s]
        BY <1>3, <1>4, <1>9, <2>1
      <3> QED
        BY <3>1, Zenon DEF Copied
    <2>4. Covers(src, t, w) => w = u
      BY <1>2, <1>9
    <2> QED
      BY <1>3, <1>7, <1>9, <2>1, <2>2, <2>3, <2>4
  <1>12. CopyState(fs', src, dst, S, D, ItemsOf(todo'))
    BY <1>10, <1>11 DEF CopyState
  <1> QED
    BY <1>2, <1>6, <1>12

LEMMA RemovalCopies ==
    ASSUME FilesInv, CopyInv, CopyApart, CopyApart', UserRemoves
    PROVE  CopyInv'
  <1> SUFFICES ASSUME Copying' PROVE CopyInv'
    BY DEF CopyInv
  <1>1. PICK p \in DOMAIN fs :
          /\ p \in Removable
          /\ UNCHANGED <<hooks, hook, todo, pc>>
          /\ DOMAIN fs' = DOMAIN fs \ {p} /\ \A q \in DOMAIN fs' : fs'[q] = fs[q]
          /\ Sound(fs') /\ \A q \in Paths : RealOf(fs')[q] = Real[q]
          /\ \A q \in Paths : IsDirOf(fs, q) => IsDirOf(fs', q)
    BY UserRemovesFile
  <1>2. Copying
    BY <1>1 DEF Copying, Current
  <1>3. Sound(fs) /\ Real = RealOf(fs)
    BY RealChoice DEF FilesInv
  <1>4. PICK src, dst, S, D : /\ src = Source(Current) /\ dst = Target(Current)
                              /\ S = Real[src] /\ D = Real[dst]
    OBVIOUS
  <1>5. /\ src \in Paths /\ dst \in Paths /\ S \in Paths /\ D \in Paths
        /\ Apart(fs, S, D)
        /\ CopyState(fs, src, dst, S, D, ItemsOf(todo))
        /\ (pc' = "confirm" => todo' = <<>>)
             /\ CopyState(fs', src, dst, S, D, ItemsOf(todo')) => CopyInv'
    BY <1>1, <1>2, <1>4, CopyFrame
  <1>6. \A x \in ItemsOf(todo') : \E v \in Paths : IsItemFor(fs', src, dst, S, x, v)
    <2>1. \A x \in ItemsOf(todo') : \E v \in Paths : IsItemFor(fs, src, dst, S, x, v)
      BY <1>1, <1>5 DEF CopyState
    <2> QED
      BY <1>1, <1>3, <1>5, <2>1, ItemsKeep
  <1>7. ASSUME NEW w \in Paths, Has(fs', S, w)
        PROVE  Copied(fs', S, D, w) \/ \E x \in ItemsOf(todo') : Covers(src, x, w)
    <2>1. PICK a, b : a = Below(S, w) /\ b = Below(D, w)
      OBVIOUS
    <2>2. a \in Paths /\ IsPathWithin(D, b) /\ RealOf(fs')[a] = RealOf(fs)[a]
      BY <1>1, <1>3, <1>5, <2>1, BelowType
    <2>3. Has(fs, S, w) /\ fs'[RealOf(fs')[a]] = fs[RealOf(fs)[a]]
      BY <1>1, <1>7, <2>1, <2>2 DEF Has
    <2>4. b # p
      BY <1>1, <1>5, <2>2 DEF Apart
    <2>5. Copied(fs, S, D, w) => Copied(fs', S, D, w)
      BY <1>1, <2>1, <2>3, <2>4 DEF Copied
    <2> QED
      BY <1>1, <1>5, <2>3, <2>5 DEF CopyState
  <1>8. CopyState(fs', src, dst, S, D, ItemsOf(todo'))
    BY <1>6, <1>7 DEF CopyState
  <1>9. CopyInv
    OBVIOUS
  <1>10. pc' = "confirm" => todo' = <<>>
    BY <1>1, <1>2 DEF CopyInv
  <1> QED
    BY <1>5, <1>8, <1>10

\* A copy hook is confirmed only when every file that its source has, at any depth,
\* is in its destination with the same content: as long as no link is in the
\* destination, the source does not lead into it, and the user removes nothing there.
THEOREM CopyComplete == Spec /\ []CopyApart => []CopyIsComplete
  <1>1. Init => CopyInv
    BY DEF Init, CopyInv, Copying
  <1>2. FilesInv /\ CopyInv /\ CopyApart /\ CopyApart' /\ [Next]_vars => CopyInv'
    <2> SUFFICES ASSUME FilesInv, CopyInv, CopyApart, CopyApart', [Next]_vars
                 PROVE  CopyInv'
      OBVIOUS
    <2>1. CASE Start
      BY <2>1, StartCopies
    <2>2. CASE CopyDir
      BY <2>2, CopyDirCopies
    <2>3. CASE CopyOpen
      BY <2>3, CopyOpenCopies
    <2>4. CASE CopyFill
      BY <2>4, CopyFillCopies
    <2>5. CASE UserRemoves
      BY <2>5, RemovalCopies
    <2>6. CASE CopyDone
      <3>1. /\ UNCHANGED <<fs, hooks, hook, todo>> /\ todo = <<>> /\ pc = "copy"
            /\ UNCHANGED Current /\ UNCHANGED Real
        BY <2>6, RealChoice DEF CopyDone, Current
      <3> QED
        BY <3>1 DEF CopyInv, Copying, Source, Target
    <2>7. CASE Load \/ Confirm \/ IOError
      <3>1. pc' \notin {"copy", "fill", "confirm"}
        BY <2>7 DEF Load, Confirm, IOError, Fail
      <3> QED
        BY <3>1 DEF CopyInv, Copying
    <2>8. CASE Link
      <3>1. pc' \in {"confirm", "failed"} /\ UNCHANGED Current /\ Current.type = "symlink"
        BY <2>8 DEF Link, Fail, Current, FilesInv
      <3> QED
        BY <3>1 DEF CopyInv, Copying
    <2>9. CASE UNCHANGED vars
      <3>1. /\ UNCHANGED <<fs, hooks, hook, todo, pc>>
            /\ UNCHANGED Current /\ UNCHANGED Real
        BY <2>9, RealChoice DEF vars, Current
      <3> QED
        BY <3>1 DEF CopyInv, Copying, Source, Target
    <2> QED
      BY <2>1, <2>2, <2>3, <2>4, <2>5, <2>6, <2>7, <2>8, <2>9 DEF Next, Step
  <1>3. FilesInv /\ CopyInv /\ CopyApart => CopyIsComplete
    <2> SUFFICES ASSUME FilesInv, CopyInv, CopyApart, pc = "confirm", Current.type = "copy"
                 PROVE  CopyIsComplete
      BY DEF CopyIsComplete
    <2>1. PICK src, dst, S, D : /\ src = Source(Current) /\ dst = Target(Current)
                                /\ S = Real[src] /\ D = Real[dst]
      OBVIOUS
    <2>2. /\ Sound(fs) /\ Tree(fs) /\ Resolves(fs) /\ Real = RealOf(fs)
          /\ DOMAIN fs \subseteq Paths /\ hooks # <<>> /\ Copying
      BY RealChoice DEF FilesInv, Sound, Tree, Paths, Running, Copying
    <2>3. src \in Paths /\ dst \in Paths /\ S \in Paths /\ D \in Paths
      BY <2>1, <2>2, CurrentType, EntryPlace
    <2>4. Apart(fs, S, D) /\ CopyState(fs, src, dst, S, D, ItemsOf(todo)) /\ todo = <<>>
      BY <2>1, <2>2 DEF CopyApart, CopyInv
    <2>5. ItemsOf(todo) = {}
      BY <2>4 DEF ItemsOf
    <2>6. ASSUME NEW p \in DOMAIN fs, IsPathWithin(S, p), Exists(p),
                 NEW q, q = dst \o SubSeq(p, Len(S) + 1, Len(p))
          PROVE  /\ Exists(q) /\ fs[Real[q]].kind = fs[Real[p]].kind
                 /\ fs[Real[q]].data = fs[Real[p]].data
      <3>1. PICK w : w = SubSeq(p, Len(S) + 1, Len(p))
        OBVIOUS
      <3>2. w \in Paths /\ p = Below(S, w) /\ q = Below(dst, w)
        BY <2>2, <2>3, <2>6, <3>1, WithinBelow DEF Below
      <3>3. Copied(fs, S, D, w)
        BY <2>2, <2>4, <2>5, <2>6, <3>2 DEF CopyState, Has, Exists
      <3>4. Real[q] = Below(D, w)
        <4>1. \A r \in Paths : IsLinkOf(fs, r) => ~IsPathWithin(D, r)
          BY <2>4 DEF Apart
        <4> QED
          BY <2>1, <2>2, <2>3, <3>2, <4>1, RealBelow
      <3> QED
        BY <2>2, <3>2, <3>3, <3>4 DEF Copied, Exists
    <2> QED
      BY <2>1, <2>6 DEF CopyIsComplete
  <1> QED
    BY <1>1, <1>2, <1>3, FilesInvHolds, PTL DEF Spec

-----------------------------------------------------------------------------
(* A project without links.                                                *)

\* The layout jtp init proposes: the worktrees are beside the main worktree; the hooks
\* copy from one to the other, and nothing is a symbolic link.
PlainProject ==
    /\ \A p \in DOMAIN InitFiles : InitFiles[p].kind # "link"
    /\ \A c \in Configs : \A i \in DOMAIN c :
          c[i].type # "symlink" /\ c[i].from.kind # "abs" /\ c[i].to.kind # "abs"
    /\ ~IsPathWithin(MainRoot, Worktree) /\ ~IsPathWithin(Worktree, MainRoot)
    /\ \A p \in Removable : IsPathWithin(MainRoot, p)

PlainInv ==
    /\ \A p \in DOMAIN fs : fs[p].kind # "link"
    /\ \A i \in 1..Len(hooks) :
          hooks[i].type # "symlink" /\ hooks[i].from.kind # "abs" /\ hooks[i].to.kind # "abs"
    /\ pc # "link"
    /\ Copying => /\ IsPathWithin(MainRoot, Source(Current))
                  /\ IsPathWithin(Worktree, Target(Current))

LEMMA PlainLoad ==
    ASSUME PlainProject, FilesInv, PlainInv, Load
    PROVE  PlainInv'
  <1>1. PICK c \in Configs :
          LET loaded == [i \in DOMAIN c |-> WithDefaults(c[i])]
          IN  IF \A i \in DOMAIN c : Valid(loaded[i])
                THEN hooks' = loaded /\ pc' = IF c = <<>> THEN "end" ELSE "start"
                ELSE pc' = "end" /\ UNCHANGED hooks
    BY DEF Load
  <1>2. UNCHANGED fs /\ pc' \in {"start", "end"}
    BY <1>1 DEF Load
  <1>3. \A i \in 1..Len(hooks') : hooks'[i].type # "symlink"
                 /\ hooks'[i].from.kind # "abs" /\ hooks'[i].to.kind # "abs"
    <2>1. CASE UNCHANGED hooks
      BY <2>1 DEF PlainInv
    <2>2. CASE hooks' = [i \in DOMAIN c |-> WithDefaults(c[i])]
      <3>1. c \in Seq(HookSet)
        BY HookFilesAssumption DEF HookSet
      <3>2. \A i \in DOMAIN c : c[i] \in HookSet /\ c[i].type # "symlink"
                                /\ c[i].from.kind # "abs" /\ c[i].to.kind # "abs"
        BY <3>1 DEF PlainProject
      <3>3. \A h \in HookSet : WithDefaults(h).type = h.type /\ WithDefaults(h).from = h.from
                               /\ WithDefaults(h).to \in {h.from, h.to}
        BY DEF HookSet, WithDefaults
      <3>4. DOMAIN c = 1..Len(c) /\ Len(c) \in Nat
        BY <3>1
      <3>5. Len(hooks') = Len(c)
        BY <2>2, <3>4
      <3>6. \A i \in 1..Len(c) : hooks'[i] = WithDefaults(c[i])
        BY <2>2, <3>4
      <3> HIDE DEF HookSet
      <3>7. ASSUME NEW i \in 1..Len(c)
            PROVE  /\ hooks'[i].type # "symlink"
                   /\ hooks'[i].from.kind # "abs" /\ hooks'[i].to.kind # "abs"
        <4>1. PICK h : h = c[i]
          OBVIOUS
        <4>2. /\ h \in HookSet /\ h.type # "symlink"
              /\ h.from.kind # "abs" /\ h.to.kind # "abs"
          BY <3>2, <3>4, <4>1
        <4>3. PICK d : d = WithDefaults(h)
          OBVIOUS
        <4>4. d.type = h.type /\ d.from = h.from /\ (d.to = h.from \/ d.to = h.to)
          BY <3>3, <4>2, <4>3
        <4>5. hooks'[i] = d
          BY <3>6, <4>1, <4>3
        <4> QED
          BY <4>2, <4>4, <4>5
      <3> QED
        BY <3>5, <3>7
    <2> QED
      BY <1>1, <2>1, <2>2
  <1> QED
    BY <1>2, <1>3 DEF PlainInv, Copying

LEMMA PlainStart ==
    ASSUME FilesInv, PlainInv, Start
    PROVE  PlainInv'
  <1>1. hooks # <<>> /\ UNCHANGED <<hooks, hook>>
    BY DEF Start, FilesInv, Running
  <1>2. PICK cur, src, dst : cur = Current /\ src = Source(cur) /\ dst = Target(cur)
    OBVIOUS
  <1>3. Current' = cur /\ Source(Current)' = src /\ Target(Current)' = dst
    BY <1>1, <1>2 DEF Current, Source, Target
  <1>4. /\ cur.type # "symlink" /\ cur.from.kind # "abs" /\ cur.to.kind # "abs"
    BY <1>1, <1>2 DEF PlainInv, FilesInv, Current
  <1>5. CASE UNCHANGED fs /\ (cur.type = "command" \/ pc' = "failed")
    <2>1. ~Copying' /\ pc' # "link"
      BY <1>2, <1>3, <1>5 DEF Copying, Start
    <2> QED
      BY <1>1, <1>5, <2>1 DEF PlainInv
  <1>6. CASE /\ StartOK(cur) /\ cur.type # "command" /\ fs' = Made(fs, Front(dst), TRUE)
             /\ pc' = IF cur.type = "copy" THEN "copy" ELSE "link"
    <2>1. cur.type = "copy"
      <3>1. Valid(cur)
        BY <1>1, <1>2 DEF FilesInv, Current
      <3> QED
        BY <1>4, <1>6, <3>1 DEF Valid
    <2>2. PICK write \in BOOLEAN : write = TRUE
      OBVIOUS
    <2>3. PICK p : p = Front(dst)
      OBVIOUS
    <2>4. fs' = Made(fs, p, write) /\ pc' = "copy"
      BY <1>6, <2>1, <2>2, <2>3
    <2>5. Sound(fs) /\ p \in Paths /\ CanMkdirAll(p)
      BY <1>1, <1>2, <1>6, <2>3, CurrentType, EntryPlace DEF FilesInv, StartOK
    <2>6. \A q \in DOMAIN fs' : fs'[q].kind # "link"
      <3>1. /\ \A q \in DOMAIN fs : q \in DOMAIN fs' /\ fs'[q] = fs[q]
            /\ \A q \in DOMAIN fs' \ DOMAIN fs : fs'[q] = Dir(write)
        BY <2>4, <2>5, MadeSound
      <3> QED
        BY <3>1, DirKind DEF PlainInv
    <2>7. IsPathWithin(MainRoot, src) /\ IsPathWithin(Worktree, dst)
      <3>1. WithinBase(MainRoot, cur.from) /\ WithinBase(Worktree, cur.to)
        BY <1>6 DEF StartOK, Checked
      <3> QED
        BY <1>2, <1>4, <3>1 DEF WithinBase, Source, Target
    <2> QED
      BY <1>1, <1>3, <2>4, <2>6, <2>7 DEF PlainInv
  <1>7. CASE ParentFails(Front(dst))
    <2>1. PICK p : p = Front(dst)
      OBVIOUS
    <2>2. Sound(fs) /\ p \in Paths
      BY <1>1, <1>2, <2>1, CurrentType, EntryPlace DEF FilesInv
    <2>3. /\ pc' = "failed"
          /\ \A q \in DOMAIN fs : q \in DOMAIN fs' /\ fs'[q] = fs[q]
          /\ \A q \in DOMAIN fs' \ DOMAIN fs : fs'[q].kind = "dir"
      BY <1>7, <2>1, <2>2, ParentStays
    <2>4. \A q \in DOMAIN fs' : fs'[q].kind # "link"
      BY <2>3 DEF PlainInv
    <2> QED
      BY <1>1, <2>3, <2>4 DEF PlainInv, Copying
  <1> QED
    BY <1>2, <1>5, <1>6, <1>7 DEF Start

\* A step within a hook that makes no link.
LEMMA PlainStep ==
    ASSUME PlainInv, UNCHANGED <<hooks, hook>>, pc' # "link", Copying' => Copying,
           \A p \in DOMAIN fs' : fs'[p].kind # "link"
    PROVE  PlainInv'
  <1>1. PICK src, dst : src = Source(Current) /\ dst = Target(Current)
    OBVIOUS
  <1>2. Source(Current)' = src /\ Target(Current)' = dst
    BY <1>1 DEF Current, Source, Target
  <1> QED
    BY <1>1, <1>2 DEF PlainInv

LEMMA PlainCopy ==
    ASSUME FilesInv, PlainInv, CopyDir \/ CopyOpen \/ CopyFill
    PROVE  PlainInv'
  <1>1. /\ pc \in {"copy", "fill"} /\ Copying /\ todo # <<>>
        /\ UNCHANGED <<hooks, hook>> /\ pc' # "link"
    BY DEF CopyDir, CopyOpen, CopyFill, Fail, FilesInv, Opened, Copying
  <1>2. PICK t : t = Head(todo)
    OBVIOUS
  <1>3. \A p \in DOMAIN fs' : fs'[p].kind # "link"
    <2>1. CASE UNCHANGED fs
      BY <2>1 DEF PlainInv
    <2>2. CASE CopyDir /\ ~UNCHANGED fs
      <3>1. PICK d : d = fs[Real[t.src]]
        OBVIOUS
      <3>2. /\ fs' = Made(fs, t.dst, d.write) /\ CanMkdirAll(t.dst)
            /\ Real[t.src] \in DOMAIN fs
        BY <1>2, <2>2, <3>1 DEF CopyDir, Fail, IsDir, Exists
      <3>3. Node(d)
        BY <3>1, <3>2 DEF FilesInv, Sound, Tree
      <3>4. d.write \in BOOLEAN
        BY <3>3, Zenon DEF Node
      <3>5. t.dst \in Paths /\ Sound(fs)
        BY <1>1, <1>2, HeadType DEF FilesInv
      <3>6. /\ \A q \in DOMAIN fs : q \in DOMAIN fs' /\ fs'[q] = fs[q]
            /\ \A q \in DOMAIN fs' \ DOMAIN fs : fs'[q] = Dir(d.write)
        BY <3>2, <3>4, <3>5, MadeSound
      <3> QED
        BY <3>6, DirKind DEF PlainInv
    <2>3. CASE CopyOpen /\ ~UNCHANGED fs
      <3>1. CanOpen(t)
        BY <1>2, <2>3 DEF CopyOpen, CanOpen, Fail
      <3>2. PICK at : at = Real[t.dst]
        OBVIOUS
      <3>3. /\ Emptied(fs, at).kind = "file"
            /\ DOMAIN fs' = DOMAIN fs \cup {at} /\ fs'[at] = Emptied(fs, at)
            /\ \A q \in DOMAIN fs : q # at => fs'[q] = fs[q]
        BY <1>2, <2>3, <3>1, <3>2, OpenWrites
      <3> QED
        BY <3>3 DEF PlainInv
    <2>4. CASE CopyFill /\ ~UNCHANGED fs
      <3>1. PICK at, s : at = Real[t.dst] /\ s = Real[t.src]
        OBVIOUS
      <3>2. s \in DOMAIN fs /\ fs[s].kind = "file"
        BY <1>2, <2>4, <3>1 DEF CopyFill, Fail
      <3>3. /\ DOMAIN fs' = DOMAIN fs /\ fs'[at] = fs[s]
            /\ \A q \in DOMAIN fs : q # at => fs'[q] = fs[q]
        BY <1>2, <2>4, <3>1, <3>2, FillWrites
      <3> QED
        BY <3>2, <3>3 DEF PlainInv
    <2> QED
      BY <2>1, <2>2, <2>3, <2>4
  <1> QED
    BY <1>1, <1>3, PlainStep

LEMMA PlainApart ==
    ASSUME PlainProject, FilesInv, PlainInv
    PROVE  DestinationClear /\ CopyApart
  <1>1. DestinationClear
    BY DEF PlainInv, DestinationClear
  <1>2. ASSUME Copying PROVE Apart(fs, Real[Source(Current)], Real[Target(Current)])
    <2>1. PICK S, D : S = Source(Current) /\ D = Target(Current)
      OBVIOUS
    <2>2. hooks # <<>>
      BY <1>2 DEF Copying, FilesInv, Running
    <2>3. /\ S \in Paths /\ D \in Paths /\ MainRoot \in Paths /\ Worktree \in Paths
          /\ IsPathWithin(MainRoot, S) /\ IsPathWithin(Worktree, D)
      BY <1>2, <2>1, <2>2, CurrentType, WorktreeIsDir DEF PlainInv
    <2>4. \A p \in Paths : RealOf(fs)[p] = p /\ ~IsLinkOf(fs, p)
      <3> SUFFICES ASSUME NEW p \in Paths PROVE RealOf(fs)[p] = p /\ ~IsLinkOf(fs, p)
        OBVIOUS
      <3>1. \A q \in Paths : ~IsLinkOf(fs, q)
        BY DEF PlainInv, IsLinkOf
      <3>2. PICK e : e = <<>>
        OBVIOUS
      <3>3. Tree(fs) /\ Resolves(fs) /\ IsDirOf(fs, e) /\ e \in Paths
        BY <3>2 DEF FilesInv, Sound, Tree, Paths
      <3>4. IsPathWithin(e, p)
        <4>1. Below(e, p) = p
          BY <3>2 DEF Below, Paths
        <4>2. IsPathWithin(e, Below(e, p))
          BY <3>3, BelowType
        <4> QED
          BY <4>1, <4>2, Zenon
      <3> QED
        BY <3>1, <3>3, <3>4, Straight
    <2>5. ASSUME NEW p \in Paths, IsPathWithin(MainRoot, p) PROVE ~IsPathWithin(D, p)
      <3> SUFFICES ASSUME IsPathWithin(D, p) PROVE FALSE
        OBVIOUS
      <3>1. IsPathWithin(Worktree, p)
        BY <2>3, WithinTransitive
      <3> QED
        BY <2>3, <2>5, <3>1, WithinLinear DEF PlainProject
    <2>6. ASSUME NEW p \in DOMAIN fs, IsPathWithin(S, p)
          PROVE  ~IsPathWithin(D, RealOf(fs)[p])
      <3>1. p \in Paths
        BY DEF FilesInv, Sound, Tree, Paths
      <3>2. IsPathWithin(MainRoot, p)
        BY <2>3, <2>6, <3>1, WithinTransitive
      <3> QED
        BY <2>4, <2>5, <3>1, <3>2
    <2>7. ASSUME NEW p \in Removable PROVE ~IsPathWithin(D, p)
      <3>1. p \in Paths
        BY HookFilesAssumption DEF Tree, Paths
      <3> QED
        BY <2>5, <3>1 DEF PlainProject
    <2>8. Real[S] = S /\ Real[D] = D
      BY <2>3, <2>4, RealChoice
    <2>9. Apart(fs, S, D)
      BY <2>4, <2>6, <2>7 DEF Apart
    <2> QED
      BY <2>1, <2>8, <2>9
  <1> QED
    BY <1>1, <1>2 DEF CopyApart

\* In a project without links, with its worktrees beside the main one, every confirmed
\* copy is complete and the hooks write into the new worktree only: the hypotheses of
\* CopyComplete and OnlyWorktree hold in every state jtp reaches.
THEOREM PlainCopies ==
    ASSUME PlainProject
    PROVE  Spec => []CopyIsComplete /\ OnlyWorktreeWritten
  <1>1. Init => PlainInv
    BY DEF Init, PlainInv, PlainProject, Copying
  <1>2. FilesInv /\ PlainInv /\ [Next]_vars => PlainInv'
    <2> SUFFICES ASSUME FilesInv, PlainInv, [Next]_vars PROVE PlainInv'
      OBVIOUS
    <2>1. CASE Load
      BY <2>1, PlainLoad
    <2>2. CASE Start
      BY <2>2, PlainStart
    <2>3. CASE CopyDir \/ CopyOpen \/ CopyFill
      BY <2>3, PlainCopy
    <2>4. CASE CopyDone \/ IOError
      <3>1. pc \in {"copy", "fill"} => Current.type = "copy"
        BY DEF FilesInv
      <3> QED
        BY <2>4, <3>1, PlainStep DEF CopyDone, IOError, Fail, Copying, Current, PlainInv
    <2>5. CASE Confirm
      <3>1. pc' \in {"start", "end"} /\ UNCHANGED <<fs, hooks>>
        BY <2>5 DEF Confirm
      <3> QED
        BY <3>1 DEF PlainInv, Copying
    <2>6. CASE UserRemoves
      <3>1. /\ UNCHANGED <<hooks, hook, pc>>
            /\ \A p \in DOMAIN fs' : p \in DOMAIN fs /\ fs'[p] = fs[p]
        BY <2>6, UserRemovesFile
      <3> QED
        BY <3>1, PlainStep DEF Copying, Current, PlainInv
    <2>7. CASE UNCHANGED vars
      BY <2>7, PlainStep DEF vars, Copying, Current, PlainInv
    <2>8. ~Link
      BY DEF Link, PlainInv
    <2> QED
      BY <2>1, <2>2, <2>3, <2>4, <2>5, <2>6, <2>7, <2>8 DEF Next, Step
  <1>3. FilesInv /\ PlainInv => DestinationClear /\ CopyApart
    BY PlainApart
  <1> QED
    BY <1>1, <1>2, <1>3, FilesInvHolds, CopyComplete, OnlyWorktree, PTL DEF Spec

=============================================================================
