---------------------------- MODULE ReportProofs ----------------------------
(***************************************************************************)
(* What MapHost and Score make of a host report: for any reports that the  *)
(* decoder can make and any tables of weights. Mapping and scoring are     *)
(* pure functions; what they compute for every input is proved by          *)
(* induction, as an argument from the least counterexample.                *)
(***************************************************************************)
EXTENDS AlertingProofs, FiniteSetTheorems, WellFoundedInduction

----------------------------------------------------------------------------
(* Least counterexamples, and the fold of the mentions *)

\* A set of natural numbers has a least element: a property that holds of 0
\* and is passed on holds of all.
LEMMA LeastNat ==
    ASSUME NEW S \in SUBSET Nat, S # {}
    PROVE  \E n \in S : \A m \in S : n <= m
<1>1. PICK n \in S : \A m \in S : ~(<<m, n>> \in OpToRel(<, Nat))
  BY NatLessThanWellFounded, WFMin, Zenon
<1>2. \A m \in S : ~(m < n)
  BY <1>1, Zenon DEF OpToRel
<1>3. QED
  BY <1>2

\* Max, as Max of the library chooses it.
LEMMA MaxIs ==
    ASSUME NEW S \in SUBSET Nat, NEW x \in S, \A y \in S : y <= x
    PROVE  Max(S) = x
<1>1. \A y \in S : x >= y
  OBVIOUS
<1>2. \A z \in S : (\A y \in S : z >= y) => z = x
  OBVIOUS
<1>3. QED
  BY <1>1, <1>2, Zenon DEF Max

\* 1..k, without its greatest number.
LEMMA FirstNumbers ==
    ASSUME NEW N \in Nat, NEW k \in 1..N
    PROVE  /\ 1..k \in SUBSET (1..N) /\ 1..k # {} /\ Max(1..k) = k
           /\ (1..k) \ {k} = 1..(k - 1)
<1>1. k \in 1..k /\ \A y \in 1..k : y <= k
  OBVIOUS
<1>2. Max(1..k) = k
  BY <1>1, MaxIs
<1>3. QED
  BY <1>1, <1>2

\* One unfolding of the fold over the mentions m[i], i \in s.
AddStep(g, m, s) == IF s = {} THEN <<>> ELSE addCVE(g[s \ {Max(s)}], m[Max(s)])

\* The recursive function behind FoldLeft exists.
LEMMA AddIterates ==
    ASSUME NEW m, NEW N \in Nat
    PROVE  \E g : g = [s \in SUBSET (1..N) |-> AddStep(g, m, s)]
<1> DEFINE P(n) == \E g : g = [s \in SUBSET (1..n) |-> AddStep(g, m, s)]
<1>1. P(0)
  <2> DEFINE g == [s \in SUBSET (1..0) |-> <<>>]
  <2>1. g = [s \in SUBSET (1..0) |-> AddStep(g, m, s)]
    BY DEF AddStep
  <2>2. QED
    BY <2>1
<1>2. ASSUME NEW n \in Nat, P(n) PROVE P(n + 1)
  <2>1. PICK g : g = [s \in SUBSET (1..n) |-> AddStep(g, m, s)]
    BY <1>2
  <2> DEFINE h == [s \in SUBSET (1..(n + 1)) |-> IF n + 1 \in s THEN addCVE(g[s \ {n + 1}], m[n + 1]) ELSE g[s]]
  <2>2. ASSUME NEW s \in SUBSET (1..(n + 1)) PROVE h[s] = AddStep(h, m, s)
    <3>1. CASE n + 1 \in s
      <4>1. Max(s) = n + 1
        BY <3>1, MaxIs
      <4>2. h[s] = addCVE(g[s \ {n + 1}], m[n + 1])
        BY <3>1
      <4>3. h[s \ {n + 1}] = g[s \ {n + 1}]
        OBVIOUS
      <4> HIDE DEF h
      <4>4. QED
        BY <3>1, <4>1, <4>2, <4>3 DEF AddStep
    <3>2. CASE n + 1 \notin s
      <4>1. s \in SUBSET (1..n)
        BY <3>2
      <4>2. h[s] = g[s] /\ h[s \ {Max(s)}] = g[s \ {Max(s)}]
        BY <3>2, <4>1
      <4> HIDE DEF h
      <4>3. g[s] = AddStep(g, m, s)
        BY <2>1, <4>1
      <4>4. QED
        BY <4>2, <4>3 DEF AddStep
    <3>3. QED
      BY <3>1, <3>2
  <2>3. h = [s \in SUBSET (1..(n + 1)) |-> h[s]]
    OBVIOUS
  <2> HIDE DEF h
  <2>4. h = [s \in SUBSET (1..(n + 1)) |-> AddStep(h, m, s)]
    BY <2>2, <2>3, Zenon
  <2>5. QED
    BY <2>4
<1> HIDE DEF P
<1>3. P(N)
  <2> DEFINE S == {n \in Nat : ~P(n)}
  <2> SUFFICES ASSUME S # {} PROVE FALSE
    OBVIOUS
  <2>1. PICK n \in S : \A k \in S : n <= k
    BY LeastNat
  <2>2. n # 0
    BY <1>1
  <2>3. P(n - 1)
    BY <2>1, <2>2
  <2>4. QED
    BY <1>2, <2>2, <2>3
<1>4. QED
  BY <1>3 DEF P

\* mapCVEs adds one mention after the other.
LEMMA FoldedMentions ==
    ASSUME NEW M, NEW m \in Seq(M)
    PROVE  \E h : /\ h[0] = <<>> /\ h[Len(m)] = FoldLeft(addCVE, <<>>, m)
                  /\ \A k \in 1..Len(m) : h[k] = addCVE(h[k - 1], m[k])
<1>1. Len(m) \in Nat /\ DOMAIN m = 1..Len(m)
  OBVIOUS
<1> DEFINE iter == CHOOSE g : g = [s \in SUBSET (1..Len(m)) |-> AddStep(g, m, s)]
<1>2. FoldLeft(addCVE, <<>>, m) = iter[1..Len(m)]
  BY <1>1, Zenon DEF FoldLeft, MapThenFoldSet, AddStep
<1>3. iter = [s \in SUBSET (1..Len(m)) |-> AddStep(iter, m, s)]
  BY <1>1, AddIterates, Zenon
<1> HIDE DEF iter
<1> DEFINE h == [k \in 0..Len(m) |-> iter[1..k]]
<1>4. h[0] = <<>>
  <2>1. 1..0 = {} /\ {} \in SUBSET (1..Len(m))
    BY <1>1
  <2>2. iter[{}] = AddStep(iter, m, {})
    BY <1>3, <2>1, Zenon
  <2>3. QED
    BY <1>1, <2>1, <2>2 DEF AddStep
<1>5. ASSUME NEW k \in 1..Len(m) PROVE h[k] = addCVE(h[k - 1], m[k])
  <2>1. /\ 1..k \in SUBSET (1..Len(m)) /\ 1..k # {} /\ Max(1..k) = k
        /\ (1..k) \ {k} = 1..(k - 1)
    BY <1>1, FirstNumbers
  <2>2. iter[1..k] = AddStep(iter, m, 1..k)
    BY <1>3, <2>1, Zenon
  <2>3. h[k] = iter[1..k] /\ h[k - 1] = iter[1..(k - 1)]
    BY <1>1
  <2> HIDE DEF h
  <2>4. QED
    BY <2>1, <2>2, <2>3, Zenon DEF AddStep
<1>6. h[Len(m)] = iter[1..Len(m)]
  BY <1>1
<1> HIDE DEF h
<1>7. QED
  BY <1>2, <1>4, <1>5, <1>6

----------------------------------------------------------------------------
(* What a CVE is rated *)

\* What severityFromCVSS returns.
Severities == {"critical", "high", "medium", "low", "info"}

\* A CVE that a host names or a service rates.
Mention == [cve : STRING, cvss : Int, verified : BOOLEAN]

\* What the merged mentions of a CVE are, given those so far.
Rating(rated, same) ==
    /\ rated \in [cvss : Int, severity : Severities, verified : BOOLEAN]
    /\ \E x \in same : x.cvss = rated.cvss
    /\ \A x \in same : x.cvss <= rated.cvss
    /\ rated.severity = severityFromCVSS(rated.cvss)
    /\ rated.verified <=> \E x \in same : x.verified

\* The mentions of one CVE.
Of(seen, cve) == {x \in seen : x.cve = cve}

\* The table of addCVE has one row for each CVE of the mentions seen, with what
\* they amount to.
Rated(found, seen) ==
    /\ IsFiniteSet(DOMAIN found)
    /\ found = [c \in DOMAIN found |-> found[c]]
    /\ DOMAIN found = {x.cve : x \in seen} \ {NoName}
    /\ \A c \in DOMAIN found : Rating(found[c], Of(seen, c))

\* severityFromCVSS knows five severities.
LEMMA SeverityType == \A cvss : severityFromCVSS(cvss) \in Severities
  BY DEF severityFromCVSS, Severities

\* One more mention of a CVE, and what becomes of its row.
LEMMA RatingOfFirst ==
    ASSUME NEW x \in Mention, NEW row,
           row = [cvss |-> x.cvss, severity |-> severityFromCVSS(x.cvss), verified |-> x.verified]
    PROVE  Rating(row, {x})
<1>1. /\ row \in [cvss : Int, severity : Severities, verified : BOOLEAN]
      /\ row.cvss = x.cvss /\ row.severity = severityFromCVSS(x.cvss) /\ row.verified = x.verified
  BY SeverityType DEF Mention
<1>2. x.cvss <= x.cvss
  BY DEF Mention
<1>3. QED
  BY <1>1, <1>2 DEF Rating

\* A mention of a CVE that is known.
LEMMA RatingOfMore ==
    ASSUME NEW x \in Mention, NEW old, NEW same, Rating(old, same), NEW row,
           row \in [cvss : Int, severity : Severities, verified : BOOLEAN],
           row.cvss = IF x.cvss > old.cvss THEN x.cvss ELSE old.cvss,
           row.severity = severityFromCVSS(row.cvss),
           row.verified <=> old.verified \/ x.verified,
           \A y \in same : y.cvss \in Int
    PROVE  Rating(row, same \union {x})
<1>1. x.cvss \in Int /\ old.cvss \in Int
  BY DEF Mention, Rating
<1>2. \E y \in same \union {x} : y.cvss = row.cvss
  BY DEF Rating
<1>3. \A y \in same \union {x} : y.cvss <= row.cvss
  BY <1>1 DEF Rating
<1>4. row.verified <=> \E y \in same \union {x} : y.verified
  BY Zenon DEF Rating
<1>5. QED
  BY <1>2, <1>3, <1>4 DEF Rating

\* The table after one more mention: one row is new.
LEMMA RowsRated ==
    ASSUME NEW seen, NEW found, Rated(found, seen), NEW x, x.cve # NoName, NEW row,
           Rating(row, Of(seen \union {x}, x.cve)), NEW next,
           DOMAIN next = DOMAIN found \union {x.cve}, next = [c \in DOMAIN next |-> next[c]],
           next[x.cve] = row, \A c \in DOMAIN found : c # x.cve => next[c] = found[c]
    PROVE  Rated(next, seen \union {x})
<1> DEFINE all == seen \union {x}
<1>1. /\ {y.cve : y \in all} = {y.cve : y \in seen} \union {x.cve}
      /\ \A c : c # x.cve => Of(all, c) = Of(seen, c)
  BY DEF Of
<1>3. ASSUME NEW c \in DOMAIN next PROVE Rating(next[c], Of(all, c))
  <2>1. CASE c = x.cve
    BY <2>1
  <2>2. CASE c # x.cve
    <3>1. c \in DOMAIN found /\ next[c] = found[c]
      BY <2>2
    <3>2. QED
      BY <1>1, <2>2, <3>1 DEF Rated
  <2>3. QED
    BY <2>1, <2>2
<1>4. IsFiniteSet(DOMAIN next)
  BY FS_AddElement DEF Rated
<1>5. DOMAIN next = {y.cve : y \in all} \ {NoName}
  BY <1>1 DEF Rated
<1>6. QED
  BY <1>3, <1>4, <1>5 DEF Rated

\* addCVE keeps what the table says about the mentions so far.
LEMMA AddCVERates ==
    ASSUME NEW seen, seen \subseteq Mention, NEW found, Rated(found, seen), NEW x \in Mention,
           NEW next, next = addCVE(found, x)
    PROVE  Rated(next, seen \union {x})
<1> DEFINE cve == x.cve
           new == [cvss |-> x.cvss, severity |-> severityFromCVSS(x.cvss), verified |-> x.verified]
<1>1. /\ x.cvss \in Int /\ x.verified \in BOOLEAN
      /\ new \in [cvss : Int, severity : Severities, verified : BOOLEAN]
      /\ \A y \in Of(seen, cve) : y.cvss \in Int
  BY SeverityType DEF Mention, Of
<1>2. Of(seen \union {x}, cve) = Of(seen, cve) \union {x}
  BY DEF Of
<1>3. /\ \A c \in DOMAIN found : Rating(found[c], Of(seen, c))
      /\ NoName \notin DOMAIN found
      /\ found = [c \in DOMAIN found |-> found[c]]
  BY DEF Rated
<1>4. CASE cve = NoName
  <2>1. next = found
    BY <1>3, <1>4 DEF addCVE
  <2>2. \A c \in DOMAIN found : Of(seen \union {x}, c) = Of(seen, c)
    BY <1>3, <1>4 DEF Of
  <2>3. DOMAIN found = {y.cve : y \in seen \union {x}} \ {NoName}
    BY <1>4 DEF Rated
  <2>4. QED
    BY <2>1, <2>2, <2>3 DEF Rated
<1>5. CASE cve # NoName /\ cve \notin DOMAIN found
  <2>1. next = [c \in DOMAIN found \union {cve} |-> IF c = cve THEN new ELSE found[c]]
    BY <1>5 DEF addCVE
  <2>2. Of(seen \union {x}, cve) = {x}
    BY <1>2, <1>5 DEF Of, Rated
  <2>3. Rating(new, {x})
    BY RatingOfFirst
  <2> HIDE DEF new
  <2>4. /\ DOMAIN next = DOMAIN found \union {cve} /\ next = [c \in DOMAIN next |-> next[c]]
        /\ next[cve] = new /\ \A c \in DOMAIN found : c # cve => next[c] = found[c]
    BY <2>1
  <2>5. QED
    BY <1>5, <2>2, <2>3, <2>4, RowsRated
<1>6. ASSUME cve # NoName, cve \in DOMAIN found, NEW row,
             next = [found EXCEPT ![cve] = row],
             row \in [cvss : Int, severity : Severities, verified : BOOLEAN],
             row.cvss = IF x.cvss > found[cve].cvss THEN x.cvss ELSE found[cve].cvss,
             row.severity = severityFromCVSS(row.cvss),
             row.verified <=> found[cve].verified \/ x.verified
      PROVE  Rated(next, seen \union {x})
  <2>1. Rating(row, Of(seen, cve) \union {x})
    <3>1. Rating(found[cve], Of(seen, cve))
      BY <1>3, <1>6
    <3>2. QED
      BY <1>1, <1>6, <3>1, RatingOfMore
  <2>2. /\ DOMAIN next = DOMAIN found \union {cve} /\ next = [c \in DOMAIN next |-> next[c]]
        /\ next[cve] = row /\ \A c \in DOMAIN found : c # cve => next[c] = found[c]
    BY <1>3, <1>6
  <2>3. QED
    BY <1>2, <1>6, <2>1, <2>2, RowsRated
<1>7. CASE cve # NoName /\ cve \in DOMAIN found /\ x.cvss > found[cve].cvss
  <2> DEFINE row == [new EXCEPT !.verified = @ \/ found[cve].verified]
  <2>1. next = [found EXCEPT ![cve] = row]
    BY <1>7 DEF addCVE
  <2>2. /\ row \in [cvss : Int, severity : Severities, verified : BOOLEAN]
        /\ row.cvss = x.cvss /\ row.severity = severityFromCVSS(x.cvss)
        /\ row.verified = (x.verified \/ found[cve].verified)
    BY <1>1, <1>3, <1>7 DEF Rating
  <2> HIDE DEF row
  <2>3. /\ row.cvss = IF x.cvss > found[cve].cvss THEN x.cvss ELSE found[cve].cvss
        /\ row.severity = severityFromCVSS(row.cvss)
        /\ row.verified <=> found[cve].verified \/ x.verified
    BY <1>7, <2>2
  <2>4. QED
    BY <1>6, <1>7, <2>1, <2>2, <2>3, Zenon
<1>8. CASE cve # NoName /\ cve \in DOMAIN found /\ ~(x.cvss > found[cve].cvss)
  <2> DEFINE old == found[cve]
             row == [old EXCEPT !.verified = @ \/ x.verified]
  <2>1. next = [found EXCEPT ![cve] = row]
    BY <1>8 DEF addCVE
  <2>2. old \in [cvss : Int, severity : Severities, verified : BOOLEAN]
        /\ old.severity = severityFromCVSS(old.cvss)
    BY <1>3, <1>8 DEF Rating
  <2>3. /\ row \in [cvss : Int, severity : Severities, verified : BOOLEAN]
        /\ row.cvss = old.cvss /\ row.severity = old.severity
        /\ row.verified = (old.verified \/ x.verified)
    BY <1>1, <2>2
  <2> HIDE DEF row
  <2>4. /\ row.cvss = IF x.cvss > found[cve].cvss THEN x.cvss ELSE found[cve].cvss
        /\ row.severity = severityFromCVSS(row.cvss)
        /\ row.verified <=> found[cve].verified \/ x.verified
    BY <1>8, <2>2, <2>3
  <2>5. QED
    BY <1>6, <1>8, <2>1, <2>3, <2>4, Zenon
<1>9. QED
  BY <1>4, <1>5, <1>7, <1>8

----------------------------------------------------------------------------
(* The mentions of a report *)

\* The entries of a map, in some order.
LEMMA SetAsSequence ==
    ASSUME NEW S, IsFiniteSet(S)
    PROVE  SetToSeq(S) \in Seq(S)
<1>1. /\ Cardinality(S) \in Nat
      /\ \E f : f \in Bijection(1..Cardinality(S), S)
  BY FS_CardinalityType DEF ExistsBijection
<1>2. \E f \in [1..Cardinality(S) -> S] : IsInjective(f)
  BY <1>1 DEF Bijection, Injection, IsInjective
<1>3. SetToSeq(S) \in [1..Cardinality(S) -> S]
  BY <1>2, Zenon DEF SetToSeq
<1>4. QED
  BY <1>1, <1>3

\* The recursive function behind FlattenSeq exists.
LEMMA FlattenIterates ==
    ASSUME NEW seqs, NEW N \in Nat
    PROVE  \E g : g = [i \in 1..N |-> IF i = 1 THEN seqs[i] ELSE g[i - 1] \o seqs[i]]
<1> DEFINE Step(g, i) == IF i = 1 THEN seqs[i] ELSE g[i - 1] \o seqs[i]
           P(n) == \E g : g = [i \in 1..n |-> Step(g, i)]
<1>1. P(0)
  <2> DEFINE g == [i \in 1..0 |-> <<>>]
  <2>1. g = [i \in 1..0 |-> Step(g, i)]
    OBVIOUS
  <2>2. QED
    BY <2>1
<1>2. ASSUME NEW n \in Nat, P(n) PROVE P(n + 1)
  <2>1. PICK g : g = [i \in 1..n |-> Step(g, i)]
    BY <1>2
  <2> DEFINE h == [i \in 1..(n + 1) |-> IF i = n + 1 THEN Step(g, i) ELSE g[i]]
  <2>2. ASSUME NEW i \in 1..(n + 1) PROVE h[i] = Step(h, i)
    <3>1. i # 1 => h[i - 1] = g[i - 1]
      OBVIOUS
    <3>2. i # n + 1 => g[i] = Step(g, i)
      <4>1. i # n + 1 => i \in 1..n
        OBVIOUS
      <4>2. QED
        BY <2>1, <4>1, Zenon
    <3>3. h[i] = Step(g, i)
      BY <3>2
    <3> HIDE DEF h
    <3>4. QED
      BY <3>1, <3>3
  <2>3. h = [i \in 1..(n + 1) |-> h[i]]
    OBVIOUS
  <2> HIDE DEF h, Step
  <2>4. h = [i \in 1..(n + 1) |-> Step(h, i)]
    BY <2>2, <2>3, Zenon
  <2>5. QED
    BY <2>4
<1> HIDE DEF P
<1>3. P(N)
  <2> DEFINE S == {n \in Nat : ~P(n)}
  <2> SUFFICES ASSUME S # {} PROVE FALSE
    OBVIOUS
  <2>1. PICK n \in S : \A k \in S : n <= k
    BY LeastNat
  <2>2. n # 0
    BY <1>1
  <2>3. P(n - 1)
    BY <2>1, <2>2
  <2>4. QED
    BY <1>2, <2>2, <2>3
<1>4. QED
  BY <1>3 DEF P

\* The mentions of all services.
LEMMA FlattenType ==
    ASSUME NEW S, NEW seqs \in Seq(Seq(S))
    PROVE  FlattenSeq(seqs) \in Seq(S)
<1> DEFINE n == Len(seqs)
           flatten == CHOOSE g : g = [i \in 1..n |-> IF i = 1 THEN seqs[i] ELSE g[i - 1] \o seqs[i]]
<1>1. n \in Nat /\ \A i \in 1..n : seqs[i] \in Seq(S)
  OBVIOUS
<1>2. FlattenSeq(seqs) = IF n = 0 THEN seqs ELSE flatten[n]
  BY Zenon DEF FlattenSeq
<1>3. CASE n = 0
  <2>1. seqs = <<>>
    BY <1>3, EmptySeq
  <2>2. QED
    BY <1>2, <1>3, <2>1, EmptySeq
<1>4. CASE n # 0
  <2> HIDE DEF n
  <2>1. flatten = [i \in 1..n |-> IF i = 1 THEN seqs[i] ELSE flatten[i - 1] \o seqs[i]]
    BY <1>1, FlattenIterates, Zenon
  <2> HIDE DEF flatten
  <2>2. \A i \in 1..n : flatten[i] = IF i = 1 THEN seqs[i] ELSE flatten[i - 1] \o seqs[i]
    BY <2>1, Zenon
  <2>3. ASSUME NEW i \in 1..n, i # 1 => flatten[i - 1] \in Seq(S) PROVE flatten[i] \in Seq(S)
    <3>1. seqs[i] \in Seq(S)
      BY <1>1
    <3>2. CASE i = 1
      BY <2>2, <3>1, <3>2, Zenon
    <3>3. CASE i # 1
      <4>1. flatten[i] = flatten[i - 1] \o seqs[i]
        BY <2>2, <3>3, Zenon
      <4>2. flatten[i - 1] \in Seq(S)
        BY <2>3, <3>3
      <4>3. flatten[i - 1] \o seqs[i] \in Seq(S)
        BY <3>1, <4>2, ConcatProperties
      <4>4. QED
        BY <4>1, <4>3, Zenon
    <3>4. QED
      BY <3>2, <3>3
  <2> DEFINE bad == {i \in 1..n : flatten[i] \notin Seq(S)}
  <2>4. CASE bad = {}
    BY <1>1, <1>2, <1>4, <2>4
  <2>5. CASE bad # {}
    <3>1. bad \in SUBSET Nat
      BY <1>1
    <3>2. PICK i \in bad : \A j \in bad : i <= j
      <4> HIDE DEF bad
      <4>1. QED
        BY <2>5, <3>1, LeastNat
    <3>3. i # 1 => i - 1 \in 1..n /\ i - 1 \notin bad
      BY <1>1, <3>2
    <3>4. QED
      BY <2>3, <3>3
  <2>6. QED
    BY <2>4, <2>5
<1>5. QED
  BY <1>3, <1>4

\* A decoded report mentions CVEs with a rating.
LEMMA MentionsType ==
    ASSUME NEW report, IsReport(report)
    PROVE  Mentions(report) \in Seq(Mention)
<1> DEFINE ofHost == [i \in 1..Len(report.vulns) |->
                         [cve |-> report.vulns[i], cvss |-> 0, verified |-> FALSE]]
           row(s, c) == [cve |-> c, cvss |-> s.vulns[c].cvss, verified |-> s.vulns[c].verified]
           rated(s) == {row(s, c) : c \in DOMAIN s.vulns}
           ofService == [i \in 1..Len(report.data) |-> SetToSeq(rated(report.data[i]))]
<1>1. Mentions(report) = ofHost \o FlattenSeq(ofService)
  BY Zenon DEF Mentions
<1>2. ofHost \in Seq(Mention)
  <2>1. report.vulns \in Seq(STRING)
    BY DEF IsReport
  <2>2. Len(report.vulns) \in Nat /\ \A i \in 1..Len(report.vulns) : report.vulns[i] \in STRING
    BY <2>1
  <2>3. ofHost \in [1..Len(report.vulns) -> Mention]
    BY <2>2 DEF Mention
  <2> HIDE DEF ofHost
  <2>4. QED
    BY <2>2, <2>3
<1>3. ASSUME NEW s \in Range(report.data) PROVE rated(s) \subseteq Mention /\ IsFiniteSet(rated(s))
  <2>1. /\ IsFiniteSet(DOMAIN s.vulns) /\ DOMAIN s.vulns \subseteq STRING
        /\ \A c \in DOMAIN s.vulns : s.vulns[c].cvss \in Int /\ s.vulns[c].verified \in BOOLEAN
    BY DEF IsReport
  <2>2. \A c \in DOMAIN s.vulns : row(s, c) \in Mention
    BY <2>1 DEF Mention
  <2> HIDE DEF row
  <2> DEFINE f == [c \in DOMAIN s.vulns |-> row(s, c)]
  <2>3. f \in Surjection(DOMAIN s.vulns, rated(s))
    BY DEF Surjection
  <2>4. QED
    BY <2>1, <2>2, <2>3, FS_Surjection
<1>4. ofService \in Seq(Seq(Mention))
  <2>1. Len(report.data) \in Nat /\ \A i \in 1..Len(report.data) : report.data[i] \in Range(report.data)
    <3>1. report.data \in Seq(Range(report.data))
      BY DEF IsReport
    <3>2. QED
      BY <3>1
  <2>2. ASSUME NEW i \in 1..Len(report.data) PROVE SetToSeq(rated(report.data[i])) \in Seq(Mention)
    <3> DEFINE S == rated(report.data[i])
    <3>1. S \subseteq Mention /\ IsFiniteSet(S)
      BY <1>3, <2>1
    <3> HIDE DEF S
    <3>2. SetToSeq(S) \in Seq(S)
      BY <3>1, SetAsSequence
    <3>3. SetToSeq(S) \in Seq(Mention)
      BY <3>1, <3>2
    <3>4. QED
      BY <3>3 DEF S
  <2> HIDE DEF rated
  <2>3. ofService \in [1..Len(report.data) -> Seq(Mention)]
    BY <2>2
  <2> HIDE DEF ofService
  <2>4. QED
    BY <2>1, <2>3
<1> HIDE DEF ofHost, ofService
<1>5. FlattenSeq(ofService) \in Seq(Mention)
  BY <1>4, FlattenType
<1>6. QED
  BY <1>1, <1>2, <1>5

----------------------------------------------------------------------------
(* The CVEs among the findings *)

\* All of the mentions, in whatever order.
LEMMA MentionsRated ==
    ASSUME NEW m \in Seq(Mention)
    PROVE  Rated(FoldLeft(addCVE, <<>>, m), Range(m))
<1> DEFINE seen(k) == {m[i] : i \in 1..k}
<1>1. PICK h : /\ h[0] = <<>> /\ h[Len(m)] = FoldLeft(addCVE, <<>>, m)
               /\ \A k \in 1..Len(m) : h[k] = addCVE(h[k - 1], m[k])
  BY FoldedMentions
<1>2. Len(m) \in Nat /\ DOMAIN m = 1..Len(m) /\ \A i \in 1..Len(m) : m[i] \in Mention
  OBVIOUS
<1>3. Rated(h[0], seen(0))
  <2>1. DOMAIN h[0] = {} /\ h[0] = [c \in {} |-> h[0][c]]
    BY <1>1
  <2>2. seen(0) = {}
    OBVIOUS
  <2> HIDE DEF seen
  <2>3. QED
    BY <2>1, <2>2, FS_EmptySet DEF Rated
<1>4. ASSUME NEW k \in 1..Len(m), Rated(h[k - 1], seen(k - 1)) PROVE Rated(h[k], seen(k))
  <2>1. seen(k - 1) \subseteq Mention
    BY <1>2
  <2>2. seen(k) = seen(k - 1) \union {m[k]}
    BY <1>2
  <2>3. m[k] \in Mention /\ h[k] = addCVE(h[k - 1], m[k])
    BY <1>1, <1>2
  <2> HIDE DEF seen
  <2>4. Rated(h[k], seen(k - 1) \union {m[k]})
    BY <1>4, <2>1, <2>3, AddCVERates
  <2>5. QED
    BY <2>2, <2>4
<1>5. Rated(h[Len(m)], seen(Len(m)))
  <2> DEFINE bad == {k \in 0..Len(m) : ~Rated(h[k], seen(k))}
  <2> HIDE DEF seen
  <2> SUFFICES ASSUME bad # {} PROVE FALSE
    BY <1>2
  <2>1. bad \in SUBSET Nat
    BY <1>2
  <2>2. PICK k \in bad : \A j \in bad : k <= j
    <3> HIDE DEF bad
    <3>1. QED
      BY <2>1, LeastNat
  <2>3. k # 0
    BY <1>3, <2>2
  <2>4. k \in 1..Len(m) /\ k - 1 \in 0..Len(m) /\ k - 1 \notin bad
    BY <1>2, <2>2, <2>3
  <2>5. QED
    BY <1>4, <2>2, <2>4
<1>6. seen(Len(m)) = Range(m)
  BY <1>2 DEF Range
<1>7. QED
  BY <1>1, <1>5, <1>6

\* The finding that CVEs makes of a row.
Row(found, c) ==
    [Finding(0, "cve", c, 0, found[c].severity, found[c].verified) EXCEPT !.cvss = found[c].cvss]

\* The finding that is made of a row.
LEMMA RowFields ==
    ASSUME NEW found, NEW c
    PROVE  /\ Row(found, c).kind = "cve" /\ Row(found, c).name = c /\ Row(found, c).port = 0
           /\ Row(found, c).severity = found[c].severity /\ Row(found, c).cvss = found[c].cvss
           /\ Row(found, c).flag = found[c].verified
  BY DEF Row, Finding

\* Only CVEs makes findings of kind "cve", and no other ones are rated.
LEMMA ServiceKinds ==
    ASSUME NEW i, NEW s, NEW f \in MapService(i, s)
    PROVE  /\ f.kind \in {"service", "weakness", "screenshot", "smb_share", "mqtt_topic", "cert"}
           /\ f.cvss = 0 /\ (s.anonymous \in BOOLEAN => f.flag \in BOOLEAN)
<1>1. \E kind \in {"service", "weakness", "screenshot", "smb_share", "mqtt_topic", "cert"} :
         \E name, severity, flag :
             /\ f = Finding(i, kind, name, s.port, severity, flag)
             /\ s.anonymous \in BOOLEAN => flag \in BOOLEAN
  BY DEF MapService, mapCert, Where, Remote
<1>2. QED
  BY <1>1 DEF Finding

\* The findings of kind "cve" are the rows; the others are not rated.
LEMMA OtherFindings ==
    ASSUME NEW report
    PROVE  /\ {f \in MapHost(report) : f.kind = "cve"} = CVEs(report)
           /\ \A f \in MapHost(report) :
                 IsReport(report) /\ f.kind # "cve" => f.cvss = 0 /\ f.flag \in BOOLEAN
<1> DEFINE ports == {Finding(0, "port", NoName, p, "info", FALSE) : p \in Range(report.ports)}
           services == UNION {MapService(i, report.data[i]) : i \in 1..Len(report.data)}
           default == Where(Finding(0, "weakness", "default_password", 0, "critical", FALSE),
                            report.defaultPassword)
           Plain(f) == f.kind # "cve" /\ (IsReport(report) => f.cvss = 0 /\ f.flag \in BOOLEAN)
<1>1. \A f \in services : Plain(f)
  <2> SUFFICES ASSUME NEW i \in 1..Len(report.data), NEW f \in MapService(i, report.data[i])
               PROVE  Plain(f)
    OBVIOUS
  <2>1. IsReport(report) => report.data[i].anonymous \in BOOLEAN
    <3> SUFFICES ASSUME IsReport(report) PROVE report.data[i].anonymous \in BOOLEAN
      OBVIOUS
    <3>1. report.data \in Seq(Range(report.data)) /\ \A s \in Range(report.data) : s.anonymous \in BOOLEAN
      BY DEF IsReport
    <3>2. QED
      BY <3>1
  <2>2. QED
    BY <2>1, ServiceKinds
<1>2. \A f \in CVEs(report) : f.kind = "cve"
  BY DEF CVEs, Finding
<1>3. \A f \in ports \union default : f.kind # "cve" /\ f.cvss = 0 /\ f.flag = FALSE
  BY DEF Finding, Where
<1>4. MapHost(report) = ports \union CVEs(report) \union services \union default
  BY DEF MapHost
<1> HIDE DEF ports, services, default
<1>5. QED
  BY <1>1, <1>2, <1>3, <1>4

\* The findings of kind "cve" are what all mentions of the report amount to.
LEMMA ReportRated ==
    ASSUME NEW report, IsReport(report)
    PROVE  \E found : /\ Rated(found, Range(Mentions(report)))
                      /\ {f \in MapHost(report) : f.kind = "cve"} = {Row(found, c) : c \in DOMAIN found}
<1> DEFINE found == FoldLeft(addCVE, <<>>, Mentions(report))
<1>1. Rated(found, Range(Mentions(report)))
  BY MentionsType, MentionsRated
<1>2. CVEs(report) = {Row(found, c) : c \in DOMAIN found}
  BY Zenon DEF CVEs, Row
<1> HIDE DEF found
<1>3. QED
  BY <1>1, <1>2, OtherFindings

\* The worst mention has the score of the row.
LEMMA WorstIsHighest ==
    ASSUME NEW same \in SUBSET Mention, NEW rated, Rating(rated, same)
    PROVE  WorstOf(same).cvss = rated.cvss
<1>1. PICK x \in same : x.cvss = rated.cvss
  BY DEF Rating
<1>2. \A n \in same : n.cvss <= x.cvss
  BY <1>1 DEF Rating
<1> DEFINE w == WorstOf(same)
<1>3. w \in same /\ \A n \in same : n.cvss <= w.cvss
  BY <1>2, Zenon DEF WorstOf
<1> HIDE DEF w
<1>4. x.cvss \in Int /\ w.cvss \in Int /\ x.cvss <= w.cvss /\ w.cvss <= x.cvss
  BY <1>2, <1>3 DEF Mention
<1>5. w.cvss = x.cvss
  BY <1>4
<1>6. QED
  BY <1>1, <1>5 DEF w

\* So it is for every report.
LEMMA AllRatedByWorst == RatedByWorst = DOMAIN Reports
<1> DEFINE Same(name, cve) == {m \in Range(Mentions(Reports[name])) : m.cve = cve}
           Counts(name, cve) ==
               \E f \in Found[name] :
                   /\ {g \in Found[name] : g.kind = "cve" /\ g.name = cve} = {f}
                   /\ f.cvss = WorstOf(Same(name, cve)).cvss
                   /\ f.severity = severityFromCVSS(f.cvss)
                   /\ f.flag = (\E m \in Same(name, cve) : m.verified)
<1>1. RatedByWorst =
          {name \in DOMAIN Reports :
              \A cve \in {m.cve : m \in Range(Mentions(Reports[name]))} \ {NoName} : Counts(name, cve)}
  BY Zenon DEF RatedByWorst
<1>2. ASSUME NEW name \in DOMAIN Reports,
             NEW cve \in {m.cve : m \in Range(Mentions(Reports[name]))} \ {NoName}
      PROVE  Counts(name, cve)
  <2> DEFINE same == Same(name, cve)
  <2> DEFINE mentions == Range(Mentions(Reports[name]))
  <2>1. IsReport(Reports[name]) /\ Found[name] = MapHost(Reports[name])
    BY ReportsAreDecoded DEF Found
  <2>2. PICK found : /\ Rated(found, mentions)
                     /\ {f \in Found[name] : f.kind = "cve"} = {Row(found, c) : c \in DOMAIN found}
    BY <2>1, ReportRated
  <2>3. mentions \subseteq Mention
    BY <2>1, MentionsType DEF Range
  <2>4. cve \in DOMAIN found /\ same = Of(mentions, cve) /\ Rating(found[cve], same)
    BY <2>2 DEF Rated, Of
  <2>5. same \in SUBSET Mention
    BY <2>3
  <2> HIDE DEF mentions
  <2> DEFINE f == Row(found, cve)
  <2>6. /\ f.kind = "cve" /\ f.name = cve
        /\ f.severity = found[cve].severity /\ f.cvss = found[cve].cvss /\ f.flag = found[cve].verified
    BY RowFields
  <2>7. \A c \in DOMAIN found : Row(found, c).name = c
    BY RowFields
  <2> HIDE DEF f
  <2>8. f \in {g \in Found[name] : g.kind = "cve"}
    BY <2>2, <2>4 DEF f
  <2>9. {g \in Found[name] : g.kind = "cve" /\ g.name = cve} = {f}
    <3>1. \A g \in Found[name] : g.kind = "cve" /\ g.name = cve => g = f
      BY <2>2, <2>7 DEF f
    <3>2. QED
      BY <2>6, <2>8, <3>1
  <2>10. f.cvss = WorstOf(same).cvss
    BY <2>4, <2>5, <2>6, WorstIsHighest
  <2>11. f.severity = severityFromCVSS(f.cvss)
    BY <2>4, <2>6 DEF Rating
  <2>12. f.flag = (\E m \in same : m.verified)
    <3>1. found[cve].verified \in BOOLEAN
      BY <2>4 DEF Rating
    <3>2. found[cve].verified <=> \E m \in same : m.verified
      BY <2>4, Zenon DEF Rating
    <3>3. QED
      BY <2>6, <3>1, <3>2, Zenon
  <2>13. QED
    BY <2>8, <2>9, <2>10, <2>11, <2>12, Zenon
<1> HIDE DEF Counts
<1>3. QED
  BY <1>1, <1>2

\* A stored scan is of one of the reports.
LEMMA StoredReports ==
    ASSUME TypeOK
    PROVE  \A scan \in Range(scans) : scan.report \in DOMAIN Reports
<1>1. scans \in Seq(Scan)
  BY DEF TypeOK
<1>2. \A i \in DOMAIN scans : scans[i] \in Scan
  BY <1>1
<1>3. QED
  BY <1>2 DEF Range, Scan

\* However often and in whatever order the host and its services mention a
\* CVE, a stored scan has one finding of it, rated by its worst mention and
\* verified if one is (addCVE of mapping.go).
THEOREM WorstMentionsCount == Spec => []WorstMentionCounts
<1>1. TypeOK => WorstMentionCounts
  BY StoredReports, AllRatedByWorst DEF WorstMentionCounts
<1>2. QED
  BY <1>1, TypeCorrect, PTL

\* A rating is determined by the mentions.
LEMMA SameRating ==
    ASSUME NEW same \in SUBSET Mention, NEW a, NEW b, Rating(a, same), Rating(b, same)
    PROVE  a = b
<1>1. a.cvss = b.cvss
  <2>1. WorstOf(same).cvss = a.cvss /\ WorstOf(same).cvss = b.cvss
    BY WorstIsHighest
  <2>2. QED
    BY <2>1
<1>2. a.severity = b.severity
  BY <1>1 DEF Rating
<1>3. a.verified = b.verified
  <2>1. a.verified \in BOOLEAN /\ b.verified \in BOOLEAN
    BY DEF Rating
  <2>2. a.verified <=> b.verified
    BY Zenon DEF Rating
  <2>3. QED
    BY <2>1, <2>2
<1>4. /\ a \in [cvss : Int, severity : Severities, verified : BOOLEAN]
      /\ b \in [cvss : Int, severity : Severities, verified : BOOLEAN]
  BY DEF Rating
<1>5. QED
  BY <1>1, <1>2, <1>3, <1>4

\* The order in which services and vulnerabilities are walked, for Go maps a
\* different one every time, does not show in the findings: the same mentions
\* make the same table.
THEOREM OrderOfMentionsIsFree ==
    ASSUME NEW m \in Seq(Mention), NEW n \in Seq(Mention), Range(m) = Range(n)
    PROVE  FoldLeft(addCVE, <<>>, m) = FoldLeft(addCVE, <<>>, n)
<1> DEFINE a == FoldLeft(addCVE, <<>>, m)
           b == FoldLeft(addCVE, <<>>, n)
           seen == Range(m)
<1>1. Rated(a, seen) /\ Rated(b, seen)
  BY MentionsRated
<1>2. seen \subseteq Mention
  BY DEF Range
<1> HIDE DEF a, b, seen
<1>3. DOMAIN a = DOMAIN b /\ a = [c \in DOMAIN a |-> a[c]] /\ b = [c \in DOMAIN b |-> b[c]]
  BY <1>1 DEF Rated
<1>4. ASSUME NEW c \in DOMAIN a PROVE a[c] = b[c]
  <2>1. Rating(a[c], Of(seen, c)) /\ Rating(b[c], Of(seen, c))
    BY <1>1, <1>3 DEF Rated
  <2>2. Of(seen, c) \in SUBSET Mention
    BY <1>2 DEF Of
  <2>3. QED
    BY <2>1, <2>2, SameRating
<1>5. a = b
  BY <1>3, <1>4
<1>6. QED
  BY <1>5 DEF a, b

----------------------------------------------------------------------------
(* What one finding weighs *)

\* g shows what f shows, at least so badly rated.
AtLeast(g, f) == Matter(g) = Matter(f) /\ g.cvss >= f.cvss /\ (f.flag => g.flag)

\* What a finding has, as far as it counts for the score.
Ratable(f) ==
    /\ f.cvss \in Int /\ f.flag \in BOOLEAN
    /\ f.kind = "cve" => f.severity = severityFromCVSS(f.cvss)

\* At least as bad is an order on the findings of a matter.
LEMMA AtLeastOrders ==
    /\ \A f : f.cvss \in Int => AtLeast(f, f)
    /\ \A e, f, g : e.cvss \in Int /\ f.cvss \in Int /\ g.cvss \in Int
                       /\ AtLeast(g, f) /\ AtLeast(f, e) => AtLeast(g, e)
<1>1. \A f : f.cvss \in Int => AtLeast(f, f)
  BY DEF AtLeast
<1>2. ASSUME NEW e, NEW f, NEW g, e.cvss \in Int, f.cvss \in Int, g.cvss \in Int,
             AtLeast(g, f), AtLeast(f, e)
      PROVE  AtLeast(g, e)
  <2>1. Matter(g) = Matter(e) /\ (e.flag => g.flag)
    BY <1>2, Zenon DEF AtLeast
  <2>2. g.cvss >= e.cvss
    BY <1>2 DEF AtLeast
  <2>3. QED
    BY <2>1, <2>2 DEF AtLeast
<1>3. QED
  BY <1>1, <1>2

\* What sensible weights are.
LEMMA SensibleWeights ==
    ASSUME NEW w, Sensible(w)
    PROVE  /\ w.CVECritical \in Nat /\ w.CVEHigh \in Nat /\ w.CVEMedium \in Nat /\ w.CVELow \in Nat
           /\ w.VerifiedMultiplier \in Nat /\ w.VerifiedMultiplier >= 10
           /\ w.DefaultPassword \in Nat /\ w.RemoteDesktop \in Nat /\ w.ExposedDatabase \in Nat
           /\ w.AnonymousSMB \in Nat /\ w.SMBShare \in Nat /\ w.CertIssue \in Nat
           /\ w.WeakTLS \in Nat /\ w.MQTTExposed \in Nat /\ w.SensitivePort \in Nat
           /\ w.CVELow <= w.CVEMedium /\ w.CVEMedium <= w.CVEHigh /\ w.CVEHigh <= w.CVECritical
           /\ w.SMBShare <= w.AnonymousSMB
  BY DEF Sensible, DefaultWeights

\* The weights the program comes with are sensible.
LEMMA DefaultWeightsAreSensible == Sensible(DefaultWeights)
  BY DEF Sensible, DefaultWeights, Points

\* A CVE with a higher CVSS costs no less.
LEMMA WorseIsDearer ==
    ASSUME NEW w, Sensible(w), NEW a \in Int, NEW b \in Int, a <= b
    PROVE  /\ cvePenalty(severityFromCVSS(a), w) \in Nat
           /\ cvePenalty(severityFromCVSS(b), w) \in Nat
           /\ cvePenalty(severityFromCVSS(a), w) <= cvePenalty(severityFromCVSS(b), w)
<1>1. \A n \in Int : cvePenalty(severityFromCVSS(n), w) =
                        IF n >= 90 THEN w.CVECritical ELSE IF n >= 70 THEN w.CVEHigh
                        ELSE IF n >= 40 THEN w.CVEMedium ELSE w.CVELow
  BY DEF cvePenalty, severityFromCVSS
<1>2. QED
  BY <1>1, SensibleWeights

\* Products of natural numbers.
LEMMA TimesGrows ==
    ASSUME NEW a \in Nat, NEW b \in Nat, NEW m \in Nat, NEW n \in Nat, a <= b, m <= n
    PROVE  a * m \in Nat /\ b * n \in Nat /\ a * m <= b * n
<1>1. a * m <= b * m
  OBVIOUS
<1>2. b * m <= b * n
  OBVIOUS
<1>3. QED
  BY <1>1, <1>2

\* What is shown worse takes away no less.
LEMMA WeightGrows ==
    ASSUME NEW w, Sensible(w), NEW f, NEW g, Ratable(f), Ratable(g), AtLeast(g, f)
    PROVE  Weight(f, w) \in Nat /\ Weight(g, w) \in Nat /\ Weight(f, w) <= Weight(g, w)
<1>1. /\ f.kind = g.kind /\ f.name = g.name /\ f.port = g.port
      /\ f.cvss \in Int /\ g.cvss \in Int /\ f.cvss <= g.cvss /\ (f.flag => g.flag)
  BY DEF AtLeast, Matter, Ratable
<1>2. CASE f.kind = "cve"
  <2> DEFINE a == cvePenalty(f.severity, w)
             b == cvePenalty(g.severity, w)
             m == IF f.flag THEN w.VerifiedMultiplier ELSE 10
             n == IF g.flag THEN w.VerifiedMultiplier ELSE 10
  <2>1. Weight(f, w) = a * m /\ Weight(g, w) = b * n
    BY <1>1, <1>2 DEF Weight
  <2>2. a \in Nat /\ b \in Nat /\ a <= b
    BY <1>1, <1>2, WorseIsDearer DEF Ratable
  <2>3. m \in Nat /\ n \in Nat /\ m <= n
    BY <1>1, SensibleWeights
  <2> HIDE DEF a, b, m, n
  <2>4. QED
    BY <2>1, <2>2, <2>3, TimesGrows
<1>3. CASE f.kind = "smb_share"
  <2> DEFINE a == IF f.flag THEN w.AnonymousSMB ELSE w.SMBShare
             b == IF g.flag THEN w.AnonymousSMB ELSE w.SMBShare
  <2>1. Weight(f, w) = 10 * a /\ Weight(g, w) = 10 * b
    BY <1>1, <1>3 DEF Weight
  <2>2. a \in Nat /\ b \in Nat /\ a <= b
    BY <1>1, SensibleWeights
  <2> HIDE DEF a, b
  <2>3. QED
    BY <2>1, <2>2
<1>4. CASE f.kind \notin {"cve", "smb_share"}
  <2>1. Weight(f, w) = Weight(g, w)
    BY <1>1, <1>4 DEF Weight
  <2>2. Weight(f, w) \in Nat
    <3>1. weaknessPenalty(f.name, w) \in Nat
      BY SensibleWeights DEF weaknessPenalty
    <3>2. QED
      BY <1>4, <3>1, SensibleWeights DEF Weight
  <2>3. QED
    BY <2>1, <2>2
<1>5. QED
  BY <1>2, <1>3, <1>4

----------------------------------------------------------------------------
(* The penalty of a set of findings *)

\* The finding whose weight is added next.
Some(s) == CHOOSE x \in s : TRUE

\* One unfolding of the sum of the weights of s.
SumStep(g, w, s) == IF s = {} THEN 0 ELSE Weight(Some(s), w) + g[s \ {Some(s)}]

\* g holds the sum of every part of S.
IsSum(g, S, w) == g = [s \in SUBSET S |-> SumStep(g, w, s)]

\* What Score takes away for S.
Penalty(S, w) == MapThenSumSet(LAMBDA f : Weight(f, w), S)

\* The recursive function behind MapThenSumSet exists.
LEMMA SumIterates ==
    ASSUME NEW S, IsFiniteSet(S), NEW w
    PROVE  \E g : IsSum(g, S, w)
<1> DEFINE UpTo(n) == {s \in SUBSET S : Cardinality(s) <= n}
           P(n) == \E g : g = [s \in UpTo(n) |-> SumStep(g, w, s)]
<1>1. \A s \in SUBSET S : IsFiniteSet(s) /\ Cardinality(s) \in Nat /\ Cardinality(s) <= Cardinality(S)
  BY FS_Subset, FS_CardinalityType
<1>2. \A s \in SUBSET S : s # {} => /\ Some(s) \in s /\ s \ {Some(s)} \in SUBSET S
                                    /\ Cardinality(s \ {Some(s)}) = Cardinality(s) - 1
  <2> SUFFICES ASSUME NEW s \in SUBSET S, s # {}
               PROVE  /\ Some(s) \in s /\ s \ {Some(s)} \in SUBSET S
                      /\ Cardinality(s \ {Some(s)}) = Cardinality(s) - 1
    OBVIOUS
  <2>1. Some(s) \in s
    BY Zenon DEF Some
  <2>2. QED
    BY <1>1, <2>1, FS_RemoveElement
<1>3. P(0)
  <2> DEFINE g == [s \in UpTo(0) |-> 0]
  <2>1. \A s \in UpTo(0) : s = {}
    BY <1>1, FS_EmptySet
  <2>2. g = [s \in UpTo(0) |-> SumStep(g, w, s)]
    BY <2>1 DEF SumStep
  <2>3. QED
    BY <2>2
<1>4. ASSUME NEW n \in Nat, P(n) PROVE P(n + 1)
  <2>1. PICK g : g = [s \in UpTo(n) |-> SumStep(g, w, s)]
    BY <1>4
  <2> DEFINE h == [s \in UpTo(n + 1) |-> IF s \in UpTo(n) THEN g[s] ELSE SumStep(g, w, s)]
  <2>2. ASSUME NEW s \in UpTo(n + 1) PROVE h[s] = SumStep(h, w, s)
    <3>1. s # {} => s \ {Some(s)} \in UpTo(n) /\ s \ {Some(s)} \in UpTo(n + 1)
      BY <1>1, <1>2
    <3> HIDE DEF UpTo
    <3>2. s # {} => h[s \ {Some(s)}] = g[s \ {Some(s)}]
      BY <3>1
    <3>3. SumStep(h, w, s) = SumStep(g, w, s)
      BY <3>2 DEF SumStep
    <3>4. s \in UpTo(n) => g[s] = SumStep(g, w, s)
      BY <2>1, Zenon
    <3>5. QED
      BY <3>3, <3>4
  <2>3. h = [s \in UpTo(n + 1) |-> h[s]]
    OBVIOUS
  <2> HIDE DEF h
  <2>4. h = [s \in UpTo(n + 1) |-> SumStep(h, w, s)]
    BY <2>2, <2>3, Zenon
  <2>5. QED
    BY <2>4
<1>5. P(Cardinality(S))
  <2> DEFINE bad == {n \in Nat : ~P(n)}
  <2> HIDE DEF P
  <2> SUFFICES ASSUME bad # {} PROVE FALSE
    BY <1>1
  <2>1. PICK n \in bad : \A k \in bad : n <= k
    BY LeastNat
  <2>2. n # 0
    BY <1>3, <2>1
  <2>3. P(n - 1)
    BY <2>1, <2>2
  <2>4. QED
    BY <1>4, <2>1, <2>2, <2>3
<1>6. UpTo(Cardinality(S)) = SUBSET S
  BY <1>1
<1>7. QED
  BY <1>5, <1>6, Zenon DEF IsSum

\* g leads to the penalty, one finding at a time.
SumsUp(g, S, w) == Penalty(S, w) = g[S] /\ \A s \in SUBSET S : g[s] = SumStep(g, w, s)

\* The penalty is its value.
LEMMA PenaltySums ==
    ASSUME NEW S, IsFiniteSet(S), NEW w
    PROVE  \E g : SumsUp(g, S, w)
<1> DEFINE g == CHOOSE g : IsSum(g, S, w)
<1>1. Penalty(S, w) = g[S]
  BY Zenon DEF Penalty, MapThenSumSet, MapThenFoldSet, IsSum, SumStep, Some
<1>2. IsSum(g, S, w)
  BY SumIterates
<1> HIDE DEF g
<1>3. \A s \in SUBSET S : g[s] = SumStep(g, w, s)
  BY <1>2, Zenon DEF IsSum
<1>4. QED
  BY <1>1, <1>3 DEF SumsUp

\* In whatever order the weights are added.
Adds(g, S, w) ==
    /\ \A s \in SUBSET S : g[s] \in Nat
    /\ g[{}] = 0
    /\ \A s \in SUBSET S : \A x \in s : g[s] = Weight(x, w) + g[s \ {x}]

\* Any finding may be taken first.
LEMMA PenaltyAdds ==
    ASSUME NEW S, IsFiniteSet(S), NEW w, \A x \in S : Weight(x, w) \in Nat
    PROVE  \E g : Adds(g, S, w) /\ g[S] = Penalty(S, w)
<1>1. PICK g : SumsUp(g, S, w)
  BY PenaltySums
<1>2. g[S] = Penalty(S, w)
  BY <1>1 DEF SumsUp
<1>3. \A s \in SUBSET S : g[s] = SumStep(g, w, s)
  BY <1>1 DEF SumsUp
<1>4. \A s \in SUBSET S : IsFiniteSet(s) /\ Cardinality(s) \in Nat
  BY FS_Subset, FS_CardinalityType
<1> DEFINE Right(s) == g[s] \in Nat /\ \A x \in s : g[s] = Weight(x, w) + g[s \ {x}]
<1>5. g[{}] = 0 /\ Right({})
  <2>1. {} \in SUBSET S
    OBVIOUS
  <2>2. g[{}] = SumStep(g, w, {}) /\ SumStep(g, w, {}) = 0
    BY <1>3, <2>1, Zenon DEF SumStep
  <2>3. QED
    BY <2>2
<1>6. ASSUME NEW s \in SUBSET S, s # {},
             \A r \in SUBSET S : Cardinality(r) < Cardinality(s) => Right(r)
      PROVE  Right(s)
  <2> DEFINE y == Some(s)
  <2>1. y \in s
    BY <1>6, Zenon DEF Some
  <2> HIDE DEF y
  <2>2. \A x \in s : s \ {x} \in SUBSET S /\ Cardinality(s \ {x}) < Cardinality(s)
    <3> SUFFICES ASSUME NEW x \in s PROVE Cardinality(s \ {x}) < Cardinality(s)
      OBVIOUS
    <3>1. Cardinality(s \ {x}) = Cardinality(s) - 1
      BY <1>4, FS_RemoveElement
    <3>2. QED
      BY <1>4, <3>1
  <2>3. g[s] = Weight(y, w) + g[s \ {y}]
    BY <1>3, <1>6 DEF SumStep, y
  <2>4. g[s] \in Nat
    <3>1. g[s \ {y}] \in Nat /\ Weight(y, w) \in Nat
      BY <1>6, <2>1, <2>2
    <3>2. QED
      BY <2>3, <3>1
  <2>5. ASSUME NEW x \in s PROVE g[s] = Weight(x, w) + g[s \ {x}]
    <3>1. CASE x = y
      BY <2>3, <3>1
    <3>2. CASE x # y
      <4>1. y \in s \ {x} /\ x \in s \ {y} /\ (s \ {x}) \ {y} = (s \ {y}) \ {x}
        BY <2>1, <3>2
      <4>2. g[s \ {y}] = Weight(x, w) + g[(s \ {y}) \ {x}]
        BY <1>6, <2>1, <2>2, <4>1
      <4>3. g[s \ {x}] = Weight(y, w) + g[(s \ {y}) \ {x}]
        BY <1>6, <2>2, <4>1
      <4>4. g[(s \ {y}) \ {x}] \in Nat /\ Weight(x, w) \in Nat /\ Weight(y, w) \in Nat
        <5>1. s \ {y} \in SUBSET S /\ (s \ {y}) \ {x} \in SUBSET S
          OBVIOUS
        <5>2. Cardinality((s \ {y}) \ {x}) = Cardinality(s \ {y}) - 1
          BY <1>4, <4>1, <5>1, FS_RemoveElement
        <5>3. Cardinality((s \ {y}) \ {x}) < Cardinality(s)
          BY <1>4, <2>1, <2>2, <5>1, <5>2
        <5>4. QED
          BY <1>6, <2>1, <5>1, <5>3
      <4>5. QED
        BY <2>3, <4>2, <4>3, <4>4
    <3>3. QED
      BY <3>1, <3>2
  <2>6. QED
    BY <2>4, <2>5
<1> HIDE DEF Right
<1>7. \A s \in SUBSET S : Right(s)
  <2> DEFINE bad == {n \in Nat : \E s \in SUBSET S : Cardinality(s) = n /\ ~Right(s)}
  <2> SUFFICES ASSUME bad # {} PROVE FALSE
    BY <1>4
  <2>1. PICK n \in bad : \A k \in bad : n <= k
    <3>1. bad \in SUBSET Nat
      OBVIOUS
    <3> HIDE DEF bad
    <3>2. QED
      BY <3>1, LeastNat
  <2>2. PICK s \in SUBSET S : Cardinality(s) = n /\ ~Right(s)
    BY <2>1
  <2>3. \A r \in SUBSET S : Cardinality(r) < Cardinality(s) => Right(r)
    <3> SUFFICES ASSUME NEW r \in SUBSET S, Cardinality(r) < n, ~Right(r) PROVE FALSE
      BY <2>2
    <3>1. Cardinality(r) \in bad
      BY <1>4
    <3>2. n <= Cardinality(r)
      BY <2>1, <3>1
    <3>3. QED
      BY <1>4, <3>2
  <2>4. QED
    BY <1>5, <1>6, <2>2, <2>3
<1>8. Adds(g, S, w)
  BY <1>5, <1>7 DEF Adds, Right
<1>9. QED
  BY <1>2, <1>8

----------------------------------------------------------------------------
(* Who shows more loses more *)

\* How many of S show f, at least so badly rated.
TimesIn(S, f) == Cardinality({g \in S : AtLeast(g, f)})

\* Whichever of two findings on the same matter: one is at least as bad.
Comparable(S) == \A f, g \in S : Matter(f) = Matter(g) => AtLeast(f, g) \/ AtLeast(g, f)

\* Findings can be counted.
LEMMA TimesType ==
    ASSUME NEW S, IsFiniteSet(S), NEW f
    PROVE  IsFiniteSet({g \in S : AtLeast(g, f)}) /\ TimesIn(S, f) \in Nat
<1> DEFINE A == {g \in S : AtLeast(g, f)}
<1>1. A \in SUBSET S
  OBVIOUS
<1> HIDE DEF A
<1>2. IsFiniteSet(A) /\ Cardinality(A) \in Nat
  BY <1>1, FS_Subset, FS_CardinalityType
<1>3. QED
  BY <1>2 DEF A, TimesIn

\* A finding that none of S on the same matter is worse than.
LEMMA TopFinding ==
    ASSUME NEW S, IsFiniteSet(S), S # {}, \A f \in S : Ratable(f), Comparable(S)
    PROVE  \E f \in S : \A e \in S : Matter(e) = Matter(f) => AtLeast(f, e)
<1> DEFINE counts == {TimesIn(S, f) : f \in S}
<1>1. counts \in SUBSET Nat /\ counts # {}
  BY TimesType
<1>2. PICK f \in S : \A e \in S : TimesIn(S, f) <= TimesIn(S, e)
  <2>1. PICK n \in counts : \A m \in counts : n <= m
    <3> HIDE DEF counts
    <3>1. QED
      BY <1>1, LeastNat
  <2>2. QED
    BY <2>1
<1>3. ASSUME NEW e \in S, Matter(e) = Matter(f), ~AtLeast(f, e) PROVE FALSE
  <2> DEFINE A == {g \in S : AtLeast(g, e)}
             B == {g \in S : AtLeast(g, f)}
  <2>1. AtLeast(e, f)
    BY <1>3 DEF Comparable
  <2>2. \A g \in S : g.cvss \in Int
    BY DEF Ratable
  <2>3. A \in SUBSET B
    BY <2>1, <2>2, AtLeastOrders
  <2>4. f \in B /\ f \notin A
    BY <1>3, <2>2, AtLeastOrders
  <2>5. IsFiniteSet(B) /\ Cardinality(A) = TimesIn(S, e) /\ Cardinality(B) = TimesIn(S, f)
    BY TimesType DEF TimesIn
  <2> HIDE DEF A, B
  <2>6. Cardinality(A) <= Cardinality(B) /\ Cardinality(A) # Cardinality(B)
    BY <2>3, <2>4, <2>5, FS_Subset
  <2>7. TimesIn(S, e) \in Nat /\ TimesIn(S, f) \in Nat /\ TimesIn(S, f) <= TimesIn(S, e)
    BY <1>2, TimesType
  <2>8. QED
    BY <2>5, <2>6, <2>7
<1>4. QED
  BY <1>3

\* Without one finding.
LEMMA TimesWithout ==
    ASSUME NEW S, IsFiniteSet(S), NEW x \in S, NEW f
    PROVE  TimesIn(S \ {x}, f) = IF AtLeast(x, f) THEN TimesIn(S, f) - 1 ELSE TimesIn(S, f)
<1> DEFINE A == {g \in S : AtLeast(g, f)}
           B == {g \in S \ {x} : AtLeast(g, f)}
<1>1. TimesIn(S, f) = Cardinality(A) /\ TimesIn(S \ {x}, f) = Cardinality(B) /\ IsFiniteSet(A)
  BY TimesType DEF TimesIn
<1>2. B = A \ {x} /\ (x \in A <=> AtLeast(x, f))
  OBVIOUS
<1> HIDE DEF A, B
<1>3. Cardinality(A \ {x}) = IF x \in A THEN Cardinality(A) - 1 ELSE Cardinality(A)
  BY <1>1, FS_RemoveElement
<1>4. QED
  BY <1>1, <1>2, <1>3

\* T shows all that S shows, at least so badly rated and at least as often.
Outdone(S, T) == \A f \in S : TimesIn(T, f) >= TimesIn(S, f)

\* The worst finding on some matter, with one that is at least so bad.
LEMMA OutdonePair ==
    ASSUME NEW S, IsFiniteSet(S), S # {}, \A f \in S : Ratable(f), Comparable(S),
           NEW T, IsFiniteSet(T), \A g \in T : Ratable(g), Outdone(S, T)
    PROVE  \E f \in S, g \in T : AtLeast(g, f) /\ Outdone(S \ {f}, T \ {g})
<1>1. PICK f \in S : \A e \in S : Matter(e) = Matter(f) => AtLeast(f, e)
  BY TopFinding
<1>2. PICK g \in T : AtLeast(g, f)
  <2>1. TimesIn(S, f) # 0
    <3>1. f \in {x \in S : AtLeast(x, f)}
      BY AtLeastOrders DEF Ratable
    <3>2. QED
      BY <3>1, TimesType, FS_EmptySet DEF TimesIn
  <2>2. TimesIn(T, f) >= TimesIn(S, f) /\ TimesIn(T, f) \in Nat /\ TimesIn(S, f) \in Nat
    BY TimesType DEF Outdone
  <2>3. TimesIn(T, f) # 0
    BY <2>1, <2>2
  <2>4. {x \in T : AtLeast(x, f)} # {}
    BY <2>3, FS_EmptySet DEF TimesIn
  <2>5. QED
    BY <2>4
<1>3. ASSUME NEW e \in S \ {f} PROVE TimesIn(T \ {g}, e) >= TimesIn(S \ {f}, e)
  <2>1. TimesIn(T, e) >= TimesIn(S, e) /\ TimesIn(T, e) \in Nat /\ TimesIn(S, e) \in Nat
    BY TimesType DEF Outdone
  <2>2. AtLeast(g, e) => AtLeast(f, e)
    <3>1. AtLeast(g, e) => Matter(e) = Matter(f)
      BY <1>2 DEF AtLeast
    <3>2. QED
      BY <1>1, <3>1
  <2>3. /\ TimesIn(S \ {f}, e) = IF AtLeast(f, e) THEN TimesIn(S, e) - 1 ELSE TimesIn(S, e)
        /\ TimesIn(T \ {g}, e) = IF AtLeast(g, e) THEN TimesIn(T, e) - 1 ELSE TimesIn(T, e)
    BY TimesWithout
  <2>4. QED
    BY <2>1, <2>2, <2>3
<1>4. QED
  BY <1>2, <1>3 DEF Outdone

\* What shows more costs more.
LEMMA OutdoneCostsMore ==
    ASSUME NEW w, Sensible(w),
           NEW F, IsFiniteSet(F), \A f \in F : Ratable(f), Comparable(F),
           NEW G, IsFiniteSet(G), \A g \in G : Ratable(g), Outdone(F, G)
    PROVE  Penalty(F, w) \in Nat /\ Penalty(G, w) \in Nat /\ Penalty(F, w) <= Penalty(G, w)
<1>1. \A f \in F \union G : Ratable(f) /\ Weight(f, w) \in Nat
  <2> SUFFICES ASSUME NEW f \in F \union G PROVE Ratable(f) /\ Weight(f, w) \in Nat
    OBVIOUS
  <2>1. Ratable(f)
    OBVIOUS
  <2>2. AtLeast(f, f)
    BY <2>1, AtLeastOrders DEF Ratable
  <2>3. QED
    BY <2>1, <2>2, WeightGrows
<1>2. PICK p : Adds(p, F, w) /\ p[F] = Penalty(F, w)
  BY <1>1, PenaltyAdds
<1>3. PICK q : Adds(q, G, w) /\ q[G] = Penalty(G, w)
  BY <1>1, PenaltyAdds
<1>4. /\ \A S \in SUBSET F : IsFiniteSet(S) /\ Cardinality(S) \in Nat
      /\ \A T \in SUBSET G : IsFiniteSet(T)
  BY FS_Subset, FS_CardinalityType
<1>5. /\ \A S \in SUBSET F : p[S] \in Nat
      /\ \A T \in SUBSET G : q[T] \in Nat
  BY <1>2, <1>3 DEF Adds
<1> DEFINE Holds(S) == \A T \in SUBSET G : Outdone(S, T) => p[S] <= q[T]
<1>6. Holds({})
  BY <1>2, <1>5 DEF Adds
<1>7. ASSUME NEW S \in SUBSET F, S # {},
             \A R \in SUBSET F : Cardinality(R) < Cardinality(S) => Holds(R)
      PROVE  Holds(S)
  <2> SUFFICES ASSUME NEW T \in SUBSET G, Outdone(S, T) PROVE p[S] <= q[T]
    OBVIOUS
  <2>1. Comparable(S) /\ IsFiniteSet(S) /\ IsFiniteSet(T)
    BY <1>4 DEF Comparable
  <2>2. PICK f \in S, g \in T : AtLeast(g, f) /\ Outdone(S \ {f}, T \ {g})
    BY <1>1, <1>7, <2>1, OutdonePair
  <2>3. Cardinality(S \ {f}) < Cardinality(S)
    <3>1. Cardinality(S \ {f}) = Cardinality(S) - 1
      BY <2>1, FS_RemoveElement
    <3>2. QED
      BY <1>4, <3>1
  <2>4. p[S \ {f}] <= q[T \ {g}]
    BY <1>7, <2>2, <2>3
  <2>5. p[S] = Weight(f, w) + p[S \ {f}] /\ q[T] = Weight(g, w) + q[T \ {g}]
    BY <1>2, <1>3 DEF Adds
  <2>6. Weight(f, w) \in Nat /\ Weight(g, w) \in Nat /\ Weight(f, w) <= Weight(g, w)
    BY <1>1, <2>2, WeightGrows
  <2>7. p[S \ {f}] \in Nat /\ q[T \ {g}] \in Nat
    BY <1>5
  <2>8. QED
    BY <2>4, <2>5, <2>6, <2>7
<1> HIDE DEF Holds
<1>8. \A S \in SUBSET F : Holds(S)
  <2> DEFINE bad == {n \in Nat : \E S \in SUBSET F : Cardinality(S) = n /\ ~Holds(S)}
  <2> SUFFICES ASSUME bad # {} PROVE FALSE
    BY <1>4
  <2>1. PICK n \in bad : \A k \in bad : n <= k
    <3>1. bad \in SUBSET Nat
      OBVIOUS
    <3> HIDE DEF bad
    <3>2. QED
      BY <3>1, LeastNat
  <2>2. PICK S \in SUBSET F : Cardinality(S) = n /\ ~Holds(S)
    BY <2>1
  <2>3. \A R \in SUBSET F : Cardinality(R) < Cardinality(S) => Holds(R)
    <3> SUFFICES ASSUME NEW R \in SUBSET F, Cardinality(R) < n, ~Holds(R) PROVE FALSE
      BY <2>2
    <3>1. Cardinality(R) \in bad
      BY <1>4
    <3>2. n <= Cardinality(R)
      BY <2>1, <3>1
    <3>3. QED
      BY <1>4, <3>2
  <2>4. QED
    BY <1>6, <1>7, <2>2, <2>3
<1>9. p[F] <= q[G] /\ p[F] \in Nat /\ q[G] \in Nat
  BY <1>5, <1>8 DEF Holds
<1>10. QED
  BY <1>2, <1>3, <1>9

\* Rounding keeps the order.
LEMMA HundredthsRound ==
    ASSUME NEW a \in Int, NEW b \in Int, a <= b
    PROVE  a \div 100 <= b \div 100 /\ a \div 100 \in Int /\ b \div 100 \in Int
  OBVIOUS

\* The score of a penalty.
Rounded(penalty) ==
    LET rounded == (10000 - penalty + 50) \div 100 IN
    IF rounded < 0 THEN 0 ELSE IF rounded > 100 THEN 100 ELSE rounded

\* The score depends on the findings by their penalty alone.
LEMMA ScoreIs ==
    ASSUME NEW S, NEW w
    PROVE  Score(S, w) = Rounded(Penalty(S, w))
  BY DEF Score, Penalty, Rounded

\* What shows more scores no better.
LEMMA OutdoneScoresLess ==
    ASSUME NEW w, Sensible(w),
           NEW F, IsFiniteSet(F), \A f \in F : Ratable(f), Comparable(F),
           NEW G, IsFiniteSet(G), \A g \in G : Ratable(g), Outdone(F, G)
    PROVE  Score(G, w) <= Score(F, w)
<1> DEFINE p == Penalty(F, w)
           q == Penalty(G, w)
           low == (10000 - q + 50) \div 100
           high == (10000 - p + 50) \div 100
<1>1. p \in Nat /\ q \in Nat /\ p <= q
  BY OutdoneCostsMore
<1>2. /\ Score(F, w) = IF high < 0 THEN 0 ELSE IF high > 100 THEN 100 ELSE high
      /\ Score(G, w) = IF low < 0 THEN 0 ELSE IF low > 100 THEN 100 ELSE low
  BY ScoreIs DEF Rounded
<1> HIDE DEF p, q
<1>3. low \in Int /\ high \in Int /\ low <= high
  BY <1>1, HundredthsRound
<1> HIDE DEF low, high
<1>4. QED
  BY <1>2, <1>3

----------------------------------------------------------------------------
(* The findings of a report can be rated *)

\* Of a matter, MapHost makes findings of which one is worse, or both the same.
LEMMA FindingsAreRatable ==
    ASSUME NEW report, IsReport(report)
    PROVE  (\A f \in MapHost(report) : Ratable(f)) /\ Comparable(MapHost(report))
<1> DEFINE F == MapHost(report)
<1>1. PICK found : /\ Rated(found, Range(Mentions(report)))
                   /\ {f \in F : f.kind = "cve"} = {Row(found, c) : c \in DOMAIN found}
  BY ReportRated
<1>2. \A f \in F : f.kind # "cve" => f.cvss = 0 /\ f.flag \in BOOLEAN
  BY OtherFindings
<1>3. ASSUME NEW f \in F, f.kind = "cve"
      PROVE  Ratable(f) /\ f.name \in DOMAIN found /\ f = Row(found, f.name)
  <2>1. PICK c \in DOMAIN found : f = Row(found, c)
    BY <1>1, <1>3
  <2>2. f.name = c /\ f.severity = found[c].severity /\ f.cvss = found[c].cvss /\ f.flag = found[c].verified
    BY <2>1, RowFields
  <2>3. found[c].cvss \in Int /\ found[c].verified \in BOOLEAN
        /\ found[c].severity = severityFromCVSS(found[c].cvss)
    BY <1>1 DEF Rated, Rating
  <2>4. QED
    BY <2>1, <2>2, <2>3 DEF Ratable
<1>4. \A f \in F : Ratable(f)
  BY <1>2, <1>3 DEF Ratable
<1>5. ASSUME NEW f \in F, NEW g \in F, Matter(f) = Matter(g) PROVE AtLeast(f, g) \/ AtLeast(g, f)
  <2>1. f.kind = g.kind /\ f.name = g.name
    BY <1>5 DEF Matter
  <2>2. CASE f.kind = "cve"
    <3>1. f = g
      BY <1>3, <2>1, <2>2
    <3>2. QED
      BY <1>4, <3>1, AtLeastOrders DEF Ratable
  <2>3. CASE f.kind # "cve"
    <3>1. f.cvss = 0 /\ g.cvss = 0 /\ f.flag \in BOOLEAN /\ g.flag \in BOOLEAN
      BY <1>2, <2>1, <2>3
    <3>2. f.cvss >= g.cvss /\ g.cvss >= f.cvss
      BY <3>1
    <3>3. QED
      BY <1>5, <3>1, <3>2 DEF AtLeast
  <2>4. QED
    BY <2>2, <2>3
<1> HIDE DEF F
<1>6. Comparable(F)
  BY <1>5 DEF Comparable
<1>7. QED
  BY <1>4, <1>6 DEF F

\* One finding at most.
LEMMA WhereFinite ==
    ASSUME NEW f, NEW reason
    PROVE  IsFiniteSet(Where(f, reason))
<1>1. Where(f, reason) \in SUBSET {f} /\ IsFiniteSet({f})
  BY FS_Singleton DEF Where
<1>2. QED
  BY <1>1, FS_Subset

\* A service has finitely many findings.
LEMMA ServiceFinite ==
    ASSUME NEW i, NEW s, IsFiniteSet(s.shares)
    PROVE  IsFiniteSet(MapService(i, s))
<1> DEFINE share(n) == Finding(i, "smb_share", n, s.port, IF s.anonymous THEN "high" ELSE "medium",
                               s.anonymous)
           shares == {share(n) : n \in s.shares}
           weak == s.ssl.versions \intersect weakVersions
           version(v) == Finding(i, "cert", v, s.port, "medium", FALSE)
           versions == {version(v) : v \in weak}
<1>1. IsFiniteSet(shares)
  <2> DEFINE h == [n \in s.shares |-> share(n)]
  <2> HIDE DEF share
  <2>1. h \in Surjection(s.shares, shares)
    BY DEF Surjection
  <2>2. QED
    BY <2>1, FS_Surjection
<1>2. IsFiniteSet(versions)
  <2>1. IsFiniteSet(weakVersions)
    <3>1. weakVersions = {"SSLv2"} \union {"SSLv3"} \union {"-SSLv2"} \union {"-SSLv3"}
                             \union {"TLSv1.0"} \union {"TLSv1.1"}
      BY DEF weakVersions
    <3>2. QED
      BY <3>1, FS_Singleton, FS_Union
  <2>2. IsFiniteSet(weak)
    BY <2>1, FS_Intersection
  <2> DEFINE h == [v \in weak |-> version(v)]
  <2> HIDE DEF version, weak
  <2>3. h \in Surjection(weak, versions)
    BY DEF Surjection
  <2>4. QED
    BY <2>2, <2>3, FS_Surjection
<1> DEFINE a == Where(Finding(i, "service", moduleOr(s), s.port, "info", FALSE),
                     s.product \/ s.module # NoName)
           b == Where(Finding(i, "weakness", "exposed_database", s.port, "high", FALSE),
                      s.module \in databaseModules)
           c == Where(Finding(i, "screenshot", NoName, s.port, IF Remote(s) THEN "high" ELSE "medium",
                              Remote(s)), s.screenshot # "none")
           d == Where(Finding(i, "weakness", "remote_desktop", s.port, "high", FALSE), Remote(s))
           e == Where(Finding(i, "mqtt_topic", NoName, s.port, "medium", FALSE),
                      s.module = "mqtt" /\ s.mqtt)
           k == Where(Finding(i, "cert", "cert_expired", s.port, "medium", FALSE), s.ssl.expired)
           l == Where(Finding(i, "cert", "cert_selfsigned", s.port, "medium", FALSE),
                      isSelfSigned(s.ssl))
<1>3. MapService(i, s) = a \union b \union c \union d \union shares \union e
                            \union (k \union l \union versions)
  BY Zenon DEF MapService, mapCert
<1>4. /\ IsFiniteSet(a) /\ IsFiniteSet(b) /\ IsFiniteSet(c) /\ IsFiniteSet(d)
      /\ IsFiniteSet(e) /\ IsFiniteSet(k) /\ IsFiniteSet(l)
  BY WhereFinite
<1> HIDE DEF shares, versions, a, b, c, d, e, k, l
<1>5. IsFiniteSet(a \union b \union c \union d)
  BY <1>4, FS_Union
<1>6. IsFiniteSet(k \union l \union versions)
  BY <1>2, <1>4, FS_Union
<1>7. IsFiniteSet(a \union b \union c \union d \union shares \union e)
  BY <1>1, <1>4, <1>5, FS_Union
<1>8. QED
  BY <1>3, <1>6, <1>7, FS_Union

\* A host has finitely many findings.
LEMMA FindingsFinite ==
    ASSUME NEW report, IsReport(report)
    PROVE  IsFiniteSet(MapHost(report))
<1> DEFINE port(p) == Finding(0, "port", NoName, p, "info", FALSE)
           ports == {port(p) : p \in Range(report.ports)}
           of(i) == MapService(i, report.data[i])
           services == UNION {of(i) : i \in 1..Len(report.data)}
           default == Where(Finding(0, "weakness", "default_password", 0, "critical", FALSE),
                            report.defaultPassword)
<1>1. IsFiniteSet(ports)
  <2>1. Len(report.ports) \in Nat /\ DOMAIN report.ports = 1..Len(report.ports)
    BY DEF IsReport
  <2> DEFINE h == [k \in 1..Len(report.ports) |-> port(report.ports[k])]
  <2> HIDE DEF port
  <2>2. h \in Surjection(1..Len(report.ports), ports)
    BY <2>1 DEF Surjection, Range
  <2>3. IsFiniteSet(1..Len(report.ports))
    BY <2>1, FS_Interval
  <2>4. QED
    BY <2>2, <2>3, FS_Surjection
<1>2. IsFiniteSet(services)
  <2>1. report.data \in Seq(Range(report.data)) /\ \A s \in Range(report.data) : IsFiniteSet(s.shares)
    BY DEF IsReport
  <2>2. Len(report.data) \in Nat /\ \A i \in 1..Len(report.data) : IsFiniteSet(report.data[i].shares)
    BY <2>1
  <2>3. \A i \in 1..Len(report.data) : IsFiniteSet(of(i))
    BY <2>2, ServiceFinite
  <2> DEFINE parts == {of(i) : i \in 1..Len(report.data)}
             h == [i \in 1..Len(report.data) |-> of(i)]
  <2> HIDE DEF of
  <2>4. h \in Surjection(1..Len(report.data), parts)
    BY DEF Surjection
  <2>5. IsFiniteSet(1..Len(report.data))
    BY <2>2, FS_Interval
  <2>6. IsFiniteSet(parts)
    BY <2>4, <2>5, FS_Surjection
  <2>7. \A S \in parts : IsFiniteSet(S)
    BY <2>3
  <2> HIDE DEF parts
  <2>8. IsFiniteSet(UNION parts)
    BY <2>6, <2>7, FS_UNION
  <2>9. QED
    BY <2>8 DEF parts
<1>3. IsFiniteSet(CVEs(report))
  <2>1. PICK found : /\ Rated(found, Range(Mentions(report)))
                     /\ CVEs(report) = {Row(found, c) : c \in DOMAIN found}
    BY ReportRated, OtherFindings
  <2> DEFINE h == [c \in DOMAIN found |-> Row(found, c)]
  <2>2. h \in Surjection(DOMAIN found, CVEs(report))
    BY <2>1 DEF Surjection
  <2>3. QED
    BY <2>1, <2>2, FS_Surjection DEF Rated
<1>4. IsFiniteSet(default)
  BY WhereFinite
<1>5. MapHost(report) = ports \union CVEs(report) \union services \union default
  BY DEF MapHost
<1> HIDE DEF ports, services, default
<1>6. QED
  BY <1>1, <1>2, <1>3, <1>4, <1>5, FS_Union

\* So it is for two reports and a table of weights.
LEMMA ExposedScoresLess ==
    ASSUME NEW name \in DOMAIN Reports, NEW other \in AsExposedAs[name],
           NEW t \in DOMAIN Tunings, Sensible(Tunings[t])
    PROVE  ScoreOf[other][t] <= ScoreOf[name][t]
<1> DEFINE F == Found[name]
           G == Found[other]
<1>1. other \in DOMAIN Reports /\ \A f \in F : Times(other, f) >= Times(name, f)
  BY DEF AsExposedAs
<1>2. IsReport(Reports[name]) /\ IsReport(Reports[other])
  BY <1>1, ReportsAreDecoded
<1>3. F = MapHost(Reports[name]) /\ G = MapHost(Reports[other])
  BY <1>1 DEF Found
<1>4. /\ IsFiniteSet(F) /\ (\A f \in F : Ratable(f)) /\ Comparable(F)
      /\ IsFiniteSet(G) /\ (\A g \in G : Ratable(g))
  BY <1>2, <1>3, FindingsFinite, FindingsAreRatable
<1>5. \A f : TimesIn(F, f) = Times(name, f) /\ TimesIn(G, f) = Times(other, f)
  BY Zenon DEF TimesIn, Times, AtLeast
<1>6. ScoreOf[name][t] = Score(F, Tunings[t]) /\ ScoreOf[other][t] = Score(G, Tunings[t])
  BY <1>1 DEF ScoreOf
<1> HIDE DEF F, G
<1>7. Outdone(F, G)
  BY <1>1, <1>5 DEF Outdone
<1>8. QED
  BY <1>4, <1>6, <1>7, OutdoneScoresLess

\* A host that shows all that is in a stored scan, at least so badly rated and
\* at least as often, scores no better under the same sensible weights (Score
\* of scoring.go): no finding cancels another one, and neither rounding nor
\* the order of the findings turns the comparison round.
THEOREM ExposureLowersScore == Spec => []ScoreFollowsExposure
<1>1. TypeOK => ScoreFollowsExposure
  BY StoredReports, ExposedScoresLess DEF ScoreFollowsExposure, SensibleTunings
<1>2. QED
  BY <1>1, TypeCorrect, PTL

\* A score is a percentage.
LEMMA ScoresAreBetween ==
    ASSUME NEW w, Sensible(w), NEW S, IsFiniteSet(S), \A f \in S : Ratable(f)
    PROVE  Score(S, w) \in 0..100
<1>1. Penalty(S, w) \in Nat
  <2>1. \A f \in S : Weight(f, w) \in Nat
    <3> SUFFICES ASSUME NEW f \in S PROVE Weight(f, w) \in Nat
      OBVIOUS
    <3>1. AtLeast(f, f)
      BY AtLeastOrders DEF Ratable
    <3>2. QED
      BY <3>1, WeightGrows
  <2>2. PICK g : Adds(g, S, w) /\ g[S] = Penalty(S, w)
    BY <2>1, PenaltyAdds
  <2>3. QED
    BY <2>2 DEF Adds
<1> DEFINE p == Penalty(S, w)
<1>2. Score(S, w) = Rounded(p)
  BY ScoreIs
<1> HIDE DEF p
<1>3. (10000 - p + 50) \div 100 \in Int
  BY <1>1, HundredthsRound DEF p
<1>4. QED
  BY <1>2, <1>3 DEF Rounded

\* A better score has no worse grade.
LEMMA GradesFollowScores ==
    ASSUME NEW a \in 0..100, NEW b \in 0..100, a <= b
    PROVE  gradeRank(Grade(b)) <= gradeRank(Grade(a))
<1>1. \A n \in 0..100 : gradeRank(Grade(n)) = IF n >= 90 THEN 0 ELSE IF n >= 80 THEN 1
                            ELSE IF n >= 70 THEN 2 ELSE IF n >= 60 THEN 3 ELSE 4
  BY DEF Grade, gradeRank
<1>2. QED
  BY <1>1

\* Nor does such a host get a better grade: the thresholds of Grade (scoring.go)
\* leave no gap and do not overlap.
THEOREM ExposureLowersGrade ==
    ASSUME NEW name \in DOMAIN Reports, NEW other \in AsExposedAs[name],
           NEW t \in DOMAIN Tunings, Sensible(Tunings[t])
    PROVE  gradeRank(Grade(ScoreOf[name][t])) <= gradeRank(Grade(ScoreOf[other][t]))
<1>1. other \in DOMAIN Reports
  BY DEF AsExposedAs
<1>2. \A n \in DOMAIN Reports : ScoreOf[n][t] \in 0..100
  <2> SUFFICES ASSUME NEW n \in DOMAIN Reports PROVE ScoreOf[n][t] \in 0..100
    OBVIOUS
  <2>1. IsFiniteSet(MapHost(Reports[n])) /\ \A f \in MapHost(Reports[n]) : Ratable(f)
    BY ReportsAreDecoded, FindingsFinite, FindingsAreRatable
  <2>2. ScoreOf[n][t] = Score(MapHost(Reports[n]), Tunings[t])
    BY DEF ScoreOf, Found
  <2>3. QED
    BY <2>1, <2>2, ScoresAreBetween
<1>3. ScoreOf[other][t] <= ScoreOf[name][t]
  BY ExposedScoresLess
<1>4. QED
  BY <1>1, <1>2, <1>3, GradesFollowScores

=============================================================================
