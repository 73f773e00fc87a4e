--------------------------- MODULE TimedSearchProofs ---------------------------
(***************************************************************************)
(* The timed searches and the automaton that their checks build, for every *)
(* number of searches and all graphs: how far an alarm reaches; that the   *)
(* foreign calls rebuild the graph they are given, and fail no assertion,  *)
(* until a timeout cuts a search short.                                    *)
(***************************************************************************)
EXTENDS TimedSearch, FiniteSetTheorems, WellFoundedInduction, TLAPS

USE Zenon

-----------------------------------------------------------------------------
(* The alarm. *)

\* The inductive invariant.  An alarm that is ticking while a search runs under
\* w_timeout is the one that search has set, because Unix.alarm replaced the one
\* before; between searches, and until the alarm is set, it is the one of the
\* search before.  An alarm is noted only while the handler is installed, and the
\* search that notes it ends with it.
TInv ==
  /\ search \in 1 .. Searches + 1
  /\ pc \in {"idle", "set_alarm", "search", "return"}
  /\ pc # "idle" => search \in 1 .. Searches
  /\ pc # "search" => phase = "none"
  /\ pc = "idle" => handler = "default" /\ pending = 0
  /\ pc \in {"idle", "set_alarm"} => alarm \in {0, search - 1}
  /\ pc \in {"search", "return"} => alarm \in {0, search}
  /\ pc = "return" => handler = "default"
  /\ pc = "set_alarm" => timeout # "zero"
  /\ timeout # "positive" => alarm = 0
  /\ pending \in {0, search - 1, search}
  /\ result \in [1 .. Searches -> {"none", "returned", "timeout"}]
  /\ blame \in [1 .. Searches -> Int]
  /\ \A s \in 1 .. Searches : result[s] = "timeout" => blame[s] \in {s - 1, s}

LEMMA InitTInv == Init => TInv
BY SearchesAssumption, SMT DEF Init, AutInit, TInv

\* The steps of the soundness check leave the driver and the timer alone.
LEMMA CheckPreserves ==
  ASSUME TInv, Check \/ CheckGoesOn PROVE TInv'
<1>1. pc = "search" /\ UNCHANGED <<pc, search, timervars, result, blame, fate>>
  BY DEF Check, CheckGoesOn
<1>. QED
  BY <1>1 DEF TInv, timervars

\* The steps of the driver and of w_timeout.
LEMMA DriverPreserves ==
  ASSUME TInv, StartSearch \/ SetAlarm \/ SearchReturns \/ Return \/ Exit
  PROVE  TInv'
<1>1. CASE StartSearch
  BY <1>1, SearchesAssumption, SMT DEF StartSearch, TInv, autvars
<1>2. CASE SetAlarm
  BY <1>2, SearchesAssumption DEF SetAlarm, TInv, autvars
<1>3. CASE SearchReturns
  BY <1>3 DEF SearchReturns, TInv, autvars
<1>4. CASE Return
  BY <1>4, SearchesAssumption, SMT DEF Return, TInv, autvars, timervars
<1>5. CASE Exit
  BY <1>5 DEF Exit, TInv, autvars, timervars
<1>. QED
  BY <1>1, <1>2, <1>3, <1>4, <1>5

\* The signal, and the exception that follows it.
LEMMA SignalPreserves ==
  ASSUME TInv, AlarmRings \/ RaiseTimeout \/ TimeoutEscapes PROVE TInv'
<1>1. CASE AlarmRings
  BY <1>1, SearchesAssumption DEF AlarmRings, TInv, autvars
<1>2. CASE RaiseTimeout
  BY <1>2, SearchesAssumption, SMT DEF RaiseTimeout, TInv
<1>3. CASE TimeoutEscapes
  BY <1>3 DEF TimeoutEscapes, TInv, autvars, timervars
<1>. QED
  BY <1>1, <1>2, <1>3

LEMMA StepPreserves == ASSUME TInv, [Next]_vars PROVE TInv'
<1>1. CASE UNCHANGED vars
  BY <1>1 DEF TInv, vars, autvars, timervars
<1>2. CASE Next
  BY <1>2, CheckPreserves, DriverPreserves, SignalPreserves DEF Next
<1>. QED
  BY <1>1, <1>2

LEMMA TInvImplies == TInv => AlarmAge
BY DEF TInv, AlarmAge

\* However many searches a process makes, an alarm of w_timeout, which is never
\* cancelled, ends at most the search after the one it was set for.
THEOREM AlarmReachesOneSearch == Spec => []AlarmAge
BY InitTInv, StepPreserves, TInvImplies, PTL DEF Spec

-----------------------------------------------------------------------------
(* Powers of two, and the vertices that are numbered in binary. *)

\* A non-empty set of natural numbers has a least element.
LEMMA LeastNatural ==
  ASSUME NEW S, S \subseteq Nat, S # {}
  PROVE  \E x \in S : \A y \in S : x =< y
<1> DEFINE Less == {ss \in Nat \X Nat : ss[1] < ss[2]}
<1>1. IsWellFoundedOn(Less, Nat)
  <2>1. OpToRel(<, Nat) = Less
    BY DEF OpToRel
  <2> QED
    BY <2>1, NatLessThanWellFounded
<1>2. PICK x \in S : \A y \in S : ~(<<y, x>> \in Less)
  <2> HIDE DEF Less
  <2> QED
    BY <1>1, WFMin
<1>3. ASSUME NEW y \in S PROVE x =< y
  <2>1. ~(<<y, x>> \in Less)
    BY <1>2
  <2> QED
    BY <2>1, SMT
<1> QED
  BY <1>3

\* The first powers, up to n.
Doubles(g, n) == g = [k \in 0 .. n |-> IF k = 0 THEN 1 ELSE 2 * g[k - 1]]

LEMMA DoublesAt ==
  ASSUME NEW g, NEW n \in Nat, Doubles(g, n), NEW k \in 0 .. n
  PROVE  g[k] = IF k = 0 THEN 1 ELSE 2 * g[k - 1]
<1> DEFINE h(i) == IF i = 0 THEN 1 ELSE 2 * g[i - 1]
<1>1. g = [i \in 0 .. n |-> h(i)]
  BY DEF Doubles
<1> HIDE DEF h
<1>2. g[k] = h(k)
  BY <1>1
<1> QED
  BY <1>2 DEF h

LEMMA DoublesExists ==
  ASSUME NEW n \in Nat
  PROVE  \E g : Doubles(g, n)
<1> DEFINE S == {i \in Nat : ~ \E g : Doubles(g, i)}
<1> SUFFICES ASSUME S # {} PROVE FALSE
  OBVIOUS
<1>1. PICK m \in S : \A i \in S : m <= i
  BY LeastNatural
<1>2. CASE m = 0
  <2> DEFINE g == [i \in 0 .. 0 |-> 1]
  <2>1. g = [k \in 0 .. 0 |-> IF k = 0 THEN 1 ELSE 2 * g[k - 1]]
    BY SMT
  <2> HIDE DEF g
  <2>2. Doubles(g, 0)
    BY <2>1 DEF Doubles
  <2> QED
    BY <1>1, <1>2, <2>2
<1>3. CASE m # 0
  <2>1. m - 1 \in Nat /\ m - 1 \notin S
    BY <1>1, <1>3, SMT
  <2>2. PICK g : Doubles(g, m - 1)
    BY <2>1
  <2> DEFINE f == [k \in 0 .. m |-> IF k = m THEN 2 * g[m - 1] ELSE g[k]]
             h(k) == IF k = 0 THEN 1 ELSE 2 * f[k - 1]
  <2>3. /\ f = [k \in 0 .. m |-> f[k]]
        /\ f[m] = 2 * g[m - 1]
        /\ \A k \in 0 .. m - 1 : f[k] = g[k]
    BY <2>1, SMT
  <2> HIDE DEF f
  <2>4. ASSUME NEW k \in 0 .. m PROVE f[k] = h(k)
    <3>1. CASE k = m
      <4>1. m - 1 \in 0 .. m - 1
        BY <2>1, SMT
      <4> QED
        BY <1>3, <2>3, <3>1, <4>1
    <3>2. CASE k # m
      <4>1. k \in 0 .. m - 1 /\ (k # 0 => k - 1 \in 0 .. m - 1)
        BY <2>1, <3>2, SMT
      <4>2. g[k] = IF k = 0 THEN 1 ELSE 2 * g[k - 1]
        BY <2>1, <2>2, <4>1, DoublesAt
      <4> QED
        BY <2>3, <4>1, <4>2
    <3> QED
      BY <3>1, <3>2
  <2> HIDE DEF h
  <2>5. f = [k \in 0 .. m |-> h(k)]
    BY <2>3, <2>4
  <2>6. Doubles(f, m)
    BY <2>5 DEF Doubles, h
  <2> QED
    BY <1>1, <2>6
<1> QED
  BY <1>2, <1>3

LEMMA DoublesAgree ==
  ASSUME NEW m \in Nat, NEW n \in Nat, NEW f, NEW g, Doubles(f, m), Doubles(g, n),
         NEW k \in Nat, k <= m, k <= n
  PROVE  f[k] = g[k]
<1> DEFINE S == {i \in Nat : i <= m /\ i <= n /\ f[i] # g[i]}
<1> SUFFICES ASSUME S # {} PROVE FALSE
  OBVIOUS
<1>1. PICK i \in S : \A j \in S : i <= j
  BY LeastNatural
<1>2. i \in 0 .. m /\ i \in 0 .. n
  BY <1>1, SMT
<1>3. /\ f[i] = IF i = 0 THEN 1 ELSE 2 * f[i - 1]
      /\ g[i] = IF i = 0 THEN 1 ELSE 2 * g[i - 1]
  BY <1>2, DoublesAt
<1>4. i # 0
  BY <1>1, <1>3
<1>5. f[i - 1] = g[i - 1]
  BY <1>1, <1>4, SMT
<1> QED
  BY <1>1, <1>3, <1>5

\* pow2 is what its definition says.
LEMMA PowersOfTwo == pow2[0] = 1 /\ \A n \in Nat : pow2[n + 1] = 2 * pow2[n]
<1> DEFINE G(n) == CHOOSE g : Doubles(g, n)
           f == [n \in Nat |-> G(n)[n]]
           h(n) == IF n = 0 THEN 1 ELSE 2 * f[n - 1]
           Solves(g) == g = [n \in Nat |-> IF n = 0 THEN 1 ELSE 2 * g[n - 1]]
<1>1. \A n \in Nat : Doubles(G(n), n)
  BY DoublesExists
<1>2. \A n \in Nat : f[n] = G(n)[n]
  OBVIOUS
<1>3. f = [n \in Nat |-> f[n]]
  BY SMT
<1> HIDE DEF f, G
<1>4. ASSUME NEW n \in Nat PROVE f[n] = h(n)
  <2>1. G(n)[n] = IF n = 0 THEN 1 ELSE 2 * G(n)[n - 1]
    <3>1. n \in 0 .. n
      BY SMT
    <3> QED
      BY <1>1, <3>1, DoublesAt
  <2>2. ASSUME n # 0 PROVE G(n)[n - 1] = G(n - 1)[n - 1]
    <3>1. n - 1 \in Nat /\ n - 1 <= n /\ n - 1 <= n - 1
      BY <2>2, SMT
    <3> QED
      BY <1>1, <3>1, DoublesAgree, SMT
  <2> QED
    BY <1>2, <2>1, <2>2, SMT
<1> HIDE DEF h
<1>5. f = [n \in Nat |-> h(n)]
  BY <1>3, <1>4
<1>6. Solves(f)
  BY <1>5 DEF h
<1>7. pow2 = CHOOSE g : Solves(g)
  BY DEF pow2
<1>8. Solves(pow2)
  <2> HIDE DEF Solves
  <2> QED
    BY <1>6, <1>7
<1> DEFINE e(n) == IF n = 0 THEN 1 ELSE 2 * pow2[n - 1]
<1>9. pow2 = [n \in Nat |-> e(n)]
  BY <1>8
<1> HIDE DEF e
<1>10. \A n \in Nat : pow2[n] = e(n)
  BY <1>9
<1>11. \A n \in Nat : pow2[n] = IF n = 0 THEN 1 ELSE 2 * pow2[n - 1]
  BY <1>10 DEF e
<1>12. ASSUME NEW n \in Nat PROVE pow2[n + 1] = 2 * pow2[n]
  <2>1. n + 1 \in Nat /\ n + 1 # 0 /\ (n + 1) - 1 = n
    BY SMT
  <2> QED
    BY <1>11, <2>1
<1> QED
  BY <1>11, <1>12

\* A power of two is larger than its exponent.
LEMMA PowersGrow ==
  ASSUME NEW n \in Nat
  PROVE  pow2[n] \in Nat /\ pow2[n] > n
<1> DEFINE S == {i \in Nat : ~(pow2[i] \in Nat /\ pow2[i] > i)}
<1> SUFFICES ASSUME S # {} PROVE FALSE
  OBVIOUS
<1>1. PICK m \in S : \A i \in S : m <= i
  BY LeastNatural
<1>2. m # 0
  BY <1>1, PowersOfTwo, SMT
<1>3. m - 1 \in Nat /\ pow2[m - 1] \in Nat /\ pow2[m - 1] > m - 1
  BY <1>1, <1>2, SMT
<1>4. pow2[m] = 2 * pow2[m - 1]
  <2>1. (m - 1) + 1 = m
    BY <1>1, SMT
  <2> QED
    BY <1>3, <2>1, PowersOfTwo
<1> QED
  BY <1>1, <1>3, <1>4, SMT

\* The quotient by a number, and by its double.
LEMMA Quotient ==
  ASSUME NEW y \in Nat, y > 0, NEW b \in Nat, NEW r \in Nat, r < y, NEW x \in Nat,
         x = b * y + r
  PROVE  x \div y = b
BY SMT

LEMMA HalvesQuotient ==
  ASSUME NEW x \in Nat, NEW y \in Nat, y > 0
  PROVE  x \div (2 * y) = (x \div 2) \div y
<1> DEFINE a == x \div 2
           b == a \div y
           p == b * y
           s == a - p
           r == x - 2 * a
<1>1. a \in Nat /\ b \in Nat /\ p \in Nat /\ s \in Nat /\ s < y /\ r \in 0 .. 1
  BY SMT
<1>2. x = b * (2 * y) + (2 * s + r) /\ 2 * s + r < 2 * y
  BY SMT
<1> HIDE DEF a, b, p, s, r
<1>3. x \div (2 * y) = b
  BY <1>1, <1>2, Quotient, SMT
<1> QED
  BY <1>3 DEF a, b

\* Shifting out the lowest bit.
LEMMA BitsShift ==
  ASSUME NEW n \in Nat, NEW i \in Nat
  PROVE  Bit(n, 0) = n % 2 /\ Bit(n, i + 1) = Bit(n \div 2, i)
<1>1. pow2[0] = 1 /\ pow2[i + 1] = 2 * pow2[i]
  BY PowersOfTwo
<1>2. pow2[i] \in Nat /\ pow2[i] > 0
  BY PowersGrow, SMT
<1>3. n \div (2 * pow2[i]) = (n \div 2) \div pow2[i]
  BY <1>2, HalvesQuotient
<1>4. n \div 1 = n
  BY SMT
<1> QED
  BY <1>1, <1>3, <1>4 DEF Bit

\* Numbers that fit in k bits are equal when their bits are.
LEMMA BitsDetermine ==
  ASSUME NEW k \in Nat, NEW m \in 0 .. pow2[k] - 1, NEW n \in 0 .. pow2[k] - 1,
         \A i \in 0 .. k - 1 : Bit(m, i) = Bit(n, i)
  PROVE  m = n
<1> DEFINE Differ(x, a, b) == /\ a \in 0 .. pow2[x] - 1 /\ b \in 0 .. pow2[x] - 1 /\ a # b
                              /\ \A i \in 0 .. x - 1 : Bit(a, i) = Bit(b, i)
           S == {x \in Nat : \E a, b : Differ(x, a, b)}
<1> SUFFICES ASSUME m # n PROVE FALSE
  OBVIOUS
<1>1. Differ(k, m, n)
  OBVIOUS
<1>2. S # {}
  <2> HIDE DEF Differ
  <2> QED
    BY <1>1
<1>3. PICK x \in S : \A y \in S : x <= y
  BY <1>2, LeastNatural
<1>4. PICK a, b : Differ(x, a, b)
  BY <1>3
<1>5. x # 0
  BY <1>4, PowersOfTwo, SMT
<1>6. x - 1 \in Nat /\ pow2[x] = 2 * pow2[x - 1] /\ pow2[x - 1] \in Nat
  <2>1. x - 1 \in Nat /\ (x - 1) + 1 = x
    BY <1>3, <1>5, SMT
  <2>2. pow2[(x - 1) + 1] = 2 * pow2[x - 1]
    BY <2>1, PowersOfTwo
  <2> QED
    BY <2>1, <2>2, PowersGrow
<1> DEFINE c == a \div 2
           d == b \div 2
<1>7. a \in Nat /\ b \in Nat /\ a < pow2[x] /\ b < pow2[x] /\ pow2[x] \in Nat
  BY <1>4, <1>6, SMT
<1>8. c \in 0 .. pow2[x - 1] - 1 /\ d \in 0 .. pow2[x - 1] - 1
  BY <1>6, <1>7, SMT
<1>9. a % 2 = b % 2
  <2>1. 0 \in 0 .. x - 1
    BY <1>6, SMT
  <2> QED
    BY <1>4, <1>7, <2>1, BitsShift
<1>10. c # d
  BY <1>4, <1>7, <1>9, SMT
<1>11. ASSUME NEW i \in 0 .. (x - 1) - 1 PROVE Bit(c, i) = Bit(d, i)
  <2>1. i \in Nat /\ i + 1 \in 0 .. x - 1
    BY <1>6, SMT
  <2> QED
    BY <1>4, <1>7, <2>1, BitsShift, ZenonT(60)
<1>12. Differ(x - 1, c, d)
  BY <1>8, <1>10, <1>11
<1> HIDE DEF Differ
<1> QED
  BY <1>3, <1>6, <1>12, SMT

\* The BDD of a vertex has one valuation, its number.
LEMMA VertexBdd ==
  ASSUME NEW log2 \in Nat, NEW n \in Nat, n < pow2[log2]
  PROVE  vertex_bdd(log2, n) = {n}
<1>1. pow2[log2] \in Nat
  BY PowersGrow
<1>2. n \in 0 .. pow2[log2] - 1
  BY <1>1, SMT
<1> QED
  BY <1>2, BitsDetermine DEF vertex_bdd

\* The numbers of size vertices, which begin with 1, fit in log2size(size) bits.
LEMMA NumbersFit ==
  ASSUME NEW size \in Nat, size > 0
  PROVE  log2size(size) \in Nat /\ size < pow2[log2size(size)]
<1> DEFINE C == {c \in 0 .. size : pow2[c] >= size}
           c == Min(C)
<1>1. size \in C
  BY PowersGrow, SMT
<1>2. \E x \in C : \A y \in C : x <= y
  <2>1. C \subseteq Nat /\ C # {}
    BY <1>1, SMT
  <2> HIDE DEF C
  <2> QED
    BY <2>1, LeastNatural
<1>3. c \in C
  BY <1>2 DEF Min
<1> HIDE DEF c
<1>4. c \in Nat /\ pow2[c] >= size /\ pow2[c] \in Nat
  BY <1>3, PowersGrow, SMT
<1>5. log2size(size) = c + 1
  BY <1>4, SMT DEF log2size, c
<1> QED
  BY <1>4, <1>5, PowersOfTwo, SMT

-----------------------------------------------------------------------------
(* The methods of class Proof. *)

Fields == {"max_vertices_log2", "max_tag", "last_vertex", "initial_vertex", "vertices",
           "trans_map", "tag_map", "trace_pairs", "progress_pairs"}

\* The map m has a vertex for every node in seen, numbered from 1.
VerticesBuilt(vertices, last, m, seen) ==
  /\ IsFiniteSet(seen)
  /\ last = Cardinality(seen)
  /\ DOMAIN m = seen
  /\ vertices = {m[v] : v \in seen}
  /\ \A v \in seen : \E n \in 1 .. last : m[v] = {n}
  /\ \A v, w \in seen : m[v] = m[w] => v = w

\* Of tags, links and quads (members of tagged, edges and pairs) exactly these are
\* recorded.
TagsBuilt(tag_map, m, seen, tags) ==
  /\ DOMAIN tag_map = {m[v] : v \in seen}
  /\ \A v \in seen : \A t : t \in tag_map[m[v]] <=> <<v, t>> \in tags

LinksBuilt(trans_map, m, seen, links) ==
  /\ DOMAIN trans_map = {m[v] : v \in seen}
  /\ \A v \in seen : trans_map[m[v]] = {m[w] : w \in {u \in seen : <<v, u>> \in links}}

PairsBuilt(pairs_, m, seen, kind, quads) ==
  /\ \A v, w \in seen : \A t, u :
       <<m[v], m[w], t, u>> \in pairs_ <=> <<kind, <<v, w>>, <<t, u>>>> \in quads
  /\ quads = {} => pairs_ = {}

Built(p, m, log2, seen, tags, links, quads) ==
  /\ DOMAIN p = Fields
  /\ p.max_vertices_log2 = log2
  /\ VerticesBuilt(p.vertices, p.last_vertex, m, seen)
  /\ TagsBuilt(p.tag_map, m, seen, tags)
  /\ LinksBuilt(p.trans_map, m, seen, links)
  /\ PairsBuilt(p.trace_pairs, m, seen, "trace", quads)
  /\ PairsBuilt(p.progress_pairs, m, seen, "progress", quads)

LEMMA EmptyBuilt ==
  ASSUME NEW log2
  PROVE  Built(Proof(log2), NoMap, log2, {}, {}, {}, {})
<1> DEFINE p == Proof(log2)
<1>1. /\ DOMAIN p = Fields
      /\ p.max_vertices_log2 = log2 /\ p.last_vertex = 0 /\ p.vertices = {}
      /\ p.trans_map = << >> /\ p.tag_map = << >>
      /\ p.trace_pairs = {} /\ p.progress_pairs = {}
  BY DEF Proof, Fields
<1>2. DOMAIN << >> = {} /\ NoMap = << >>
  BY SMT DEF NoMap
<1> HIDE DEF p
<1>3. Built(p, NoMap, log2, {}, {}, {}, {})
  BY <1>1, <1>2, FS_EmptySet
  DEF Built, VerticesBuilt, TagsBuilt, LinksBuilt, PairsBuilt
<1> QED
  BY <1>3 DEF p

LEMMA AddVertex ==
  ASSUME NEW p, NEW m, NEW log2 \in Nat, NEW seen, NEW v, v \notin seen,
         Built(p, m, log2, seen, {}, {}, {}), VertexFits(p),
         NEW n, n = [x \in DOMAIN m \cup {v} |-> IF x = v THEN new_vertex(p) ELSE m[x]]
  PROVE  Built(with_vertex(p), n, log2, seen \cup {v}, {}, {}, {})
<1> DEFINE q == with_vertex(p)
           k == p.last_vertex
           b == new_vertex(p)
           more == seen \cup {v}
<1>1. /\ DOMAIN p = Fields /\ p.max_vertices_log2 = log2
      /\ VerticesBuilt(p.vertices, k, m, seen)
      /\ TagsBuilt(p.tag_map, m, seen, {})
      /\ LinksBuilt(p.trans_map, m, seen, {})
      /\ p.trace_pairs = {} /\ p.progress_pairs = {}
  BY DEF Built, PairsBuilt
<1>2. DOMAIN m = seen /\ p.vertices = {m[x] : x \in seen} /\ IsFiniteSet(seen) /\ k = Cardinality(seen)
  BY <1>1 DEF VerticesBuilt
<1>3. k \in Nat /\ IsFiniteSet(more) /\ Cardinality(more) = k + 1
  BY <1>2, FS_CardinalityType, FS_AddElement, SMT
<1>4. b = {k + 1}
  <2>1. k + 1 < pow2[log2]
    BY <1>1 DEF VertexFits
  <2> QED
    BY <1>1, <1>3, <2>1, VertexBdd, SMT DEF new_vertex
<1> DEFINE with_key(map) == [x \in DOMAIN map \cup {b} |-> IF x \in DOMAIN map THEN map[x] ELSE {}]
<1>5. /\ DOMAIN q = Fields /\ q.max_vertices_log2 = log2
      /\ q.last_vertex = k + 1
      /\ q.vertices = p.vertices \cup {b}
      /\ q.tag_map = with_key(p.tag_map)
      /\ q.trans_map = with_key(p.trans_map)
      /\ q.trace_pairs = {} /\ q.progress_pairs = {}
  <2>1. q = [p EXCEPT !.last_vertex = p.last_vertex + 1,
                      !.vertices = p.vertices \cup {b},
                      !.tag_map = with_key(p.tag_map),
                      !.trans_map = with_key(p.trans_map)]
    BY DEF with_vertex
  <2> HIDE DEF q, b, with_key
  <2> QED
    BY <1>1, <2>1 DEF Fields
<1>6. n = [x \in more |-> IF x = v THEN b ELSE m[x]]
  BY <1>2
<1> HIDE DEF q, b, k
<1>7. DOMAIN n = more /\ n[v] = b /\ \A x \in seen : n[x] = m[x]
  BY <1>6
<1>8. {n[x] : x \in more} = {m[x] : x \in seen} \cup {b}
  BY <1>7
<1>9. ASSUME NEW x \in seen PROVE m[x] # b /\ \E i \in 1 .. k : m[x] = {i}
  <2>1. PICK i \in 1 .. k : m[x] = {i}
    BY <1>1 DEF VerticesBuilt
  <2>2. i # k + 1
    BY <1>3, SMT
  <2> QED
    BY <1>4, <2>1, <2>2
<1>10. VerticesBuilt(q.vertices, k + 1, n, more)
  <2>1. ASSUME NEW x \in more PROVE \E i \in 1 .. k + 1 : n[x] = {i}
    <3>1. CASE x = v
      <4>1. k + 1 \in 1 .. k + 1
        BY <1>3, SMT
      <4> QED
        BY <1>4, <1>7, <3>1, <4>1
    <3>2. CASE x \in seen
      <4>1. PICK i \in 1 .. k : m[x] = {i}
        BY <1>9, <3>2
      <4>2. i \in 1 .. k + 1
        BY <1>3, SMT
      <4> QED
        BY <1>7, <3>2, <4>1, <4>2
    <3> QED
      BY <3>1, <3>2
  <2>2. ASSUME NEW x \in more, NEW w \in more, n[x] = n[w] PROVE x = w
    <3>1. \A y, z \in seen : m[y] = m[z] => y = z
      BY <1>1 DEF VerticesBuilt
    <3> QED
      BY <1>7, <1>9, <2>2, <3>1
  <2>3. q.vertices = {n[x] : x \in more}
    BY <1>2, <1>5, <1>8
  <2> HIDE DEF more
  <2> QED
    BY <1>3, <1>7, <2>1, <2>2, <2>3 DEF VerticesBuilt
<1>11. ASSUME NEW map, DOMAIN map = {m[x] : x \in seen}
       PROVE  /\ DOMAIN with_key(map) = {n[x] : x \in more}
              /\ with_key(map)[n[v]] = {}
              /\ \A x \in seen : with_key(map)[n[x]] = map[m[x]]
  <2>1. DOMAIN with_key(map) = {n[x] : x \in more}
    BY <1>8, <1>11
  <2>2. b \notin DOMAIN map
    BY <1>9, <1>11
  <2>3. with_key(map)[b] = {}
    BY <2>2
  <2>4. ASSUME NEW x \in seen PROVE with_key(map)[m[x]] = map[m[x]]
    BY <1>11
  <2> HIDE DEF with_key
  <2> QED
    BY <1>7, <2>1, <2>3, <2>4
<1> HIDE DEF with_key
<1>12. TagsBuilt(q.tag_map, n, more, {})
  <2>1. DOMAIN p.tag_map = {m[x] : x \in seen} /\ \A x \in seen : \A t : t \notin p.tag_map[m[x]]
    BY <1>1 DEF TagsBuilt
  <2>2. /\ DOMAIN q.tag_map = {n[x] : x \in more}
        /\ q.tag_map[n[v]] = {}
        /\ \A x \in seen : q.tag_map[n[x]] = p.tag_map[m[x]]
    <3> DEFINE f == p.tag_map
               g == q.tag_map
    <3>1. g = with_key(f)
      BY <1>5
    <3>2. DOMAIN f = {m[x] : x \in seen}
      BY <2>1
    <3> HIDE DEF f, g
    <3>3. /\ DOMAIN with_key(f) = {n[x] : x \in more}
          /\ with_key(f)[n[v]] = {}
          /\ \A x \in seen : with_key(f)[n[x]] = f[m[x]]
      BY <1>11, <3>2
    <3>4. /\ DOMAIN g = {n[x] : x \in more}
          /\ g[n[v]] = {}
          /\ \A x \in seen : g[n[x]] = f[m[x]]
      BY <3>1, <3>3
    <3> QED
      BY <3>4 DEF f, g
  <2>3. \A x \in more : \A t : t \notin q.tag_map[n[x]]
    BY <2>1, <2>2
  <2> QED
    BY <2>2, <2>3 DEF TagsBuilt
<1>13. LinksBuilt(q.trans_map, n, more, {})
  <2>1. DOMAIN p.trans_map = {m[x] : x \in seen} /\ \A x \in seen : p.trans_map[m[x]] = {}
    BY <1>1 DEF LinksBuilt
  <2>2. /\ DOMAIN q.trans_map = {n[x] : x \in more}
        /\ q.trans_map[n[v]] = {}
        /\ \A x \in seen : q.trans_map[n[x]] = p.trans_map[m[x]]
    <3> DEFINE f == p.trans_map
               g == q.trans_map
    <3>1. g = with_key(f)
      BY <1>5
    <3>2. DOMAIN f = {m[x] : x \in seen}
      BY <2>1
    <3> HIDE DEF f, g
    <3>3. /\ DOMAIN with_key(f) = {n[x] : x \in more}
          /\ with_key(f)[n[v]] = {}
          /\ \A x \in seen : with_key(f)[n[x]] = f[m[x]]
      BY <1>11, <3>2
    <3>4. /\ DOMAIN g = {n[x] : x \in more}
          /\ g[n[v]] = {}
          /\ \A x \in seen : g[n[x]] = f[m[x]]
      BY <3>1, <3>3
    <3> QED
      BY <3>4 DEF f, g
  <2>3. \A x \in more : q.trans_map[n[x]] = {}
    BY <2>1, <2>2
  <2> QED
    BY <2>2, <2>3 DEF LinksBuilt
<1>14. PairsBuilt({}, n, more, "trace", {}) /\ PairsBuilt({}, n, more, "progress", {})
  BY DEF PairsBuilt
<1> HIDE DEF more
<1>15. Built(q, n, log2, more, {}, {}, {})
  BY <1>5, <1>10, <1>12, <1>13, <1>14 DEF Built
<1> QED
  BY <1>15 DEF q, more

LEMMA AddTag ==
  ASSUME NEW p, NEW m, NEW log2, NEW seen, NEW tags, NEW links, NEW quads,
         Built(p, m, log2, seen, tags, links, quads),
         NEW v \in seen, NEW t
  PROVE  Built(with_tag(p, m[v], t), m, log2, seen, tags \cup {<<v, t>>}, links, quads)
<1> DEFINE q == with_tag(p, m[v], t)
           b == m[v]
<1>1. DOMAIN p = Fields /\ b \in p.vertices /\ DOMAIN p.tag_map = p.vertices
  BY DEF Built, VerticesBuilt, TagsBuilt
<1>2. /\ DOMAIN q = Fields
      /\ \A f \in Fields : f \notin {"tag_map", "max_tag"} => q[f] = p[f]
      /\ q.tag_map = [p.tag_map EXCEPT ![b] = @ \cup {t}]
  <2>1. q = [p EXCEPT !.max_tag = Max({p.max_tag, t}), !.tag_map[b] = p.tag_map[b] \cup {t}]
    BY DEF with_tag
  <2> HIDE DEF q, b
  <2> QED
    BY <1>1, <2>1 DEF Fields
<1> HIDE DEF q
<1>3. /\ q.max_vertices_log2 = p.max_vertices_log2 /\ q.last_vertex = p.last_vertex
      /\ q.vertices = p.vertices /\ q.trans_map = p.trans_map
      /\ q.trace_pairs = p.trace_pairs /\ q.progress_pairs = p.progress_pairs
      /\ q.initial_vertex = p.initial_vertex
  BY <1>2 DEF Fields
<1>4. /\ DOMAIN q.tag_map = p.vertices
      /\ q.tag_map[b] = p.tag_map[b] \cup {t}
      /\ \A x \in p.vertices : x # b => q.tag_map[x] = p.tag_map[x]
  BY <1>1, <1>2
<1>5. /\ \A x \in seen : m[x] \in p.vertices
      /\ \A x \in seen : m[x] = m[v] => x = v
      /\ \A x \in seen : \A s : s \in p.tag_map[m[x]] <=> <<x, s>> \in tags
      /\ p.vertices = {m[x] : x \in seen}
  BY DEF Built, VerticesBuilt, TagsBuilt
<1>6. ASSUME NEW x \in seen, NEW s
      PROVE  s \in q.tag_map[m[x]] <=> <<x, s>> \in tags \cup {<<v, t>>}
  <2>1. CASE x = v
    BY <1>4, <1>5, <2>1
  <2>2. CASE x # v
    BY <1>4, <1>5, <2>2
  <2> QED
    BY <2>1, <2>2
<1>7. TagsBuilt(q.tag_map, m, seen, tags \cup {<<v, t>>})
  BY <1>4, <1>5, <1>6 DEF TagsBuilt
<1>8. Built(q, m, log2, seen, tags \cup {<<v, t>>}, links, quads)
  BY <1>2, <1>3, <1>7 DEF Built
<1> QED
  BY <1>8 DEF q

LEMMA AddSuccessor ==
  ASSUME NEW p, NEW m, NEW log2, NEW seen, NEW tags, NEW links, NEW quads,
         Built(p, m, log2, seen, tags, links, quads),
         NEW v \in seen, NEW w \in seen
  PROVE  Built(with_successor(p, m[v], m[w]), m, log2, seen, tags, links \cup {<<v, w>>}, quads)
<1> DEFINE q == with_successor(p, m[v], m[w])
           b == m[v]
           c == m[w]
           new == links \cup {<<v, w>>}
<1>1. DOMAIN p = Fields /\ b \in p.vertices /\ DOMAIN p.trans_map = p.vertices
  BY DEF Built, VerticesBuilt, LinksBuilt
<1>2. /\ DOMAIN q = Fields
      /\ \A f \in Fields : f # "trans_map" => q[f] = p[f]
      /\ q.trans_map = [p.trans_map EXCEPT ![b] = @ \cup {c}]
  <2>1. q = [p EXCEPT !.trans_map[b] = p.trans_map[b] \cup {c}]
    BY DEF with_successor
  <2> HIDE DEF q, b, c
  <2> QED
    BY <1>1, <2>1 DEF Fields
<1> HIDE DEF q
<1>3. /\ q.max_vertices_log2 = p.max_vertices_log2 /\ q.last_vertex = p.last_vertex
      /\ q.vertices = p.vertices /\ q.tag_map = p.tag_map
      /\ q.trace_pairs = p.trace_pairs /\ q.progress_pairs = p.progress_pairs
      /\ q.initial_vertex = p.initial_vertex
  BY <1>2 DEF Fields
<1>4. /\ DOMAIN q.trans_map = p.vertices
      /\ q.trans_map[b] = p.trans_map[b] \cup {c}
      /\ \A x \in p.vertices : x # b => q.trans_map[x] = p.trans_map[x]
  BY <1>1, <1>2
<1>5. /\ \A x \in seen : m[x] \in p.vertices
      /\ \A x \in seen : m[x] = m[v] => x = v
      /\ \A x \in seen : p.trans_map[m[x]] = {m[y] : y \in {u \in seen : <<x, u>> \in links}}
      /\ p.vertices = {m[x] : x \in seen}
  BY DEF Built, VerticesBuilt, LinksBuilt
<1>6. ASSUME NEW x \in seen
      PROVE  q.trans_map[m[x]] = {m[y] : y \in {u \in seen : <<x, u>> \in new}}
  <2>1. CASE x = v
    <3>1. {u \in seen : <<x, u>> \in new} = {u \in seen : <<x, u>> \in links} \cup {w}
      BY <2>1
    <3> HIDE DEF new
    <3> QED
      BY <1>4, <1>5, <2>1, <3>1, SMT
  <2>2. CASE x # v
    <3>1. {u \in seen : <<x, u>> \in new} = {u \in seen : <<x, u>> \in links}
      BY <2>2
    <3> HIDE DEF new
    <3> QED
      BY <1>4, <1>5, <2>2, <3>1
  <2> QED
    BY <2>1, <2>2
<1> HIDE DEF new
<1>7. LinksBuilt(q.trans_map, m, seen, new)
  BY <1>4, <1>5, <1>6 DEF LinksBuilt
<1>8. Built(q, m, log2, seen, tags, new, quads)
  BY <1>2, <1>3, <1>7 DEF Built
<1> QED
  BY <1>8 DEF q, new

LEMMA SetInitialBuilt ==
  ASSUME NEW p, NEW m, NEW log2, NEW seen, NEW tags, NEW links, NEW quads,
         Built(p, m, log2, seen, tags, links, quads), NEW b
  PROVE  /\ Built(with_initial_vertex(p, b), m, log2, seen, tags, links, quads)
         /\ with_initial_vertex(p, b).initial_vertex = b
<1> DEFINE q == with_initial_vertex(p, b)
<1>1. DOMAIN p = Fields
  BY DEF Built
<1>2. /\ DOMAIN q = Fields
      /\ q.max_vertices_log2 = p.max_vertices_log2 /\ q.last_vertex = p.last_vertex
      /\ q.vertices = p.vertices /\ q.tag_map = p.tag_map /\ q.trans_map = p.trans_map
      /\ q.trace_pairs = p.trace_pairs /\ q.progress_pairs = p.progress_pairs
      /\ q.initial_vertex = b
  BY <1>1 DEF with_initial_vertex, Fields
<1> HIDE DEF q
<1>3. Built(q, m, log2, seen, tags, links, quads)
  BY <1>2 DEF Built
<1> QED
  BY <1>2, <1>3 DEF q

LEMMA AddPair ==
  ASSUME NEW p, NEW m, NEW log2, NEW seen, NEW tags, NEW links, NEW quads,
         Built(p, m, log2, seen, tags, links, quads),
         NEW v \in seen, NEW w \in seen, NEW t, NEW u
  PROVE  /\ Built(with_trace_pair(p, m[v], m[w], t, u), m, log2, seen, tags, links,
                  quads \cup {<<"trace", <<v, w>>, <<t, u>>>>})
         /\ Built(with_progress_pair(p, m[v], m[w], t, u), m, log2, seen, tags, links,
                  quads \cup {<<"progress", <<v, w>>, <<t, u>>>>})
<1> DEFINE q == with_trace_pair(p, m[v], m[w], t, u)
           r == with_progress_pair(p, m[v], m[w], t, u)
           x == <<m[v], m[w], t, u>>
           qt == quads \cup {<<"trace", <<v, w>>, <<t, u>>>>}
           qp == quads \cup {<<"progress", <<v, w>>, <<t, u>>>>}
<1>1. DOMAIN p = Fields
  BY DEF Built
<1>2. /\ DOMAIN q = Fields
      /\ q.max_vertices_log2 = p.max_vertices_log2 /\ q.last_vertex = p.last_vertex
      /\ q.vertices = p.vertices /\ q.tag_map = p.tag_map /\ q.trans_map = p.trans_map
      /\ q.trace_pairs = p.trace_pairs \cup {x} /\ q.progress_pairs = p.progress_pairs
      /\ q.initial_vertex = p.initial_vertex
  BY <1>1 DEF with_trace_pair, Fields
<1>3. /\ DOMAIN r = Fields
      /\ r.max_vertices_log2 = p.max_vertices_log2 /\ r.last_vertex = p.last_vertex
      /\ r.vertices = p.vertices /\ r.tag_map = p.tag_map /\ r.trans_map = p.trans_map
      /\ r.trace_pairs = p.trace_pairs /\ r.progress_pairs = p.progress_pairs \cup {x}
      /\ r.initial_vertex = p.initial_vertex
  BY <1>1 DEF with_progress_pair, Fields
<1> HIDE DEF q, r
<1>4. /\ \A a, b \in seen : m[a] = m[b] => a = b
      /\ PairsBuilt(p.trace_pairs, m, seen, "trace", quads)
      /\ PairsBuilt(p.progress_pairs, m, seen, "progress", quads)
  BY DEF Built, VerticesBuilt
<1>5. ASSUME NEW kind, NEW other, other # kind, NEW ps
      PROVE  /\ PairsBuilt(ps, m, seen, kind, quads) =>
                  PairsBuilt(ps \cup {x}, m, seen, kind, quads \cup {<<kind, <<v, w>>, <<t, u>>>>})
             /\ PairsBuilt(ps, m, seen, other, quads) =>
                  PairsBuilt(ps, m, seen, other, quads \cup {<<kind, <<v, w>>, <<t, u>>>>})
  <2> DEFINE y == <<kind, <<v, w>>, <<t, u>>>>
             new == quads \cup {y}
  <2>1. ASSUME NEW a \in seen, NEW b \in seen, NEW i, NEW j
        PROVE  /\ <<m[a], m[b], i, j>> = x <=> (a = v /\ b = w /\ i = t /\ j = u)
               /\ <<kind, <<a, b>>, <<i, j>>>> = y <=> (a = v /\ b = w /\ i = t /\ j = u)
               /\ <<other, <<a, b>>, <<i, j>>>> # y
    BY <1>4, <1>5
  <2>2. new # {}
    OBVIOUS
  <2> HIDE DEF x, y
  <2>3. ASSUME PairsBuilt(ps, m, seen, kind, quads)
        PROVE  PairsBuilt(ps \cup {x}, m, seen, kind, new)
    <3>1. ASSUME NEW a \in seen, NEW b \in seen, NEW i, NEW j
          PROVE  <<m[a], m[b], i, j>> \in ps \cup {x} <=> <<kind, <<a, b>>, <<i, j>>>> \in new
      <4>1. <<m[a], m[b], i, j>> \in ps <=> <<kind, <<a, b>>, <<i, j>>>> \in quads
        BY <2>3 DEF PairsBuilt
      <4>2. <<m[a], m[b], i, j>> = x <=> <<kind, <<a, b>>, <<i, j>>>> = y
        BY <2>1, SMT
      <4> QED
        BY <4>1, <4>2
    <3> HIDE DEF new
    <3> QED
      BY <2>2, <3>1 DEF PairsBuilt
  <2>4. ASSUME PairsBuilt(ps, m, seen, other, quads)
        PROVE  PairsBuilt(ps, m, seen, other, new)
    <3>1. ASSUME NEW a \in seen, NEW b \in seen, NEW i, NEW j
          PROVE  <<m[a], m[b], i, j>> \in ps <=> <<other, <<a, b>>, <<i, j>>>> \in new
      <4>1. <<m[a], m[b], i, j>> \in ps <=> <<other, <<a, b>>, <<i, j>>>> \in quads
        BY <2>4 DEF PairsBuilt
      <4>2. <<other, <<a, b>>, <<i, j>>>> # y
        BY <2>1, SMT
      <4> QED
        BY <4>1, <4>2
    <3> HIDE DEF new
    <3> QED
      BY <2>2, <3>1 DEF PairsBuilt
  <2> QED
    BY <2>3, <2>4 DEF y
<1>6. /\ PairsBuilt(q.trace_pairs, m, seen, "trace", qt)
      /\ PairsBuilt(q.progress_pairs, m, seen, "progress", qt)
      /\ PairsBuilt(r.trace_pairs, m, seen, "trace", qp)
      /\ PairsBuilt(r.progress_pairs, m, seen, "progress", qp)
  <2>1. "trace" # "progress"
    OBVIOUS
  <2> HIDE DEF x
  <2> QED
    BY <1>2, <1>3, <1>4, <1>5, <2>1, ZenonT(60)
<1> HIDE DEF qt, qp
<1>7. Built(q, m, log2, seen, tags, links, qt)
  BY <1>2, <1>6 DEF Built
<1>8. Built(r, m, log2, seen, tags, links, qp)
  BY <1>3, <1>6 DEF Built
<1> QED
  BY <1>7, <1>8 DEF q, r, qt, qp

-----------------------------------------------------------------------------
(* The invariant of the foreign calls. *)

Nodes == DOMAIN graph.prf

Width == log2size(Cardinality(Nodes))

\* What the iterations have done so far: the methods have built exactly what has
\* been visited.
Stage ==
  /\ phase = "vertices" =>
       items \subseteq Nodes /\ Built(proof, bdd_map, Width, Nodes \ items, {}, {}, {})
  /\ phase = "tags" =>
       items \subseteq tagged /\ Built(proof, bdd_map, Width, Nodes, tagged \ items, {}, {})
  /\ phase = "succs" =>
       items \subseteq edges /\ Built(proof, bdd_map, Width, Nodes, tagged, edges \ items, {})
  /\ phase = "pairs" =>
       /\ items \subseteq pairs
       /\ Built(proof, bdd_map, Width, Nodes, tagged, edges, pairs \ items)
       /\ proof.initial_vertex = bdd_map[graph.init]
  /\ phase = "checked" =>
       /\ Built(proof, bdd_map, Width, Nodes, tagged, edges, pairs)
       /\ proof.initial_vertex = bdd_map[graph.init]

\* A timeout has cut an earlier search short.
CutShort == \E s \in 1 .. search - 1 : result[s] = "timeout"

\* The inductive invariant.  Between checks there is no automaton, unless a search
\* was cut short; during a check the automaton is the one of its graph, as far as
\* the iterations have come.
BInv ==
  /\ graph \in Checks
  /\ phase \in {"none", "vertices", "tags", "succs", "pairs", "checked"}
  /\ proof = NoProof => bdd_map = NoMap
  /\ ~aborted => Stage
  /\ aborted => CutShort /\ phase # "checked"
  /\ phase = "none" /\ proof # NoProof => CutShort

LEMMA MinIsMember ==
  ASSUME NEW S, S \subseteq Nat, S # {}
  PROVE  Min(S) \in S
BY LeastNatural DEF Min

\* What a graph that the outer check_proof passes on looks like, and what the
\* iterations visit in it.
LEMMA GraphShape ==
  ASSUME graph \in Checks
  PROVE  /\ IsFiniteSet(Nodes) /\ Nodes \subseteq Nat /\ Nodes # {} /\ graph.init \in Nodes
         /\ \A v \in Nodes : graph.prf[v].tags \subseteq Int
         /\ \A v \in Nodes : children(graph.prf, v) \subseteq Nodes
BY ChecksAssumption DEF Nodes, valid, valid_premise

LEMMA WidthFits ==
  ASSUME graph \in Checks
  PROVE  /\ Width \in Nat /\ Cardinality(Nodes) \in Nat
         /\ Cardinality(Nodes) < pow2[Width]
<1>1. IsFiniteSet(Nodes) /\ Nodes # {}
  BY GraphShape
<1>2. Cardinality(Nodes) \in Nat /\ Cardinality(Nodes) # 0
  BY <1>1, FS_CardinalityType, FS_EmptySet
<1> QED
  BY <1>2, NumbersFit, SMT DEF Width

LEMMA TagsVisited ==
  ASSUME graph \in Checks
  PROVE  /\ \A x \in tagged : x = <<x[1], x[2]>> /\ x[1] \in Nodes
         /\ \A v \in Nodes : \A t : <<v, t>> \in tagged <=> t \in graph.prf[v].tags
BY SMT DEF tagged, Nodes

LEMMA EdgesVisited ==
  ASSUME graph \in Checks
  PROVE  /\ \A x \in edges : /\ x = <<x[1], x[2]>> /\ x[1] \in Nodes /\ x[2] \in Nodes
                             /\ x[2] \in children(graph.prf, x[1])
         /\ \A v \in Nodes : \A w : <<v, w>> \in edges <=> w \in children(graph.prf, v)
BY GraphShape, SMT DEF edges, Nodes

LEMMA PairsVisited ==
  ASSUME graph \in Checks
  PROVE  /\ \A x \in pairs :
              \E kind \in {"trace", "progress"}, v \in Nodes : \E w \in children(graph.prf, v) :
              \E t \in graph.prf[v].tags, u \in graph.prf[w].tags :
                x = <<kind, <<v, w>>, <<t, u>>>>
         /\ \A v \in Nodes : \A w \in children(graph.prf, v) : \A t, u :
              /\ <<"trace", <<v, w>>, <<t, u>>>> \in pairs <=> <<t, u>> \in graph.prf[v].subg[w].tv
              /\ <<"progress", <<v, w>>, <<t, u>>>> \in pairs <=> <<t, u>> \in graph.prf[v].subg[w].tp
<1> DEFINE lab(v, w) == graph.prf[v].subg[w]
<1>1. ASSUME NEW v \in Nodes, NEW w \in children(graph.prf, v), NEW p \in lab(v, w).tv
      PROVE  /\ p = <<p[1], p[2]>>
             /\ p[1] \in graph.prf[v].tags
             /\ p[2] \in graph.prf[w].tags
  <2>1. /\ lab(v, w).tv \subseteq TagPair
        /\ {q[1] : q \in lab(v, w).tv} \subseteq graph.prf[v].tags
        /\ {q[2] : q \in lab(v, w).tv} \subseteq graph.prf[w].tags
    BY <1>1, ChecksAssumption DEF Nodes, valid, valid_premise
  <2> HIDE DEF lab
  <2> QED
    BY <1>1, <2>1, SMT DEF TagPair
<1>2. ASSUME NEW v \in Nodes, NEW w \in children(graph.prf, v) PROVE lab(v, w).tp \subseteq lab(v, w).tv
  BY <1>2, ChecksAssumption DEF Nodes, valid, valid_premise
<1> DEFINE quads(e) == ({"trace"} \X {e} \X lab(e[1], e[2]).tv)
                         \cup ({"progress"} \X {e} \X lab(e[1], e[2]).tp)
<1>3. pairs = UNION {quads(e) : e \in edges}
  BY DEF pairs
<1> HIDE DEF lab
<1>4. ASSUME NEW x \in pairs
      PROVE  \E kind \in {"trace", "progress"}, v \in Nodes : \E w \in children(graph.prf, v) :
             \E t \in graph.prf[v].tags, u \in graph.prf[w].tags :
                x = <<kind, <<v, w>>, <<t, u>>>>
  <2>1. PICK e \in edges : x \in quads(e)
    BY <1>3
  <2>2. e = <<e[1], e[2]>> /\ e[1] \in Nodes /\ e[2] \in children(graph.prf, e[1])
    BY EdgesVisited
  <2>3. PICK kind \in {"trace", "progress"}, p \in lab(e[1], e[2]).tv : x = <<kind, e, p>>
    BY <1>2, <2>1, <2>2, SMT
  <2>4. /\ p = <<p[1], p[2]>>
        /\ p[1] \in graph.prf[e[1]].tags
        /\ p[2] \in graph.prf[e[2]].tags
    BY <1>1, <2>2
  <2>5. x = <<kind, <<e[1], e[2]>>, <<p[1], p[2]>>>>
    BY <2>2, <2>3, <2>4
  <2> QED
    BY <2>2, <2>4, <2>5
<1>5. ASSUME NEW v \in Nodes, NEW w \in children(graph.prf, v), NEW t, NEW u
      PROVE  /\ <<"trace", <<v, w>>, <<t, u>>>> \in pairs <=> <<t, u>> \in lab(v, w).tv
             /\ <<"progress", <<v, w>>, <<t, u>>>> \in pairs <=> <<t, u>> \in lab(v, w).tp
  <2>1. <<v, w>> \in edges
    BY EdgesVisited
  <2>2. ASSUME NEW e \in edges, NEW kind, <<kind, <<v, w>>, <<t, u>>>> \in quads(e)
        PROVE  <<kind, <<v, w>>, <<t, u>>>> \in quads(<<v, w>>)
    BY <2>2
  <2>3. \A kind : <<kind, <<v, w>>, <<t, u>>>> \in pairs
                    <=> <<kind, <<v, w>>, <<t, u>>>> \in quads(<<v, w>>)
    <3> HIDE DEF quads
    <3> QED
      BY <1>3, <2>1, <2>2
  <2>4. /\ <<"trace", <<v, w>>, <<t, u>>>> \in quads(<<v, w>>) <=> <<t, u>> \in lab(v, w).tv
        /\ <<"progress", <<v, w>>, <<t, u>>>> \in quads(<<v, w>>) <=> <<t, u>> \in lab(v, w).tp
    OBVIOUS
  <2> HIDE DEF quads
  <2> QED
    BY <2>3, <2>4
<1> QED
  BY <1>4, <1>5 DEF lab

LEMMA BuiltIsProof ==
  ASSUME NEW p, NEW m, NEW log2 \in Nat, NEW seen, NEW tags, NEW links, NEW quads,
         Built(p, m, log2, seen, tags, links, quads)
  PROVE  p # NoProof /\ DOMAIN m = seen
<1>1. p.max_vertices_log2 = log2 /\ DOMAIN m = seen
  BY DEF Built, VerticesBuilt
<1>2. NoProof.max_vertices_log2 = -1
  BY DEF NoProof, Proof
<1> QED
  BY <1>1, <1>2, SMT

\* Nothing that the iterations visit depends on anything but the graph.
LEMMA SameGraph ==
  ASSUME graph' = graph
  PROVE  /\ Nodes' = Nodes /\ Width' = Width
         /\ tagged' = tagged /\ edges' = edges /\ pairs' = pairs
BY SMT DEF Nodes, Width, tagged, edges, pairs

\* In each iteration a foreign call meets its assertions and builds one thing more.
LEMMA VertexStep ==
  ASSUME BInv, ~aborted, CreateVertices
  PROVE  ~aborted' /\ Stage' /\ phase' = "vertices" /\ graph' = graph /\ proof' # NoProof
<1> DEFINE x == Min(items)
           seen == Nodes \ items
<1>1. /\ phase = "vertices" /\ items # {} /\ create_vertex(x) /\ items' = items \ {x}
      /\ graph' = graph /\ phase' = phase
  BY DEF CreateVertices, Visit
<1>2. graph \in Checks /\ items \subseteq Nodes /\ Built(proof, bdd_map, Width, seen, {}, {}, {})
  BY <1>1 DEF BInv, Stage
<1>3. IsFiniteSet(Nodes) /\ Nodes \subseteq Nat
  BY <1>2, GraphShape
<1>4. x \in items
  BY <1>1, <1>2, <1>3, MinIsMember
<1>5. Width \in Nat /\ Cardinality(Nodes) \in Nat /\ Cardinality(Nodes) < pow2[Width]
  BY <1>2, WidthFits
<1>6. proof # NoProof /\ DOMAIN bdd_map = seen
  BY <1>2, <1>5, BuiltIsProof
<1> HIDE DEF x
<1>7. x \notin seen /\ seen \cup {x} \subseteq Nodes /\ Nodes \ items' = seen \cup {x}
  BY <1>1, <1>2, <1>4
<1>8. IsFiniteSet(seen) /\ proof.last_vertex = Cardinality(seen) /\ proof.max_vertices_log2 = Width
  BY <1>2 DEF Built, VerticesBuilt
<1> HIDE DEF seen
<1>9. VertexFits(proof)
  <2>1. Cardinality(seen) \in Nat /\ Cardinality(seen \cup {x}) = Cardinality(seen) + 1
    BY <1>7, <1>8, FS_AddElement, FS_CardinalityType
  <2>2. Cardinality(seen \cup {x}) <= Cardinality(Nodes)
    BY <1>3, <1>7, FS_Subset
  <2>3. pow2[Width] \in Nat
    BY <1>5, PowersGrow
  <2> QED
    BY <1>5, <1>8, <2>1, <2>2, <2>3, SMT DEF VertexFits
<1>10. /\ proof' = with_vertex(proof) /\ aborted' = aborted
       /\ bdd_map' = [y \in DOMAIN bdd_map \cup {x} |-> IF y = x THEN new_vertex(proof) ELSE bdd_map[y]]
  BY <1>1, <1>6, <1>7, <1>9 DEF create_vertex, Foreign
<1>11. Built(proof', bdd_map', Width, seen \cup {x}, {}, {}, {})
  BY <1>2, <1>5, <1>7, <1>9, <1>10, AddVertex
<1>12. Nodes' = Nodes /\ Width' = Width
  BY <1>1, SameGraph
<1>13. proof' # NoProof
  BY <1>5, <1>11, BuiltIsProof
<1>14. items' \subseteq Nodes'
  BY <1>1, <1>2, <1>12
<1>15. Built(proof', bdd_map', Width', Nodes' \ items', {}, {}, {})
  BY <1>7, <1>11, <1>12
<1>16. Stage'
  BY <1>1, <1>14, <1>15 DEF Stage
<1> QED
  BY <1>1, <1>10, <1>13, <1>16

LEMMA TagStep ==
  ASSUME BInv, ~aborted, CreateTags
  PROVE  ~aborted' /\ Stage' /\ phase' = "tags" /\ graph' = graph /\ proof' # NoProof
<1>1. PICK x \in items : tag_vertex(x[1], x[2]) /\ Visit(x)
  BY DEF CreateTags
<1>2. phase = "tags" /\ items' = items \ {x} /\ graph' = graph /\ phase' = phase
  BY <1>1 DEF CreateTags, Visit
<1>3. /\ graph \in Checks /\ items \subseteq tagged
      /\ Built(proof, bdd_map, Width, Nodes, tagged \ items, {}, {})
  BY <1>2 DEF BInv, Stage
<1>4. x = <<x[1], x[2]>> /\ x[1] \in Nodes
  BY <1>1, <1>3, TagsVisited
<1>5. Width \in Nat
  BY <1>3, WidthFits
<1>6. proof # NoProof /\ DOMAIN bdd_map = Nodes
  BY <1>3, <1>5, BuiltIsProof
<1>7. proof' = with_tag(proof, bdd_map[x[1]], x[2]) /\ bdd_map' = bdd_map /\ aborted' = aborted
  BY <1>1, <1>4, <1>6 DEF tag_vertex, Foreign, Known
<1>8. Built(proof', bdd_map', Width, Nodes, (tagged \ items) \cup {<<x[1], x[2]>>}, {}, {})
  BY <1>3, <1>4, <1>7, AddTag
<1>9. (tagged \ items) \cup {<<x[1], x[2]>>} = tagged \ items'
  BY <1>1, <1>2, <1>3, <1>4
<1>10. Nodes' = Nodes /\ Width' = Width /\ tagged' = tagged
  BY <1>2, SameGraph
<1>11. proof' # NoProof
  BY <1>5, <1>8, BuiltIsProof
<1>12. items' \subseteq tagged'
  BY <1>2, <1>3, <1>10
<1>13. Built(proof', bdd_map', Width', Nodes', tagged' \ items', {}, {})
  BY <1>8, <1>9, <1>10
<1>14. Stage'
  BY <1>2, <1>12, <1>13 DEF Stage
<1> QED
  BY <1>2, <1>7, <1>11, <1>14

LEMMA SuccessorStep ==
  ASSUME BInv, ~aborted, CreateSuccs
  PROVE  ~aborted' /\ Stage' /\ phase' = "succs" /\ graph' = graph /\ proof' # NoProof
<1>1. PICK x \in items : set_successor(x[1], x[2]) /\ Visit(x)
  BY DEF CreateSuccs
<1>2. phase = "succs" /\ items' = items \ {x} /\ graph' = graph /\ phase' = phase
  BY <1>1 DEF CreateSuccs, Visit
<1>3. /\ graph \in Checks /\ items \subseteq edges
      /\ Built(proof, bdd_map, Width, Nodes, tagged, edges \ items, {})
  BY <1>2 DEF BInv, Stage
<1>4. x = <<x[1], x[2]>> /\ x[1] \in Nodes /\ x[2] \in Nodes
  BY <1>1, <1>3, EdgesVisited
<1>5. Width \in Nat
  BY <1>3, WidthFits
<1>6. proof # NoProof /\ DOMAIN bdd_map = Nodes
  BY <1>3, <1>5, BuiltIsProof
<1>7. /\ proof' = with_successor(proof, bdd_map[x[1]], bdd_map[x[2]])
      /\ bdd_map' = bdd_map /\ aborted' = aborted
  BY <1>1, <1>4, <1>6 DEF set_successor, Foreign, Known
<1>8. Built(proof', bdd_map', Width, Nodes, tagged, (edges \ items) \cup {<<x[1], x[2]>>}, {})
  BY <1>3, <1>4, <1>7, AddSuccessor
<1>9. (edges \ items) \cup {<<x[1], x[2]>>} = edges \ items'
  BY <1>1, <1>2, <1>3, <1>4
<1>10. Nodes' = Nodes /\ Width' = Width /\ tagged' = tagged /\ edges' = edges
  BY <1>2, SameGraph
<1>11. proof' # NoProof
  BY <1>5, <1>8, BuiltIsProof
<1>12. items' \subseteq edges'
  BY <1>2, <1>3, <1>10
<1>13. Built(proof', bdd_map', Width', Nodes', tagged', edges' \ items', {})
  BY <1>8, <1>9, <1>10
<1>14. Stage'
  BY <1>2, <1>12, <1>13 DEF Stage
<1> QED
  BY <1>2, <1>7, <1>11, <1>14

LEMMA InitialStep ==
  ASSUME BInv, ~aborted, SetInitial
  PROVE  ~aborted' /\ Stage' /\ phase' = "pairs" /\ graph' = graph /\ proof' # NoProof
<1>1. /\ phase = "succs" /\ items = {} /\ set_initial_vertex(graph.init)
      /\ phase' = "pairs" /\ items' = pairs /\ graph' = graph
  BY DEF SetInitial
<1>2. graph \in Checks /\ Built(proof, bdd_map, Width, Nodes, tagged, edges \ items, {})
  BY <1>1 DEF BInv, Stage
<1>3. Width \in Nat /\ graph.init \in Nodes
  BY <1>2, WidthFits, GraphShape
<1>4. proof # NoProof /\ DOMAIN bdd_map = Nodes
  BY <1>2, <1>3, BuiltIsProof
<1>5. /\ proof' = with_initial_vertex(proof, bdd_map[graph.init])
      /\ bdd_map' = bdd_map /\ aborted' = aborted
  BY <1>1, <1>3, <1>4 DEF set_initial_vertex, Foreign, Known
<1>6. /\ Built(proof', bdd_map', Width, Nodes, tagged, edges \ items, {})
      /\ proof'.initial_vertex = bdd_map[graph.init]
  BY <1>2, <1>5, SetInitialBuilt, SMT
<1>7. /\ Nodes' = Nodes /\ Width' = Width /\ tagged' = tagged /\ edges' = edges
      /\ pairs' = pairs
  BY <1>1, SameGraph
<1>8. proof' # NoProof
  BY <1>3, <1>6, BuiltIsProof
<1>9. edges \ items = edges' /\ pairs' \ items' = {} /\ items' \subseteq pairs'
  BY <1>1, <1>7
<1>10. Built(proof', bdd_map', Width', Nodes', tagged', edges', pairs' \ items')
  BY <1>6, <1>7, <1>9
<1>11. proof'.initial_vertex = bdd_map'[graph'.init]
  BY <1>1, <1>5, <1>6
<1>12. Stage'
  BY <1>1, <1>9, <1>10, <1>11 DEF Stage
<1> QED
  BY <1>1, <1>5, <1>8, <1>12

LEMMA PairStep ==
  ASSUME BInv, ~aborted, CreateTracePairs
  PROVE  ~aborted' /\ Stage' /\ phase' = "pairs" /\ graph' = graph /\ proof' # NoProof
<1>1. PICK x \in items :
        /\ \/ x[1] = "trace" /\ set_trace_pair(x[2], x[3])
           \/ x[1] = "progress" /\ set_progress_pair(x[2], x[3])
        /\ Visit(x)
  BY DEF CreateTracePairs
<1>2. phase = "pairs" /\ items' = items \ {x} /\ graph' = graph /\ phase' = phase
  BY <1>1 DEF CreateTracePairs, Visit
<1>3. /\ graph \in Checks /\ items \subseteq pairs
      /\ Built(proof, bdd_map, Width, Nodes, tagged, edges, pairs \ items)
      /\ proof.initial_vertex = bdd_map[graph.init]
  BY <1>2 DEF BInv, Stage
<1>4. PICK kind \in {"trace", "progress"}, v \in Nodes : \E w \in children(graph.prf, v) :
      \E t \in graph.prf[v].tags, u \in graph.prf[w].tags : x = <<kind, <<v, w>>, <<t, u>>>>
  BY <1>1, <1>3, PairsVisited
<1>5. PICK w \in children(graph.prf, v) :
      \E t \in graph.prf[v].tags, u \in graph.prf[w].tags : x = <<kind, <<v, w>>, <<t, u>>>>
  BY <1>4
<1>6. PICK t \in graph.prf[v].tags, u \in graph.prf[w].tags : x = <<kind, <<v, w>>, <<t, u>>>>
  BY <1>5
<1>7. Width \in Nat /\ w \in Nodes
  BY <1>3, WidthFits, GraphShape
<1>8. proof # NoProof /\ DOMAIN bdd_map = Nodes
  BY <1>3, <1>7, BuiltIsProof
<1>9. PairTagged(proof, bdd_map[v], bdd_map[w], t, u)
  <2>1. <<v, t>> \in tagged /\ <<w, u>> \in tagged
    BY <1>3, <1>7, TagsVisited
  <2>2. /\ t \in proof.tag_map[bdd_map[v]] /\ u \in proof.tag_map[bdd_map[w]]
        /\ bdd_map[v] \in proof.vertices /\ bdd_map[w] \in proof.vertices
    BY <1>3, <1>7, <2>1 DEF Built, TagsBuilt, VerticesBuilt
  <2> QED
    BY <2>2 DEF PairTagged
<1>10. /\ x[1] = kind /\ x[2] = <<v, w>> /\ x[3] = <<t, u>>
       /\ x[2][1] = v /\ x[2][2] = w /\ x[3][1] = t /\ x[3][2] = u
  BY <1>6
<1>11. PairAssertion(x[2], x[3])
  BY <1>7, <1>8, <1>9, <1>10 DEF PairAssertion, Known
<1>12. /\ \/ kind = "trace" /\ proof' = with_trace_pair(proof, bdd_map[v], bdd_map[w], t, u)
          \/ kind = "progress" /\ proof' = with_progress_pair(proof, bdd_map[v], bdd_map[w], t, u)
       /\ bdd_map' = bdd_map /\ aborted' = aborted
  BY <1>1, <1>10, <1>11 DEF set_trace_pair, set_progress_pair, Foreign
<1>13. /\ Built(proof', bdd_map, Width, Nodes, tagged, edges,
                (pairs \ items) \cup {<<kind, <<v, w>>, <<t, u>>>>})
       /\ proof'.initial_vertex = proof.initial_vertex
  <2>1. /\ Built(with_trace_pair(proof, bdd_map[v], bdd_map[w], t, u), bdd_map, Width, Nodes, tagged, edges,
                 (pairs \ items) \cup {<<"trace", <<v, w>>, <<t, u>>>>})
        /\ Built(with_progress_pair(proof, bdd_map[v], bdd_map[w], t, u), bdd_map, Width, Nodes, tagged, edges,
                 (pairs \ items) \cup {<<"progress", <<v, w>>, <<t, u>>>>})
        /\ with_trace_pair(proof, bdd_map[v], bdd_map[w], t, u).initial_vertex = proof.initial_vertex
        /\ with_progress_pair(proof, bdd_map[v], bdd_map[w], t, u).initial_vertex = proof.initial_vertex
    <3>1. v \in Nodes /\ w \in Nodes
      BY <1>4, <1>7
    <3>2. Built(proof, bdd_map, Width, Nodes, tagged, edges, pairs \ items)
      BY <1>3
    <3> DEFINE left == pairs \ items
    <3> HIDE DEF left
    <3>3. Built(proof, bdd_map, Width, Nodes, tagged, edges, left)
      BY <3>2 DEF left
    <3>4. Built(with_trace_pair(proof, bdd_map[v], bdd_map[w], t, u), bdd_map, Width, Nodes, tagged, edges,
                left \cup {<<"trace", <<v, w>>, <<t, u>>>>})
      BY <3>1, <3>3, AddPair
    <3>5. Built(with_progress_pair(proof, bdd_map[v], bdd_map[w], t, u), bdd_map, Width, Nodes, tagged, edges,
                left \cup {<<"progress", <<v, w>>, <<t, u>>>>})
      BY <3>1, <3>3, AddPair
    <3>6. with_trace_pair(proof, bdd_map[v], bdd_map[w], t, u).initial_vertex = proof.initial_vertex
      BY <3>3 DEF Built, Fields, with_trace_pair
    <3>7. with_progress_pair(proof, bdd_map[v], bdd_map[w], t, u).initial_vertex = proof.initial_vertex
      BY <3>3 DEF Built, Fields, with_progress_pair
    <3> QED
      BY <3>4, <3>5, <3>6, <3>7 DEF left
  <2> QED
    BY <1>12, <2>1
<1>14. (pairs \ items) \cup {<<kind, <<v, w>>, <<t, u>>>>} = pairs \ items'
  BY <1>1, <1>2, <1>3, <1>6
<1>15. /\ Nodes' = Nodes /\ Width' = Width /\ tagged' = tagged /\ edges' = edges
       /\ pairs' = pairs
  BY <1>2, SameGraph
<1>16. proof' # NoProof
  BY <1>7, <1>13, BuiltIsProof
<1>17. items' \subseteq pairs'
  BY <1>2, <1>3, <1>15
<1>18. Built(proof', bdd_map', Width', Nodes', tagged', edges', pairs' \ items')
  BY <1>12, <1>13, <1>14, <1>15
<1>19. proof'.initial_vertex = bdd_map'[graph'.init]
  BY <1>2, <1>3, <1>12, <1>13
<1>20. Stage'
  BY <1>2, <1>17, <1>18, <1>19 DEF Stage
<1> QED
  BY <1>2, <1>12, <1>16, <1>20

\* The steps between two iterations, and the answer of check_soundness.
LEMMA EnterStep ==
  ASSUME BInv, ~aborted,
         \/ phase = "vertices" /\ Enter("tags", tagged)
         \/ phase = "tags" /\ Enter("succs", edges)
         \/ CheckSoundness
  PROVE  /\ ~aborted' /\ Stage' /\ phase' \in {"tags", "succs", "checked"}
         /\ graph' = graph /\ proof' # NoProof
<1>1. graph' = graph /\ proof' = proof /\ bdd_map' = bdd_map /\ aborted' = aborted /\ items = {}
  BY DEF Enter, CheckSoundness, statics
<1>2. /\ Nodes' = Nodes /\ Width' = Width /\ tagged' = tagged /\ edges' = edges
      /\ pairs' = pairs
  BY <1>1, SameGraph
<1>3. graph \in Checks /\ Stage
  BY DEF BInv
<1>4. Width \in Nat
  BY <1>3, WidthFits
<1>5. \A S : S \ {} = S /\ S \ S = {} /\ S \subseteq S
  OBVIOUS
<1>6. CASE phase = "vertices" /\ Enter("tags", tagged)
  <2>1. phase' = "tags" /\ items' = tagged
    BY <1>6 DEF Enter
  <2>2. Built(proof, bdd_map, Width, Nodes, {}, {}, {})
    BY <1>1, <1>3, <1>5, <1>6 DEF Stage
  <2>3. Built(proof', bdd_map', Width', Nodes', tagged' \ items', {}, {}) /\ items' \subseteq tagged'
    BY <1>1, <1>2, <1>5, <2>1, <2>2
  <2>4. Stage'
    BY <2>1, <2>3 DEF Stage
  <2> QED
    BY <1>1, <1>4, <2>1, <2>2, <2>4, BuiltIsProof
<1>7. CASE phase = "tags" /\ Enter("succs", edges)
  <2>1. phase' = "succs" /\ items' = edges
    BY <1>7 DEF Enter
  <2>2. Built(proof, bdd_map, Width, Nodes, tagged, {}, {})
    BY <1>1, <1>3, <1>5, <1>7 DEF Stage
  <2>3. Built(proof', bdd_map', Width', Nodes', tagged', edges' \ items', {}) /\ items' \subseteq edges'
    BY <1>1, <1>2, <1>5, <2>1, <2>2
  <2>4. Stage'
    BY <2>1, <2>3 DEF Stage
  <2> QED
    BY <1>1, <1>4, <2>1, <2>2, <2>4, BuiltIsProof
<1>8. CASE CheckSoundness
  <2>1. phase = "pairs" /\ phase' = "checked"
    BY <1>8 DEF CheckSoundness
  <2>2. Built(proof, bdd_map, Width, Nodes, tagged, edges, pairs) /\ proof.initial_vertex = bdd_map[graph.init]
    BY <1>1, <1>3, <1>5, <2>1 DEF Stage
  <2>3. /\ Built(proof', bdd_map', Width', Nodes', tagged', edges', pairs')
        /\ proof'.initial_vertex = bdd_map'[graph'.init]
    BY <1>1, <1>2, <2>2
  <2>4. Stage'
    BY <2>1, <2>3 DEF Stage
  <2> QED
    BY <1>1, <1>4, <2>1, <2>2, <2>4, BuiltIsProof
<1> QED
  BY <1>6, <1>7, <1>8

LEMMA BeginStep ==
  ASSUME BInv, ~aborted, NEW g \in Checks, BeginCheck(g), UNCHANGED <<search, result>>
  PROVE  BInv'
<1>1. /\ phase = "none" /\ graph' = g /\ phase' = "vertices" /\ items' = DOMAIN g.prf
      /\ create_aut(log2size(Cardinality(DOMAIN g.prf)))
  BY DEF BeginCheck
<1>2. CutShort' <=> CutShort
  BY DEF CutShort
<1>3. CASE proof = NoProof
  <2>1. proof' = Proof(Width') /\ bdd_map' = NoMap /\ aborted' = aborted /\ items' = Nodes'
    BY <1>1, <1>3 DEF create_aut, Foreign, BInv, Width, Nodes
  <2>2. Built(proof', bdd_map', Width', {}, {}, {}, {})
    BY <2>1, EmptyBuilt
  <2>3. Nodes' \ items' = {} /\ items' \subseteq Nodes'
    BY <2>1
  <2>4. Stage'
    BY <1>1, <2>2, <2>3 DEF Stage
  <2> QED
    BY <1>1, <2>1, <2>4 DEF BInv
<1>4. CASE proof # NoProof
  <2>1. aborted' /\ proof' = proof /\ bdd_map' = bdd_map /\ CutShort
    BY <1>1, <1>4 DEF create_aut, Foreign, BInv, statics
  <2> QED
    BY <1>1, <1>2, <2>1 DEF BInv
<1> QED
  BY <1>3, <1>4

LEMMA EndStep ==
  ASSUME BInv, ~aborted, EndCheck, UNCHANGED <<search, result>>
  PROVE  BInv'
<1>1. phase = "checked" /\ destroy_aut /\ phase' = "none" /\ graph' = graph
  BY DEF EndCheck
<1>2. graph \in Checks /\ Built(proof, bdd_map, Width, Nodes, tagged, edges, pairs)
  BY <1>1 DEF BInv, Stage
<1>3. Width \in Nat
  BY <1>2, WidthFits
<1>4. proof # NoProof
  BY <1>2, <1>3, BuiltIsProof
<1>5. proof' = NoProof /\ bdd_map' = NoMap /\ aborted' = aborted
  BY <1>1, <1>4 DEF destroy_aut, Foreign
<1>6. Stage'
  BY <1>1 DEF Stage
<1> QED
  BY <1>1, <1>2, <1>5, <1>6 DEF BInv

LEMMA InitBInv == Init => BInv
BY DEF Init, AutInit, BInv, Stage

LEMMA CheckBInv ==
  ASSUME BInv, ~aborted, Check \/ CheckGoesOn
  PROVE  BInv'
<1>1. UNCHANGED <<search, result>>
  BY DEF Check, CheckGoesOn
<1>2. CASE Check
  BY <1>1, <1>2, BeginStep DEF Check
<1>3. CASE CheckGoesOn
  <2>1. CASE EndCheck
    BY <1>1, <2>1, EndStep
  <2>2. CASE BuildAutomaton \/ CheckSoundness
    <3>1. /\ ~aborted' /\ Stage' /\ graph' = graph /\ proof' # NoProof
          /\ phase' \in {"vertices", "tags", "succs", "pairs", "checked"}
      BY <2>2, VertexStep, TagStep, SuccessorStep, InitialStep, PairStep, EnterStep DEF BuildAutomaton
    <3>2. graph \in Checks
      BY DEF BInv
    <3> QED
      BY <3>1, <3>2 DEF BInv
  <2> QED
    BY <1>3, <2>1, <2>2 DEF CheckGoesOn
<1> QED
  BY <1>2, <1>3

\* The steps that leave the automaton alone.
LEMMA SameStage ==
  ASSUME BInv, UNCHANGED autvars, CutShort => CutShort'
  PROVE  BInv'
<1>1. /\ graph' = graph /\ proof' = proof /\ bdd_map' = bdd_map /\ phase' = phase
      /\ items' = items /\ aborted' = aborted
  BY DEF autvars, statics
<1>2. /\ Nodes' = Nodes /\ Width' = Width /\ tagged' = tagged /\ edges' = edges
      /\ pairs' = pairs
  BY <1>1, SameGraph
<1>3. Stage => Stage'
  BY <1>1, <1>2 DEF Stage
<1> QED
  BY <1>1, <1>3 DEF BInv

LEMMA TimerBInv ==
  ASSUME BInv, TInv,
         \/ StartSearch \/ SetAlarm \/ SearchReturns \/ Return \/ Exit
         \/ AlarmRings \/ TimeoutEscapes
  PROVE  BInv'
<1>1. UNCHANGED autvars
  BY DEF StartSearch, SetAlarm, SearchReturns, Return, Exit, AlarmRings, TimeoutEscapes
<1>2. CutShort => CutShort'
  <2>1. CASE Return
    <3> SUFFICES ASSUME CutShort PROVE CutShort'
      OBVIOUS
    <3>1. PICK s \in 1 .. search - 1 : result[s] = "timeout"
      BY DEF CutShort
    <3>2. search \in Int /\ s # search /\ search' = search + 1 /\ result' = [result EXCEPT ![search] = "returned"]
      BY <2>1, SMT DEF Return, TInv
    <3>3. result'[s] = "timeout"
      BY <3>1, <3>2, SMT DEF TInv
    <3>4. s \in 1 .. search' - 1
      BY <3>2, SMT
    <3> QED
      BY <3>3, <3>4 DEF CutShort
  <2>2. CASE ~Return
    <3>1. search' = search /\ result' = result
      BY <2>2 DEF StartSearch, SetAlarm, SearchReturns, Exit, AlarmRings, TimeoutEscapes
    <3> QED
      BY <3>1 DEF CutShort
  <2> QED
    BY <2>1, <2>2
<1> QED
  BY <1>1, <1>2, SameStage

LEMMA RaiseBInv ==
  ASSUME BInv, TInv, RaiseTimeout
  PROVE  BInv'
<1>1. /\ search \in 1 .. Searches /\ search' = search + 1 /\ phase' = "none"
      /\ result' = [result EXCEPT ![search] = "timeout"]
      /\ graph' = graph /\ proof' = proof /\ bdd_map' = bdd_map /\ aborted' = aborted
  BY DEF RaiseTimeout, TInv, statics
<1>2. CutShort'
  <2>1. search \in 1 .. search' - 1
    BY <1>1, SearchesAssumption, SMT
  <2>2. result'[search] = "timeout"
    BY <1>1 DEF TInv
  <2> QED
    BY <2>1, <2>2 DEF CutShort
<1>3. Stage'
  BY <1>1 DEF Stage
<1> QED
  BY <1>1, <1>2, <1>3 DEF BInv

LEMMA StepBInv == ASSUME BInv, TInv, [Next]_vars PROVE BInv'
<1>1. CASE UNCHANGED vars
  <2>1. UNCHANGED autvars /\ search' = search /\ result' = result
    BY <1>1 DEF vars
  <2> QED
    BY <2>1, SameStage DEF CutShort
<1>2. CASE Next
  BY <1>2, CheckBInv, TimerBInv, RaiseBInv DEF Next
<1> QED
  BY <1>1, <1>2

\* At the end of the iterations nothing is missing and nothing was merged.
LEMMA BInvRebuilt == BInv /\ ~aborted => GraphRebuilt
<1> SUFFICES ASSUME BInv, ~aborted, phase = "checked" PROVE GraphRebuilt
  BY DEF GraphRebuilt
<1> DEFINE p == proof
           m == bdd_map
<1>1. /\ graph \in Checks /\ Built(p, m, Width, Nodes, tagged, edges, pairs)
      /\ p.initial_vertex = m[graph.init]
  BY DEF BInv, Stage
<1>2. /\ IsFiniteSet(Nodes) /\ Nodes \subseteq Nat /\ graph.init \in Nodes
      /\ \A v \in Nodes : graph.prf[v].tags \subseteq Int
      /\ \A v \in Nodes : children(graph.prf, v) \subseteq Nodes
  BY <1>1, GraphShape
<1>9. p.initial_vertex = m[graph.init]
  BY <1>1
<1> HIDE DEF p, m
<1>3. /\ DOMAIN m = Nodes /\ p.vertices = {m[v] : v \in Nodes}
      /\ \A v, w \in Nodes : m[v] = m[w] => v = w
      /\ \A v \in Nodes : \E n \in 1 .. p.last_vertex : m[v] = {n}
      /\ p.last_vertex = Cardinality(Nodes)
  BY <1>1 DEF Built, VerticesBuilt
<1>4. ASSUME NEW v \in Nodes PROVE p.tag_map[m[v]] = graph.prf[v].tags
  <2>1. \A t : t \in p.tag_map[m[v]] <=> <<v, t>> \in tagged
    BY <1>1 DEF Built, TagsBuilt
  <2>2. \A t : <<v, t>> \in tagged <=> t \in graph.prf[v].tags
    BY <1>1, TagsVisited
  <2> QED
    BY <2>1, <2>2
<1>5. ASSUME NEW v \in Nodes PROVE p.trans_map[m[v]] = {m[w] : w \in children(graph.prf, v)}
  <2>1. p.trans_map[m[v]] = {m[w] : w \in {u \in Nodes : <<v, u>> \in edges}}
    BY <1>1 DEF Built, LinksBuilt
  <2>2. {u \in Nodes : <<v, u>> \in edges} = children(graph.prf, v)
    BY <1>1, <1>2, EdgesVisited
  <2> QED
    BY <2>1, <2>2
<1>6. ASSUME NEW v \in Nodes, NEW w \in children(graph.prf, v), NEW t, NEW u
      PROVE  /\ trace_pair(p, m[v], m[w], t, u) <=> <<t, u>> \in graph.prf[v].subg[w].tv
             /\ progress_pair(p, m[v], m[w], t, u) <=> <<t, u>> \in graph.prf[v].subg[w].tp
  <2>1. w \in Nodes
    BY <1>2
  <2>2. /\ <<m[v], m[w], t, u>> \in p.trace_pairs <=> <<"trace", <<v, w>>, <<t, u>>>> \in pairs
        /\ <<m[v], m[w], t, u>> \in p.progress_pairs <=> <<"progress", <<v, w>>, <<t, u>>>> \in pairs
    BY <1>1, <2>1 DEF Built, PairsBuilt
  <2>3. /\ <<"trace", <<v, w>>, <<t, u>>>> \in pairs <=> <<t, u>> \in graph.prf[v].subg[w].tv
        /\ <<"progress", <<v, w>>, <<t, u>>>> \in pairs <=> <<t, u>> \in graph.prf[v].subg[w].tp
    BY <1>1, PairsVisited
  <2> QED
    BY <2>2, <2>3 DEF trace_pair, progress_pair
<1>7. IsProof(p)
  <2>1. ASSUME NEW b \in p.vertices
        PROVE  /\ \E n \in b : n \in Nat /\ b = {n}
               /\ p.tag_map[b] \subseteq Int /\ p.trans_map[b] \subseteq p.vertices
    <3>1. PICK v \in Nodes : b = m[v]
      BY <1>3
    <3>2. PICK n \in 1 .. p.last_vertex : m[v] = {n}
      BY <1>3
    <3>3. n \in Nat
      BY <1>2, <1>3, FS_CardinalityType, SMT
    <3>4. p.tag_map[b] \subseteq Int
      BY <1>2, <1>4, <3>1
    <3>5. p.trans_map[b] \subseteq p.vertices
      <4>1. p.trans_map[b] = {m[w] : w \in children(graph.prf, v)}
        BY <1>5, <3>1
      <4>2. children(graph.prf, v) \subseteq Nodes
        BY <1>2
      <4> QED
        BY <1>3, <4>1, <4>2
    <3> QED
      BY <3>1, <3>2, <3>3, <3>4, <3>5
  <2>2. DOMAIN p.tag_map = p.vertices /\ DOMAIN p.trans_map = p.vertices
    BY <1>1, <1>3 DEF Built, TagsBuilt, LinksBuilt
  <2>3. p.initial_vertex \in p.vertices
    <3>1. m[graph.init] \in p.vertices
      BY <1>2, <1>3, ZenonT(60)
    <3> QED
      BY <1>9, <3>1
  <2> QED
    BY <2>1, <2>2, <2>3 DEF IsProof
<1>8. IsInjective(m)
  BY <1>3 DEF IsInjective
<1> QED
  BY <1>3, <1>4, <1>5, <1>6, <1>7, <1>8, <1>9 DEF GraphRebuilt, p, m, Nodes

\* However many searches a process makes, and whatever graphs they check, a foreign
\* call fails an assertion, or an automaton outlives its check, only after a
\* timeout has cut a search short.
THEOREM OnlyTimeoutsLeaveStale == Spec => []StaleOnlyAfterTimeout
<1>1. BInv => StaleOnlyAfterTimeout
  BY DEF BInv, StaleOnlyAfterTimeout, CutShort
<1> QED
  BY InitTInv, StepPreserves, InitBInv, StepBInv, <1>1, PTL DEF Spec

\* Whenever a check gets its answer, for every graph, the foreign calls have rebuilt
\* that graph, under a different number for each vertex, and the proof object has
\* the shape that the automata of Spot rely on.
THEOREM ChecksRebuildGraphs == Spec => []GraphRebuilt
<1>1. BInv => GraphRebuilt
  BY BInvRebuilt DEF BInv, GraphRebuilt
<1> QED
  BY InitTInv, StepPreserves, InitBInv, StepBInv, <1>1, PTL DEF Spec
=============================================================================
