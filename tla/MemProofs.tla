------------------------------ MODULE MemProofs ------------------------------
(***************************************************************************)
(* Lab 4, for caches of every size and associativity, every policy, page   *)
(* policy and delay, and every trace.                                      *)
(***************************************************************************)
EXTENDS MemRecency, FiniteSetTheorems, SequenceTheorems, WellFoundedInduction, TLAPS

-----------------------------------------------------------------------------
(* Numbers. *)

LEMMA FirstExists ==
    ASSUME NEW S \in SUBSET Nat, S # {}
    PROVE  \E s \in S : \A t \in S : s <= t
<1>1. PICK s \in S : \A t \in S : <<t, s>> \notin OpToRel(<, Nat)
  BY NatLessThanWellFounded, WFMin
<1>2. \A t \in S : t \in Nat /\ s \in Nat
  OBVIOUS
<1>3. \A t \in S : ~ (t < s)
  BY <1>1, <1>2, Zenon DEF OpToRel
<1> QED  BY <1>2, <1>3

LEMMA MinIsThere ==
    ASSUME NEW S \in SUBSET Nat, S # {}
    PROVE  Min(S) \in S /\ \A t \in S : Min(S) <= t
<1>1. PICK s \in S : \A t \in S : s <= t
  BY FirstExists
<1>2. \A t \in S : t >= s
  BY <1>1
<1> QED  BY <1>1, <1>2 DEF Min

LEMMA MaxIsThere ==
    ASSUME NEW S \in SUBSET Nat, S # {}, NEW b \in Nat, \A t \in S : t <= b
    PROVE  Max(S) \in S /\ \A t \in S : t <= Max(S)
<1> DEFINE T == {b - t : t \in S}
<1>1. T \in SUBSET Nat /\ T # {}
  <2>1. PICK s \in S : TRUE
    OBVIOUS
  <2>2. b - s \in T
    BY <2>1
  <2>3. \A t \in S : b - t \in Nat
    OBVIOUS
  <2> QED  BY <2>2, <2>3
<1>2. PICK d \in T : \A t \in T : d <= t
  BY <1>1, FirstExists
<1>3. PICK s \in S : d = b - s
  BY <1>2
<1>4. ASSUME NEW t \in S PROVE s >= t
  <2>1. b - t \in T
    OBVIOUS
  <2>2. d <= b - t
    BY <1>2, <2>1
  <2> QED  BY <1>3, <2>2
<1>5. \A t \in S : Max(S) >= t /\ Max(S) \in S
  BY <1>3, <1>4 DEF Max
<1> QED  BY <1>5

\* A set with one more element has twice as many subsets.
LEMMA PowerOfTwo ==
    ASSUME NEW n \in Nat
    PROVE  2 ^ n \in Nat \ {0} /\ 2 ^ (n + 1) = 2 * 2 ^ n
<1>1. /\ IsFiniteSet(1 .. n) /\ Cardinality(1 .. n) = n
      /\ IsFiniteSet(1 .. n + 1) /\ Cardinality(1 .. n + 1) = n + 1
  BY FS_Interval
<1> DEFINE A == SUBSET (1 .. n)
           B == {s \cup {n + 1} : s \in A}
<1>2. IsFiniteSet(A) /\ Cardinality(A) = 2 ^ n /\ Cardinality(A) \in Nat
  BY <1>1, FS_SUBSET, FS_CardinalityType
<1>3. Cardinality(SUBSET (1 .. n + 1)) = 2 ^ (n + 1)
  BY <1>1, FS_SUBSET
<1>4. 2 ^ n # 0
  <2>1. {} \in A
    OBVIOUS
  <2> HIDE DEF A
  <2> QED  BY <1>2, <2>1, FS_EmptySet
<1>5. IsFiniteSet(B) /\ Cardinality(B) = Cardinality(A)
  <2> DEFINE f == [s \in A |-> s \cup {n + 1}]
  <2>1. \A s, t \in A : f[s] = f[t] => s = t
    <3>1. ASSUME NEW s \in A, NEW t \in A, s \cup {n + 1} = t \cup {n + 1} PROVE s = t
      <4>1. n + 1 \notin s /\ n + 1 \notin t
        OBVIOUS
      <4> QED  BY <3>1, <4>1
    <3> QED  BY <3>1
  <2>2. f \in Bijection(A, B)
    <3>1. \A b \in B : \E s \in A : f[s] = b
      OBVIOUS
    <3>2. f \in [A -> B]
      OBVIOUS
    <3>3. \A s, t \in A : f[s] = f[t] => s = t
      BY <2>1
    <3> HIDE DEF f, A, B
    <3>4. f \in Injection(A, B)
      BY <3>2, <3>3, Zenon DEF Injection, IsInjective
    <3>5. f \in Surjection(A, B)
      BY <3>1, <3>2, Zenon DEF Surjection
    <3> QED  BY <3>4, <3>5, Zenon DEF Bijection
  <2> HIDE DEF f, A, B
  <2> QED  BY <1>2, <2>2, FS_Bijection DEF ExistsBijection
<1>6. SUBSET (1 .. n + 1) = A \cup B
  <2>1. ASSUME NEW s \in SUBSET (1 .. n + 1) PROVE s \in A \cup B
    <3>1. CASE n + 1 \in s
      <4>1. s \ {n + 1} \in A
        OBVIOUS
      <4>2. s = (s \ {n + 1}) \cup {n + 1}
        BY <3>1
      <4>3. (s \ {n + 1}) \cup {n + 1} \in B
        BY <4>1
      <4> QED  BY <4>2, <4>3, Zenon
    <3>2. CASE n + 1 \notin s
      <4>1. s \in A
        BY <3>2
      <4> QED  BY <4>1, Zenon
    <3> QED  BY <3>1, <3>2
  <2>2. 1 .. n \subseteq 1 .. n + 1 /\ n + 1 \in 1 .. n + 1
    OBVIOUS
  <2>3. A \subseteq SUBSET (1 .. n + 1)
    BY <2>2
  <2>4. \A s \in A : s \cup {n + 1} \in SUBSET (1 .. n + 1)
    BY <2>2
  <2>5. B \subseteq SUBSET (1 .. n + 1)
    BY <2>4
  <2> HIDE DEF A, B
  <2> QED  BY <2>1, <2>3, <2>5, Zenon
<1>7. A \cap B = {}
  OBVIOUS
<1> HIDE DEF A, B
<1>8. Cardinality(A \cup B) = Cardinality(A) + Cardinality(B)
  <2>1. Cardinality(A \cup B) = Cardinality(A) + Cardinality(B) - Cardinality(A \cap B)
    BY <1>2, <1>5, FS_Union
  <2> QED  BY <1>2, <1>5, <1>7, <2>1, FS_EmptySet
<1>9. 2 ^ (n + 1) = 2 ^ n + 2 ^ n
  BY <1>2, <1>3, <1>5, <1>6, <1>8
<1>10. 2 ^ n \in Nat \ {0}
  BY <1>2, <1>4
<1> QED  BY <1>9, <1>10

LEMMA PowerIsGreater ==
    ASSUME NEW n \in Nat
    PROVE  n < 2 ^ n
<1> DEFINE Bad == {m \in Nat : ~ m < 2 ^ m}
<1> SUFFICES ASSUME Bad # {} PROVE FALSE
  OBVIOUS
<1>1. PICK m \in Bad : \A t \in Bad : m <= t
  <2>1. Bad \in SUBSET Nat
    OBVIOUS
  <2> HIDE DEF Bad
  <2> QED  BY <2>1, FirstExists
<1>2. m # 0
  <2>1. 2 ^ 0 = 1 /\ 0 < 1
    OBVIOUS
  <2>2. 0 \notin Bad
    BY <2>1
  <2> QED  BY <2>2
<1>3. m - 1 \in Nat /\ m - 1 \notin Bad
  BY <1>1, <1>2
<1>4. m - 1 < 2 ^ (m - 1)
  BY <1>3
<1>5. 2 ^ (m - 1) \in Nat /\ 2 ^ ((m - 1) + 1) = 2 * 2 ^ (m - 1)
  BY <1>3, PowerOfTwo
<1>6. (m - 1) + 1 = m
  BY <1>3
<1>7. m < 2 ^ m
  BY <1>2, <1>3, <1>4, <1>5, <1>6
<1> QED  BY <1>7

\* log2, rounded down, exists.
LEMMA IndexSpanType ==
    ASSUME NEW n \in Nat \ {0}
    PROVE  IndexSpan(n) \in 1 .. n
<1> DEFINE K == {k \in 0 .. n : 2 ^ k <= n}
<1>1. PICK k \in K : \A t \in K : t <= k
  <2>1. 2 ^ 0 = 1
    OBVIOUS
  <2>2. 0 \in K
    BY <2>1
  <2>3. K \in SUBSET Nat /\ n \in Nat /\ \A t \in K : t <= n
    OBVIOUS
  <2> HIDE DEF K
  <2> QED  BY <2>2, <2>3, MaxIsThere
<1>2. k \in 0 .. n /\ 2 ^ k <= n /\ k \in Nat
  OBVIOUS
<1>3. 2 ^ k \in Nat \ {0} /\ 2 ^ (k + 1) = 2 * 2 ^ k /\ 2 ^ (k + 1) \in Nat
  BY <1>2, PowerOfTwo
<1>4. n < 2 * 2 ^ k
  <2>1. CASE k = n
    <3>1. n < 2 ^ n
      BY PowerIsGreater
    <3> QED  BY <1>2, <2>1, <3>1
  <2>2. CASE k # n
    <3>1. k + 1 \in 0 .. n /\ k + 1 \notin K
      BY <1>1, <1>2, <2>2
    <3>2. ~ 2 ^ (k + 1) <= n
      BY <3>1
    <3> QED  BY <1>3, <3>2
  <2> QED  BY <2>1, <2>2
<1>5. \E p \in {2 ^ j : j \in 0 .. n} : p <= n /\ n < 2 * p
  BY <1>2, <1>4
<1>6. IndexSpan(n) \in {2 ^ j : j \in 0 .. n} /\ IndexSpan(n) <= n
  BY <1>5 DEF IndexSpan
<1>7. PICK j \in 0 .. n : IndexSpan(n) = 2 ^ j
  BY <1>6
<1>8. 2 ^ j \in Nat \ {0}
  BY <1>7, PowerOfTwo
<1> QED  BY <1>6, <1>7, <1>8

-----------------------------------------------------------------------------
(* A cache: n sets of a ways. *)

Policies == {"LRU", "RANDOM", "SWP", "DWP"}

Line == [valid : BOOLEAN, dirty : BOOLEAN, tag : Nat, coreID : Cores,
         last_access_time : Nat, hits : Nat, current : BOOLEAN]

LinesOfSet(a) == [0 .. a - 1 -> Line]
SetsOf(n, a)  == [0 .. n - 1 -> LinesOfSet(a)]

CacheOf(n, a) ==
    [sets : SetsOf(n, a), index_span : 1 .. n,
     replacement_policy : Policies, last_evicted_line : Line, fault : BOOLEAN,
     stat_read_access : Nat, stat_read_miss : Nat,
     stat_write_access : Nat, stat_write_miss : Nat, stat_dirty_evicts : Nat]

LEMMA ZeroIsACore ==
    0 \in Cores /\ Cores \subseteq {0, 1} /\ IsFiniteSet(Cores) /\ NUM_CORES \in {1, 2}
<1>1. NUM_CORES \in {1, 2}
  BY MemSysAssumption
<1>2. CASE NUM_CORES = 1
  <2>1. Cores = {0}
    BY <1>2 DEF Cores
  <2> QED  BY <1>1, <2>1, FS_Singleton
<1>3. CASE NUM_CORES = 2
  <2>1. Cores = {0, 1}
    BY <1>3 DEF Cores
  <2>2. IsFiniteSet({0} \cup {1})
    BY FS_Singleton, FS_AddElement, Zenon
  <2> QED  BY <1>1, <2>1, <2>2
<1> QED  BY <1>1, <1>2, <1>3

LEMMA EmptyLineType == EmptyLine \in Line
BY ZeroIsACore DEF EmptyLine, Line

\* What a new cache is.
LEMMA NewCache ==
    ASSUME NEW size, NEW a \in Nat \ {0}, NEW p \in Policies,
           size \div (a * CACHE_LINESIZE) \in Nat \ {0}
    PROVE  /\ cache_new(size, a, CACHE_LINESIZE, p)
                  \in CacheOf(size \div (a * CACHE_LINESIZE), a)
           /\ \A s \in 0 .. size \div (a * CACHE_LINESIZE) - 1 : \A w \in 0 .. a - 1 :
                  cache_new(size, a, CACHE_LINESIZE, p).sets[s][w] = EmptyLine
           /\ ~ cache_new(size, a, CACHE_LINESIZE, p).fault
           /\ cache_new(size, a, CACHE_LINESIZE, p).replacement_policy = p
<1> DEFINE n == size \div (a * CACHE_LINESIZE)
           S == [s \in 0 .. n - 1 |-> [w \in 0 .. a - 1 |-> EmptyLine]]
<1>1. S \in SetsOf(n, a)
  BY EmptyLineType DEF LinesOfSet, SetsOf
<1>2. IndexSpan(n) \in 1 .. n
  BY IndexSpanType
<1>3. cache_new(size, a, CACHE_LINESIZE, p) =
        [sets |-> S, index_span |-> IndexSpan(n), replacement_policy |-> p,
         last_evicted_line |-> EmptyLine, fault |-> FALSE,
         stat_read_access |-> 0, stat_read_miss |-> 0,
         stat_write_access |-> 0, stat_write_miss |-> 0, stat_dirty_evicts |-> 0]
  BY Zenon DEF cache_new
<1> HIDE DEF S
<1>4. cache_new(size, a, CACHE_LINESIZE, p) \in CacheOf(n, a)
  BY <1>1, <1>2, <1>3, EmptyLineType DEF CacheOf
<1>5. cache_new(size, a, CACHE_LINESIZE, p).sets = S
  BY <1>3
<1>6. \A s \in 0 .. n - 1 : \A w \in 0 .. a - 1 : S[s][w] = EmptyLine
  BY DEF S
<1>7. /\ ~ cache_new(size, a, CACHE_LINESIZE, p).fault
      /\ cache_new(size, a, CACHE_LINESIZE, p).replacement_policy = p
  BY <1>3
<1> QED  BY <1>4, <1>5, <1>6, <1>7

\* An address and its parts.
LEMMA Address ==
    ASSUME NEW n \in Nat \ {0}, NEW a \in Nat \ {0}, NEW c \in CacheOf(n, a), NEW l \in Nat
    PROVE  /\ IndexOf(c, l) \in 0 .. c.index_span - 1
           /\ IndexOf(c, l) \in 0 .. n - 1
           /\ TagOf(c, l) \in Nat
           /\ LineAddr(c, TagOf(c, l), IndexOf(c, l)) = l
           /\ Sets(c) = 0 .. n - 1 /\ Ways(c) = 0 .. a - 1
           /\ SetOf(c, l) \in LinesOfSet(a)
<1>1. c.index_span \in 1 .. n /\ c.sets \in SetsOf(n, a)
  BY DEF CacheOf
<1>2. 0 \in 0 .. n - 1 /\ c.sets[0] \in LinesOfSet(a)
  BY <1>1 DEF SetsOf
<1> DEFINE p == c.index_span
<1>3. p \in Nat \ {0} /\ p <= n
  BY <1>1
<1> HIDE DEF p
<1>4. l % p \in 0 .. p - 1 /\ l \div p \in Nat /\ l = p * (l \div p) + (l % p)
  BY <1>3
<1>5. (l \div p) * p = p * (l \div p)
  BY <1>4, <1>3
<1>6. IndexOf(c, l) = l % p /\ TagOf(c, l) = l \div p
  BY DEF IndexOf, TagOf, p
<1>7. LineAddr(c, l \div p, l % p) = l
  BY <1>4, <1>5 DEF LineAddr, p
<1>8. l % p \in 0 .. n - 1
  BY <1>3, <1>4
<1>9. Ways(c) = 0 .. a - 1
  BY <1>2 DEF Ways, LinesOfSet
<1>10. SetOf(c, l) \in LinesOfSet(a)
  BY <1>1, <1>6, <1>8 DEF SetOf, SetsOf
<1>11. Sets(c) = 0 .. n - 1
  BY <1>1 DEF Sets, SetsOf
<1> QED  BY <1>4, <1>6, <1>7, <1>8, <1>9, <1>10, <1>11 DEF p

\* The parts of an address that was put together.
LEMMA Parts ==
    ASSUME NEW n \in Nat \ {0}, NEW a \in Nat \ {0}, NEW c \in CacheOf(n, a),
           NEW tag \in Nat, NEW index \in 0 .. c.index_span - 1
    PROVE  /\ LineAddr(c, tag, index) \in Nat
           /\ IndexOf(c, LineAddr(c, tag, index)) = index
           /\ TagOf(c, LineAddr(c, tag, index)) = tag
<1> DEFINE p == c.index_span
<1>1. p \in Nat \ {0} /\ index \in 0 .. p - 1
  BY DEF CacheOf
<1> HIDE DEF p
<1>2. PICK base \in Nat : base = tag * p
  BY <1>1
<1> DEFINE x == base + index
<1>3. LineAddr(c, tag, index) = x
  BY <1>2 DEF LineAddr, p
<1>4. x \in Nat
  BY <1>1, <1>2
<1>5. x \div p = tag /\ x % p = index
  <2>1. x = p * (x \div p) + (x % p) /\ x % p \in 0 .. p - 1 /\ x \div p \in Nat
    BY <1>1, <1>4
  <2> DEFINE t == x \div p
             r == x % p
  <2>2. t \in Nat /\ r \in 0 .. p - 1 /\ x = p * t + r
    BY <2>1
  <2> HIDE DEF t, r
  <2>3. p * tag + index = p * t + r
    BY <2>2, <1>2, <1>1
  <2>4. tag = t
    <3>1. CASE tag < t
      <4>1. PICK d \in Nat : t = tag + 1 + d
        <5>1. t - tag - 1 \in Nat /\ t = tag + 1 + (t - tag - 1)
          BY <2>2, <3>1
        <5> QED  BY <5>1
      <4>2. p * t = p * tag + p + p * d /\ p * d \in Nat /\ p * tag \in Nat
        BY <4>1, <1>1
      <4> QED  BY <4>2, <2>2, <2>3, <1>1
    <3>2. CASE t < tag
      <4>1. PICK d \in Nat : tag = t + 1 + d
        <5>1. tag - t - 1 \in Nat /\ tag = t + 1 + (tag - t - 1)
          BY <2>2, <3>2
        <5> QED  BY <5>1
      <4>2. p * tag = p * t + p + p * d /\ p * d \in Nat /\ p * t \in Nat
        BY <4>1, <1>1, <2>2
      <4> QED  BY <4>2, <2>2, <2>3, <1>1
    <3> QED  BY <3>1, <3>2, <2>2
  <2>5. index = r
    <3>1. p * tag \in Nat /\ p * tag = p * t
      BY <2>4, <1>1
    <3> QED  BY <3>1, <2>3, <2>2, <1>1
  <2> QED  BY <2>4, <2>5 DEF t, r
<1> QED  BY <1>3, <1>4, <1>5 DEF IndexOf, TagOf, p

\* r is c with this line in way w of set index; the statistics aside.
Put(c, r, index, w, line) ==
    /\ r.index_span = c.index_span
    /\ \A s \in Sets(c) : \A v \in Ways(c) :
           r.sets[s][v] = IF s = index /\ v = w THEN line ELSE c.sets[s][v]

\* The sets of a cache with one line written.
PutLine(S, index, w, line) == [S EXCEPT ![index] = [S[index] EXCEPT ![w] = line]]

LEMMA PutType ==
    ASSUME NEW n \in Nat \ {0}, NEW a \in Nat \ {0}, NEW S \in SetsOf(n, a),
           NEW index \in 0 .. n - 1, NEW w \in 0 .. a - 1, NEW line \in Line
    PROVE  /\ PutLine(S, index, w, line) \in SetsOf(n, a)
           /\ \A s \in 0 .. n - 1 : \A v \in 0 .. a - 1 :
                  PutLine(S, index, w, line)[s][v] =
                      IF s = index /\ v = w THEN line ELSE S[s][v]
<1>1. S[index] \in [0 .. a - 1 -> Line]
  BY DEF LinesOfSet, SetsOf
<1> DEFINE new == [S[index] EXCEPT ![w] = line]
<1>2. /\ new \in [0 .. a - 1 -> Line]
      /\ \A v \in 0 .. a - 1 : new[v] = IF v = w THEN line ELSE S[index][v]
  BY <1>1
<1>3. PutLine(S, index, w, line) = [S EXCEPT ![index] = new]
  BY DEF PutLine
<1> HIDE DEF new
<1>4. PutLine(S, index, w, line) \in SetsOf(n, a)
  BY <1>2, <1>3 DEF LinesOfSet, SetsOf
<1>5. \A s \in 0 .. n - 1 :
          PutLine(S, index, w, line)[s] = IF s = index THEN new ELSE S[s]
  BY <1>3 DEF SetsOf
<1> QED  BY <1>2, <1>4, <1>5

\* new is what an access makes of this line.
LineAccessed(line, new, is_write, now, data) ==
    /\ new \in Line
    /\ new.valid <=> line.valid
    /\ new.tag = line.tag /\ new.coreID = line.coreID /\ new.last_access_time = now
    /\ new.dirty <=> (line.dirty \/ is_write)
    /\ is_write => (new.current <=> data)
    /\ ~ is_write => (new.current <=> line.current)

LEMMA AccessedType ==
    ASSUME NEW line \in Line, NEW is_write \in BOOLEAN, NEW now \in Nat, NEW data \in BOOLEAN
    PROVE  LineAccessed(line, Accessed(line, is_write, now, data), is_write, now, data)
<1>0. PICK new : new = Accessed(line, is_write, now, data)
  OBVIOUS
<1> DEFINE dirty == line.dirty \/ is_write
           current == IF is_write THEN data ELSE line.current
<1>1. dirty \in BOOLEAN /\ current \in BOOLEAN
  BY DEF Line
<1>2. new = [line EXCEPT !.last_access_time = now, !.hits = line.hits + 1,
                         !.dirty = dirty, !.current = current]
  BY <1>0 DEF Accessed
<1> HIDE DEF dirty, current
<1>3. line.hits + 1 \in Nat
  BY DEF Line
<1>4. new \in Line
  BY <1>1, <1>2, <1>3 DEF Line
<1>5. /\ new.valid = line.valid /\ new.tag = line.tag /\ new.coreID = line.coreID
      /\ new.last_access_time = now
  BY <1>1, <1>2 DEF Line
<1>6. new.dirty = dirty /\ new.current = current
  BY <1>1, <1>2 DEF Line
<1> QED  BY <1>0, <1>4, <1>5, <1>6 DEF dirty, current, LineAccessed

\* The outcome r of cache_access, which looks line l up, writes the way that
\* hits, and counts.
AccessOutcome(n, a, c, l, is_write, k, now, data, r) ==
    /\ r.hit <=> HitWays(c, l, k) # {}
    /\ r.cache \in CacheOf(n, a)
    /\ r.cache.index_span = c.index_span /\ r.cache.fault = c.fault
    /\ r.cache.replacement_policy = c.replacement_policy
    /\ r.cache.last_evicted_line = c.last_evicted_line
    /\ r.cache.stat_dirty_evicts = c.stat_dirty_evicts
    /\ r.cache.stat_read_access = c.stat_read_access + (IF is_write THEN 0 ELSE 1)
    /\ r.cache.stat_write_access = c.stat_write_access + (IF is_write THEN 1 ELSE 0)
    /\ Misses(r.cache) = Misses(c) + (IF HitWays(c, l, k) # {} THEN 0 ELSE 1)
    /\ HitWays(c, l, k) = {} => r.cache.sets = c.sets
    /\ HitWays(c, l, k) # {} =>
           \E h \in HitWays(c, l, k) :
               Put(c, r.cache, IndexOf(c, l), h, Accessed(SetOf(c, l)[h], is_write, now, data))

LEMMA AccessFacts ==
    ASSUME NEW n \in Nat \ {0}, NEW a \in Nat \ {0}, NEW c \in CacheOf(n, a), NEW l \in Nat,
           NEW is_write \in BOOLEAN, NEW k \in Cores, NEW now \in Nat, NEW data \in BOOLEAN
    PROVE  AccessOutcome(n, a, c, l, is_write, k, now, data,
                         cache_access(c, l, is_write, k, now, data))
<1>0. PICK r : r = cache_access(c, l, is_write, k, now, data)
  OBVIOUS
<1> DEFINE H == HitWays(c, l, k)
           counted == IF is_write THEN [c EXCEPT !.stat_write_access = @ + 1]
                      ELSE [c EXCEPT !.stat_read_access = @ + 1]
           missed == IF is_write THEN [counted EXCEPT !.stat_write_miss = @ + 1]
                     ELSE [counted EXCEPT !.stat_read_miss = @ + 1]
           h == Min(H)
           T == [c.sets EXCEPT ![IndexOf(c, l)] =
                    [c.sets[IndexOf(c, l)] EXCEPT ![h] =
                         Accessed(SetOf(c, l)[h], is_write, now, data)]]
<1>1. /\ IndexOf(c, l) \in 0 .. n - 1 /\ Sets(c) = 0 .. n - 1 /\ Ways(c) = 0 .. a - 1
      /\ SetOf(c, l) \in [0 .. a - 1 -> Line] /\ c.sets \in SetsOf(n, a)
  BY Address DEF LinesOfSet, CacheOf
<1>2. H \subseteq 0 .. a - 1
  BY <1>1 DEF HitWays
<1>3. /\ counted \in CacheOf(n, a) /\ counted.sets = c.sets
      /\ counted.index_span = c.index_span /\ counted.fault = c.fault
      /\ counted.replacement_policy = c.replacement_policy
      /\ counted.last_evicted_line = c.last_evicted_line
      /\ counted.stat_dirty_evicts = c.stat_dirty_evicts
      /\ counted.stat_read_access = c.stat_read_access + (IF is_write THEN 0 ELSE 1)
      /\ counted.stat_write_access = c.stat_write_access + (IF is_write THEN 1 ELSE 0)
      /\ counted.stat_read_miss = c.stat_read_miss
      /\ counted.stat_write_miss = c.stat_write_miss
  <2>1. CASE is_write
    BY <2>1 DEF CacheOf
  <2>2. CASE ~ is_write
    BY <2>2 DEF CacheOf
  <2> QED  BY <2>1, <2>2
<1>4. /\ r.hit = (H # {})
      /\ H # {} => r.cache = [counted EXCEPT !.sets[IndexOf(c, l)][h] =
                                  Accessed(@, is_write, now, data)]
      /\ H = {} => r.cache = missed
  BY <1>0, Zenon DEF cache_access
<1> HIDE DEF counted
<1> SUFFICES AccessOutcome(n, a, c, l, is_write, k, now, data, r)
  BY <1>0
<1>5. CASE H = {}
  <2>1. r.cache = missed
    BY <1>4, <1>5
  <2>2. /\ missed \in CacheOf(n, a) /\ missed.sets = counted.sets
        /\ missed.index_span = counted.index_span /\ missed.fault = counted.fault
        /\ missed.replacement_policy = counted.replacement_policy
        /\ missed.last_evicted_line = counted.last_evicted_line
        /\ missed.stat_dirty_evicts = counted.stat_dirty_evicts
        /\ missed.stat_read_access = counted.stat_read_access
        /\ missed.stat_write_access = counted.stat_write_access
        /\ missed.stat_read_miss + missed.stat_write_miss
               = counted.stat_read_miss + counted.stat_write_miss + 1
    <3>1. CASE is_write
      <4>1. missed = [counted EXCEPT !.stat_write_miss = counted.stat_write_miss + 1]
        BY <3>1
      <4> HIDE DEF missed
      <4>2. counted.stat_write_miss + 1 \in Nat /\ counted.stat_read_miss \in Nat
            /\ counted.stat_write_miss \in Nat
        BY <1>3 DEF CacheOf
      <4>3. missed \in CacheOf(n, a)
        BY <1>3, <4>1, <4>2 DEF CacheOf
      <4>4. /\ missed.sets = counted.sets
            /\ missed.index_span = counted.index_span /\ missed.fault = counted.fault
            /\ missed.replacement_policy = counted.replacement_policy
            /\ missed.last_evicted_line = counted.last_evicted_line
            /\ missed.stat_dirty_evicts = counted.stat_dirty_evicts
            /\ missed.stat_read_access = counted.stat_read_access
            /\ missed.stat_write_access = counted.stat_write_access
        BY <1>3, <4>1 DEF CacheOf
      <4>5. missed.stat_read_miss + missed.stat_write_miss
               = counted.stat_read_miss + counted.stat_write_miss + 1
        BY <1>3, <4>1, <4>2 DEF CacheOf
      <4> QED  BY <4>3, <4>4, <4>5
    <3>2. CASE ~ is_write
      <4>1. missed = [counted EXCEPT !.stat_read_miss = counted.stat_read_miss + 1]
        BY <3>2
      <4> HIDE DEF missed
      <4>2. counted.stat_read_miss + 1 \in Nat /\ counted.stat_read_miss \in Nat
            /\ counted.stat_write_miss \in Nat
        BY <1>3 DEF CacheOf
      <4>3. missed \in CacheOf(n, a)
        BY <1>3, <4>1, <4>2 DEF CacheOf
      <4>4. /\ missed.sets = counted.sets
            /\ missed.index_span = counted.index_span /\ missed.fault = counted.fault
            /\ missed.replacement_policy = counted.replacement_policy
            /\ missed.last_evicted_line = counted.last_evicted_line
            /\ missed.stat_dirty_evicts = counted.stat_dirty_evicts
            /\ missed.stat_read_access = counted.stat_read_access
            /\ missed.stat_write_access = counted.stat_write_access
        BY <1>3, <4>1 DEF CacheOf
      <4>5. missed.stat_read_miss + missed.stat_write_miss
               = counted.stat_read_miss + counted.stat_write_miss + 1
        BY <1>3, <4>1, <4>2 DEF CacheOf
      <4> QED  BY <4>3, <4>4, <4>5
    <3> QED  BY <3>1, <3>2
  <2> HIDE DEF missed
  <2>3. Misses(missed) = Misses(c) + 1
    BY <1>3, <2>2 DEF Misses
  <2> HIDE DEF H
  <2>4. ~ r.hit /\ H = {}
    BY <1>4, <1>5
  <2> QED  BY <1>3, <2>1, <2>2, <2>3, <2>4 DEF AccessOutcome, H
<1>6. CASE H # {}
  <2>1. h \in H
    <3>1. H \in SUBSET Nat
      BY <1>2
    <3> HIDE DEF H
    <3> QED  BY <1>6, <3>1, MinIsThere
  <2>2. SetOf(c, l)[h] \in Line /\ h \in 0 .. a - 1
    BY <1>1, <1>2, <2>1
  <2> HIDE DEF h, H
  <2>3. Accessed(SetOf(c, l)[h], is_write, now, data) \in Line
    <3>1. PICK old \in Line : old = SetOf(c, l)[h]
      BY <2>2
    <3>2. LineAccessed(old, Accessed(old, is_write, now, data), is_write, now, data)
      BY AccessedType
    <3> QED  BY <3>1, <3>2 DEF LineAccessed
  <2>4. /\ T \in SetsOf(n, a)
        /\ \A s \in 0 .. n - 1 : \A v \in 0 .. a - 1 :
               T[s][v] = IF s = IndexOf(c, l) /\ v = h
                         THEN Accessed(SetOf(c, l)[h], is_write, now, data) ELSE c.sets[s][v]
    <3> DEFINE line == Accessed(SetOf(c, l)[h], is_write, now, data)
    <3>1. T = [c.sets EXCEPT ![IndexOf(c, l)] = [c.sets[IndexOf(c, l)] EXCEPT ![h] = line]]
      OBVIOUS
    <3>2. line \in Line
      BY <2>3
    <3> HIDE DEF T, line
    <3>3. /\ T \in SetsOf(n, a)
          /\ \A s \in 0 .. n - 1 : \A v \in 0 .. a - 1 :
                 T[s][v] = IF s = IndexOf(c, l) /\ v = h THEN line ELSE c.sets[s][v]
      <4>1. T = PutLine(c.sets, IndexOf(c, l), h, line)
        BY <3>1, Zenon DEF PutLine
      <4>2. c.sets \in SetsOf(n, a) /\ IndexOf(c, l) \in 0 .. n - 1
            /\ h \in 0 .. a - 1
        BY <1>1, <2>2
      <4> QED  BY <3>2, <4>1, <4>2, PutType
    <3> QED  BY <3>3 DEF line
  <2>5. r.cache = [counted EXCEPT !.sets = T]
    <3>1. r.cache = [counted EXCEPT !.sets[IndexOf(c, l)][h] = Accessed(@, is_write, now, data)]
      BY <1>4, <1>6 DEF H
    <3>2. counted.sets[IndexOf(c, l)] = SetOf(c, l) /\ counted.sets = c.sets
      BY <1>3 DEF SetOf
    <3> QED  BY <3>1, <3>2 DEF SetOf
  <2> HIDE DEF T
  <2>6. /\ r.cache \in CacheOf(n, a) /\ r.cache.sets = T
        /\ r.cache.index_span = counted.index_span /\ r.cache.fault = counted.fault
        /\ r.cache.replacement_policy = counted.replacement_policy
        /\ r.cache.last_evicted_line = counted.last_evicted_line
        /\ r.cache.stat_dirty_evicts = counted.stat_dirty_evicts
        /\ r.cache.stat_read_access = counted.stat_read_access
        /\ r.cache.stat_write_access = counted.stat_write_access
        /\ r.cache.stat_read_miss = counted.stat_read_miss
        /\ r.cache.stat_write_miss = counted.stat_write_miss
    BY <1>3, <2>4, <2>5 DEF CacheOf
  <2>7. Put(c, r.cache, IndexOf(c, l), h, Accessed(SetOf(c, l)[h], is_write, now, data))
    BY <1>1, <1>3, <2>4, <2>6 DEF Put
  <2>8. Misses(r.cache) = Misses(c) /\ Misses(c) \in Nat
    BY <1>3, <2>6 DEF Misses, CacheOf
  <2>9. r.hit /\ H # {}
    BY <1>4, <1>6
  <2> QED  BY <1>3, <2>1, <2>6, <2>7, <2>8, <2>9 DEF AccessOutcome, H
<1> QED  BY <1>0, <1>5, <1>6

\* A search that starts with a way finds one.
LEMMA OldestIsThere ==
    ASSUME NEW a \in Nat \ {0}, NEW set \in LinesOfSet(a), NEW W \in SUBSET (0 .. a - 1), W # {}
    PROVE  /\ Oldest(set, W) \in W
           /\ \A v \in W : set[Oldest(set, W)].last_access_time <= set[v].last_access_time
<1> DEFINE time(w) == set[w].last_access_time
           Times == {time(w) : w \in W}
           First == {w \in W : \A v \in W : time(w) <= time(v)}
<1>1. \A w \in W : time(w) \in Nat
  BY DEF LinesOfSet, Line
<1> HIDE DEF time
<1>2. PICK t \in Times : \A u \in Times : t <= u
  <2>1. Times \in SUBSET Nat
    BY <1>1
  <2>2. Times # {}
    <3>1. PICK w \in W : TRUE
      OBVIOUS
    <3> QED  BY <3>1
  <2> HIDE DEF Times
  <2> QED  BY <2>1, <2>2, FirstExists
<1>3. PICK w \in W : t = time(w)
  BY <1>2
<1>4. w \in First
  <2>1. \A v \in W : time(v) \in Times
    OBVIOUS
  <2> QED  BY <1>2, <1>3, <2>1
<1>5. First \subseteq W /\ First # {}
  BY <1>4
<1>6. Oldest(set, W) = Min(First)
  BY DEF Oldest, time
<1>7. Min(First) \in First
  <2>1. W \subseteq Nat
    OBVIOUS
  <2>2. First \in SUBSET Nat
    BY <1>5, <2>1
  <2> HIDE DEF First
  <2> QED  BY <1>5, <2>2, MinIsThere
<1>8. \A v \in W : time(Min(First)) <= time(v)
  BY <1>7
<1> HIDE DEF First
<1> QED  BY <1>5, <1>6, <1>7, <1>8 DEF time

\* cache_find_victim returns a way or -1, and a way if one is free.
LEMMA VictimType ==
    ASSUME NEW a \in Nat \ {0}, NEW c, c.replacement_policy \in Policies,
           NEW set \in LinesOfSet(a), NEW k \in Cores
    PROVE  /\ cache_find_victim(c, set, k) \in (0 .. a - 1) \cup {NoWay}
           /\ {w \in 0 .. a - 1 : ~ set[w].valid} # {} =>
                  cache_find_victim(c, set, k) \in 0 .. a - 1
           /\ c.replacement_policy \in {"LRU", "RANDOM"} =>
                  cache_find_victim(c, set, k) \in 0 .. a - 1
<1> DEFINE invalid == {w \in DOMAIN set : ~ set[w].valid}
           v == cache_find_victim(c, set, k)
<1>1. DOMAIN set = 0 .. a - 1 /\ 0 \in 0 .. a - 1
  BY DEF LinesOfSet
<1>2. invalid = {w \in 0 .. a - 1 : ~ set[w].valid}
  BY <1>1
<1>3. invalid # {} => v = Min(invalid)
  BY Zenon DEF cache_find_victim
<1>4. invalid = {} =>
        /\ c.replacement_policy = "LRU" => v = cache_find_victim_LRU(set)
        /\ c.replacement_policy = "RANDOM" => v = FirstDraw
        /\ c.replacement_policy = "SWP" =>
               v = cache_find_victim_from_partition(set, k, SWP_CORE0_WAYS)
        /\ c.replacement_policy = "DWP" =>
               v = cache_find_victim_from_partition(set, k, BestPartition(set))
  BY DEF cache_find_victim
<1>5. invalid \subseteq 0 .. a - 1
  BY <1>1
<1> HIDE DEF invalid, v
<1>6. invalid # {} => v \in 0 .. a - 1
  <2>1. invalid \in SUBSET Nat
    BY <1>5
  <2> QED  BY <1>3, <1>5, <2>1, MinIsThere
<1>7. cache_find_victim_LRU(set) \in 0 .. a - 1
  <2>1. 0 .. a - 1 \in SUBSET (0 .. a - 1) /\ 0 .. a - 1 # {}
    BY <1>1
  <2> QED  BY <1>1, <2>1, OldestIsThere DEF cache_find_victim_LRU
<1>8. FirstDraw \in 0 .. a - 1
  BY DEF FirstDraw
<1>9. ASSUME NEW partition
      PROVE  cache_find_victim_from_partition(set, k, partition) \in (0 .. a - 1) \cup {NoWay}
  <2> DEFINE W == {w \in DOMAIN set : set[w].coreID = VictimCore(set, k, partition)}
  <2>1. W \in SUBSET (0 .. a - 1)
    BY <1>1
  <2>2. cache_find_victim_from_partition(set, k, partition) = Oldest(set, W)
    BY DEF cache_find_victim_from_partition
  <2> HIDE DEF W
  <2>3. CASE W = {}
    BY <2>2, <2>3 DEF Oldest
  <2>4. CASE W # {}
    <3>1. Oldest(set, W) \in W
      BY <2>1, <2>4, OldestIsThere
    <3> QED  BY <2>1, <2>2, <3>1
  <2> QED  BY <2>3, <2>4
<1>10. v \in (0 .. a - 1) \cup {NoWay}
  <2>1. cache_find_victim_from_partition(set, k, SWP_CORE0_WAYS) \in (0 .. a - 1) \cup {NoWay}
    BY <1>9
  <2>2. cache_find_victim_from_partition(set, k, BestPartition(set))
            \in (0 .. a - 1) \cup {NoWay}
    BY <1>9
  <2> QED  BY <1>4, <1>6, <1>7, <1>8, <2>1, <2>2 DEF Policies
<1>11. c.replacement_policy \in {"LRU", "RANDOM"} => v \in 0 .. a - 1
  BY <1>4, <1>6, <1>7, <1>8
<1> QED  BY <1>2, <1>6, <1>10, <1>11 DEF v

LEMMA InstalledType ==
    ASSUME NEW n \in Nat \ {0}, NEW a \in Nat \ {0}, NEW c \in CacheOf(n, a), NEW l \in Nat,
           NEW is_write \in BOOLEAN, NEW k \in Cores, NEW now \in Nat, NEW data \in BOOLEAN,
           NEW new, new = Installed(c, l, is_write, k, now, data)
    PROVE  new \in Line
<1>1. PICK tag \in Nat : tag = TagOf(c, l)
  BY Address
<1>2. new = [valid |-> TRUE, dirty |-> is_write, tag |-> tag, coreID |-> k,
             last_access_time |-> now, hits |-> 0, current |-> data]
  BY <1>1, Zenon DEF Installed
<1> QED  BY <1>2 DEF Line

Victim(c, l, k) == cache_find_victim(c, SetOf(c, l), k)

\* What cache_install leaves: the line goes into the victim's way and its old
\* line is kept as the last that was evicted; or there is no victim, and that
\* is a fault.
InstallOutcome(n, a, c, l, is_write, k, now, data, r) ==
    /\ Victim(c, l, k) \in (0 .. a - 1) \cup {NoWay}
    /\ r \in CacheOf(n, a)
    /\ r.index_span = c.index_span
    /\ r.replacement_policy = c.replacement_policy
    /\ r.stat_read_access = c.stat_read_access
    /\ r.stat_write_access = c.stat_write_access
    /\ Misses(r) = Misses(c)
    /\ Victim(c, l, k) = NoWay => r.fault = TRUE /\ r.sets = c.sets
    /\ Victim(c, l, k) \in 0 .. a - 1 =>
           /\ r.fault = c.fault
           /\ r.last_evicted_line = SetOf(c, l)[Victim(c, l, k)]
           /\ r.stat_dirty_evicts =
                  c.stat_dirty_evicts
                  + (IF r.last_evicted_line.valid /\ r.last_evicted_line.dirty THEN 1 ELSE 0)
           /\ Put(c, r, IndexOf(c, l), Victim(c, l, k),
                  Installed(c, l, is_write, k, now, data))

LEMMA InstallFacts ==
    ASSUME NEW n \in Nat \ {0}, NEW a \in Nat \ {0}, NEW c \in CacheOf(n, a), NEW l \in Nat,
           NEW is_write \in BOOLEAN, NEW k \in Cores, NEW now \in Nat, NEW data \in BOOLEAN
    PROVE  InstallOutcome(n, a, c, l, is_write, k, now, data,
                          cache_install(c, l, is_write, k, now, data))
<1>0. PICK r : r = cache_install(c, l, is_write, k, now, data)
  OBVIOUS
<1> SUFFICES InstallOutcome(n, a, c, l, is_write, k, now, data, r)
  BY <1>0
<1> DEFINE w == Victim(c, l, k)
           new == Installed(c, l, is_write, k, now, data)
           old == c.sets[IndexOf(c, l)][w]
           T == PutLine(c.sets, IndexOf(c, l), w, new)
           more == c.stat_dirty_evicts + (IF old.valid /\ old.dirty THEN 1 ELSE 0)
<1>1. /\ IndexOf(c, l) \in 0 .. n - 1 /\ Sets(c) = 0 .. n - 1 /\ Ways(c) = 0 .. a - 1
      /\ SetOf(c, l) \in LinesOfSet(a) /\ c.sets \in SetsOf(n, a)
  BY Address DEF CacheOf
<1>2. c.replacement_policy \in Policies
  BY DEF CacheOf
<1>3. w \in (0 .. a - 1) \cup {NoWay}
  BY <1>1, <1>2, VictimType DEF Victim
<1>4. new \in Line
  <2>1. PICK line : line = Installed(c, l, is_write, k, now, data)
    OBVIOUS
  <2>2. line \in Line
    BY <2>1, InstalledType
  <2> QED  BY <2>1, <2>2
<1>5. r = IF w = NoWay THEN [c EXCEPT !.fault = TRUE]
          ELSE [c EXCEPT !.last_evicted_line = old, !.stat_dirty_evicts = more, !.sets = T]
  BY <1>0 DEF cache_install, Replaced, Victim, PutLine
<1> HIDE DEF w, new, T
<1>6. CASE w = NoWay
  <2>1. w \notin 0 .. a - 1
    BY <1>6 DEF NoWay
  <2>2. r = [c EXCEPT !.fault = TRUE]
    BY <1>5, <1>6
  <2>3. /\ r \in CacheOf(n, a) /\ r.fault = TRUE /\ r.sets = c.sets
        /\ r.index_span = c.index_span
        /\ r.replacement_policy = c.replacement_policy
        /\ r.stat_read_access = c.stat_read_access
        /\ r.stat_write_access = c.stat_write_access
        /\ r.stat_read_miss = c.stat_read_miss /\ r.stat_write_miss = c.stat_write_miss
    BY <2>2 DEF CacheOf
  <2> QED  BY <1>3, <1>6, <2>1, <2>3 DEF Misses, InstallOutcome, w
<1>7. CASE w \in 0 .. a - 1
  <2>1. w # NoWay
    BY <1>7 DEF NoWay
  <2>2. old = SetOf(c, l)[w] /\ old \in Line
    <3>1. old = SetOf(c, l)[w]
      BY DEF SetOf
    <3> QED  BY <1>1, <1>7, <3>1 DEF LinesOfSet
  <2>3. /\ more \in Nat
        /\ more = c.stat_dirty_evicts + (IF old.valid /\ old.dirty THEN 1 ELSE 0)
    BY DEF CacheOf
  <2>4. r = [c EXCEPT !.last_evicted_line = old, !.stat_dirty_evicts = more, !.sets = T]
    BY <1>5, <2>1
  <2>5. /\ T \in SetsOf(n, a)
        /\ \A s \in 0 .. n - 1 : \A v \in 0 .. a - 1 :
               T[s][v] = IF s = IndexOf(c, l) /\ v = w THEN new ELSE c.sets[s][v]
    BY <1>1, <1>4, <1>7, PutType DEF T
  <2> HIDE DEF old, more
  <2>6. r \in CacheOf(n, a)
    BY <2>2, <2>3, <2>4, <2>5 DEF CacheOf
  <2>7. /\ r.index_span = c.index_span /\ r.fault = c.fault /\ r.sets = T
        /\ r.last_evicted_line = old /\ r.stat_dirty_evicts = more
        /\ r.replacement_policy = c.replacement_policy
        /\ r.stat_read_access = c.stat_read_access
        /\ r.stat_write_access = c.stat_write_access
        /\ r.stat_read_miss = c.stat_read_miss /\ r.stat_write_miss = c.stat_write_miss
    BY <2>4 DEF CacheOf
  <2>8. Put(c, r, IndexOf(c, l), w, new)
    BY <1>1, <2>5, <2>7 DEF Put
  <2>9. Misses(r) = Misses(c)
    BY <2>7 DEF Misses
  <2> QED  BY <1>3, <2>1, <2>2, <2>3, <2>6, <2>7, <2>8, <2>9 DEF InstallOutcome, w, new
<1> QED  BY <1>3, <1>6, <1>7

-----------------------------------------------------------------------------
(* What the lines of a cache say about each other. *)

\* The core whose pages have line l: the two cores' frames are VPN_TAIL apart.
Owner(l) ==
    IF SIM_MODE = "DEF" /\ VPN_TAIL * PAGE_SIZE <= l * CACHE_LINESIZE THEN 1 ELSE 0

\* A line in set s of c, a cache of the cores O that is written to or not.
LineFine(c, s, line, t, O, written) ==
    /\ line.dirty => line.valid /\ written
    /\ line.last_access_time <= t
    /\ line.coreID \in O \cup {0}
    /\ line.valid => /\ line.coreID \in O /\ line.coreID = Owner(LineAddr(c, line.tag, s))
                     /\ s < c.index_span

Fine(c, t, O, written) ==
    /\ \A s \in Sets(c) : \A w \in Ways(c) : LineFine(c, s, c.sets[s][w], t, O, written)
    /\ \A s \in Sets(c) : \A v, w \in Ways(c) :
           v # w /\ c.sets[s][v].valid /\ c.sets[s][w].valid
           => c.sets[s][v].tag # c.sets[s][w].tag

Copies(c, l) ==
    {w \in Ways(c) : SetOf(c, l)[w].valid /\ SetOf(c, l)[w].tag = TagOf(c, l)}
AllCurrent(c, l) == \A w \in Copies(c, l) : SetOf(c, l)[w].current
HasDirty(c, l)   == \E w \in Copies(c, l) : SetOf(c, l)[w].dirty

\* c and r hold the same of line l.
Same(c, r, l) ==
    /\ Copies(r, l) = Copies(c, l)
    /\ AllCurrent(r, l) <=> AllCurrent(c, l)
    /\ HasDirty(r, l) <=> HasDirty(c, l)

LEMMA SameSets ==
    ASSUME NEW n \in Nat \ {0}, NEW a \in Nat \ {0}, NEW c \in CacheOf(n, a),
           NEW r \in CacheOf(n, a), r.sets = c.sets, r.index_span = c.index_span
    PROVE  /\ \A t, O, m : Fine(c, t, O, m) => Fine(r, t, O, m)
           /\ \A l : Same(c, r, l)
<1>1. Sets(r) = Sets(c) /\ Ways(r) = Ways(c)
  BY DEF Sets, Ways
<1>2. \A l : SetOf(r, l) = SetOf(c, l) /\ TagOf(r, l) = TagOf(c, l)
  BY DEF SetOf, TagOf, IndexOf
<1>3. \A tag, s : LineAddr(r, tag, s) = LineAddr(c, tag, s)
  BY DEF LineAddr
<1>4. \A l : Copies(r, l) = Copies(c, l)
  BY <1>1, <1>2 DEF Copies
<1>5. \A l : Same(c, r, l)
  BY <1>2, <1>4 DEF Same, AllCurrent, HasDirty
<1>6. ASSUME NEW t, NEW O, NEW m, Fine(c, t, O, m) PROVE Fine(r, t, O, m)
  BY <1>1, <1>3, <1>6 DEF Fine, LineFine
<1> QED  BY <1>5, <1>6

\* A line is hit by its owner's requests.
LEMMA HitsAreCopies ==
    ASSUME NEW n \in Nat \ {0}, NEW a \in Nat \ {0}, NEW c \in CacheOf(n, a), NEW l \in Nat,
           NEW t, NEW O, NEW m, Fine(c, t, O, m)
    PROVE  HitWays(c, l, Owner(l)) = Copies(c, l)
<1>1. /\ IndexOf(c, l) \in Sets(c)
      /\ LineAddr(c, TagOf(c, l), IndexOf(c, l)) = l
  <2>1. IndexOf(c, l) \in 0 .. n - 1 /\ Sets(c) = 0 .. n - 1
    BY Address
  <2>2. LineAddr(c, TagOf(c, l), IndexOf(c, l)) = l
    BY Address
  <2> QED  BY <2>1, <2>2
<1>2. ASSUME NEW w \in Copies(c, l) PROVE SetOf(c, l)[w].coreID = Owner(l)
  <2>1. w \in Ways(c) /\ SetOf(c, l)[w].valid /\ SetOf(c, l)[w].tag = TagOf(c, l)
    BY DEF Copies
  <2>2. SetOf(c, l)[w] = c.sets[IndexOf(c, l)][w]
    BY DEF SetOf
  <2>3. LineFine(c, IndexOf(c, l), SetOf(c, l)[w], t, O, m)
    BY <1>1, <2>1, <2>2 DEF Fine
  <2> QED  BY <1>1, <2>1, <2>3 DEF LineFine
<1>3. HitWays(c, l, Owner(l)) \subseteq Copies(c, l)
  BY DEF HitWays, Copies
<1>4. Copies(c, l) \subseteq HitWays(c, l, Owner(l))
  BY <1>2 DEF HitWays, Copies
<1> QED  BY <1>3, <1>4

\* Writing a line keeps a cache fine if no other way of the set has its tag.
LEMMA PutIsFine ==
    ASSUME NEW n \in Nat \ {0}, NEW a \in Nat \ {0}, NEW c \in CacheOf(n, a),
           NEW r \in CacheOf(n, a), NEW t, NEW O, NEW m, Fine(c, t, O, m),
           NEW s \in Sets(c), NEW w \in Ways(c), NEW line,
           Put(c, r, s, w, line), LineFine(c, s, line, t, O, m),
           \A v \in Ways(c) : v # w /\ c.sets[s][v].valid => c.sets[s][v].tag # line.tag
    PROVE  Fine(r, t, O, m)
<1>1. Sets(r) = Sets(c) /\ Ways(r) = Ways(c)
  <2>1. /\ Sets(r) = 0 .. n - 1 /\ Ways(r) = 0 .. a - 1
        /\ Sets(c) = 0 .. n - 1 /\ Ways(c) = 0 .. a - 1
    BY Address, 0 \in Nat
  <2> QED  BY <2>1
<1>2. /\ \A tag, u : LineAddr(r, tag, u) = LineAddr(c, tag, u)
      /\ r.index_span = c.index_span
  BY DEF LineAddr, Put
<1>3. \A u \in Sets(c) : \A v \in Ways(c) :
          r.sets[u][v] = IF u = s /\ v = w THEN line ELSE c.sets[u][v]
  BY DEF Put
<1>4. ASSUME NEW u \in Sets(r), NEW v \in Ways(r) PROVE LineFine(r, u, r.sets[u][v], t, O, m)
  <2>1. LineFine(c, u, r.sets[u][v], t, O, m)
    <3>1. CASE u = s /\ v = w
      BY <1>1, <1>3, <3>1
    <3>2. CASE ~ (u = s /\ v = w)
      BY <1>1, <1>3, <3>2 DEF Fine
    <3> QED  BY <3>1, <3>2
  <2> QED  BY <1>2, <2>1 DEF LineFine
<1>5. ASSUME NEW u \in Sets(r), NEW v \in Ways(r), NEW z \in Ways(r), v # z,
             r.sets[u][v].valid, r.sets[u][z].valid
      PROVE  r.sets[u][v].tag # r.sets[u][z].tag
  <2>1. u \in Sets(c) /\ v \in Ways(c) /\ z \in Ways(c)
    BY <1>1
  <2>2. CASE u = s /\ v = w
    <3>1. r.sets[u][v] = line /\ r.sets[u][z] = c.sets[s][z]
      BY <1>3, <1>5, <2>1, <2>2
    <3> QED  BY <1>5, <2>1, <2>2, <3>1
  <2>3. CASE u = s /\ z = w
    <3>1. r.sets[u][z] = line /\ r.sets[u][v] = c.sets[s][v]
      BY <1>3, <1>5, <2>1, <2>3
    <3> QED  BY <1>5, <2>1, <2>3, <3>1
  <2>4. CASE ~ (u = s /\ v = w) /\ ~ (u = s /\ z = w)
    <3>1. r.sets[u][z] = c.sets[u][z] /\ r.sets[u][v] = c.sets[u][v]
      BY <1>3, <2>1, <2>4
    <3> QED  BY <1>5, <2>1, <3>1 DEF Fine
  <2> QED  BY <2>2, <2>3, <2>4
<1> QED  BY <1>4, <1>5 DEF Fine

\* A line that is neither the one written nor the one overwritten is not affected.
LEMMA PutElsewhere ==
    ASSUME NEW n \in Nat \ {0}, NEW a \in Nat \ {0}, NEW c \in CacheOf(n, a),
           NEW r \in CacheOf(n, a), NEW s \in Sets(c), NEW w \in Ways(c), NEW line,
           Put(c, r, s, w, line), NEW x \in Nat,
           IndexOf(c, x) = s => /\ line.valid => line.tag # TagOf(c, x)
                                /\ c.sets[s][w].valid => c.sets[s][w].tag # TagOf(c, x)
    PROVE  Same(c, r, x)
<1>1. Sets(c) = 0 .. n - 1 /\ Ways(r) = 0 .. a - 1 /\ Ways(c) = 0 .. a - 1
      /\ IndexOf(c, x) \in Sets(c)
  <2>1. Sets(c) = 0 .. n - 1 /\ Ways(c) = 0 .. a - 1 /\ IndexOf(c, x) \in 0 .. n - 1
    BY Address
  <2>2. Ways(r) = 0 .. a - 1
    BY Address
  <2> QED  BY <2>1, <2>2
<1>2. IndexOf(r, x) = IndexOf(c, x) /\ TagOf(r, x) = TagOf(c, x)
  BY DEF IndexOf, TagOf, Put
<1>3. \A v \in Ways(c) : SetOf(r, x)[v] = IF IndexOf(c, x) = s /\ v = w THEN line
                                          ELSE SetOf(c, x)[v]
  BY <1>1, <1>2 DEF Put, SetOf
<1>4. SetOf(c, x) = c.sets[IndexOf(c, x)]
  BY DEF SetOf
<1>5. ASSUME NEW v \in Ways(c)
      PROVE  v \in Copies(r, x) <=> v \in Copies(c, x)
  <2>1. CASE IndexOf(c, x) = s /\ v = w
    BY <1>1, <1>2, <1>3, <1>4, <2>1 DEF Copies
  <2>2. CASE ~ (IndexOf(c, x) = s /\ v = w)
    <3>1. SetOf(r, x)[v] = SetOf(c, x)[v]
      BY <1>3, <2>2
    <3> QED  BY <1>1, <1>2, <3>1 DEF Copies
  <2> QED  BY <2>1, <2>2
<1>6. Copies(c, x) \subseteq Ways(c) /\ Copies(r, x) \subseteq Ways(c)
  BY <1>1 DEF Copies
<1>7. Copies(r, x) = Copies(c, x)
  BY <1>5, <1>6
<1>8. ASSUME NEW v \in Copies(c, x) PROVE SetOf(r, x)[v] = SetOf(c, x)[v]
  <2>1. v \in Ways(c) /\ SetOf(c, x)[v].valid /\ SetOf(c, x)[v].tag = TagOf(c, x)
    BY DEF Copies
  <2>2. ~ (IndexOf(c, x) = s /\ v = w)
    BY <1>4, <2>1
  <2> QED  BY <1>3, <2>1, <2>2
<1> QED  BY <1>7, <1>8 DEF Same, AllCurrent, HasDirty

\* An access leaves a cache fine.  A write puts its data into the copy that it
\* hits; nothing else that is held changes.
AccessSeen(c, l, is_write, now, data, O, m, r) ==
    /\ r.hit <=> Copies(c, l) # {}
    /\ Fine(r.cache, now, O, m)
    /\ \A x \in Nat : x # l \/ ~ is_write \/ Copies(c, l) = {} => Same(c, r.cache, x)
    /\ is_write /\ Copies(c, l) # {} =>
           HasDirty(r.cache, l) /\ (AllCurrent(r.cache, l) <=> data)

LEMMA AccessView ==
    ASSUME NEW n \in Nat \ {0}, NEW a \in Nat \ {0}, NEW c \in CacheOf(n, a), NEW l \in Nat,
           NEW is_write \in BOOLEAN, NEW k \in Cores, NEW now \in Nat, NEW data \in BOOLEAN,
           NEW O, NEW m \in BOOLEAN, is_write => m, Fine(c, now, O, m), k = Owner(l)
    PROVE  AccessSeen(c, l, is_write, now, data, O, m,
                      cache_access(c, l, is_write, k, now, data))
<1>0. PICK r : r = cache_access(c, l, is_write, k, now, data)
  OBVIOUS
<1> SUFFICES AccessSeen(c, l, is_write, now, data, O, m, r)
  BY <1>0
<1>1. HitWays(c, l, k) = Copies(c, l)
  BY HitsAreCopies
<1>2. /\ r.cache \in CacheOf(n, a) /\ (r.hit <=> Copies(c, l) # {})
      /\ r.cache.index_span = c.index_span
      /\ Copies(c, l) = {} => r.cache.sets = c.sets
      /\ Copies(c, l) # {} =>
             \E h \in Copies(c, l) :
                 Put(c, r.cache, IndexOf(c, l), h, Accessed(SetOf(c, l)[h], is_write, now, data))
  <2>1. AccessOutcome(n, a, c, l, is_write, k, now, data, r)
    BY <1>0, AccessFacts
  <2> QED  BY <1>1, <2>1, Zenon DEF AccessOutcome
<1>3. CASE Copies(c, l) = {}
  <2>1. Fine(r.cache, now, O, m) /\ \A x : Same(c, r.cache, x)
    BY <1>2, <1>3, SameSets
  <2> QED  BY <1>2, <1>3, <2>1 DEF AccessSeen
<1>4. CASE Copies(c, l) # {}
  <2> DEFINE s == IndexOf(c, l)
  <2>1. PICK h \in Copies(c, l) :
            Put(c, r.cache, s, h, Accessed(SetOf(c, l)[h], is_write, now, data))
    BY <1>2, <1>4
  <2>2. PICK line : line = Accessed(SetOf(c, l)[h], is_write, now, data)
    OBVIOUS
  <2>3. Put(c, r.cache, s, h, line)
    BY <2>1, <2>2
  <2>4. /\ s \in Sets(c) /\ Sets(c) = 0 .. n - 1 /\ Ways(c) = 0 .. a - 1
        /\ Ways(r.cache) = 0 .. a - 1
        /\ LineAddr(c, TagOf(c, l), s) = l /\ SetOf(c, l) \in LinesOfSet(a)
    <3>1. s \in 0 .. n - 1 /\ Sets(c) = 0 .. n - 1 /\ Ways(c) = 0 .. a - 1
      BY Address
    <3>2. LineAddr(c, TagOf(c, l), s) = l /\ SetOf(c, l) \in LinesOfSet(a)
      BY Address
    <3>3. Ways(r.cache) = 0 .. a - 1
      BY <1>2, Address
    <3> QED  BY <3>1, <3>2, <3>3
  <2>5. /\ h \in Ways(c) /\ SetOf(c, l)[h].valid /\ SetOf(c, l)[h].tag = TagOf(c, l)
        /\ SetOf(c, l)[h] = c.sets[s][h]
    BY DEF Copies, SetOf
  <2>6. SetOf(c, l)[h] \in Line
    BY <2>4, <2>5 DEF LinesOfSet
  <2>7. /\ line \in Line
        /\ line.valid <=> SetOf(c, l)[h].valid
        /\ line.tag = SetOf(c, l)[h].tag /\ line.coreID = SetOf(c, l)[h].coreID
        /\ line.last_access_time = now
        /\ line.dirty <=> (SetOf(c, l)[h].dirty \/ is_write)
        /\ is_write => (line.current <=> data)
        /\ ~ is_write => (line.current <=> SetOf(c, l)[h].current)
    <3>1. PICK old \in Line : old = SetOf(c, l)[h]
      BY <2>6
    <3>2. line = Accessed(old, is_write, now, data)
      BY <2>2, <3>1
    <3>3. LineAccessed(old, line, is_write, now, data)
      BY <3>2, AccessedType
    <3> QED  BY <3>1, <3>3 DEF LineAccessed
  <2>8. LineFine(c, s, SetOf(c, l)[h], now, O, m)
    BY <2>4, <2>5 DEF Fine
  <2>9. LineFine(c, s, line, now, O, m)
    BY <2>5, <2>7, <2>8 DEF LineFine
  <2>10. \A v \in Ways(c) : v # h /\ c.sets[s][v].valid => c.sets[s][v].tag # line.tag
    BY <2>4, <2>5, <2>7 DEF Fine
  <2>11. Fine(r.cache, now, O, m)
    <3>1. PICK u \in Sets(c) : u = s
      BY <2>4
    <3>2. PICK new \in CacheOf(n, a) : new = r.cache
      BY <1>2
    <3>3. /\ Put(c, new, u, h, line) /\ LineFine(c, u, line, now, O, m) /\ h \in Ways(c)
          /\ \A v \in Ways(c) : v # h /\ c.sets[u][v].valid => c.sets[u][v].tag # line.tag
      BY <2>3, <2>5, <2>9, <2>10, <3>1, <3>2
    <3>4. Fine(new, now, O, m)
      BY <3>3, PutIsFine
    <3> QED  BY <3>2, <3>4
  <2>12. ASSUME NEW x \in Nat, x # l PROVE Same(c, r.cache, x)
    <3>1. LineAddr(c, TagOf(c, x), IndexOf(c, x)) = x
      BY Address
    <3>2. IndexOf(c, x) = s => TagOf(c, x) # TagOf(c, l)
      BY <2>4, <2>12, <3>1
    <3>3. IndexOf(c, x) = s => /\ line.valid => line.tag # TagOf(c, x)
                               /\ c.sets[s][h].valid => c.sets[s][h].tag # TagOf(c, x)
      BY <2>5, <2>7, <3>2
    <3> QED  BY <1>2, <2>3, <2>4, <2>5, <3>3, PutElsewhere
  <2>13. /\ Copies(r.cache, l) = {h} /\ Copies(c, l) = {h}
         /\ SetOf(r.cache, l)[h] = line
    <3>1. IndexOf(r.cache, l) = s /\ TagOf(r.cache, l) = TagOf(c, l)
      BY <1>2 DEF IndexOf, TagOf
    <3>2. \A v \in Ways(c) : SetOf(r.cache, l)[v] = IF v = h THEN line ELSE SetOf(c, l)[v]
      BY <2>3, <2>4, <3>1 DEF Put, SetOf
    <3>3. \A v \in Ways(c) : v # h /\ SetOf(c, l)[v].valid => SetOf(c, l)[v].tag # TagOf(c, l)
      BY <2>5, <2>7, <2>10 DEF SetOf
    <3>4. Copies(c, l) = {h}
      BY <2>5, <3>3 DEF Copies
    <3>5. ASSUME NEW v \in Copies(r.cache, l) PROVE v = h
      BY <2>4, <3>1, <3>2, <3>3 DEF Copies
    <3>6. h \in Copies(r.cache, l)
      BY <2>4, <2>5, <2>7, <3>1, <3>2 DEF Copies
    <3>7. SetOf(r.cache, l)[h] = line
      BY <2>5, <3>2
    <3> QED  BY <3>4, <3>5, <3>6, <3>7
  <2>14. ~ is_write => Same(c, r.cache, l)
    BY <2>7, <2>13 DEF Same, AllCurrent, HasDirty
  <2>15. is_write => HasDirty(r.cache, l) /\ (AllCurrent(r.cache, l) <=> data)
    BY <2>7, <2>13 DEF AllCurrent, HasDirty
  <2> QED  BY <1>2, <1>4, <2>11, <2>12, <2>14, <2>15 DEF AccessSeen
<1> QED  BY <1>3, <1>4

\* The line that c evicted last, when line l came in.
Evicted(c, l) == LineAddr(c, c.last_evicted_line.tag, IndexOf(c, l))

\* An install of a line that the cache does not hold leaves it fine.  What it
\* holds of the line is the data; it does not hold the evicted line any more,
\* and nothing else that is held changes.
InstallSeen(c, l, is_write, now, data, O, m, r) ==
    /\ r.last_evicted_line \in Line
    /\ Fine(r, now, O, m)
    /\ Copies(r, l) # {} /\ (HasDirty(r, l) <=> is_write) /\ (AllCurrent(r, l) <=> data)
    /\ r.last_evicted_line.dirty => r.last_evicted_line.valid /\ m
    /\ r.last_evicted_line.valid =>
           /\ Evicted(r, l) \in Nat /\ Evicted(r, l) # l
           /\ Owner(Evicted(r, l)) \in O
           /\ Copies(r, Evicted(r, l)) = {}
           /\ AllCurrent(c, Evicted(r, l)) <=> r.last_evicted_line.current
           /\ HasDirty(c, Evicted(r, l)) <=> r.last_evicted_line.dirty
    /\ \A x \in Nat : x # l /\ (r.last_evicted_line.valid => x # Evicted(r, l)) =>
           Same(c, r, x)

LEMMA InstallView ==
    ASSUME NEW n \in Nat \ {0}, NEW a \in Nat \ {0}, NEW c \in CacheOf(n, a), NEW l \in Nat,
           NEW is_write \in BOOLEAN, NEW k \in Cores, NEW now \in Nat, NEW data \in BOOLEAN,
           NEW O, NEW m \in BOOLEAN, is_write => m, Fine(c, now, O, m), k = Owner(l), k \in O,
           Copies(c, l) = {}, Victim(c, l, k) \in 0 .. a - 1
    PROVE  InstallSeen(c, l, is_write, now, data, O, m,
                       cache_install(c, l, is_write, k, now, data))
<1>0. PICK r : r = cache_install(c, l, is_write, k, now, data)
  OBVIOUS
<1> SUFFICES InstallSeen(c, l, is_write, now, data, O, m, r)
  BY <1>0
<1>1. PICK w : w = Victim(c, l, k)
  OBVIOUS
<1>2. PICK s : s = IndexOf(c, l)
  OBVIOUS
<1>3. PICK line : line = Installed(c, l, is_write, k, now, data)
  OBVIOUS
<1>4. PICK old : old = c.sets[s][w]
  OBVIOUS
<1>5. /\ s \in 0 .. c.index_span - 1 /\ s \in 0 .. n - 1
      /\ Sets(c) = 0 .. n - 1 /\ Ways(c) = 0 .. a - 1
  BY <1>2, Address
<1>6. LineAddr(c, TagOf(c, l), s) = l /\ SetOf(c, l) \in LinesOfSet(a) /\ TagOf(c, l) \in Nat
  BY <1>2, Address
<1>7. w \in Ways(c) /\ s \in Sets(c)
  BY <1>1, <1>5
<1>8. /\ r \in CacheOf(n, a) /\ r.index_span = c.index_span /\ r.last_evicted_line = old
      /\ Put(c, r, s, w, line)
  <2>1. InstallOutcome(n, a, c, l, is_write, k, now, data, r)
    BY <1>0, InstallFacts
  <2>2. old = SetOf(c, l)[w]
    BY <1>2, <1>4 DEF SetOf
  <2> QED  BY <1>1, <1>2, <1>3, <2>1, <2>2 DEF InstallOutcome
<1>9. Ways(r) = 0 .. a - 1
  BY <1>8, Address, 0 \in Nat
<1>10. old \in Line
  <2>1. old = SetOf(c, l)[w]
    BY <1>2, <1>4 DEF SetOf
  <2> QED  BY <1>5, <1>6, <1>7, <2>1 DEF LinesOfSet
<1>11. /\ line.valid /\ (line.dirty <=> is_write) /\ line.tag = TagOf(c, l)
       /\ line.coreID = k /\ line.last_access_time = now /\ (line.current <=> data)
  BY <1>3 DEF Installed
<1>12. \A v \in Ways(c) : c.sets[s][v].valid => c.sets[s][v].tag # TagOf(c, l)
  BY <1>2 DEF Copies, SetOf
<1>13. Fine(r, now, O, m)
  <2>1. LineFine(c, s, line, now, O, m)
    <3>1. s < c.index_span
      <4>1. s \in 0 .. c.index_span - 1
        BY <1>2, Address
      <4>2. c.index_span \in 1 .. n
        BY DEF CacheOf
      <4> QED  BY <4>1, <4>2
    <3> QED  BY <1>6, <1>11, <3>1 DEF LineFine
  <2>2. \A v \in Ways(c) : v # w /\ c.sets[s][v].valid => c.sets[s][v].tag # line.tag
    BY <1>11, <1>12
  <2> QED  BY <1>7, <1>8, <2>1, <2>2, PutIsFine
<1>14. \A x : IndexOf(r, x) = IndexOf(c, x) /\ TagOf(r, x) = TagOf(c, x)
  BY <1>8 DEF IndexOf, TagOf
<1>15. \A v \in Ways(c) : r.sets[s][v] = IF v = w THEN line ELSE c.sets[s][v]
  BY <1>7, <1>8 DEF Put
<1>16. \A v \in Ways(c) : SetOf(r, l)[v] = IF v = w THEN line ELSE c.sets[s][v]
  BY <1>2, <1>14, <1>15 DEF SetOf
<1>17. Copies(r, l) = {w} /\ SetOf(r, l)[w] = line
  <2>1. SetOf(r, l)[w] = line
    BY <1>7, <1>16
  <2>2. w \in Copies(r, l)
    BY <1>5, <1>7, <1>9, <1>11, <1>14, <2>1 DEF Copies
  <2>3. ASSUME NEW v \in Copies(r, l) PROVE v = w
    <3>1. v \in Ways(c) /\ SetOf(r, l)[v].valid /\ SetOf(r, l)[v].tag = TagOf(c, l)
      BY <1>5, <1>9, <1>14 DEF Copies
    <3> QED  BY <1>12, <1>16, <3>1
  <2> QED  BY <2>1, <2>2, <2>3
<1>18. Copies(r, l) # {} /\ (HasDirty(r, l) <=> is_write) /\ (AllCurrent(r, l) <=> data)
  BY <1>11, <1>17 DEF HasDirty, AllCurrent
<1>19. LineFine(c, s, old, now, O, m)
  BY <1>4, <1>7 DEF Fine
<1>20. PICK e : e = LineAddr(c, old.tag, s)
  OBVIOUS
<1>21. Evicted(r, l) = e
  BY <1>2, <1>8, <1>14, <1>20 DEF Evicted, LineAddr
<1>22. e \in Nat /\ IndexOf(c, e) = s /\ TagOf(c, e) = old.tag
  <2>1. old.tag \in Nat
    BY <1>10 DEF Line
  <2> QED  BY <1>5, <1>20, <2>1, Parts
<1>23. ASSUME old.valid
       PROVE  /\ e # l /\ Owner(e) \in O /\ Copies(r, e) = {}
              /\ AllCurrent(c, e) <=> old.current
              /\ HasDirty(c, e) <=> old.dirty
  <2>1. old.tag # TagOf(c, l)
    BY <1>4, <1>7, <1>12, <1>23
  <2>2. e # l
    BY <1>22, <2>1
  <2>3. Owner(e) \in O
    BY <1>19, <1>20, <1>23 DEF LineFine
  <2>4. \A v \in Ways(c) : v # w /\ c.sets[s][v].valid => c.sets[s][v].tag # old.tag
    BY <1>4, <1>7, <1>23 DEF Fine
  <2>5. Copies(r, e) = {}
    <3>1. \A v \in Ways(c) : SetOf(r, e)[v] = IF v = w THEN line ELSE c.sets[s][v]
      BY <1>14, <1>15, <1>22 DEF SetOf
    <3>2. ASSUME NEW v \in Copies(r, e) PROVE FALSE
      <4>1. v \in Ways(c) /\ SetOf(r, e)[v].valid /\ SetOf(r, e)[v].tag = old.tag
        BY <1>5, <1>9, <1>14, <1>22 DEF Copies
      <4> QED  BY <1>11, <2>1, <2>4, <3>1, <4>1
    <3> QED  BY <3>2
  <2>6. Copies(c, e) = {w} /\ SetOf(c, e)[w] = old
    <3>1. SetOf(c, e) = c.sets[s]
      BY <1>22 DEF SetOf
    <3>2. w \in Copies(c, e)
      BY <1>4, <1>7, <1>22, <1>23, <3>1 DEF Copies
    <3>3. ASSUME NEW v \in Copies(c, e) PROVE v = w
      <4>1. v \in Ways(c) /\ c.sets[s][v].valid /\ c.sets[s][v].tag = old.tag
        BY <1>22, <3>1 DEF Copies
      <4> QED  BY <2>4, <4>1
    <3> QED  BY <1>4, <3>1, <3>2, <3>3
  <2> QED  BY <2>2, <2>3, <2>5, <2>6 DEF AllCurrent, HasDirty
<1>24. ASSUME NEW x \in Nat, x # l, old.valid => x # e PROVE Same(c, r, x)
  <2>1. LineAddr(c, TagOf(c, x), IndexOf(c, x)) = x
    BY Address
  <2>2. IndexOf(c, x) = s => TagOf(c, x) # TagOf(c, l)
    BY <1>6, <1>24, <2>1
  <2>3. IndexOf(c, x) = s /\ old.valid => TagOf(c, x) # old.tag
    BY <1>20, <1>24, <2>1
  <2>4. IndexOf(c, x) = s => /\ line.valid => line.tag # TagOf(c, x)
                             /\ c.sets[s][w].valid => c.sets[s][w].tag # TagOf(c, x)
    BY <1>4, <1>11, <2>2, <2>3
  <2> QED  BY <1>7, <1>8, <2>4, PutElsewhere
<1>25. old.dirty => old.valid /\ m
  BY <1>19 DEF LineFine
<1> QED  BY <1>8, <1>10, <1>13, <1>18, <1>21, <1>22, <1>23, <1>24, <1>25 DEF InstallSeen

\* The lines of r are those of c, but for whether they are current.
SameLines(c, r) ==
    \A s \in Sets(c) : \A w \in Ways(c) :
        /\ r.sets[s][w].valid <=> c.sets[s][w].valid
        /\ r.sets[s][w].dirty <=> c.sets[s][w].dirty
        /\ r.sets[s][w].tag = c.sets[s][w].tag
        /\ r.sets[s][w].coreID = c.sets[s][w].coreID
        /\ r.sets[s][w].last_access_time = c.sets[s][w].last_access_time

\* A store elsewhere outdates the copies of its line, and that is all.
OutdatedSeen(n, a, c, l, r) ==
    /\ r \in CacheOf(n, a)
    /\ r.index_span = c.index_span /\ r.fault = c.fault
    /\ r.replacement_policy = c.replacement_policy
    /\ r.last_evicted_line = c.last_evicted_line
    /\ r.stat_read_access = c.stat_read_access /\ r.stat_write_access = c.stat_write_access
    /\ Misses(r) = Misses(c) /\ r.stat_dirty_evicts = c.stat_dirty_evicts
    /\ SameLines(c, r)
    /\ \A t, O, m : Fine(c, t, O, m) => Fine(r, t, O, m)
    /\ \A x \in Nat : /\ Copies(r, x) = Copies(c, x)
                      /\ HasDirty(r, x) <=> HasDirty(c, x)
                      /\ x # l => (AllCurrent(r, x) <=> AllCurrent(c, x))

LEMMA OutdatedView ==
    ASSUME NEW n \in Nat \ {0}, NEW a \in Nat \ {0}, NEW c \in CacheOf(n, a), NEW l \in Nat
    PROVE  OutdatedSeen(n, a, c, l, OutdatedIn(c, l))
<1>0. PICK r : r = OutdatedIn(c, l)
  OBVIOUS
<1> SUFFICES OutdatedSeen(n, a, c, l, r)
  BY <1>0
<1>1. PICK i0 : i0 = IndexOf(c, l)
  OBVIOUS
<1>2. i0 \in 0 .. n - 1 /\ Sets(c) = 0 .. n - 1 /\ Ways(c) = 0 .. a - 1
  BY <1>1, Address
<1>3. c.sets \in SetsOf(n, a)
  BY DEF CacheOf
<1>4. c.sets[i0] \in LinesOfSet(a)
  BY <1>2, <1>3 DEF SetsOf
<1> DEFINE old(w) == c.sets[i0][w]
           new(w) == IF old(w).tag = TagOf(c, l) THEN [old(w) EXCEPT !.current = FALSE]
                     ELSE old(w)
           set == [w \in 0 .. a - 1 |-> new(w)]
           T == [c.sets EXCEPT ![i0] = set]
<1>5. DOMAIN c.sets[i0] = 0 .. a - 1
  BY <1>4 DEF LinesOfSet
<1>6. r = [c EXCEPT !.sets = T]
  <2>1. r = [c EXCEPT !.sets = [c.sets EXCEPT ![i0] =
                 [w \in DOMAIN c.sets[i0] |->
                     IF c.sets[i0][w].tag = TagOf(c, l)
                     THEN [c.sets[i0][w] EXCEPT !.current = FALSE] ELSE c.sets[i0][w]]]]
    BY <1>0, <1>1 DEF OutdatedIn
  <2> QED  BY <1>5, <2>1
<1>7. ASSUME NEW w \in 0 .. a - 1
      PROVE  /\ new(w) \in Line
             /\ new(w).valid <=> old(w).valid
             /\ new(w).dirty <=> old(w).dirty
             /\ new(w).tag = old(w).tag /\ new(w).coreID = old(w).coreID
             /\ new(w).last_access_time = old(w).last_access_time
             /\ old(w).tag # TagOf(c, l) => new(w) = old(w)
  <2>1. PICK line : line = old(w)
    OBVIOUS
  <2>2. line \in Line
    BY <1>4, <2>1 DEF LinesOfSet
  <2>3. CASE line.tag = TagOf(c, l)
    <3>1. PICK made : made = [line EXCEPT !.current = FALSE]
      OBVIOUS
    <3>2. new(w) = made
      BY <2>1, <2>3, <3>1
    <3>3. made \in Line
      BY <2>2, <3>1 DEF Line
    <3>4. /\ made.valid = line.valid /\ made.dirty = line.dirty
          /\ made.tag = line.tag /\ made.coreID = line.coreID
          /\ made.last_access_time = line.last_access_time
      BY <2>2, <3>1 DEF Line
    <3> HIDE DEF new
    <3> QED  BY <2>1, <2>3, <3>2, <3>3, <3>4
  <2>4. CASE line.tag # TagOf(c, l)
    <3>1. new(w) = line
      BY <2>1, <2>4
    <3> HIDE DEF new
    <3> QED  BY <2>1, <2>2, <3>1
  <2> QED  BY <2>3, <2>4
<1>8. set \in LinesOfSet(a) /\ \A w \in 0 .. a - 1 : set[w] = new(w)
  <2>1. \A w \in 0 .. a - 1 : new(w) \in Line
    BY <1>7
  <2> HIDE DEF new
  <2> QED  BY <2>1 DEF LinesOfSet
<1> HIDE DEF set, new
<1>9. T \in SetsOf(n, a) /\ \A s \in 0 .. n - 1 : T[s] = IF s = i0 THEN set ELSE c.sets[s]
  BY <1>2, <1>3, <1>8 DEF SetsOf
<1> HIDE DEF T
<1>10. /\ r \in CacheOf(n, a) /\ r.sets = T
       /\ r.index_span = c.index_span /\ r.fault = c.fault
       /\ r.replacement_policy = c.replacement_policy
       /\ r.last_evicted_line = c.last_evicted_line
       /\ r.stat_read_access = c.stat_read_access
       /\ r.stat_write_access = c.stat_write_access
       /\ r.stat_dirty_evicts = c.stat_dirty_evicts
       /\ r.stat_read_miss = c.stat_read_miss /\ r.stat_write_miss = c.stat_write_miss
  BY <1>6, <1>9 DEF CacheOf
<1>11. Misses(r) = Misses(c)
  BY <1>10 DEF Misses
<1>12. ASSUME NEW s \in 0 .. n - 1, NEW w \in 0 .. a - 1
       PROVE  /\ r.sets[s][w].valid <=> c.sets[s][w].valid
              /\ r.sets[s][w].dirty <=> c.sets[s][w].dirty
              /\ r.sets[s][w].tag = c.sets[s][w].tag
              /\ r.sets[s][w].coreID = c.sets[s][w].coreID
              /\ r.sets[s][w].last_access_time = c.sets[s][w].last_access_time
              /\ ~ (s = i0 /\ c.sets[s][w].tag = TagOf(c, l)) => r.sets[s][w] = c.sets[s][w]
  <2>1. CASE s = i0
    <3>1. r.sets[s][w] = new(w) /\ c.sets[s][w] = old(w)
      BY <1>8, <1>9, <1>10, <2>1
    <3> HIDE DEF old
    <3> QED  BY <1>7, <2>1, <3>1
  <2>2. CASE s # i0
    <3>1. r.sets[s][w] = c.sets[s][w]
      BY <1>9, <1>10, <2>2
    <3> QED  BY <3>1
  <2> QED  BY <2>1, <2>2
<1>13. Sets(r) = 0 .. n - 1 /\ Ways(r) = 0 .. a - 1
  BY <1>10, Address, 0 \in Nat
<1>14. \A tag, s : LineAddr(r, tag, s) = LineAddr(c, tag, s)
  BY <1>10 DEF LineAddr
<1>15. ASSUME NEW t, NEW O, NEW m, Fine(c, t, O, m) PROVE Fine(r, t, O, m)
  <2>1. ASSUME NEW s \in Sets(r), NEW w \in Ways(r)
        PROVE  LineFine(r, s, r.sets[s][w], t, O, m)
    <3>1. LineFine(c, s, c.sets[s][w], t, O, m)
      BY <1>2, <1>13, <1>15 DEF Fine
    <3>2. s \in 0 .. n - 1 /\ w \in 0 .. a - 1
      BY <1>13
    <3> QED  BY <1>10, <1>12, <1>14, <3>1, <3>2 DEF LineFine
  <2>2. ASSUME NEW s \in Sets(r), NEW v \in Ways(r), NEW w \in Ways(r), v # w,
               r.sets[s][v].valid, r.sets[s][w].valid
        PROVE  r.sets[s][v].tag # r.sets[s][w].tag
    <3>1. s \in 0 .. n - 1 /\ v \in 0 .. a - 1 /\ w \in 0 .. a - 1
      BY <1>13
    <3>2. /\ c.sets[s][v].valid /\ r.sets[s][v].tag = c.sets[s][v].tag
          /\ c.sets[s][w].valid /\ r.sets[s][w].tag = c.sets[s][w].tag
      BY <1>12, <2>2, <3>1
    <3>3. c.sets[s][v].tag # c.sets[s][w].tag
      BY <1>2, <1>15, <2>2, <3>1, <3>2 DEF Fine
    <3> QED  BY <3>2, <3>3
  <2> QED  BY <2>1, <2>2 DEF Fine
<1>16. ASSUME NEW x \in Nat
       PROVE  /\ Copies(r, x) = Copies(c, x)
              /\ HasDirty(r, x) <=> HasDirty(c, x)
              /\ x # l => (AllCurrent(r, x) <=> AllCurrent(c, x))
  <2>1. PICK s : s = IndexOf(c, x)
    OBVIOUS
  <2>2. s \in 0 .. n - 1
    BY <2>1, Address
  <2>3. LineAddr(c, TagOf(c, x), s) = x /\ LineAddr(c, TagOf(c, l), i0) = l
    BY <1>1, <2>1, Address
  <2>4. SetOf(r, x) = r.sets[s] /\ SetOf(c, x) = c.sets[s] /\ TagOf(r, x) = TagOf(c, x)
    BY <1>10, <2>1 DEF SetOf, IndexOf, TagOf
  <2>5. Copies(r, x) = Copies(c, x)
    <3>1. \A w \in 0 .. a - 1 : w \in Copies(r, x) <=> w \in Copies(c, x)
      BY <1>2, <1>12, <1>13, <2>2, <2>4 DEF Copies
    <3>2. Copies(r, x) \subseteq 0 .. a - 1 /\ Copies(c, x) \subseteq 0 .. a - 1
      BY <1>2, <1>13 DEF Copies
    <3> QED  BY <3>1, <3>2
  <2>6. Copies(c, x) \subseteq 0 .. a - 1
    BY <1>2 DEF Copies
  <2>7. HasDirty(r, x) <=> HasDirty(c, x)
    BY <1>12, <2>2, <2>4, <2>5, <2>6 DEF HasDirty
  <2>8. ASSUME x # l, NEW w \in Copies(c, x) PROVE SetOf(r, x)[w] = SetOf(c, x)[w]
    <3>1. c.sets[s][w].tag = TagOf(c, x)
      BY <2>4 DEF Copies
    <3>2. ~ (s = i0 /\ c.sets[s][w].tag = TagOf(c, l))
      BY <2>3, <2>8, <3>1
    <3> QED  BY <1>12, <2>2, <2>4, <2>6, <3>2
  <2>9. x # l => (AllCurrent(r, x) <=> AllCurrent(c, x))
    BY <2>5, <2>8 DEF AllCurrent
  <2> QED  BY <2>5, <2>7, <2>9
<1>17. SameLines(c, r)
  BY <1>2, <1>12 DEF SameLines
<1> QED  BY <1>10, <1>11, <1>15, <1>16, <1>17 DEF OutdatedSeen

-----------------------------------------------------------------------------
(* DRAM. *)

RowBuffers == [0 .. NUM_BANKS - 1 -> [valid : BOOLEAN, row_id : Nat]]

DramType ==
    [row_buffer_array : RowBuffers, stat_read_access : Nat, stat_read_delay : Nat,
     stat_write_access : Nat, stat_write_delay : Nat, stale : SUBSET Nat]

LEMMA Sizes ==
    {CACHE_LINESIZE, ROW_BUFFER_SIZE, NUM_BANKS} \subseteq Nat \ {0}
<1>1. ASSUME NEW x \in {2 ^ k : k \in 0 .. 12} PROVE x \in Nat \ {0}
  <2>1. PICK k \in 0 .. 12 : x = 2 ^ k
    OBVIOUS
  <2>2. k \in Nat
    OBVIOUS
  <2> QED  BY <2>1, <2>2, PowerOfTwo
<1> QED  BY <1>1, DRAMAssumption

LEMMA NewDram == dram_new \in DramType
<1> DEFINE rows == [b \in 0 .. NUM_BANKS - 1 |-> [valid |-> FALSE, row_id |-> 0]]
<1>1. rows \in RowBuffers
  BY DEF RowBuffers
<1>2. dram_new = [row_buffer_array |-> rows, stat_read_access |-> 0, stat_read_delay |-> 0,
                  stat_write_access |-> 0, stat_write_delay |-> 0, stale |-> {}]
  BY DEF dram_new
<1> HIDE DEF rows
<1>3. {} \in SUBSET Nat
  OBVIOUS
<1> QED  BY <1>1, <1>2, <1>3 DEF DramType

DramOutcome(d, l, is_dram_write, data, r) ==
    /\ r.delay \in Nat /\ r.dram \in DramType
    /\ r.dram.stat_read_access = d.stat_read_access + (IF is_dram_write THEN 0 ELSE 1)
    /\ r.dram.stat_write_access = d.stat_write_access + (IF is_dram_write THEN 1 ELSE 0)
    /\ r.dram.stale = IF ~ is_dram_write THEN d.stale
                      ELSE IF data THEN d.stale \ {l} ELSE d.stale \cup {l}

LEMMA DramFacts ==
    ASSUME NEW d \in DramType, NEW l \in Nat, NEW is_dram_write \in BOOLEAN, NEW data \in BOOLEAN
    PROVE  DramOutcome(d, l, is_dram_write, data, dram_access(d, l, is_dram_write, data))
<1>1. /\ CACHE_LINESIZE \in Nat \ {0} /\ ROW_BUFFER_SIZE \in Nat \ {0}
      /\ NUM_BANKS \in Nat \ {0}
  BY Sizes
<1>2. /\ DELAY_SIM_MODE_B \in Nat /\ DELAY_ACT \in Nat /\ DELAY_CAS \in Nat
      /\ DELAY_PRE \in Nat /\ DELAY_BUS \in Nat
  BY DRAMAssumption
<1>3. RowOf(l) \in Nat /\ BankOf(l) \in 0 .. NUM_BANKS - 1
  <2>1. PICK addr \in Nat : addr = l * CACHE_LINESIZE
    BY <1>1
  <2>2. PICK row \in Nat : row = addr \div ROW_BUFFER_SIZE
    BY <1>1
  <2>3. row \div NUM_BANKS \in Nat /\ row % NUM_BANKS \in 0 .. NUM_BANKS - 1
    BY <1>1
  <2> QED  BY <2>1, <2>2, <2>3 DEF RowOf, BankOf
<1>4. RowDelay(d, l) \in Nat
  BY <1>2 DEF RowDelay
<1> DEFINE open == [valid |-> TRUE, row_id |-> RowOf(l)]
           rows == [d.row_buffer_array EXCEPT ![BankOf(l)] = open]
           e == IF SIM_MODE = "B" \/ DRAM_PAGE_POLICY = "CLOSE_PAGE" THEN d
                ELSE [d EXCEPT !.row_buffer_array = rows]
           delay == IF SIM_MODE = "B" THEN DELAY_SIM_MODE_B
                    ELSE RowDelay(d, l) + DELAY_CAS + DELAY_BUS
           stale == IF data THEN d.stale \ {l} ELSE d.stale \cup {l}
           written == [e EXCEPT !.stat_write_access = e.stat_write_access + 1,
                                !.stat_write_delay = e.stat_write_delay + delay,
                                !.stale = stale]
           read == [e EXCEPT !.stat_read_access = e.stat_read_access + 1,
                             !.stat_read_delay = e.stat_read_delay + delay]
<1>5. delay \in Nat
  BY <1>2, <1>4
<1>6. rows \in RowBuffers
  <2>1. d.row_buffer_array \in RowBuffers
    BY DEF DramType
  <2>2. open \in [valid : BOOLEAN, row_id : Nat]
    BY <1>3
  <2> HIDE DEF open
  <2> QED  BY <1>3, <2>1, <2>2 DEF RowBuffers
<1>7. /\ e \in DramType /\ e.stat_read_access = d.stat_read_access
      /\ e.stat_write_access = d.stat_write_access /\ e.stale = d.stale
  <2>1. CASE SIM_MODE = "B" \/ DRAM_PAGE_POLICY = "CLOSE_PAGE"
    BY <2>1
  <2>2. CASE ~ (SIM_MODE = "B" \/ DRAM_PAGE_POLICY = "CLOSE_PAGE")
    <3>1. e = [d EXCEPT !.row_buffer_array = rows]
      BY <2>2
    <3> HIDE DEF e, rows
    <3> QED  BY <1>6, <3>1 DEF DramType
  <2> QED  BY <2>1, <2>2
<1>8. stale \in SUBSET Nat
  BY DEF DramType
<1>9. dram_access(d, l, is_dram_write, data) =
          [delay |-> delay, dram |-> IF is_dram_write THEN written ELSE read]
  <2>1. CASE SIM_MODE = "B"
    <3>1. e = d /\ delay = DELAY_SIM_MODE_B
      BY <2>1
    <3> HIDE DEF e, delay
    <3> QED  BY <1>7, <2>1, <3>1 DEF dram_access
  <2>2. CASE SIM_MODE # "B" /\ DRAM_PAGE_POLICY = "CLOSE_PAGE"
    <3>1. e = d /\ delay = RowDelay(d, l) + DELAY_CAS + DELAY_BUS
      BY <2>2
    <3> HIDE DEF e, delay
    <3> QED  BY <1>7, <2>2, <3>1 DEF dram_access, dram_access_mode_CDEF
  <2>3. CASE SIM_MODE # "B" /\ DRAM_PAGE_POLICY # "CLOSE_PAGE"
    <3>1. /\ e = [d EXCEPT !.row_buffer_array[BankOf(l)] = open]
          /\ delay = RowDelay(d, l) + DELAY_CAS + DELAY_BUS
      BY <2>3
    <3> HIDE DEF e, delay
    <3> QED  BY <1>7, <2>3, <3>1 DEF dram_access, dram_access_mode_CDEF
  <2> QED  BY <2>1, <2>2, <2>3
<1> HIDE DEF e, delay, stale
<1>10. /\ e.stat_read_access + 1 \in Nat /\ e.stat_read_delay + delay \in Nat
       /\ e.stat_write_access + 1 \in Nat /\ e.stat_write_delay + delay \in Nat
  BY <1>5, <1>7 DEF DramType
<1>11. CASE is_dram_write
  <2>1. written \in DramType
    BY <1>7, <1>8, <1>10 DEF DramType
  <2>2. /\ written.stat_read_access = d.stat_read_access
        /\ written.stat_write_access = d.stat_write_access + 1 /\ written.stale = stale
    BY <1>7 DEF DramType
  <2>3. d.stat_read_access \in Nat
    BY DEF DramType
  <2> HIDE DEF written
  <2> QED  BY <1>5, <1>9, <1>11, <2>1, <2>2, <2>3 DEF DramOutcome, stale
<1>12. CASE ~ is_dram_write
  <2>1. read \in DramType
    BY <1>7, <1>10 DEF DramType
  <2>2. /\ read.stat_read_access = d.stat_read_access + 1
        /\ read.stat_write_access = d.stat_write_access /\ read.stale = d.stale
    BY <1>7 DEF DramType
  <2>3. d.stat_write_access \in Nat
    BY DEF DramType
  <2> HIDE DEF read
  <2> QED  BY <1>5, <1>9, <1>12, <2>1, <2>2, <2>3 DEF DramOutcome
<1> QED  BY <1>11, <1>12

-----------------------------------------------------------------------------
(* Sums over finite sets: the recursive function of MapThenSumSet. *)

Choice(s) == CHOOSE x \in s : TRUE

\* g sums f over the sets in D.
Sums(f, D, g) ==
    g = [s \in D |-> IF s = {} THEN 0 ELSE f[Choice(s)] + g[s \ {Choice(s)}]]

LEMMA OneLess ==
    ASSUME NEW S, IsFiniteSet(S), NEW s \in SUBSET S, s # {}
    PROVE  /\ Choice(s) \in s /\ s \ {Choice(s)} \in SUBSET S
           /\ IsFiniteSet(s) /\ Cardinality(s) \in Nat \ {0}
           /\ Cardinality(s \ {Choice(s)}) = Cardinality(s) - 1
<1>1. Choice(s) \in s
  BY DEF Choice
<1>2. IsFiniteSet(s)
  BY FS_Subset
<1>3. Cardinality(s) \in Nat /\ Cardinality(s) # 0
  BY <1>2, FS_CardinalityType, FS_EmptySet
<1>4. Cardinality(s \ {Choice(s)}) = Cardinality(s) - 1
  BY <1>1, <1>2, FS_RemoveElement
<1> QED  BY <1>1, <1>2, <1>3, <1>4

LEMMA SumsExist ==
    ASSUME NEW S, IsFiniteSet(S), NEW f
    PROVE  \E g : Sums(f, SUBSET S, g)
<1> DEFINE Small(m) == {s \in SUBSET S : Cardinality(s) <= m}
           Bad == {m \in Nat : ~ \E g : Sums(f, Small(m), g)}
<1>1. Bad = {}
  <2> SUFFICES ASSUME Bad # {} PROVE FALSE
    OBVIOUS
  <2>1. PICK m \in Bad : \A t \in Bad : m <= t
    <3>1. Bad \in SUBSET Nat
      OBVIOUS
    <3> HIDE DEF Bad
    <3> QED  BY <3>1, FirstExists
  <2>2. m \in Nat /\ ~ \E g : Sums(f, Small(m), g)
    OBVIOUS
  <2>3. CASE m = 0
    <3>1. \A s \in Small(0) : s = {}
      <4>1. ASSUME NEW s \in Small(0), s # {} PROVE FALSE
        <5>1. Cardinality(s) \in Nat \ {0} /\ Cardinality(s) <= 0
          BY <4>1, OneLess
        <5> QED  BY <5>1
      <4> QED  BY <4>1
    <3>2. Sums(f, Small(0), [s \in Small(0) |-> 0])
      <4> HIDE DEF Small
      <4> QED  BY <3>1 DEF Sums
    <3> QED  BY <2>2, <2>3, <3>2
  <2>4. CASE m # 0
    <3>1. m - 1 \in Nat /\ m - 1 \notin Bad
      <4>1. m - 1 \in Nat /\ ~ m <= m - 1
        BY <2>2, <2>4
      <4> HIDE DEF Bad
      <4> QED  BY <2>1, <4>1
    <3>2. PICK g : Sums(f, Small(m - 1), g)
      BY <3>1
    <3> DEFINE Step(h, s) == IF s = {} THEN 0 ELSE f[Choice(s)] + h[s \ {Choice(s)}]
               h == [s \in Small(m) |-> Step(g, s)]
    <3>3. ASSUME NEW s \in Small(m) PROVE h[s] = Step(h, s)
      <4>1. CASE s = {}
        BY <4>1
      <4>2. CASE s # {}
        <5> DEFINE t == s \ {Choice(s)}
        <5>1. t \in SUBSET S /\ Cardinality(t) = Cardinality(s) - 1 /\ Cardinality(s) \in Nat
              /\ Cardinality(s) <= m
          BY <4>2, OneLess
        <5>2. t \in Small(m) /\ t \in Small(m - 1)
          BY <2>2, <5>1
        <5> HIDE DEF t, Small
        <5>3. g[t] = Step(g, t)
          BY <3>2, <5>2 DEF Sums
        <5>4. h[t] = g[t]
          BY <5>2, <5>3
        <5>5. h[s] = Step(g, s)
          OBVIOUS
        <5>6. Step(g, s) = Step(h, s)
          <6> HIDE DEF h
          <6> QED  BY <4>2, <5>4 DEF t
        <5> QED  BY <5>5, <5>6
      <4> QED  BY <4>1, <4>2
    <3>4. Sums(f, Small(m), h)
      <4>1. h = [s \in Small(m) |-> h[s]]
        OBVIOUS
      <4> HIDE DEF h, Small
      <4> QED  BY <3>3, <4>1 DEF Sums
    <3> QED  BY <2>2, <3>4
  <2> QED  BY <2>3, <2>4
<1>2. Cardinality(S) \in Nat
  BY FS_CardinalityType
<1>3. Small(Cardinality(S)) = SUBSET S
  <2>1. \A s \in SUBSET S : Cardinality(s) <= Cardinality(S)
    BY FS_Subset
  <2> QED  BY <2>1
<1>4. Cardinality(S) \notin Bad
  BY <1>1
<1> QED  BY <1>2, <1>3, <1>4

LEMMA SumsType ==
    ASSUME NEW S, IsFiniteSet(S), NEW f, \A x \in S : f[x] \in Nat,
           NEW g, Sums(f, SUBSET S, g)
    PROVE  g[S] \in Nat
<1> DEFINE Bad == {Cardinality(s) : s \in {t \in SUBSET S : g[t] \notin Nat}}
<1>1. \A s \in SUBSET S : IsFiniteSet(s) /\ Cardinality(s) \in Nat
  BY FS_Subset, FS_CardinalityType
<1>2. Bad = {}
  <2> SUFFICES ASSUME Bad # {} PROVE FALSE
    OBVIOUS
  <2>1. PICK m \in Bad : \A t \in Bad : m <= t
    <3>1. Bad \in SUBSET Nat
      BY <1>1
    <3> HIDE DEF Bad
    <3> QED  BY <3>1, FirstExists
  <2>2. PICK s \in SUBSET S : g[s] \notin Nat /\ m = Cardinality(s)
    BY <2>1
  <2>3. g[s] = IF s = {} THEN 0 ELSE f[Choice(s)] + g[s \ {Choice(s)}]
    BY DEF Sums
  <2>4. s # {}
    BY <2>2, <2>3
  <2>5. /\ Choice(s) \in S /\ s \ {Choice(s)} \in SUBSET S /\ m \in Nat
        /\ Cardinality(s \ {Choice(s)}) = m - 1
    BY <2>2, <2>4, OneLess
  <2>6. m - 1 \notin Bad
    <3>1. ~ m <= m - 1
      BY <2>5
    <3> HIDE DEF Bad
    <3> QED  BY <2>1, <3>1
  <2>7. g[s \ {Choice(s)}] \in Nat
    BY <2>5, <2>6
  <2>8. f[Choice(s)] \in Nat
    BY <2>5
  <2> QED  BY <2>2, <2>3, <2>4, <2>7, <2>8
<1>3. S \in SUBSET S
  OBVIOUS
<1> QED  BY <1>2, <1>3

LEMMA HitsType ==
    ASSUME NEW a \in Nat \ {0}, NEW set \in LinesOfSet(a), NEW W \in SUBSET (0 .. a - 1), NEW m
    PROVE  HitsOfFirst(set, W, m) \in Nat
<1> DEFINE S == {w \in W : Cardinality({v \in W : Before(set, v, w)}) < m}
           f == [w \in S |-> set[w].hits]
           G(g) == g = [s \in SUBSET S |->
                            IF s = {} THEN 0
                            ELSE set[CHOOSE x \in s : TRUE].hits
                                 + g[s \ {CHOOSE x \in s : TRUE}]]
           sum == CHOOSE g : G(g)
<1>1. S \in SUBSET (0 .. a - 1)
  OBVIOUS
<1>2. HitsOfFirst(set, W, m) = sum[S]
  BY DEF HitsOfFirst, MapThenSumSet, MapThenFoldSet
<1> HIDE DEF S
<1>3. IsFiniteSet(S)
  <2>1. IsFiniteSet(0 .. a - 1)
    BY FS_Interval
  <2> QED  BY <1>1, <2>1, FS_Subset
<1>4. \A x \in S : f[x] \in Nat /\ f[x] = set[x].hits
  BY <1>1 DEF LinesOfSet, Line
<1> HIDE DEF f
<1>5. ASSUME NEW g PROVE Sums(f, SUBSET S, g) <=> G(g)
  <2>1. ASSUME NEW s \in SUBSET S, s # {} PROVE f[Choice(s)] = set[Choice(s)].hits
    <3>1. Choice(s) \in S
      BY <1>3, <2>1, OneLess
    <3> QED  BY <1>4, <3>1
  <2>2. [s \in SUBSET S |-> IF s = {} THEN 0 ELSE f[Choice(s)] + g[s \ {Choice(s)}]]
        = [s \in SUBSET S |-> IF s = {} THEN 0
                              ELSE set[Choice(s)].hits + g[s \ {Choice(s)}]]
    BY <2>1
  <2> QED  BY <2>2, Zenon DEF Sums, Choice
<1>6. \E g : G(g)
  <2> HIDE DEF G
  <2> QED  BY <1>3, <1>5, SumsExist
<1>7. G(sum)
  <2> HIDE DEF G
  <2> QED  BY <1>6
<1> HIDE DEF G, sum
<1>8. sum[S] \in Nat
  BY <1>3, <1>4, <1>5, <1>7, SumsType
<1> QED  BY <1>2, <1>8

-----------------------------------------------------------------------------
(* When there is always a victim. *)

\* What a policy needs of a cache of a ways for the cores O: quotas that both
\* cores can have, and under DWP two ways unless all lines are core 0's.
Suits(p, a, O) ==
    /\ p = "SWP" => /\ O = {0} => SWP_CORE0_WAYS <= a
                    /\ O = {0, 1} => SWP_CORE0_WAYS \in 1 .. a - 1
    /\ p = "DWP" /\ O # {0} => 2 <= a

LEMMA PartitionVictim ==
    ASSUME NEW a \in Nat \ {0}, NEW set \in LinesOfSet(a), NEW O \in {{0}, {1}, {0, 1}},
           NEW k \in O, \A w \in 0 .. a - 1 : set[w].coreID \in O, NEW q \in Int,
           O = {0} => q <= a, O = {1} => 0 <= q, O = {0, 1} => q \in 1 .. a - 1
    PROVE  cache_find_victim_from_partition(set, k, q) \in 0 .. a - 1
<1> DEFINE W(j) == {w \in 0 .. a - 1 : set[w].coreID = j}
           Z == WaysOf(set, TRUE)
           U == WaysOf(set, FALSE)
<1>1. DOMAIN set = 0 .. a - 1 /\ 0 \in 0 .. a - 1
  BY DEF LinesOfSet
<1>2. IsFiniteSet(0 .. a - 1) /\ Cardinality(0 .. a - 1) = a
  <2>1. a - 1 \in Int /\ 0 \in Int
    OBVIOUS
  <2>2. Cardinality(0 .. a - 1) = IF 0 > a - 1 THEN 0 ELSE (a - 1) - 0 + 1
    BY <2>1, FS_Interval
  <2>3. IsFiniteSet(0 .. a - 1)
    BY <2>1, FS_Interval
  <2> QED  BY <2>2, <2>3
<1>3. Z = W(0) /\ U = {w \in 0 .. a - 1 : set[w].coreID # 0}
  BY <1>1 DEF WaysOf
<1>4. W(1) = U
  <2>1. ASSUME NEW w \in 0 .. a - 1 PROVE set[w].coreID # 0 <=> set[w].coreID = 1
    <3>1. PICK j : j = set[w].coreID
      OBVIOUS
    <3>2. j \in O
      BY <3>1
    <3>3. j \in {0, 1}
      BY <3>2
    <3> QED  BY <3>1, <3>3
  <2>2. PICK V : V = U
    OBVIOUS
  <2>3. V = {w \in 0 .. a - 1 : set[w].coreID # 0}
    BY <1>3, <2>2
  <2>4. V = W(1)
    BY <2>1, <2>3
  <2> QED  BY <2>2, <2>4
<1>5. W(0) \subseteq 0 .. a - 1 /\ W(1) \subseteq 0 .. a - 1
  OBVIOUS
<1>6. W(0) \cup W(1) = 0 .. a - 1 /\ W(0) \cap W(1) = {}
  BY <1>3, <1>4
<1> HIDE DEF W
<1>7. IsFiniteSet(W(0)) /\ IsFiniteSet(W(1))
  BY <1>2, <1>5, FS_Subset
<1>8. /\ Cardinality(W(0)) \in Nat /\ Cardinality(W(1)) \in Nat
      /\ Cardinality(W(0)) + Cardinality(W(1)) = a
  <2>1. Cardinality(W(0) \cup W(1))
            = Cardinality(W(0)) + Cardinality(W(1)) - Cardinality(W(0) \cap W(1))
    BY <1>7, FS_Union
  <2>2. Cardinality(W(0)) \in Nat /\ Cardinality(W(1)) \in Nat
    BY <1>7, FS_CardinalityType
  <2>3. Cardinality(W(0) \cap W(1)) = 0
    BY <1>6, FS_EmptySet
  <2>4. Cardinality(W(0) \cup W(1)) = a
    BY <1>2, <1>6
  <2>5. a = Cardinality(W(0)) + Cardinality(W(1)) - 0
    BY <2>1, <2>3, <2>4
  <2> QED  BY <2>2, <2>5
<1>9. VictimCore(set, k, q) =
          IF k = 0 THEN IF Cardinality(W(1)) > a - q THEN 1 ELSE 0
          ELSE IF Cardinality(W(0)) > q THEN 0 ELSE 1
  BY <1>1, <1>2, <1>3, <1>4 DEF VictimCore
<1>10. ASSUME NEW j \in {0, 1}, W(j) = {} PROVE Cardinality(W(j)) = 0
  BY <1>10, FS_EmptySet
<1>11. PICK j : j = VictimCore(set, k, q)
  OBVIOUS
<1>12. j \in {0, 1} /\ k \in {0, 1}
  BY <1>9, <1>11
<1>13. O = {0} => W(1) = {} /\ k = 0
  BY DEF W
<1>14. O = {1} => W(0) = {} /\ k = 1
  BY DEF W
<1>15. W(j) # {}
  <2>1. CASE O = {0}
    <3>1. Cardinality(W(1)) = 0
      BY <1>10, <1>13, <2>1
    <3>2. j = 0
      BY <1>9, <1>11, <1>13, <2>1, <3>1
    <3>3. Cardinality(W(0)) # 0
      BY <1>8, <3>1
    <3> QED  BY <1>10, <3>2, <3>3
  <2>2. CASE O = {1}
    <3>1. Cardinality(W(0)) = 0
      BY <1>10, <1>14, <2>2
    <3>2. j = 1
      BY <1>9, <1>11, <1>14, <2>2, <3>1
    <3>3. Cardinality(W(1)) # 0
      BY <1>8, <3>1
    <3> QED  BY <1>10, <3>2, <3>3
  <2>3. CASE O = {0, 1}
    <3>1. q \in 1 .. a - 1
      BY <2>3
    <3>2. Cardinality(W(j)) # 0
      <4>1. CASE j = 0
        BY <1>8, <1>9, <1>11, <1>12, <3>1, <4>1
      <4>2. CASE j = 1
        BY <1>8, <1>9, <1>11, <1>12, <3>1, <4>2
      <4> QED  BY <1>12, <4>1, <4>2
    <3> QED  BY <1>10, <1>12, <3>2
  <2> QED  BY <2>1, <2>2, <2>3
<1>16. cache_find_victim_from_partition(set, k, q) = Oldest(set, W(j))
  BY <1>1, <1>11 DEF cache_find_victim_from_partition, W
<1>17. W(j) \in SUBSET (0 .. a - 1)
  BY <1>5, <1>12
<1>18. Oldest(set, W(j)) \in W(j)
  BY <1>15, <1>17, OldestIsThere
<1> QED  BY <1>16, <1>17, <1>18

LEMMA BestPartitionType ==
    ASSUME NEW a \in Nat \ {0}, NEW set \in LinesOfSet(a)
    PROVE  /\ BestPartition(set) \in Int /\ BestPartition(set) <= a
           /\ 2 <= a => BestPartition(set) \in 1 .. a - 1
<1> DEFINE P == {p \in Partitions(set) : 0 <= Utility(set, p)}
<1>1. DOMAIN set = 0 .. a - 1 /\ Cardinality(0 .. a - 1) = a
  BY FS_Interval DEF LinesOfSet
<1>2. Partitions(set) = 1 .. a - 1
  BY <1>1 DEF Partitions
<1>3. ASSUME NEW p \in 1 .. a - 1 PROVE Utility(set, p) \in Nat
  <2>1. WaysOf(set, TRUE) \in SUBSET (0 .. a - 1) /\ WaysOf(set, FALSE) \in SUBSET (0 .. a - 1)
    BY <1>1 DEF WaysOf
  <2>2. /\ HitsOfFirst(set, WaysOf(set, TRUE), p) \in Nat
        /\ HitsOfFirst(set, WaysOf(set, FALSE), Cardinality(DOMAIN set) - p) \in Nat
    BY <2>1, HitsType
  <2>3. PICK x, y : /\ x = HitsOfFirst(set, WaysOf(set, TRUE), p)
                    /\ y = HitsOfFirst(set, WaysOf(set, FALSE), Cardinality(DOMAIN set) - p)
    OBVIOUS
  <2>4. x \in Nat /\ y \in Nat
    BY <2>2, <2>3
  <2>5. Utility(set, p) = x + y
    BY <2>3 DEF Utility
  <2> QED  BY <2>4, <2>5
<1>4. P = 1 .. a - 1
  BY <1>2, <1>3
<1>5. BestPartition(set) = IF P = {} THEN -1 ELSE Max(P)
  BY DEF BestPartition
<1> HIDE DEF P
<1>6. P # {} => Max(P) \in P
  <2>1. P \in SUBSET Nat /\ \A t \in P : t <= a
    BY <1>4
  <2> QED  BY <2>1, MaxIsThere
<1>7. 2 <= a => P # {}
  <2>1. 2 <= a => 1 \in P
    BY <1>4
  <2> QED  BY <2>1
<1> QED  BY <1>4, <1>5, <1>6, <1>7

LEMMA VictimIsThere ==
    ASSUME NEW n \in Nat \ {0}, NEW a \in Nat \ {0}, NEW c \in CacheOf(n, a), NEW l \in Nat,
           NEW O \in {{0}, {1}, {0, 1}}, NEW k \in O, k \in Cores, NEW t, NEW m, Fine(c, t, O, m),
           Suits(c.replacement_policy, a, O)
    PROVE  Victim(c, l, k) \in 0 .. a - 1
<1>1. PICK set : set = SetOf(c, l)
  OBVIOUS
<1>2. set \in LinesOfSet(a)
  BY <1>1, Address
<1>3. IndexOf(c, l) \in Sets(c) /\ Ways(c) = 0 .. a - 1
  <2>1. IndexOf(c, l) \in 0 .. n - 1 /\ Sets(c) = 0 .. n - 1 /\ Ways(c) = 0 .. a - 1
    BY Address
  <2> QED  BY <2>1
<1>4. c.replacement_policy \in Policies
  BY DEF CacheOf
<1>5. Victim(c, l, k) = cache_find_victim(c, set, k)
  BY <1>1 DEF Victim
<1>6. CASE \E w \in 0 .. a - 1 : ~ set[w].valid
  <2>1. {w \in 0 .. a - 1 : ~ set[w].valid} # {}
    BY <1>6
  <2> QED  BY <1>2, <1>4, <1>5, <2>1, VictimType
<1>7. CASE \A w \in 0 .. a - 1 : set[w].valid
  <2>1. \A w \in 0 .. a - 1 : set[w].coreID \in O
    <3>1. ASSUME NEW w \in 0 .. a - 1 PROVE set[w].coreID \in O
      <4>1. LineFine(c, IndexOf(c, l), set[w], t, O, m)
        BY <1>1, <1>3 DEF Fine, SetOf
      <4> QED  BY <1>7, <4>1 DEF LineFine
    <3> QED  BY <3>1
  <2>2. {w \in DOMAIN set : ~ set[w].valid} = {}
    BY <1>2, <1>7 DEF LinesOfSet
  <2>3. CASE c.replacement_policy \in {"LRU", "RANDOM"}
    BY <1>2, <1>4, <1>5, <2>3, VictimType
  <2>4. CASE c.replacement_policy = "SWP"
    <3>1. PICK q : q = SWP_CORE0_WAYS
      OBVIOUS
    <3>2. Victim(c, l, k) = cache_find_victim_from_partition(set, k, q)
      BY <1>5, <2>2, <2>4, <3>1 DEF cache_find_victim
    <3>3. q \in Int
      BY <3>1, CacheAssumption
    <3>4. O = {0} => q <= a
      BY <2>4, <3>1 DEF Suits
    <3>5. O = {1} => 0 <= q
      BY <3>1, CacheAssumption
    <3>6. O = {0, 1} => q \in 1 .. a - 1
      BY <2>4, <3>1 DEF Suits
    <3>7. cache_find_victim_from_partition(set, k, q) \in 0 .. a - 1
      BY <1>2, <2>1, <3>3, <3>4, <3>5, <3>6, PartitionVictim
    <3> QED  BY <3>2, <3>7
  <2>5. CASE c.replacement_policy = "DWP"
    <3>1. PICK q : q = BestPartition(set)
      OBVIOUS
    <3>2. Victim(c, l, k) = cache_find_victim_from_partition(set, k, q)
      BY <1>5, <2>2, <2>5, <3>1 DEF cache_find_victim
    <3>3. /\ q \in Int /\ q <= a
          /\ 2 <= a => q \in 1 .. a - 1
      BY <1>2, <3>1, BestPartitionType
    <3>4. O # {0} => 2 <= a
      BY <2>5 DEF Suits
    <3>5. /\ O = {0} => q <= a
          /\ O = {1} => 0 <= q
          /\ O = {0, 1} => q \in 1 .. a - 1
      <4>1. O = {1} \/ O = {0, 1} => O # {0}
        OBVIOUS
      <4> QED  BY <3>3, <3>4, <4>1
    <3>6. q \in Int
      BY <3>3
    <3>7. cache_find_victim_from_partition(set, k, q) \in 0 .. a - 1
      BY <1>2, <2>1, <3>5, <3>6, PartitionVictim
    <3> QED  BY <3>2, <3>7
  <2> QED  BY <1>4, <2>3, <2>4, <2>5 DEF Policies
<1> QED  BY <1>6, <1>7

-----------------------------------------------------------------------------
(* The memory system. *)

DSets == DCACHE_SIZE \div (DCACHE_ASSOC * CACHE_LINESIZE)
ISets == ICACHE_SIZE \div (ICACHE_ASSOC * CACHE_LINESIZE)
LSets == L2CACHE_SIZE \div (L2CACHE_ASSOC * CACHE_LINESIZE)

DCaches  == [Cores -> CacheOf(DSets, DCACHE_ASSOC)]
ICaches  == [Cores -> CacheOf(ISets, ICACHE_ASSOC)]
L2Cache  == CacheOf(LSets, L2CACHE_ASSOC)
Counters == [ACCESS_TYPES -> Nat]

MemType == [dcache : DCaches, icache : ICaches, l2cache : L2Cache, dram : DramType,
            access : Counters, delay : Counters]

LEMMA Shapes ==
    /\ DSets \in Nat \ {0} /\ DCACHE_ASSOC \in Nat \ {0}
    /\ ISets \in Nat \ {0} /\ ICACHE_ASSOC \in Nat \ {0}
    /\ LSets \in Nat \ {0} /\ L2CACHE_ASSOC \in Nat \ {0}
<1>1. /\ DSets \in Nat \ {0} /\ ISets \in Nat \ {0} /\ LSets \in Nat \ {0}
  <2>1. {DSets, ISets, LSets} \subseteq Nat \ {0}
    BY MemSysAssumption DEF DSets, ISets, LSets
  <2> QED  BY <2>1
<1>2. {DCACHE_ASSOC, ICACHE_ASSOC, L2CACHE_ASSOC} \subseteq Nat \ {0}
  BY MemSysAssumption
<1> QED  BY <1>1, <1>2

\* What the levels under the first hold of line x is what the last store wrote.
Below(s, x) ==
    /\ AllCurrent(s.l2cache, x)
    /\ ~ HasDirty(s.l2cache, x) => x \notin s.dram.stale

LowBalance(s) ==
    /\ s.dram.stat_read_access = Misses(s.l2cache)
    /\ s.dram.stat_write_access = s.l2cache.stat_dirty_evicts

\* The outcome of an access of the second level: it holds the line then; what
\* was right stays right, and a writeback of the right data makes it right.
L2Seen(s, l, wb, now, data, r) ==
    /\ r.delay \in Nat /\ r.sys \in MemType
    /\ r.sys.dcache = s.dcache /\ r.sys.icache = s.icache
    /\ r.sys.access = s.access /\ r.sys.delay = s.delay
    /\ Fine(r.sys.l2cache, now, Cores, TRUE)
    /\ r.sys.l2cache.replacement_policy = s.l2cache.replacement_policy
    /\ Suits(s.l2cache.replacement_policy, L2CACHE_ASSOC, Cores) /\ ~ s.l2cache.fault =>
           ~ r.sys.l2cache.fault
    /\ r.sys.l2cache.stat_read_access = s.l2cache.stat_read_access + (IF wb THEN 0 ELSE 1)
    /\ r.sys.l2cache.stat_write_access = s.l2cache.stat_write_access + (IF wb THEN 1 ELSE 0)
    /\ ~ r.sys.l2cache.fault =>
           /\ Copies(r.sys.l2cache, l) # {}
           /\ LowBalance(s) => LowBalance(r.sys)
           /\ (wb => data) =>
                  \A x \in Nat : Below(s, x) \/ (wb /\ x = l) => Below(r.sys, x)

\* An access that hits.
LEMMA L2Hits ==
    ASSUME NEW s \in MemType, NEW l \in Nat, NEW wb \in BOOLEAN, NEW now \in Nat,
           NEW data \in BOOLEAN, Fine(s.l2cache, now, Cores, TRUE), NEW a,
           AccessSeen(s.l2cache, l, wb, now, data, Cores, TRUE, a),
           AccessOutcome(LSets, L2CACHE_ASSOC, s.l2cache, l, wb, Owner(l), now, data, a),
           a.hit, NEW r,
           r = [delay |-> L2CACHE_HIT_LATENCY, sys |-> [s EXCEPT !.l2cache = a.cache]]
    PROVE  L2Seen(s, l, wb, now, data, r)
<1>1. PICK c \in L2Cache : c = s.l2cache
  BY DEF MemType
<1>2. PICK b : b = a.cache
  OBVIOUS
<1>3. PICK z : z = r.sys
  OBVIOUS
<1>4. LSets \in Nat \ {0} /\ L2CACHE_ASSOC \in Nat \ {0}
  BY Shapes
<1>5. /\ Copies(c, l) # {} /\ Fine(b, now, Cores, TRUE)
      /\ \A x \in Nat : x # l \/ ~ wb => Same(c, b, x)
      /\ wb => HasDirty(b, l) /\ (AllCurrent(b, l) <=> data)
  BY <1>1, <1>2 DEF AccessSeen
<1>6. HitWays(c, l, Owner(l)) = Copies(c, l)
  BY <1>1, <1>4, HitsAreCopies DEF L2Cache
<1>7. /\ b \in L2Cache /\ b.index_span = c.index_span /\ b.fault = c.fault
      /\ b.replacement_policy = c.replacement_policy
      /\ b.stat_dirty_evicts = c.stat_dirty_evicts
      /\ b.stat_read_access = c.stat_read_access + (IF wb THEN 0 ELSE 1)
      /\ b.stat_write_access = c.stat_write_access + (IF wb THEN 1 ELSE 0)
      /\ Misses(b) = Misses(c) + 0
  BY <1>1, <1>2, <1>5, <1>6 DEF AccessOutcome, L2Cache
<1>8. z = [s EXCEPT !.l2cache = b]
  BY <1>2, <1>3
<1>9. /\ z \in MemType /\ z.l2cache = b /\ z.dram = s.dram /\ z.dcache = s.dcache
      /\ z.icache = s.icache /\ z.access = s.access /\ z.delay = s.delay
  BY <1>7, <1>8 DEF MemType
<1>10. r.delay \in Nat
  <2>1. r.delay = L2CACHE_HIT_LATENCY
    OBVIOUS
  <2> QED  BY <2>1, MemSysAssumption
<1>11. Misses(b) = Misses(c)
  <2>1. Misses(c) \in Nat
    BY DEF Misses, L2Cache, CacheOf
  <2> QED  BY <1>7, <2>1
<1>12. Copies(b, l) # {}
  <2>1. CASE wb
    BY <1>5, <2>1 DEF HasDirty
  <2>2. CASE ~ wb
    BY <1>5, <2>2 DEF Same
  <2> QED  BY <2>1, <2>2
<1>13. LowBalance(s) => LowBalance(z)
  BY <1>1, <1>7, <1>9, <1>11 DEF LowBalance
<1>14. ASSUME wb => data, NEW x \in Nat, Below(s, x) \/ (wb /\ x = l) PROVE Below(z, x)
  <2>1. CASE x # l \/ ~ wb
    BY <1>1, <1>5, <1>9, <1>14, <2>1 DEF Below, Same
  <2>2. CASE x = l /\ wb
    BY <1>5, <1>9, <1>14, <2>2 DEF Below
  <2> QED  BY <2>1, <2>2
<1> QED  BY <1>1, <1>3, <1>5, <1>7, <1>9, <1>10, <1>12, <1>13, <1>14 DEF L2Seen

\* What a writeback to DRAM, if there is one, does to it.
WriteBackSeen(d, c, l, e) ==
    /\ e \in DramType
    /\ e.stat_read_access = d.stat_read_access
    /\ e.stat_write_access = d.stat_write_access + (IF MustWriteBack(c) THEN 1 ELSE 0)
    /\ ~ MustWriteBack(c) => e.stale = d.stale
    /\ MustWriteBack(c) =>
           e.stale = IF c.last_evicted_line.current THEN d.stale \ {Evicted(c, l)}
                     ELSE d.stale \cup {Evicted(c, l)}

LEMMA WriteBackFacts ==
    ASSUME NEW d \in DramType, NEW c \in L2Cache, NEW l \in Nat,
           c.last_evicted_line.valid => Evicted(c, l) \in Nat
    PROVE  WriteBackSeen(d, c, l, WriteBackL2(d, c, l))
<1>0. PICK e : e = WriteBackL2(d, c, l)
  OBVIOUS
<1> SUFFICES WriteBackSeen(d, c, l, e)
  BY <1>0
<1>1. CASE ~ MustWriteBack(c)
  <2>1. e = d
    BY <1>0, <1>1 DEF WriteBackL2
  <2>2. d.stat_write_access \in Nat
    BY DEF DramType
  <2> QED  BY <1>1, <2>1, <2>2 DEF WriteBackSeen
<1>2. CASE MustWriteBack(c)
  <2>1. PICK x \in Nat : x = Evicted(c, l)
    BY <1>2 DEF MustWriteBack
  <2>2. PICK v \in BOOLEAN : v = c.last_evicted_line.current
    BY DEF L2Cache, CacheOf, Line
  <2>3. PICK o : o = dram_access(d, x, TRUE, v)
    OBVIOUS
  <2>4. e = o.dram
    BY <1>0, <1>2, <2>1, <2>2, <2>3 DEF WriteBackL2, EvictedAddr, Evicted
  <2>5. DramOutcome(d, x, TRUE, v, o)
    BY <2>3, DramFacts
  <2>6. /\ e \in DramType
        /\ e.stat_read_access = d.stat_read_access + 0
        /\ e.stat_write_access = d.stat_write_access + 1
        /\ e.stale = IF v THEN d.stale \ {x} ELSE d.stale \cup {x}
    BY <2>4, <2>5 DEF DramOutcome
  <2>7. d.stat_read_access \in Nat
    BY DEF DramType
  <2> QED  BY <1>2, <2>1, <2>2, <2>6, <2>7 DEF WriteBackSeen
<1> QED  BY <1>1, <1>2

\* f is what L2Filled says that a miss takes and leaves.
FilledAs(s, l, d, c, f) ==
    /\ f.delay = L2CACHE_HIT_LATENCY + d.delay
    /\ f.sys = [s EXCEPT !.l2cache = c, !.dram = WriteBackL2(d.dram, c, l)]

LEMMA FilledParts ==
    ASSUME NEW s, NEW l, NEW d, NEW c
    PROVE  FilledAs(s, l, d, c, L2Filled(s, l, d, c))
BY DEF L2Filled, FilledAs

\* An access that misses, for which b is the second level and d the DRAM.
LEMMA L2Misses ==
    ASSUME NEW s \in MemType, NEW l \in Nat, NEW wb \in BOOLEAN, NEW now \in Nat,
           NEW data \in BOOLEAN, Fine(s.l2cache, now, Cores, TRUE), NEW a,
           AccessSeen(s.l2cache, l, wb, now, data, Cores, TRUE, a),
           AccessOutcome(LSets, L2CACHE_ASSOC, s.l2cache, l, wb, Owner(l), now, data, a),
           Owner(l) \in Cores, ~ a.hit, NEW r, NEW put \in BOOLEAN,
           put <=> IF wb THEN data ELSE l \notin s.dram.stale,
           r = L2Filled(s, l, dram_access(s.dram, l, FALSE, FALSE),
                        cache_install(a.cache, l, wb, Owner(l), now, put))
    PROVE  L2Seen(s, l, wb, now, data, r)
<1>1. PICK p \in L2Cache : p = s.l2cache
  BY DEF MemType
<1>2. PICK b : b = a.cache
  OBVIOUS
<1>3. PICK d : d = dram_access(s.dram, l, FALSE, FALSE)
  OBVIOUS
<1>4. PICK c : c = cache_install(b, l, wb, Owner(l), now, put)
  OBVIOUS
<1>5. PICK e : e = WriteBackL2(d.dram, c, l)
  OBVIOUS
<1>6. PICK z : z = r.sys
  OBVIOUS
<1>7. z = [s EXCEPT !.l2cache = c, !.dram = e] /\ r.delay = L2CACHE_HIT_LATENCY + d.delay
  <2>1. r = L2Filled(s, l, d, c)
    BY <1>2, <1>3, <1>4
  <2>2. FilledAs(s, l, d, c, r)
    BY <2>1, FilledParts
  <2>3. z = [s EXCEPT !.l2cache = c, !.dram = e]
    BY <1>5, <1>6, <2>2 DEF FilledAs
  <2>4. r.delay = L2CACHE_HIT_LATENCY + d.delay
    BY <2>2, Zenon DEF FilledAs
  <2> QED  BY <2>3, <2>4
<1>8. LSets \in Nat \ {0} /\ L2CACHE_ASSOC \in Nat \ {0}
  BY Shapes
<1>9. /\ Copies(p, l) = {} /\ Fine(b, now, Cores, TRUE)
      /\ \A x \in Nat : Same(p, b, x)
  BY <1>1, <1>2 DEF AccessSeen
<1>10. HitWays(p, l, Owner(l)) = Copies(p, l)
  BY <1>1, <1>8, HitsAreCopies DEF L2Cache
<1>11. /\ b \in L2Cache /\ b.index_span = p.index_span /\ b.fault = p.fault
       /\ b.replacement_policy = p.replacement_policy
       /\ b.stat_dirty_evicts = p.stat_dirty_evicts
       /\ b.stat_read_access = p.stat_read_access + (IF wb THEN 0 ELSE 1)
       /\ b.stat_write_access = p.stat_write_access + (IF wb THEN 1 ELSE 0)
       /\ Misses(b) = Misses(p) + 1
  BY <1>1, <1>2, <1>9, <1>10 DEF AccessOutcome, L2Cache
<1>12. Copies(b, l) = {}
  BY <1>9 DEF Same
<1>13. /\ d.delay \in Nat /\ d.dram \in DramType
       /\ d.dram.stat_read_access = s.dram.stat_read_access + 1
       /\ d.dram.stat_write_access = s.dram.stat_write_access + 0
       /\ d.dram.stale = s.dram.stale
  <2>1. PICK m \in DramType : m = s.dram
    BY DEF MemType
  <2>2. DramOutcome(m, l, FALSE, FALSE, d)
    BY <1>3, <2>1, DramFacts
  <2> QED  BY <2>1, <2>2 DEF DramOutcome
<1>14. PICK w : w = Victim(b, l, Owner(l))
  OBVIOUS
<1>15. /\ w \in (0 .. L2CACHE_ASSOC - 1) \cup {NoWay}
       /\ c \in L2Cache /\ c.index_span = b.index_span
       /\ c.replacement_policy = b.replacement_policy
       /\ c.stat_read_access = b.stat_read_access
       /\ c.stat_write_access = b.stat_write_access
       /\ Misses(c) = Misses(b)
       /\ w = NoWay => c.fault = TRUE /\ c.sets = b.sets
       /\ w \in 0 .. L2CACHE_ASSOC - 1 =>
              /\ c.fault = b.fault
              /\ c.stat_dirty_evicts =
                     b.stat_dirty_evicts
                     + (IF c.last_evicted_line.valid /\ c.last_evicted_line.dirty THEN 1 ELSE 0)
  <2>1. InstallOutcome(LSets, L2CACHE_ASSOC, b, l, wb, Owner(l), now, put, c)
    BY <1>4, <1>8, <1>11, InstallFacts DEF L2Cache
  <2> QED  BY <1>14, <2>1 DEF InstallOutcome, L2Cache
<1>16. w \in 0 .. L2CACHE_ASSOC - 1 => InstallSeen(b, l, wb, now, put, Cores, TRUE, c)
  <2> SUFFICES ASSUME w \in 0 .. L2CACHE_ASSOC - 1
               PROVE  InstallSeen(b, l, wb, now, put, Cores, TRUE, c)
    OBVIOUS
  <2>1. PICK m \in BOOLEAN : m = TRUE
    OBVIOUS
  <2>2. PICK k \in Cores : k = Owner(l)
    OBVIOUS
  <2>3. b \in CacheOf(LSets, L2CACHE_ASSOC) /\ (wb => m) /\ Fine(b, now, Cores, m)
        /\ Victim(b, l, k) \in 0 .. L2CACHE_ASSOC - 1
    BY <1>9, <1>11, <1>14, <2>1, <2>2 DEF L2Cache
  <2>4. InstallSeen(b, l, wb, now, put, Cores, m, cache_install(b, l, wb, k, now, put))
    BY <1>8, <1>12, <2>2, <2>3, InstallView
  <2> QED  BY <1>4, <2>1, <2>2, <2>4
<1>17. Fine(c, now, Cores, TRUE)
  <2>1. CASE w = NoWay
    BY <1>8, <1>9, <1>11, <1>15, <2>1, SameSets DEF L2Cache
  <2>2. CASE w \in 0 .. L2CACHE_ASSOC - 1
    BY <1>16, <2>2 DEF InstallSeen
  <2> QED  BY <1>15, <2>1, <2>2
<1>18. Suits(p.replacement_policy, L2CACHE_ASSOC, Cores) => w \in 0 .. L2CACHE_ASSOC - 1
  <2>1. Cores \in {{0}, {1}, {0, 1}}
    BY ZeroIsACore
  <2>2. SUFFICES ASSUME Suits(p.replacement_policy, L2CACHE_ASSOC, Cores)
                 PROVE  w \in 0 .. L2CACHE_ASSOC - 1
    OBVIOUS
  <2>3. Suits(b.replacement_policy, L2CACHE_ASSOC, Cores)
    BY <1>11, <2>2
  <2>4. b \in CacheOf(LSets, L2CACHE_ASSOC)
    BY <1>11 DEF L2Cache
  <2>5. PICK k \in Cores : k = Owner(l)
    OBVIOUS
  <2>6. PICK m : m = TRUE
    OBVIOUS
  <2>7. PICK O : O = Cores
    OBVIOUS
  <2>8. Fine(b, now, O, m) /\ O \in {{0}, {1}, {0, 1}} /\ k \in O
        /\ Suits(b.replacement_policy, L2CACHE_ASSOC, O)
    BY <1>9, <2>1, <2>3, <2>6, <2>7
  <2>9. Victim(b, l, k) \in 0 .. L2CACHE_ASSOC - 1
    BY <1>8, <2>4, <2>8, VictimIsThere
  <2> QED  BY <1>14, <2>5, <2>9
<1>19. c.last_evicted_line.valid /\ ~ c.fault => Evicted(c, l) \in Nat
  BY <1>15, <1>16 DEF InstallSeen
<1>20. WriteBackSeen(d.dram, c, l, e)
  <2>1. CASE c.fault
    <3>1. ~ MustWriteBack(c)
      BY <2>1 DEF MustWriteBack
    <3>2. e = d.dram
      BY <1>5, <3>1 DEF WriteBackL2
    <3>3. d.dram.stat_write_access \in Nat
      BY <1>13 DEF DramType
    <3> QED  BY <1>13, <3>1, <3>2, <3>3 DEF WriteBackSeen
  <2>2. CASE ~ c.fault
    <3>1. PICK m \in DramType : m = d.dram
      BY <1>13
    <3>2. c.last_evicted_line.valid => Evicted(c, l) \in Nat
      BY <1>19, <2>2
    <3>3. WriteBackSeen(m, c, l, WriteBackL2(m, c, l))
      BY <1>15, <3>2, WriteBackFacts
    <3> QED  BY <1>5, <3>1, <3>3
  <2> QED  BY <2>1, <2>2
<1>21. /\ e \in DramType /\ e.stat_read_access = s.dram.stat_read_access + 1
       /\ e.stat_write_access = s.dram.stat_write_access + (IF MustWriteBack(c) THEN 1 ELSE 0)
       /\ ~ MustWriteBack(c) => e.stale = s.dram.stale
       /\ MustWriteBack(c) =>
              e.stale = IF c.last_evicted_line.current THEN s.dram.stale \ {Evicted(c, l)}
                        ELSE s.dram.stale \cup {Evicted(c, l)}
  <2>1. s.dram.stat_write_access \in Nat
    BY DEF MemType, DramType
  <2> QED  BY <1>13, <1>20, <2>1 DEF WriteBackSeen
<1>23. /\ z \in MemType /\ z.l2cache = c /\ z.dram = e /\ z.dcache = s.dcache
       /\ z.icache = s.icache /\ z.access = s.access /\ z.delay = s.delay
  BY <1>7, <1>15, <1>21 DEF MemType
<1>24. r.delay \in Nat
  <2>1. PICK x, y : x = d.delay /\ y = r.delay
    OBVIOUS
  <2>2. L2CACHE_HIT_LATENCY \in Nat /\ x \in Nat
    BY <1>13, <2>1, MemSysAssumption
  <2>3. y = L2CACHE_HIT_LATENCY + x
    BY <1>7, <2>1, Zenon
  <2>4. y \in Nat
    BY <2>2, <2>3
  <2> QED  BY <2>1, <2>4, Zenon
<1>25. ASSUME ~ c.fault, LowBalance(s) PROVE LowBalance(z)
  <2>1. w \in 0 .. L2CACHE_ASSOC - 1
    BY <1>15, <1>25
  <2>2. c.last_evicted_line.valid /\ c.last_evicted_line.dirty <=> MustWriteBack(c)
    BY <1>25 DEF MustWriteBack
  <2>3. z.dram.stat_read_access = Misses(z.l2cache)
    BY <1>1, <1>11, <1>15, <1>21, <1>23, <1>25 DEF LowBalance
  <2>4. z.dram.stat_write_access = z.l2cache.stat_dirty_evicts
    BY <1>1, <1>11, <1>15, <1>21, <1>23, <1>25, <2>1, <2>2 DEF LowBalance
  <2> QED  BY <2>3, <2>4 DEF LowBalance
<1>26. ASSUME ~ c.fault, wb => data, NEW x \in Nat, Below(s, x) \/ (wb /\ x = l)
       PROVE  Below(z, x)
  <2> DEFINE old == c.last_evicted_line
             y == Evicted(c, l)
  <2>1. InstallSeen(b, l, wb, now, put, Cores, TRUE, c)
    BY <1>15, <1>16, <1>26
  <2>2. /\ HasDirty(c, l) <=> wb
        /\ AllCurrent(c, l) <=> put
        /\ old.dirty => old.valid
        /\ old.valid => /\ y # l /\ y \in Nat /\ Copies(c, y) = {}
                        /\ AllCurrent(b, y) <=> old.current
                        /\ HasDirty(b, y) <=> old.dirty
        /\ \A u \in Nat : u # l /\ (old.valid => u # y) => Same(b, c, u)
    BY <2>1 DEF InstallSeen
  <2>3. MustWriteBack(c) <=> old.dirty
    BY <1>26, <2>2 DEF MustWriteBack
  <2> HIDE DEF old, y
  <2>4. /\ e.stale \ {y} = s.dram.stale \ {y}
        /\ ~ old.valid => e.stale = s.dram.stale
    BY <1>21, <2>2, <2>3 DEF old, y
  <2>5. CASE x = l
    <3>1. wb => HasDirty(c, l) /\ AllCurrent(c, l)
      BY <1>26, <2>2
    <3>2. ~ wb => l \notin s.dram.stale
      BY <1>1, <1>9, <1>26, <2>5 DEF Below, HasDirty
    <3>3. ~ wb => AllCurrent(c, l)
      BY <2>2, <3>2
    <3>4. l \notin s.dram.stale => l \notin e.stale
      BY <2>2, <2>4
    <3> QED  BY <1>23, <2>5, <3>1, <3>2, <3>3, <3>4 DEF Below
  <2>6. CASE x # l /\ old.valid /\ x = y
    <3>1. AllCurrent(p, x) /\ (~ HasDirty(p, x) => x \notin s.dram.stale)
      BY <1>1, <1>26, <2>6 DEF Below
    <3>2. old.current /\ (~ old.dirty => x \notin s.dram.stale)
      BY <1>9, <2>2, <2>6, <3>1 DEF Same
    <3>3. x \notin e.stale
      <4>1. CASE old.dirty
        BY <1>21, <2>3, <2>6, <3>2, <4>1 DEF old, y
      <4>2. CASE ~ old.dirty
        BY <1>21, <2>3, <3>2, <4>2
      <4> QED  BY <4>1, <4>2
    <3>4. AllCurrent(c, x)
      BY <2>2, <2>6 DEF AllCurrent
    <3> QED  BY <1>23, <3>3, <3>4 DEF Below
  <2>7. CASE x # l /\ (old.valid => x # y)
    <3>1. AllCurrent(p, x) /\ (~ HasDirty(p, x) => x \notin s.dram.stale)
      BY <1>1, <1>26, <2>7 DEF Below
    <3>2. Same(b, c, x) /\ Same(p, b, x)
      BY <1>9, <2>2, <2>7
    <3>3. x \notin s.dram.stale => x \notin e.stale
      BY <2>4, <2>7
    <3> QED  BY <1>23, <3>1, <3>2, <3>3 DEF Below, Same
  <2> QED  BY <2>5, <2>6, <2>7
<1>27. ~ c.fault => Copies(c, l) # {}
  BY <1>15, <1>16 DEF InstallSeen
<1>28. c.fault = TRUE \/ w \in 0 .. L2CACHE_ASSOC - 1
  BY <1>15
<1>29. Suits(p.replacement_policy, L2CACHE_ASSOC, Cores) /\ ~ p.fault => ~ c.fault
  BY <1>11, <1>15, <1>18
<1> QED  BY <1>1, <1>6, <1>11, <1>15, <1>17, <1>23, <1>24, <1>25, <1>26, <1>27, <1>29 DEF L2Seen

LEMMA L2View ==
    ASSUME NEW s \in MemType, NEW l \in Nat, NEW wb \in BOOLEAN, NEW k \in Cores, k = Owner(l),
           NEW now \in Nat, NEW data \in BOOLEAN, Fine(s.l2cache, now, Cores, TRUE)
    PROVE  L2Seen(s, l, wb, now, data, memsys_l2_access(s, l, wb, k, now, data))
<1>0. PICK r : r = memsys_l2_access(s, l, wb, k, now, data)
  OBVIOUS
<1>1. PICK c \in L2Cache : c = s.l2cache
  BY DEF MemType
<1>2. PICK a : a = cache_access(c, l, wb, k, now, data)
  OBVIOUS
<1>3. LSets \in Nat \ {0} /\ L2CACHE_ASSOC \in Nat \ {0}
  BY Shapes
<1>4. AccessSeen(c, l, wb, now, data, Cores, TRUE, a)
  <2>1. Fine(c, now, Cores, TRUE) /\ TRUE \in BOOLEAN /\ c \in CacheOf(LSets, L2CACHE_ASSOC)
    BY <1>1 DEF L2Cache
  <2>2. PICK m \in BOOLEAN : m = TRUE
    OBVIOUS
  <2>3. Fine(c, now, Cores, m) /\ (wb => m)
    BY <2>1, <2>2
  <2>4. AccessSeen(c, l, wb, now, data, Cores, m, cache_access(c, l, wb, k, now, data))
    BY <1>3, <2>1, <2>3, AccessView
  <2> QED  BY <1>2, <2>2, <2>4
<1>5. AccessOutcome(LSets, L2CACHE_ASSOC, c, l, wb, k, now, data, a)
  BY <1>2, <1>3, AccessFacts DEF L2Cache
<1>6. r = L2Looked(s, l, wb, k, now, data, a)
  BY <1>0, <1>1, <1>2 DEF memsys_l2_access
<1>7. CASE a.hit
  <2>1. r = [delay |-> L2CACHE_HIT_LATENCY, sys |-> [s EXCEPT !.l2cache = a.cache]]
    BY <1>6, <1>7 DEF L2Looked
  <2> QED  BY <1>0, <1>1, <1>4, <1>5, <1>7, <2>1, L2Hits
<1>8. CASE ~ a.hit
  <2>1. PICK put : put = IF wb THEN data ELSE l \notin s.dram.stale
    OBVIOUS
  <2>2. put \in BOOLEAN /\ (put <=> IF wb THEN data ELSE l \notin s.dram.stale)
    BY <2>1
  <2>3. r = L2Filled(s, l, dram_access(s.dram, l, FALSE, FALSE),
                     cache_install(a.cache, l, wb, k, now, put))
    BY <1>6, <1>8, <2>1 DEF L2Looked
  <2>4. L2Seen(s, l, wb, now, data, r)
    BY <1>1, <1>4, <1>5, <1>8, <2>2, <2>3, L2Misses
  <2> QED  BY <1>0, <2>4
<1> QED  BY <1>7, <1>8

-----------------------------------------------------------------------------
(* The first-level caches, by name. *)

L1s == {"dcache", "icache"}

SetCount(n)  == IF n = "dcache" THEN DSets ELSE ISets
WayCount(n)  == IF n = "dcache" THEN DCACHE_ASSOC ELSE ICACHE_ASSOC
L1Cache(n)   == CacheOf(SetCount(n), WayCount(n))
IsWritten(n) == n = "dcache"

LEMMA L1Shape ==
    ASSUME NEW n \in L1s
    PROVE  SetCount(n) \in Nat \ {0} /\ WayCount(n) \in Nat \ {0}
BY Shapes DEF SetCount, WayCount, L1s

LEMMA L1Type ==
    ASSUME NEW s \in MemType, NEW n \in L1s, NEW k \in Cores
    PROVE  s[n][k] \in L1Cache(n)
<1>1. CASE n = "dcache"
  BY <1>1 DEF MemType, DCaches, L1Cache, SetCount, WayCount
<1>2. CASE n = "icache"
  BY <1>2 DEF MemType, ICaches, L1Cache, SetCount, WayCount
<1> QED  BY <1>1, <1>2 DEF L1s

WithL1(s, n, k, c) == [s EXCEPT ![n][k] = c]

\* z is s with this cache of core k.
L1SetTo(s, n, k, c, z) ==
    /\ z \in MemType
    /\ z.l2cache = s.l2cache /\ z.dram = s.dram
    /\ z.access = s.access /\ z.delay = s.delay
    /\ z[n][k] = c
    /\ \A m \in L1s : \A j \in Cores : m # n \/ j # k => z[m][j] = s[m][j]

LEMMA L1Put ==
    ASSUME NEW s \in MemType, NEW n \in L1s, NEW k \in Cores, NEW c \in L1Cache(n)
    PROVE  L1SetTo(s, n, k, c, WithL1(s, n, k, c))
<1>0. PICK z : z = [s EXCEPT ![n][k] = c]
  OBVIOUS
<1> SUFFICES L1SetTo(s, n, k, c, z)
  BY <1>0 DEF WithL1
<1>1. CASE n = "dcache"
  <2>1. PICK f : f = [s.dcache EXCEPT ![k] = c]
    OBVIOUS
  <2>2. c \in CacheOf(DSets, DCACHE_ASSOC)
    BY <1>1 DEF L1Cache, SetCount, WayCount
  <2>3. /\ f \in DCaches /\ f[k] = c
        /\ \A j \in Cores : j # k => f[j] = s.dcache[j]
    BY <2>1, <2>2 DEF MemType, DCaches
  <2>4. z = [s EXCEPT !.dcache = f]
    BY <1>0, <1>1, <2>1 DEF MemType
  <2>5. /\ z \in MemType /\ z.dcache = f /\ z.icache = s.icache
        /\ z.l2cache = s.l2cache /\ z.dram = s.dram
        /\ z.access = s.access /\ z.delay = s.delay
    BY <2>3, <2>4 DEF MemType
  <2>6. /\ z["dcache"] = f /\ z["icache"] = s["icache"] /\ s["dcache"] = s.dcache
    BY <2>5 DEF MemType
  <2> QED  BY <1>1, <2>3, <2>5, <2>6 DEF L1SetTo, L1s
<1>2. CASE n = "icache"
  <2>1. PICK f : f = [s.icache EXCEPT ![k] = c]
    OBVIOUS
  <2>2. c \in CacheOf(ISets, ICACHE_ASSOC)
    BY <1>2 DEF L1Cache, SetCount, WayCount
  <2>3. /\ f \in ICaches /\ f[k] = c
        /\ \A j \in Cores : j # k => f[j] = s.icache[j]
    BY <2>1, <2>2 DEF MemType, ICaches
  <2>4. z = [s EXCEPT !.icache = f]
    BY <1>0, <1>2, <2>1 DEF MemType
  <2>5. /\ z \in MemType /\ z.icache = f /\ z.dcache = s.dcache
        /\ z.l2cache = s.l2cache /\ z.dram = s.dram
        /\ z.access = s.access /\ z.delay = s.delay
    BY <2>3, <2>4 DEF MemType
  <2>6. /\ z["icache"] = f /\ z["dcache"] = s["dcache"] /\ s["icache"] = s.icache
    BY <2>5 DEF MemType
  <2> QED  BY <1>2, <2>3, <2>5, <2>6 DEF L1SetTo, L1s
<1> QED  BY <1>1, <1>2 DEF L1s

AllFine(s, t) ==
    /\ \A n \in L1s : \A k \in Cores : Fine(s[n][k], t, {k}, IsWritten(n))
    /\ Fine(s.l2cache, t, Cores, TRUE)

\* The same policies.
SamePolicies(s, z) ==
    /\ \A n \in L1s : \A k \in Cores : z[n][k].replacement_policy = s[n][k].replacement_policy
    /\ z.l2cache.replacement_policy = s.l2cache.replacement_policy

\* In no cache the policy can fail to find a victim.
AllSuit(s) ==
    /\ \A n \in L1s : \A k \in Cores : Suits(s[n][k].replacement_policy, WayCount(n), {k})
    /\ Suits(s.l2cache.replacement_policy, L2CACHE_ASSOC, Cores)

L1Faultless(s) == \A n \in L1s : \A k \in Cores : ~ s[n][k].fault

LEMMA NoFault ==
    ASSUME NEW s \in MemType
    PROVE  ~ Fault(s) <=> L1Faultless(s) /\ ~ s.l2cache.fault
<1>1. s["dcache"] = s.dcache /\ s["icache"] = s.icache
  BY DEF MemType
<1> QED  BY <1>1 DEF Fault, L1Faultless, L1s

\* What the data cache of its core and the levels below hold of line x.
DOf(s, x) == s["dcache"][Owner(x)]

Right(s, x) ==
    /\ AllCurrent(DOf(s, x), x)
    /\ ~ HasDirty(DOf(s, x), x) => Below(s, x)

\* Of the reads and writes that the second level has had.
MissesOf(s, k) == Misses(s["dcache"][k]) + Misses(s["icache"][k])
EvictsOf(s, k) == s["dcache"][k].stat_dirty_evicts

Reads(s)  == IF NUM_CORES = 1 THEN MissesOf(s, 0) ELSE MissesOf(s, 0) + MissesOf(s, 1)
Evicts(s) == IF NUM_CORES = 1 THEN EvictsOf(s, 0) ELSE EvictsOf(s, 0) + EvictsOf(s, 1)

UpBalance(s) ==
    /\ s.l2cache.stat_read_access = Reads(s)
    /\ s.l2cache.stat_write_access = Evicts(s)

\* What setting a first-level cache leaves.
L1SetSeen(s, n, k, c, t, z) ==
    /\ AllFine(s, t) /\ Fine(c, t, {k}, IsWritten(n)) => AllFine(z, t)
    /\ c.replacement_policy = s[n][k].replacement_policy => SamePolicies(s, z)
    /\ L1Faultless(s) /\ ~ c.fault => L1Faultless(z)
    /\ c.fault => ~ L1Faultless(z)
    /\ \A x \in Nat : Below(z, x) <=> Below(s, x)
    /\ \A x \in Nat : n = "icache" \/ Owner(x) # k => DOf(z, x) = DOf(s, x)
    /\ \A x \in Nat : n = "dcache" /\ Owner(x) = k => DOf(z, x) = c
    /\ LowBalance(z) <=> LowBalance(s)

LEMMA L1SetFacts ==
    ASSUME NEW s \in MemType, NEW n \in L1s, NEW k \in Cores, NEW c \in L1Cache(n), NEW t,
           NEW z, L1SetTo(s, n, k, c, z), \A x \in Nat : Owner(x) \in Cores
    PROVE  L1SetSeen(s, n, k, c, t, z)
<1>1. /\ z.l2cache = s.l2cache /\ z.dram = s.dram /\ z[n][k] = c
      /\ \A m \in L1s : \A j \in Cores : m # n \/ j # k => z[m][j] = s[m][j]
  BY DEF L1SetTo
<1>2. ASSUME AllFine(s, t), Fine(c, t, {k}, IsWritten(n)) PROVE AllFine(z, t)
  <2>1. ASSUME NEW m \in L1s, NEW j \in Cores PROVE Fine(z[m][j], t, {j}, IsWritten(m))
    <3>1. CASE m = n /\ j = k
      BY <1>1, <1>2, <3>1
    <3>2. CASE m # n \/ j # k
      BY <1>1, <1>2, <3>2 DEF AllFine
    <3> QED  BY <3>1, <3>2
  <2> QED  BY <1>1, <1>2, <2>1 DEF AllFine
<1>3. c.replacement_policy = s[n][k].replacement_policy => SamePolicies(s, z)
  <2> SUFFICES ASSUME c.replacement_policy = s[n][k].replacement_policy
               PROVE  SamePolicies(s, z)
    OBVIOUS
  <2>1. ASSUME NEW m \in L1s, NEW j \in Cores
        PROVE  z[m][j].replacement_policy = s[m][j].replacement_policy
    <3>1. CASE m = n /\ j = k
      BY <1>1, <3>1
    <3>2. CASE m # n \/ j # k
      BY <1>1, <3>2
    <3> QED  BY <3>1, <3>2
  <2> QED  BY <1>1, <2>1 DEF SamePolicies
<1>4. L1Faultless(s) /\ ~ c.fault => L1Faultless(z)
  <2> SUFFICES ASSUME L1Faultless(s), ~ c.fault, NEW m \in L1s, NEW j \in Cores
               PROVE  ~ z[m][j].fault
    BY DEF L1Faultless
  <2>1. CASE m = n /\ j = k
    BY <1>1, <2>1
  <2>2. CASE m # n \/ j # k
    BY <1>1, <2>2 DEF L1Faultless
  <2> QED  BY <2>1, <2>2
<1>5. c.fault => ~ L1Faultless(z)
  BY <1>1 DEF L1Faultless
<1>6. \A x \in Nat : Below(z, x) <=> Below(s, x)
  BY <1>1 DEF Below
<1>7. \A x \in Nat : n = "icache" \/ Owner(x) # k => DOf(z, x) = DOf(s, x)
  <2>1. "dcache" \in L1s /\ "dcache" # "icache"
    BY DEF L1s
  <2> QED  BY <1>1, <2>1 DEF DOf
<1>8. \A x \in Nat : n = "dcache" /\ Owner(x) = k => DOf(z, x) = c
  BY <1>1 DEF DOf
<1>9. LowBalance(z) <=> LowBalance(s)
  BY <1>1 DEF LowBalance
<1> QED  BY <1>2, <1>3, <1>4, <1>5, <1>6, <1>7, <1>8, <1>9 DEF L1SetSeen

LEMMA OwnerIsACore ==
    ASSUME SIM_MODE \in SIM_MODES, NEW x \in Nat
    PROVE  Owner(x) \in Cores
<1>1. CASE SIM_MODE = "DEF"
  BY <1>1, MemSysAssumption DEF Owner, Cores
<1>2. CASE SIM_MODE # "DEF"
  BY <1>2, ZeroIsACore DEF Owner
<1> QED  BY <1>1, <1>2

\* What an access of the second level leaves of the first.
L2StepSeen(s, t, z) ==
    /\ AllFine(z, t) /\ SamePolicies(s, z)
    /\ L1Faultless(z) <=> L1Faultless(s)
    /\ \A n \in L1s : \A k \in Cores : z[n][k] = s[n][k]
    /\ \A x \in Nat : DOf(z, x) = DOf(s, x)
    /\ Reads(z) = Reads(s) /\ Evicts(z) = Evicts(s)

LEMMA L2StepFacts ==
    ASSUME NEW s \in MemType, NEW l, NEW wb, NEW now, NEW data, NEW r, AllFine(s, now),
           L2Seen(s, l, wb, now, data, r)
    PROVE  L2StepSeen(s, now, r.sys)
<1>0. PICK z : z = r.sys
  OBVIOUS
<1>1. /\ z \in MemType /\ z.dcache = s.dcache /\ z.icache = s.icache
      /\ Fine(z.l2cache, now, Cores, TRUE)
      /\ z.l2cache.replacement_policy = s.l2cache.replacement_policy
  BY <1>0 DEF L2Seen
<1>2. z["dcache"] = s["dcache"] /\ z["icache"] = s["icache"]
  BY <1>1 DEF MemType
<1>3. \A n \in L1s : \A k \in Cores : z[n][k] = s[n][k]
  BY <1>2 DEF L1s
<1>4. AllFine(z, now)
  BY <1>1, <1>3 DEF AllFine
<1>5. SamePolicies(s, z)
  BY <1>1, <1>3 DEF SamePolicies
<1>6. L1Faultless(z) <=> L1Faultless(s)
  BY <1>3 DEF L1Faultless
<1>7. \A x \in Nat : DOf(z, x) = DOf(s, x)
  BY <1>2 DEF DOf
<1>8. Reads(z) = Reads(s) /\ Evicts(z) = Evicts(s)
  BY <1>2 DEF Reads, Evicts, MissesOf, EvictsOf
<1> QED  BY <1>0, <1>3, <1>4, <1>5, <1>6, <1>7, <1>8 DEF L2StepSeen

LEMMA CountTypes ==
    ASSUME NEW s \in MemType, NEW n \in L1s, NEW k \in Cores
    PROVE  Misses(s[n][k]) \in Nat /\ s[n][k].stat_dirty_evicts \in Nat
<1>1. s[n][k] \in L1Cache(n)
  BY L1Type
<1> QED  BY <1>1 DEF L1Cache, CacheOf, Misses

LEMMA L1Totals ==
    ASSUME NEW s \in MemType, NEW n \in L1s, NEW k \in Cores, NEW c, NEW z,
           L1SetTo(s, n, k, c, z), NEW m \in Nat, NEW e \in Nat,
           Misses(c) = Misses(s[n][k]) + m,
           n = "dcache" => c.stat_dirty_evicts = s[n][k].stat_dirty_evicts + e,
           n = "icache" => e = 0
    PROVE  Reads(z) = Reads(s) + m /\ Evicts(z) = Evicts(s) + e
<1> DEFINE D(y, j) == Misses(y["dcache"][j])
           I(y, j) == Misses(y["icache"][j])
           E(y, j) == y["dcache"][j].stat_dirty_evicts
<1>1. "dcache" \in L1s /\ "icache" \in L1s
  BY DEF L1s
<1>2. \A j \in Cores : D(s, j) \in Nat /\ I(s, j) \in Nat /\ E(s, j) \in Nat
  BY <1>1, CountTypes
<1>3. z[n][k] = c /\ \A o \in L1s : \A j \in Cores : o # n \/ j # k => z[o][j] = s[o][j]
  BY DEF L1SetTo
<1>4. \A j \in Cores : j # k => D(z, j) = D(s, j) /\ I(z, j) = I(s, j) /\ E(z, j) = E(s, j)
  BY <1>1, <1>3
<1>5. D(z, k) + I(z, k) = D(s, k) + I(s, k) + m /\ E(z, k) = E(s, k) + e
  <2>1. CASE n = "dcache"
    <3>1. D(z, k) = D(s, k) + m /\ E(z, k) = E(s, k) + e
      BY <1>3, <2>1
    <3>2. I(z, k) = I(s, k)
      BY <1>1, <1>3, <2>1
    <3> HIDE DEF D, I, E
    <3> QED  BY <1>2, <3>1, <3>2
  <2>2. CASE n = "icache"
    <3>1. I(z, k) = I(s, k) + m /\ e = 0
      BY <1>3, <2>2
    <3>2. D(z, k) = D(s, k) /\ E(z, k) = E(s, k)
      BY <1>1, <1>3, <2>2
    <3> HIDE DEF D, I, E
    <3> QED  BY <1>2, <3>1, <3>2
  <2> QED  BY <2>1, <2>2 DEF L1s
<1>6. \A j \in Cores : /\ MissesOf(z, j) = D(z, j) + I(z, j) /\ EvictsOf(z, j) = E(z, j)
                       /\ MissesOf(s, j) = D(s, j) + I(s, j) /\ EvictsOf(s, j) = E(s, j)
  BY DEF MissesOf, EvictsOf
<1> HIDE DEF D, I, E
<1>7. CASE NUM_CORES = 1
  <2>1. Cores = {0} /\ k = 0
    BY <1>7 DEF Cores
  <2> QED  BY <1>2, <1>5, <1>6, <1>7, <2>1 DEF Reads, Evicts
<1>8. CASE NUM_CORES # 1
  <2>1. Cores = {0, 1}
    BY <1>8, ZeroIsACore DEF Cores
  <2>2. CASE k = 0
    <3>1. D(z, 1) = D(s, 1) /\ I(z, 1) = I(s, 1) /\ E(z, 1) = E(s, 1)
      BY <1>4, <2>1, <2>2
    <3> QED  BY <1>2, <1>5, <1>6, <1>8, <2>1, <2>2, <3>1 DEF Reads, Evicts
  <2>3. CASE k = 1
    <3>1. D(z, 0) = D(s, 0) /\ I(z, 0) = I(s, 0) /\ E(z, 0) = E(s, 0)
      BY <1>4, <2>1, <2>3
    <3> QED  BY <1>2, <1>5, <1>6, <1>8, <2>1, <2>3, <3>1 DEF Reads, Evicts
  <2> QED  BY <2>1, <2>2, <2>3
<1> QED  BY <1>7, <1>8

\* The memory system is right but for line l, which a request is about to
\* install with this data.
Ready(s, l, is_write, data) ==
    /\ \A x \in Nat : x # l => Right(s, x)
    /\ is_write => data
    /\ ~ is_write => Right(s, l) /\ (AllCurrent(s.l2cache, l) => data)

\* A first-level cache c with line l installed, and the memory system z with
\* it, before the writeback.
L1InstallSeen(s, n, k, l, is_write, data, now, c, z) ==
    /\ z \in MemType /\ z.access = s.access /\ z.delay = s.delay /\ z.l2cache = s.l2cache
    /\ AllFine(z, now) /\ SamePolicies(s, z)
    /\ Suits(s[n][k].replacement_policy, WayCount(n), {k}) /\ L1Faultless(s) =>
           ~ c.fault /\ L1Faultless(z)
    /\ c.fault => ~ L1Faultless(z)
    /\ MustWriteBack(c) => /\ Evicted(c, l) \in Nat /\ Owner(Evicted(c, l)) = k
                           /\ c.last_evicted_line.current \in BOOLEAN
    /\ ~ c.fault =>
           /\ LowBalance(s) => LowBalance(z)
           /\ UpBalance(s) => /\ z.l2cache.stat_read_access = Reads(z)
                              /\ z.l2cache.stat_write_access
                                     + (IF MustWriteBack(c) THEN 1 ELSE 0) = Evicts(z)
           /\ Ready(s, l, is_write, data) =>
                  /\ \A x \in Nat : ~ (MustWriteBack(c) /\ x = Evicted(c, l)) => Right(z, x)
                  /\ MustWriteBack(c) => /\ c.last_evicted_line.current
                                         /\ AllCurrent(DOf(z, Evicted(c, l)), Evicted(c, l))
           /\ data /\ n = "dcache" =>
                  \A x \in Nat : x = l \/ AllCurrent(DOf(s, x), x) => AllCurrent(DOf(z, x), x)

LEMMA L1Installs ==
    ASSUME SIM_MODE \in SIM_MODES,
           NEW s \in MemType, NEW n \in L1s, NEW l \in Nat, NEW k \in Cores, k = Owner(l),
           NEW is_write \in BOOLEAN, is_write => n = "dcache", NEW now \in Nat,
           NEW data \in BOOLEAN, AllFine(s, now), Copies(s[n][k], l) = {},
           NEW c, c = cache_install(s[n][k], l, is_write, k, now, data),
           NEW z, z = WithL1(s, n, k, c)
    PROVE  L1InstallSeen(s, n, k, l, is_write, data, now, c, z)
<1>1. PICK b : b = s[n][k]
  OBVIOUS
<1>2. PICK N, A : N = SetCount(n) /\ A = WayCount(n)
  OBVIOUS
<1>3. N \in Nat \ {0} /\ A \in Nat \ {0} /\ L1Cache(n) = CacheOf(N, A)
  BY <1>2, L1Shape DEF L1Cache
<1>4. b \in CacheOf(N, A)
  BY <1>1, <1>3, L1Type
<1>5. PICK m \in BOOLEAN : m <=> n = "dcache"
  OBVIOUS
<1>6. PICK O : O = {k}
  OBVIOUS
<1>7. Fine(b, now, O, m)
  <2>1. Fine(s[n][k], now, {k}, IsWritten(n))
    BY DEF AllFine
  <2>2. m = IsWritten(n)
    BY <1>5 DEF IsWritten
  <2> QED  BY <1>1, <1>6, <2>1, <2>2
<1>8. PICK w : w = Victim(b, l, k)
  OBVIOUS
<1>9. /\ w \in (0 .. A - 1) \cup {NoWay}
      /\ c \in CacheOf(N, A) /\ c.index_span = b.index_span
      /\ c.replacement_policy = b.replacement_policy
      /\ Misses(c) = Misses(b)
      /\ w = NoWay => c.fault = TRUE /\ c.sets = b.sets
      /\ w \in 0 .. A - 1 =>
             /\ c.fault = b.fault
             /\ c.stat_dirty_evicts =
                    b.stat_dirty_evicts
                    + (IF c.last_evicted_line.valid /\ c.last_evicted_line.dirty THEN 1 ELSE 0)
  <2>1. InstallOutcome(N, A, b, l, is_write, k, now, data, c)
    BY <1>1, <1>3, <1>4, InstallFacts
  <2> QED  BY <1>8, <2>1 DEF InstallOutcome
<1>10. w \in 0 .. A - 1 => InstallSeen(b, l, is_write, now, data, O, m, c)
  <2> SUFFICES ASSUME w \in 0 .. A - 1 PROVE InstallSeen(b, l, is_write, now, data, O, m, c)
    OBVIOUS
  <2>1. Victim(b, l, k) \in 0 .. A - 1 /\ (is_write => m) /\ k \in O /\ Copies(b, l) = {}
    BY <1>1, <1>5, <1>6, <1>8
  <2>2. InstallSeen(b, l, is_write, now, data, O, m,
                    cache_install(b, l, is_write, k, now, data))
    BY <1>3, <1>4, <1>7, <2>1, InstallView
  <2> QED  BY <1>1, <2>2
<1>11. Fine(c, now, O, m)
  <2>1. CASE w = NoWay
    BY <1>3, <1>4, <1>7, <1>9, <2>1, SameSets
  <2>2. CASE w \in 0 .. A - 1
    BY <1>10, <2>2 DEF InstallSeen
  <2> QED  BY <1>9, <2>1, <2>2
<1>12. Suits(b.replacement_policy, A, O) => w \in 0 .. A - 1
  <2> SUFFICES ASSUME Suits(b.replacement_policy, A, O) PROVE w \in 0 .. A - 1
    OBVIOUS
  <2>1. O \in {{0}, {1}, {0, 1}} /\ k \in O
    BY <1>6, ZeroIsACore
  <2>2. Victim(b, l, k) \in 0 .. A - 1
    BY <1>3, <1>4, <1>7, <2>1, VictimIsThere
  <2> QED  BY <1>8, <2>2
<1>13. L1SetTo(s, n, k, c, z)
  BY <1>3, <1>9, L1Put
<1>14. \A x \in Nat : Owner(x) \in Cores
  BY OwnerIsACore
<1>15. L1SetSeen(s, n, k, c, now, z)
  BY <1>3, <1>9, <1>13, <1>14, L1SetFacts
<1>16. /\ z \in MemType /\ z.access = s.access /\ z.delay = s.delay /\ z.l2cache = s.l2cache
       /\ AllFine(z, now) /\ SamePolicies(s, z)
       /\ L1Faultless(s) /\ ~ c.fault => L1Faultless(z)
       /\ c.fault => ~ L1Faultless(z)
  <2>1. Fine(c, now, {k}, IsWritten(n))
    <3>1. m = IsWritten(n)
      BY <1>5 DEF IsWritten
    <3> QED  BY <1>6, <1>11, <3>1
  <2> QED  BY <1>1, <1>9, <1>13, <1>15, <2>1 DEF L1SetTo, L1SetSeen
<1>17. Suits(s[n][k].replacement_policy, WayCount(n), {k}) /\ L1Faultless(s) =>
           ~ c.fault /\ L1Faultless(z)
  <2> SUFFICES ASSUME Suits(s[n][k].replacement_policy, WayCount(n), {k}), L1Faultless(s)
               PROVE  ~ c.fault
    BY <1>16
  <2>1. w \in 0 .. A - 1
    BY <1>1, <1>2, <1>6, <1>12
  <2>2. ~ b.fault
    BY <1>1 DEF L1Faultless
  <2> QED  BY <1>9, <2>1, <2>2
<1>18. ~ c.fault => w \in 0 .. A - 1
  BY <1>9
<1> DEFINE old == c.last_evicted_line
           e == Evicted(c, l)
<1>19. ~ c.fault =>
           /\ HasDirty(c, l) <=> is_write
           /\ AllCurrent(c, l) <=> data
           /\ old.dirty => old.valid /\ n = "dcache"
           /\ old.valid => /\ e # l /\ e \in Nat /\ Owner(e) = k /\ Copies(c, e) = {}
                           /\ AllCurrent(b, e) <=> old.current
                           /\ HasDirty(b, e) <=> old.dirty
           /\ \A u \in Nat : u # l /\ (old.valid => u # e) => Same(b, c, u)
  BY <1>5, <1>6, <1>10, <1>18 DEF InstallSeen
<1>20. MustWriteBack(c) => ~ c.fault /\ old.dirty /\ old.valid
  BY DEF MustWriteBack
<1>21. ~ c.fault => (MustWriteBack(c) <=> old.dirty)
  BY <1>19 DEF MustWriteBack
<1>22. old.current \in BOOLEAN
  BY <1>9 DEF CacheOf, Line
<1> HIDE DEF old, e
<1>23. MustWriteBack(c) => e \in Nat /\ Owner(e) = k
  BY <1>19, <1>20
<1>24. ASSUME ~ c.fault, LowBalance(s) PROVE LowBalance(z)
  BY <1>15, <1>24 DEF L1SetSeen
<1>25. ASSUME ~ c.fault, UpBalance(s)
       PROVE  /\ z.l2cache.stat_read_access = Reads(z)
              /\ z.l2cache.stat_write_access + (IF MustWriteBack(c) THEN 1 ELSE 0) = Evicts(z)
  <2>1. PICK o \in Nat : o = IF MustWriteBack(c) THEN 1 ELSE 0
    OBVIOUS
  <2>2. c.stat_dirty_evicts = b.stat_dirty_evicts + o
    BY <1>9, <1>18, <1>19, <1>21, <1>25, <2>1 DEF old
  <2>3. n = "icache" => o = 0
    BY <1>19, <1>21, <1>25, <2>1
  <2>4. Misses(c) = Misses(b) + 0
    <3>1. Misses(b) \in Nat
      BY <1>1, CountTypes
    <3> QED  BY <1>9, <3>1
  <2>5. Reads(z) = Reads(s) + 0 /\ Evicts(z) = Evicts(s) + o
    <3>1. PICK y \in Nat : y = 0
      OBVIOUS
    <3>2. Misses(c) = Misses(s[n][k]) + y
      BY <1>1, <2>4, <3>1
    <3>3. c.stat_dirty_evicts = s[n][k].stat_dirty_evicts + o
      BY <1>1, <2>2
    <3>4. Reads(z) = Reads(s) + y /\ Evicts(z) = Evicts(s) + o
      BY <1>13, <2>3, <3>2, <3>3, L1Totals
    <3> QED  BY <3>1, <3>4
  <2>6. s.l2cache.stat_read_access \in Nat
    BY DEF MemType, L2Cache, CacheOf
  <2> QED  BY <1>16, <1>25, <2>1, <2>5, <2>6 DEF UpBalance
<1>26. ASSUME ~ c.fault, Ready(s, l, is_write, data), MustWriteBack(c)
       PROVE  old.current /\ AllCurrent(DOf(z, e), e)
  <2>1. n = "dcache" /\ e \in Nat /\ e # l /\ Owner(e) = k /\ Copies(c, e) = {}
        /\ (AllCurrent(b, e) <=> old.current)
    BY <1>19, <1>20, <1>26
  <2>2. Right(s, e) /\ DOf(s, e) = b
    BY <1>1, <1>26, <2>1 DEF Ready, DOf
  <2>3. DOf(z, e) = c
    BY <1>15, <2>1 DEF L1SetSeen
  <2>4. AllCurrent(c, e)
    BY <2>1 DEF AllCurrent
  <2> QED  BY <2>1, <2>2, <2>3, <2>4 DEF Right
<1>27. ASSUME ~ c.fault, Ready(s, l, is_write, data), NEW x \in Nat,
              ~ (MustWriteBack(c) /\ x = e)
       PROVE  Right(z, x)
  <2>1. Below(z, x) <=> Below(s, x)
    BY <1>15 DEF L1SetSeen
  <2>2. CASE n = "icache" \/ Owner(x) # k
    <3>1. DOf(z, x) = DOf(s, x)
      BY <1>15, <2>2 DEF L1SetSeen
    <3>2. n = "icache" => ~ is_write
      OBVIOUS
    <3>3. Right(s, x)
      <4>1. CASE x # l
        BY <1>27, <4>1 DEF Ready
      <4>2. CASE x = l
        BY <1>27, <2>2, <3>2, <4>2 DEF Ready
      <4> QED  BY <4>1, <4>2
    <3> QED  BY <2>1, <3>1, <3>3 DEF Right
  <2>3. CASE n = "dcache" /\ Owner(x) = k
    <3>1. DOf(z, x) = c /\ DOf(s, x) = b
      <4>1. DOf(z, x) = c
        BY <1>15, <2>3 DEF L1SetSeen
      <4> QED  BY <1>1, <2>3, <4>1 DEF DOf
    <3>2. CASE x = l
      <4>1. is_write => AllCurrent(c, x) /\ HasDirty(c, x)
        BY <1>19, <1>27, <3>2 DEF Ready
      <4>2. ASSUME ~ is_write PROVE AllCurrent(c, x) /\ Below(z, x)
        <5>1. Right(s, l) /\ (AllCurrent(s.l2cache, l) => data)
          BY <1>27, <4>2 DEF Ready
        <5>2. ~ HasDirty(b, l)
          BY <1>1 DEF HasDirty
        <5>3. Below(s, l)
          BY <3>1, <3>2, <5>1, <5>2 DEF Right
        <5>4. AllCurrent(s.l2cache, l)
          BY <5>3 DEF Below
        <5> QED  BY <1>19, <1>27, <2>1, <3>2, <5>1, <5>3, <5>4
      <4> QED  BY <3>1, <4>1, <4>2 DEF Right
    <3>3. CASE x # l /\ old.valid /\ x = e
      <4>1. ~ old.dirty
        BY <1>21, <1>27, <3>3
      <4>2. Right(s, x)
        BY <1>27, <3>3 DEF Ready
      <4>3. ~ HasDirty(b, x)
        BY <1>19, <1>27, <3>3, <4>1
      <4>4. Below(z, x)
        BY <2>1, <3>1, <4>2, <4>3 DEF Right
      <4>5. AllCurrent(c, x)
        <5>1. Copies(c, x) = {}
          BY <1>19, <1>27, <3>3
        <5> QED  BY <5>1 DEF AllCurrent
      <4> QED  BY <3>1, <4>4, <4>5 DEF Right
    <3>4. CASE x # l /\ ~ (old.valid /\ x = e)
      <4>1. Same(b, c, x)
        BY <1>19, <1>27, <3>4
      <4>2. Right(s, x)
        BY <1>27, <3>4 DEF Ready
      <4> QED  BY <2>1, <3>1, <4>1, <4>2 DEF Right, Same
    <3> QED  BY <3>2, <3>3, <3>4
  <2> QED  BY <2>2, <2>3 DEF L1s
<1>28. ASSUME ~ c.fault, data, n = "dcache", NEW x \in Nat, x = l \/ AllCurrent(DOf(s, x), x)
       PROVE  AllCurrent(DOf(z, x), x)
  <2>1. CASE Owner(x) # k
    <3>1. DOf(z, x) = DOf(s, x) /\ x # l
      BY <1>15, <2>1 DEF L1SetSeen
    <3> QED  BY <1>28, <3>1
  <2>2. CASE Owner(x) = k
    <3>1. DOf(z, x) = c /\ DOf(s, x) = b
      <4>1. DOf(z, x) = c
        BY <1>15, <1>28, <2>2 DEF L1SetSeen
      <4> QED  BY <1>1, <1>28, <2>2, <4>1 DEF DOf
    <3>2. CASE x = l
      BY <1>19, <1>28, <3>1, <3>2
    <3>3. CASE x # l /\ old.valid /\ x = e
      <4>1. Copies(c, x) = {}
        BY <1>19, <1>28, <3>3
      <4> QED  BY <3>1, <4>1 DEF AllCurrent
    <3>4. CASE x # l /\ ~ (old.valid /\ x = e)
      <4>1. Same(b, c, x)
        BY <1>19, <1>28, <3>4
      <4> QED  BY <1>28, <3>1, <3>4, <4>1 DEF Same
    <3> QED  BY <3>2, <3>3, <3>4
  <2> QED  BY <2>1, <2>2
<1> QED
  <2>1. MustWriteBack(c) => /\ Evicted(c, l) \in Nat /\ Owner(Evicted(c, l)) = k
                            /\ c.last_evicted_line.current \in BOOLEAN
    BY <1>22, <1>23 DEF old, e
  <2>2. ~ c.fault /\ Ready(s, l, is_write, data) =>
            /\ \A x \in Nat : ~ (MustWriteBack(c) /\ x = Evicted(c, l)) => Right(z, x)
            /\ MustWriteBack(c) => /\ c.last_evicted_line.current
                                   /\ AllCurrent(DOf(z, Evicted(c, l)), Evicted(c, l))
    BY <1>26, <1>27 DEF old, e
  <2> QED  BY <1>16, <1>17, <1>24, <1>25, <1>28, <2>1, <2>2 DEF L1InstallSeen

-----------------------------------------------------------------------------
(* A whole access. *)

Requests == [line : Nat, type : ACCESS_TYPES, core_id : Cores, now : Nat]

\* z is what an access leaves of s, before it is counted.
Balanced(s)  == LowBalance(s) /\ UpBalance(s)
AllRight(s)  == \A x \in Nat : Right(s, x)
SystemSeen(s, now, z) ==
    /\ z \in MemType /\ z.access = s.access /\ z.delay = s.delay
    /\ AllFine(z, now) /\ SamePolicies(s, z)
    /\ AllSuit(s) /\ ~ Fault(s) => ~ Fault(z)
    /\ SIM_MODE # "A" /\ ~ Fault(z) /\ Balanced(s) => Balanced(z)

LEMMA L1FilledView ==
    ASSUME SIM_MODE \in SIM_MODES,
           NEW s \in MemType, NEW q \in Requests, NEW n \in L1s, n = Level1(q),
           NEW k \in Cores, k = q.core_id, k = Owner(q.line),
           IsWrite(q) => n = "dcache", NEW data \in BOOLEAN,
           AllFine(s, q.now), Copies(s[n][k], q.line) = {}, ~ s.l2cache.fault,
           NEW z, z = L1Filled(s, q, k, cache_install(s[n][k], q.line, IsWrite(q), q.core_id,
                                                      q.now, data))
    PROVE  /\ SystemSeen(s, q.now, z)
           /\ Ready(s, q.line, IsWrite(q), data) /\ ~ Fault(z) => AllRight(z)
<1>1. PICK c : c = cache_install(s[n][k], q.line, IsWrite(q), q.core_id, q.now, data)
  OBVIOUS
<1>2. PICK y : y = WithL1(s, n, k, c)
  OBVIOUS
<1>3. PICK l \in Nat : l = q.line
  BY DEF Requests
<1>4. PICK now \in Nat : now = q.now
  BY DEF Requests
<1>5. PICK w \in BOOLEAN : w = IsWrite(q)
  BY DEF IsWrite
<1>6. L1InstallSeen(s, n, k, l, w, data, now, c, y)
  <2>1. c = cache_install(s[n][k], l, w, k, now, data)
    BY <1>1, <1>3, <1>4, <1>5
  <2>2. /\ w => n = "dcache"
        /\ AllFine(s, now) /\ Copies(s[n][k], l) = {} /\ k = Owner(l)
    BY <1>3, <1>4, <1>5
  <2> QED  BY <1>2, <2>1, <2>2, L1Installs
<1>7. /\ y \in MemType /\ y.access = s.access /\ y.delay = s.delay /\ y.l2cache = s.l2cache
      /\ AllFine(y, now) /\ SamePolicies(s, y)
      /\ Suits(s[n][k].replacement_policy, WayCount(n), {k}) /\ L1Faultless(s) =>
             ~ c.fault /\ L1Faultless(y)
      /\ c.fault => ~ L1Faultless(y)
      /\ MustWriteBack(c) => /\ Evicted(c, l) \in Nat /\ Owner(Evicted(c, l)) = k
                             /\ c.last_evicted_line.current \in BOOLEAN
      /\ ~ c.fault =>
             /\ LowBalance(s) => LowBalance(y)
             /\ UpBalance(s) => /\ y.l2cache.stat_read_access = Reads(y)
                                /\ y.l2cache.stat_write_access
                                       + (IF MustWriteBack(c) THEN 1 ELSE 0) = Evicts(y)
             /\ Ready(s, l, w, data) =>
                    /\ \A x \in Nat : ~ (MustWriteBack(c) /\ x = Evicted(c, l)) => Right(y, x)
                    /\ MustWriteBack(c) => /\ c.last_evicted_line.current
                                           /\ AllCurrent(DOf(y, Evicted(c, l)), Evicted(c, l))
  BY <1>6 DEF L1InstallSeen
<1>8. AllSuit(s) /\ ~ Fault(s) => ~ c.fault /\ L1Faultless(y)
  <2>1. AllSuit(s) => Suits(s[n][k].replacement_policy, WayCount(n), {k})
    BY DEF AllSuit
  <2>2. ~ Fault(s) => L1Faultless(s)
    BY NoFault
  <2> QED  BY <1>7, <2>1, <2>2
<1>9. z = WriteBackL1(y, c, q)
  BY <1>1, <1>2 DEF L1Filled, WithL1
<1>10. CASE ~ MustWriteBack(c)
  <2>1. z = y
    BY <1>9, <1>10 DEF WriteBackL1
  <2>2. Fault(y) <=> ~ L1Faultless(y)
    BY <1>7, NoFault
  <2>3. ~ Fault(y) /\ Balanced(s) => Balanced(y)
    <3> SUFFICES ASSUME ~ Fault(y), Balanced(s) PROVE Balanced(y)
      OBVIOUS
    <3>1. ~ c.fault /\ LowBalance(s) /\ UpBalance(s)
      BY <1>7, <2>2 DEF Balanced
    <3>2. y.l2cache.stat_write_access \in Nat
      BY <1>7 DEF MemType, L2Cache, CacheOf
    <3> QED  BY <1>7, <1>10, <3>1, <3>2 DEF Balanced, UpBalance
  <2>4. SystemSeen(s, now, y)
    BY <1>7, <1>8, <2>2, <2>3 DEF SystemSeen
  <2>5. Ready(s, l, w, data) /\ ~ Fault(y) => AllRight(y)
    BY <1>7, <1>10, <2>2 DEF AllRight
  <2> QED  BY <1>3, <1>4, <1>5, <2>1, <2>4, <2>5
<1>11. CASE MustWriteBack(c)
  <2>1. PICK e \in Nat : e = Evicted(c, l) /\ Owner(e) = k
    BY <1>7, <1>11
  <2>2. PICK v \in BOOLEAN : v = c.last_evicted_line.current
    BY <1>7, <1>11
  <2>3. PICK r : r = memsys_l2_access(y, e, TRUE, k, now, v)
    OBVIOUS
  <2>4. z = r.sys
    <3>1. e = EvictedAddr(c, q.line)
      BY <1>3, <2>1 DEF Evicted, EvictedAddr
    <3> QED  BY <1>4, <1>9, <1>11, <2>2, <2>3, <3>1 DEF WriteBackL1
  <2>5. PICK t \in BOOLEAN : t = TRUE
    OBVIOUS
  <2>6. L2Seen(y, e, t, now, v, r)
    <3>1. Fine(y.l2cache, now, Cores, TRUE) /\ r = memsys_l2_access(y, e, t, k, now, v)
      BY <1>7, <2>3, <2>5 DEF AllFine
    <3> QED  BY <1>7, <2>1, <3>1, L2View
  <2>7. /\ z \in MemType /\ z.access = y.access /\ z.delay = y.delay
        /\ Suits(y.l2cache.replacement_policy, L2CACHE_ASSOC, Cores) /\ ~ y.l2cache.fault =>
               ~ z.l2cache.fault
        /\ z.l2cache.stat_read_access = y.l2cache.stat_read_access + 0
        /\ z.l2cache.stat_write_access = y.l2cache.stat_write_access + 1
        /\ ~ z.l2cache.fault =>
               /\ LowBalance(y) => LowBalance(z)
               /\ v => \A x \in Nat : Below(y, x) \/ x = e => Below(z, x)
    BY <2>4, <2>5, <2>6 DEF L2Seen
  <2>8. L2StepSeen(y, now, z)
    BY <1>7, <2>4, <2>6, L2StepFacts
  <2>9. /\ AllFine(z, now) /\ SamePolicies(y, z)
        /\ L1Faultless(z) <=> L1Faultless(y)
        /\ \A x \in Nat : DOf(z, x) = DOf(y, x)
        /\ Reads(z) = Reads(y) /\ Evicts(z) = Evicts(y)
    BY <2>8 DEF L2StepSeen
  <2>10. SamePolicies(s, z)
    BY <1>7, <2>9 DEF SamePolicies
  <2>11. ~ Fault(z) <=> L1Faultless(y) /\ ~ z.l2cache.fault
    BY <2>7, <2>9, NoFault
  <2>12. AllSuit(s) /\ ~ Fault(s) => ~ Fault(z)
    <3>1. AllSuit(s) => Suits(y.l2cache.replacement_policy, L2CACHE_ASSOC, Cores)
      BY <1>7 DEF AllSuit
    <3> QED  BY <1>7, <1>8, <2>7, <2>11, <3>1
  <2>13. ASSUME ~ Fault(z), Balanced(s) PROVE Balanced(z)
    <3>1. ~ c.fault /\ LowBalance(s) /\ UpBalance(s)
      BY <1>7, <2>11, <2>13 DEF Balanced
    <3>2. LowBalance(z)
      BY <1>7, <2>7, <2>11, <2>13, <3>1
    <3>3. y.l2cache.stat_read_access \in Nat
      BY <1>7 DEF MemType, L2Cache, CacheOf
    <3>4. UpBalance(z)
      BY <1>7, <1>11, <2>7, <2>9, <3>1, <3>3 DEF UpBalance
    <3> QED  BY <3>2, <3>4 DEF Balanced
  <2>14. ASSUME Ready(s, l, w, data), ~ Fault(z) PROVE AllRight(z)
    <3>1. /\ \A x \in Nat : x # e => Right(y, x)
          /\ v /\ AllCurrent(DOf(y, e), e)
      BY <1>7, <1>11, <2>1, <2>2, <2>11, <2>14
    <3>2. \A x \in Nat : Below(y, x) \/ x = e => Below(z, x)
      BY <2>7, <2>11, <2>14, <3>1
    <3>3. ASSUME NEW x \in Nat PROVE Right(z, x)
      <4>1. CASE x = e
        BY <2>9, <3>1, <3>2, <4>1 DEF Right
      <4>2. CASE x # e
        BY <2>9, <3>1, <3>2, <4>2 DEF Right
      <4> QED  BY <4>1, <4>2
    <3> QED  BY <3>3 DEF AllRight
  <2>15. SystemSeen(s, now, z)
    BY <1>7, <2>7, <2>9, <2>10, <2>12, <2>13 DEF SystemSeen
  <2> QED  BY <1>3, <1>4, <1>5, <2>14, <2>15
<1> QED  BY <1>10, <1>11

\* A store outdates all copies of its line but changes nothing else.
OutdatedAll(s, q, z) ==
    /\ z \in MemType /\ z.access = s.access /\ z.delay = s.delay
    /\ AllFine(s, q.now) => AllFine(z, q.now)
    /\ SamePolicies(s, z)
    /\ Fault(z) <=> Fault(s)
    /\ z.l2cache.fault <=> s.l2cache.fault
    /\ Balanced(s) => Balanced(z)
    /\ \A x \in Nat : Copies(z.l2cache, x) = Copies(s.l2cache, x)
    /\ \A x \in Nat : ~ IsWrite(q) \/ x # q.line =>
           /\ Right(s, x) => Right(z, x)
           /\ AllCurrent(DOf(s, x), x) => AllCurrent(DOf(z, x), x)

LEMMA OutdatedAllView ==
    ASSUME SIM_MODE \in SIM_MODES, NEW s \in MemType, NEW q \in Requests
    PROVE  OutdatedAll(s, q, Outdated(s, q))
<1>0. PICK z : z = Outdated(s, q)
  OBVIOUS
<1> SUFFICES OutdatedAll(s, q, z)
  BY <1>0
<1>1. CASE ~ IsWrite(q)
  <2>1. z = s
    BY <1>0, <1>1 DEF Outdated
  <2> QED  BY <2>1 DEF OutdatedAll, SamePolicies
<1>2. CASE IsWrite(q)
  <2>1. PICK l \in Nat : l = q.line
    BY DEF Requests
  <2>2. PICK D, I, L : /\ D = [k \in Cores |-> OutdatedIn(s.dcache[k], l)]
                       /\ I = [k \in Cores |-> OutdatedIn(s.icache[k], l)]
                       /\ L = OutdatedIn(s.l2cache, l)
    OBVIOUS
  <2>3. PICK m : m = [s.dram EXCEPT !.stale = @ \cup {l}]
    OBVIOUS
  <2>4. z = [s EXCEPT !.dcache = D, !.icache = I, !.l2cache = L, !.dram = m]
    BY <1>0, <1>2, <2>1, <2>2, <2>3 DEF Outdated, MemType
  <2>5. ASSUME NEW n \in L1s, NEW k \in Cores
        PROVE  OutdatedSeen(SetCount(n), WayCount(n), s[n][k], l, OutdatedIn(s[n][k], l))
    <3>1. s[n][k] \in CacheOf(SetCount(n), WayCount(n))
      BY L1Type DEF L1Cache
    <3> QED  BY <3>1, L1Shape, OutdatedView
  <2>6. OutdatedSeen(LSets, L2CACHE_ASSOC, s.l2cache, l, L)
    <3>1. PICK c : c = s.l2cache
      OBVIOUS
    <3>2. c \in CacheOf(LSets, L2CACHE_ASSOC)
      BY <3>1 DEF MemType, L2Cache
    <3> QED  BY <2>2, <3>1, <3>2, Shapes, OutdatedView
  <2>7. s["dcache"] = s.dcache /\ s["icache"] = s.icache
    BY DEF MemType
  <2>8. D \in DCaches
    <3>1. ASSUME NEW k \in Cores PROVE OutdatedIn(s.dcache[k], l) \in CacheOf(DSets, DCACHE_ASSOC)
      <4>1. PICK n \in L1s : n = "dcache"
        BY DEF L1s
      <4>2. OutdatedIn(s[n][k], l) \in CacheOf(SetCount(n), WayCount(n))
        BY <2>5 DEF OutdatedSeen
      <4> QED  BY <2>7, <4>1, <4>2 DEF SetCount, WayCount
    <3> QED  BY <2>2, <3>1 DEF DCaches
  <2>9. I \in ICaches
    <3>1. ASSUME NEW k \in Cores PROVE OutdatedIn(s.icache[k], l) \in CacheOf(ISets, ICACHE_ASSOC)
      <4>1. PICK n \in L1s : n = "icache"
        BY DEF L1s
      <4>2. OutdatedIn(s[n][k], l) \in CacheOf(SetCount(n), WayCount(n))
        BY <2>5 DEF OutdatedSeen
      <4> QED  BY <2>7, <4>1, <4>2 DEF SetCount, WayCount
    <3> QED  BY <2>2, <3>1 DEF ICaches
  <2>10. /\ m \in DramType /\ m.stale = s.dram.stale \cup {l}
         /\ m.stat_read_access = s.dram.stat_read_access
         /\ m.stat_write_access = s.dram.stat_write_access
    <3>1. PICK d \in DramType : d = s.dram
      BY DEF MemType
    <3> QED  BY <2>3, <3>1 DEF DramType
  <2>11. L \in L2Cache
    BY <2>6 DEF OutdatedSeen, L2Cache
  <2>12. /\ z \in MemType /\ z.access = s.access /\ z.delay = s.delay
         /\ z.dcache = D /\ z.icache = I /\ z.l2cache = L /\ z.dram = m
    BY <2>4, <2>8, <2>9, <2>10, <2>11 DEF MemType
  <2>13. ASSUME NEW n \in L1s, NEW k \in Cores PROVE z[n][k] = OutdatedIn(s[n][k], l)
    <3>1. z["dcache"] = D /\ z["icache"] = I
      BY <2>12 DEF MemType
    <3> QED  BY <2>2, <2>7, <3>1 DEF L1s
  <2>14. ASSUME NEW n \in L1s, NEW k \in Cores
         PROVE  OutdatedSeen(SetCount(n), WayCount(n), s[n][k], l, z[n][k])
    BY <2>5, <2>13
  <2>15. ASSUME AllFine(s, q.now) PROVE AllFine(z, q.now)
    <3>1. ASSUME NEW n \in L1s, NEW k \in Cores PROVE Fine(z[n][k], q.now, {k}, IsWritten(n))
      <4>1. PICK O, v : O = {k} /\ v = IsWritten(n)
        OBVIOUS
      <4>2. Fine(s[n][k], q.now, O, v)
        BY <2>15, <4>1 DEF AllFine
      <4>3. Fine(z[n][k], q.now, O, v)
        BY <2>14, <4>2 DEF OutdatedSeen
      <4> QED  BY <4>1, <4>3
    <3>2. Fine(z.l2cache, q.now, Cores, TRUE)
      <4>1. PICK v : v = TRUE
        OBVIOUS
      <4>2. Fine(s.l2cache, q.now, Cores, v)
        BY <2>15, <4>1 DEF AllFine
      <4>3. Fine(L, q.now, Cores, v)
        BY <2>6, <4>2 DEF OutdatedSeen
      <4> QED  BY <2>12, <4>1, <4>3
    <3> QED  BY <3>1, <3>2 DEF AllFine
  <2>16. SamePolicies(s, z)
    BY <2>6, <2>12, <2>14 DEF OutdatedSeen, SamePolicies
  <2>17. z.l2cache.fault <=> s.l2cache.fault
    BY <2>6, <2>12 DEF OutdatedSeen
  <2>18. L1Faultless(z) <=> L1Faultless(s)
    BY <2>14 DEF OutdatedSeen, L1Faultless
  <2>19. Fault(z) <=> Fault(s)
    BY <2>12, <2>17, <2>18, NoFault
  <2>20. Balanced(s) => Balanced(z)
    <3>1. \A n \in L1s : \A k \in Cores : /\ Misses(z[n][k]) = Misses(s[n][k])
                                          /\ z[n][k].stat_dirty_evicts = s[n][k].stat_dirty_evicts
      BY <2>14 DEF OutdatedSeen
    <3>2. "dcache" \in L1s /\ "icache" \in L1s
      BY DEF L1s
    <3>3. \A k \in Cores : MissesOf(z, k) = MissesOf(s, k) /\ EvictsOf(z, k) = EvictsOf(s, k)
      BY <3>1, <3>2 DEF MissesOf, EvictsOf
    <3>4. 0 \in Cores /\ (NUM_CORES # 1 => 1 \in Cores)
      BY ZeroIsACore DEF Cores
    <3>5. Reads(z) = Reads(s) /\ Evicts(z) = Evicts(s)
      BY <3>3, <3>4 DEF Reads, Evicts
    <3>6. /\ z.l2cache.stat_read_access = s.l2cache.stat_read_access
          /\ z.l2cache.stat_write_access = s.l2cache.stat_write_access
          /\ z.l2cache.stat_dirty_evicts = s.l2cache.stat_dirty_evicts
          /\ Misses(z.l2cache) = Misses(s.l2cache)
      BY <2>6, <2>12 DEF OutdatedSeen
    <3> QED  BY <2>10, <2>12, <3>5, <3>6 DEF Balanced, LowBalance, UpBalance
  <2>21. \A x \in Nat : Copies(z.l2cache, x) = Copies(s.l2cache, x)
    BY <2>6, <2>12 DEF OutdatedSeen
  <2>22. ASSUME NEW x \in Nat, x # q.line
         PROVE  /\ Right(s, x) => Right(z, x)
                /\ AllCurrent(DOf(s, x), x) => AllCurrent(DOf(z, x), x)
    <3>1. /\ AllCurrent(DOf(z, x), x) <=> AllCurrent(DOf(s, x), x)
          /\ HasDirty(DOf(z, x), x) <=> HasDirty(DOf(s, x), x)
      <4>1. PICK n \in L1s : n = "dcache"
        BY DEF L1s
      <4>2. Owner(x) \in Cores
        BY OwnerIsACore
      <4> QED  BY <2>1, <2>14, <2>22, <4>1, <4>2 DEF OutdatedSeen, DOf
    <3>2. /\ AllCurrent(z.l2cache, x) <=> AllCurrent(s.l2cache, x)
          /\ HasDirty(z.l2cache, x) <=> HasDirty(s.l2cache, x)
      BY <2>1, <2>6, <2>12, <2>22 DEF OutdatedSeen
    <3>3. x \in z.dram.stale <=> x \in s.dram.stale
      BY <2>1, <2>10, <2>12, <2>22
    <3> QED  BY <3>1, <3>2, <3>3 DEF Right, Below
  <2> QED  BY <1>2, <2>12, <2>15, <2>16, <2>17, <2>19, <2>20, <2>21, <2>22 DEF OutdatedAll
<1> QED  BY <1>1, <1>2

\* Access a of a first-level cache leaves the memory system z.
L1AccessSeen(s, n, k, l, is_write, data, now, a, z) ==
    /\ z \in MemType /\ z.access = s.access /\ z.delay = s.delay /\ z.l2cache = s.l2cache
    /\ AllFine(z, now) /\ SamePolicies(s, z)
    /\ Fault(z) <=> Fault(s)
    /\ LowBalance(s) => LowBalance(z)
    /\ Reads(z) = Reads(s) + (IF a.hit THEN 0 ELSE 1) /\ Evicts(z) = Evicts(s)
    /\ ~ a.hit => Copies(z[n][k], l) = {}
    /\ \A x \in Nat : x # l \/ ~ is_write \/ ~ a.hit =>
           /\ Right(s, x) => Right(z, x)
           /\ AllCurrent(DOf(s, x), x) => AllCurrent(DOf(z, x), x)
    /\ is_write /\ a.hit /\ data => Right(z, l) /\ AllCurrent(DOf(z, l), l)

LEMMA L1AccessView ==
    ASSUME SIM_MODE \in SIM_MODES,
           NEW s \in MemType, NEW n \in L1s, NEW l \in Nat, NEW k \in Cores, k = Owner(l),
           NEW is_write \in BOOLEAN, is_write => n = "dcache", NEW now \in Nat,
           AllFine(s, now), NEW data \in BOOLEAN,
           NEW a, a = cache_access(s[n][k], l, is_write, k, now, data),
           NEW z, z = WithL1(s, n, k, a.cache)
    PROVE  L1AccessSeen(s, n, k, l, is_write, data, now, a, z)
<1>1. PICK b : b = s[n][k]
  OBVIOUS
<1>2. PICK N, A : N = SetCount(n) /\ A = WayCount(n)
  OBVIOUS
<1>3. N \in Nat \ {0} /\ A \in Nat \ {0} /\ L1Cache(n) = CacheOf(N, A)
  BY <1>2, L1Shape DEF L1Cache
<1>4. b \in CacheOf(N, A)
  BY <1>1, <1>3, L1Type
<1>5. PICK m \in BOOLEAN : m <=> n = "dcache"
  OBVIOUS
<1>6. PICK O : O = {k}
  OBVIOUS
<1>7. Fine(b, now, O, m)
  <2>1. Fine(s[n][k], now, {k}, IsWritten(n))
    BY DEF AllFine
  <2>2. m = IsWritten(n)
    BY <1>5 DEF IsWritten
  <2> QED  BY <1>1, <1>6, <2>1, <2>2
<1>9. a = cache_access(b, l, is_write, k, now, data)
  BY <1>1
<1>10. PICK c : c = a.cache
  OBVIOUS
<1>11. HitWays(b, l, k) = Copies(b, l)
  BY <1>3, <1>4, <1>7, HitsAreCopies
<1>12. /\ a.hit <=> Copies(b, l) # {}
       /\ c \in CacheOf(N, A) /\ c.fault = b.fault
       /\ c.replacement_policy = b.replacement_policy
       /\ c.stat_dirty_evicts = b.stat_dirty_evicts
       /\ Misses(c) = Misses(b) + (IF a.hit THEN 0 ELSE 1)
  <2>1. AccessOutcome(N, A, b, l, is_write, k, now, data, a)
    <3>1. AccessOutcome(N, A, b, l, is_write, k, now, data,
                        cache_access(b, l, is_write, k, now, data))
      BY <1>3, <1>4, AccessFacts
    <3> QED  BY <1>9, <3>1
  <2> QED  BY <1>10, <1>11, <2>1 DEF AccessOutcome
<1>13. /\ Fine(c, now, O, m)
       /\ \A x \in Nat : x # l \/ ~ is_write \/ Copies(b, l) = {} => Same(b, c, x)
       /\ is_write /\ Copies(b, l) # {} => HasDirty(c, l) /\ (AllCurrent(c, l) <=> data)
  <2>1. is_write => m
    BY <1>5
  <2>2. AccessSeen(b, l, is_write, now, data, O, m, cache_access(b, l, is_write, k, now, data))
    BY <1>3, <1>4, <1>7, <2>1, AccessView
  <2> QED  BY <1>9, <1>10, <2>2 DEF AccessSeen
<1>14. L1SetTo(s, n, k, c, z)
  BY <1>3, <1>10, <1>12, L1Put
<1>15. \A x \in Nat : Owner(x) \in Cores
  BY OwnerIsACore
<1>16. L1SetSeen(s, n, k, c, now, z)
  BY <1>3, <1>12, <1>14, <1>15, L1SetFacts
<1>17. /\ z \in MemType /\ z.access = s.access /\ z.delay = s.delay /\ z.l2cache = s.l2cache
       /\ z[n][k] = c
       /\ \A o \in L1s : \A j \in Cores : o # n \/ j # k => z[o][j] = s[o][j]
  BY <1>14 DEF L1SetTo
<1>18. AllFine(z, now) /\ SamePolicies(s, z) /\ (LowBalance(s) => LowBalance(z))
  <2>1. Fine(c, now, {k}, IsWritten(n))
    <3>1. m = IsWritten(n)
      BY <1>5 DEF IsWritten
    <3> QED  BY <1>6, <1>13, <3>1
  <2> QED  BY <1>1, <1>12, <1>16, <2>1 DEF L1SetSeen
<1>19. Fault(z) <=> Fault(s)
  <2>1. ASSUME NEW o \in L1s, NEW j \in Cores PROVE z[o][j].fault <=> s[o][j].fault
    <3>1. CASE o = n /\ j = k
      BY <1>1, <1>12, <1>17, <3>1
    <3>2. CASE o # n \/ j # k
      BY <1>17, <3>2
    <3> QED  BY <3>1, <3>2
  <2>2. L1Faultless(z) <=> L1Faultless(s)
    BY <2>1 DEF L1Faultless
  <2> QED  BY <1>17, <2>2, NoFault
<1>20. Reads(z) = Reads(s) + (IF a.hit THEN 0 ELSE 1) /\ Evicts(z) = Evicts(s)
  <2>1. PICK o \in Nat : o = IF a.hit THEN 0 ELSE 1
    OBVIOUS
  <2>2. PICK e \in Nat : e = 0
    OBVIOUS
  <2>3. Misses(c) = Misses(s[n][k]) + o
    BY <1>1, <1>12, <2>1
  <2>4. c.stat_dirty_evicts = s[n][k].stat_dirty_evicts + e
    <3>1. s[n][k].stat_dirty_evicts \in Nat
      BY CountTypes
    <3> QED  BY <1>1, <1>12, <2>2, <3>1
  <2>5. Reads(z) = Reads(s) + o /\ Evicts(z) = Evicts(s) + e
    <3>1. (n = "icache" => e = 0)
          /\ (n = "dcache" => c.stat_dirty_evicts = s[n][k].stat_dirty_evicts + e)
      BY <2>2, <2>4
    <3> QED  BY <1>14, <2>3, <3>1, L1Totals
  <2>6. Evicts(s) \in Nat
    <3>1. 0 \in Cores /\ (NUM_CORES # 1 => 1 \in Cores) /\ "dcache" \in L1s
      BY ZeroIsACore DEF Cores, L1s
    <3>2. \A j \in Cores : EvictsOf(s, j) \in Nat
      BY <3>1, CountTypes DEF EvictsOf
    <3> QED  BY <3>1, <3>2 DEF Evicts
  <2>7. Evicts(z) = Evicts(s)
    BY <2>2, <2>5, <2>6
  <2>8. Reads(z) = Reads(s) + (IF a.hit THEN 0 ELSE 1)
    BY <2>1, <2>5, Zenon
  <2> QED  BY <2>7, <2>8
<1>21. ~ a.hit => Copies(z[n][k], l) = {}
  BY <1>12, <1>13, <1>17 DEF Same
<1>22. ASSUME NEW x \in Nat, x # l \/ ~ is_write \/ ~ a.hit
       PROVE  /\ Right(s, x) => Right(z, x)
              /\ AllCurrent(DOf(s, x), x) => AllCurrent(DOf(z, x), x)
  <2>1. Below(z, x) <=> Below(s, x)
    BY <1>16 DEF L1SetSeen
  <2>2. CASE n = "icache" \/ Owner(x) # k
    <3>1. DOf(z, x) = DOf(s, x)
      BY <1>16, <2>2 DEF L1SetSeen
    <3> QED  BY <2>1, <3>1 DEF Right
  <2>3. CASE n = "dcache" /\ Owner(x) = k
    <3>1. DOf(z, x) = c
      BY <1>16, <2>3 DEF L1SetSeen
    <3>2. DOf(s, x) = b
      BY <1>1, <2>3 DEF DOf
    <3>3. Same(b, c, x)
      BY <1>12, <1>13, <1>22
    <3> QED  BY <2>1, <3>1, <3>2, <3>3 DEF Right, Same
  <2> QED  BY <2>2, <2>3 DEF L1s
<1>23. ASSUME is_write, a.hit, data PROVE Right(z, l) /\ AllCurrent(DOf(z, l), l)
  <2>1. DOf(z, l) = c
    BY <1>16, <1>23 DEF L1SetSeen
  <2>2. HasDirty(c, l) /\ AllCurrent(c, l)
    BY <1>12, <1>13, <1>23
  <2> QED  BY <2>1, <2>2 DEF Right
<1> QED
  BY <1>17, <1>18, <1>19, <1>20, <1>21, <1>22, <1>23 DEF L1AccessSeen

LEMMA LatencyType == \A q : Latency(q) \in Nat /\ L2CACHE_HIT_LATENCY \in Nat
BY MemSysAssumption DEF Latency

TwoLevelsSeen(s, q, r) ==
    /\ r.delay \in Nat /\ Latency(q) <= r.delay
    /\ SystemSeen(s, q.now, r.sys)
    /\ AllRight(s) /\ ~ Fault(r.sys) => AllRight(r.sys)

\* r is what L1Missed says that a miss takes and leaves.
MissInstalls(q, k, u) ==
    cache_install(u[Level1(q)][k], q.line, IsWrite(q), q.core_id, q.now,
                  IsWrite(q) \/ CurrentIn(u.l2cache, q.line, q.core_id))
MissedAs(q, k, p, r) ==
    /\ r.delay = Latency(q) + p.delay
    /\ r.sys = IF p.sys.l2cache.fault THEN p.sys
               ELSE L1Filled(p.sys, q, k, MissInstalls(q, k, p.sys))

LEMMA MissedParts ==
    ASSUME NEW q, NEW k, NEW p
    PROVE  MissedAs(q, k, p, L1Missed(q, k, p))
BY DEF MissedAs, L1Missed, MissInstalls

\* A miss of the first level, from which it has left y.
LEMMA L1MissView ==
    ASSUME SIM_MODE \in SIM_MODES, NEW s \in MemType, NEW q \in Requests,
           NEW n \in L1s, n = Level1(q), NEW k \in Cores, k = q.core_id, k = Owner(q.line),
           IsWrite(q) => n = "dcache", NEW y \in MemType, AllFine(y, q.now),
           ~ Fault(s), SamePolicies(s, y), Fault(y) <=> Fault(s),
           y.access = s.access, y.delay = s.delay, Copies(y[n][k], q.line) = {},
           Balanced(s) => /\ LowBalance(y)
                          /\ y.l2cache.stat_read_access + 1 = Reads(y)
                          /\ y.l2cache.stat_write_access = Evicts(y),
           AllRight(s) => \A x \in Nat : ~ IsWrite(q) \/ x # q.line => Right(y, x),
           NEW no \in BOOLEAN, ~ no,
           NEW r, r = L1Missed(q, k, memsys_l2_access(y, q.line, no, q.core_id, q.now, no))
    PROVE  TwoLevelsSeen(s, q, r)
<1>1. PICK l \in Nat : l = q.line
  BY DEF Requests
<1>2. PICK now \in Nat : now = q.now
  BY DEF Requests
<1>3. PICK w \in BOOLEAN : w = IsWrite(q)
  BY DEF IsWrite
<1>4. PICK p : p = memsys_l2_access(y, l, no, k, now, no)
  OBVIOUS
<1>5. L2Seen(y, l, no, now, no, p)
  <2>1. Fine(y.l2cache, now, Cores, TRUE) /\ k = Owner(l)
    BY <1>1, <1>2 DEF AllFine
  <2> QED  BY <1>4, <2>1, L2View
<1>6. PICK u : u = p.sys
  OBVIOUS
<1>7. /\ p.delay \in Nat /\ u \in MemType
      /\ u.access = y.access /\ u.delay = y.delay
      /\ Suits(y.l2cache.replacement_policy, L2CACHE_ASSOC, Cores) /\ ~ y.l2cache.fault =>
             ~ u.l2cache.fault
      /\ u.l2cache.stat_read_access = y.l2cache.stat_read_access + 1
      /\ u.l2cache.stat_write_access = y.l2cache.stat_write_access + 0
      /\ ~ u.l2cache.fault =>
             /\ Copies(u.l2cache, l) # {}
             /\ LowBalance(y) => LowBalance(u)
             /\ \A x \in Nat : Below(y, x) => Below(u, x)
  BY <1>5, <1>6 DEF L2Seen
<1>8. L2StepSeen(y, now, u)
  BY <1>2, <1>5, <1>6, L2StepFacts
<1>9. /\ AllFine(u, now) /\ SamePolicies(y, u)
      /\ L1Faultless(u) <=> L1Faultless(y)
      /\ u[n][k] = y[n][k]
      /\ \A x \in Nat : DOf(u, x) = DOf(y, x)
      /\ Reads(u) = Reads(y) /\ Evicts(u) = Evicts(y)
  BY <1>8 DEF L2StepSeen
<1>10. SamePolicies(s, u)
  BY <1>9 DEF SamePolicies
<1>11. L1Faultless(u) /\ ~ y.l2cache.fault
  BY <1>9, NoFault
<1>12. AllSuit(s) => ~ u.l2cache.fault
  <2>1. AllSuit(s) => Suits(y.l2cache.replacement_policy, L2CACHE_ASSOC, Cores)
    BY DEF AllSuit, SamePolicies
  <2> QED  BY <1>7, <1>11, <2>1
<1>13. Fault(u) <=> u.l2cache.fault
  BY <1>7, <1>11, NoFault
<1>14. CASE u.l2cache.fault
  <2>1. r.sys = u /\ r.delay = Latency(q) + p.delay
    <3>1. r = L1Missed(q, k, p)
      BY <1>1, <1>2, <1>4
    <3>2. MissedAs(q, k, p, r)
      BY <3>1, MissedParts
    <3> QED  BY <1>6, <1>14, <3>2 DEF MissedAs
  <2>2. r.delay \in Nat /\ Latency(q) <= r.delay
    <3>1. PICK a, b : a = Latency(q) /\ b = p.delay
      OBVIOUS
    <3>2. a \in Nat /\ b \in Nat
      BY <1>7, <3>1, LatencyType
    <3> QED  BY <2>1, <3>1, <3>2
  <2>3. SystemSeen(s, q.now, u)
    BY <1>2, <1>7, <1>9, <1>10, <1>12, <1>13, <1>14 DEF SystemSeen
  <2> QED  BY <1>13, <1>14, <2>1, <2>2, <2>3 DEF TwoLevelsSeen
<1>15. CASE ~ u.l2cache.fault
  <2>1. PICK data \in BOOLEAN : data = (IsWrite(q) \/ CurrentIn(u.l2cache, q.line, q.core_id))
    OBVIOUS
  <2>2. PICK z : z = L1Filled(u, q, k, cache_install(u[n][k], q.line, IsWrite(q), q.core_id,
                                                     q.now, data))
    OBVIOUS
  <2>3. r.sys = z /\ r.delay = Latency(q) + p.delay
    <3>1. r = L1Missed(q, k, p)
      BY <1>1, <1>2, <1>4
    <3>2. MissedAs(q, k, p, r)
      BY <3>1, MissedParts
    <3>3. z = L1Filled(u, q, k, MissInstalls(q, k, u))
      BY <2>1, <2>2 DEF MissInstalls
    <3> QED  BY <1>6, <1>15, <3>2, <3>3 DEF MissedAs
  <2>4. r.delay \in Nat /\ Latency(q) <= r.delay
    <3>1. PICK a, b : a = Latency(q) /\ b = p.delay
      OBVIOUS
    <3>2. a \in Nat /\ b \in Nat
      BY <1>7, <3>1, LatencyType
    <3> QED  BY <2>3, <3>1, <3>2
  <2>5. /\ SystemSeen(u, q.now, z)
        /\ Ready(u, q.line, IsWrite(q), data) /\ ~ Fault(z) => AllRight(z)
    <3>1. AllFine(u, q.now) /\ Copies(u[n][k], q.line) = {}
      BY <1>2, <1>9
    <3> QED  BY <1>7, <1>15, <2>2, <3>1, L1FilledView
  <2>6. ~ Fault(u)
    BY <1>13, <1>15
  <2>7. AllSuit(s) => AllSuit(u)
    BY <1>10 DEF AllSuit, SamePolicies
  <2>8. Balanced(s) => Balanced(u)
    <3> SUFFICES ASSUME Balanced(s) PROVE Balanced(u)
      OBVIOUS
    <3>1. LowBalance(u)
      BY <1>7, <1>15
    <3>2. y.l2cache.stat_write_access \in Nat
      BY DEF MemType, L2Cache, CacheOf
    <3>3. UpBalance(u)
      BY <1>7, <1>9, <3>2 DEF UpBalance
    <3> QED  BY <3>1, <3>3 DEF Balanced
  <2>9. SystemSeen(s, q.now, z)
    <3>1. SamePolicies(u, z)
      BY <2>5 DEF SystemSeen
    <3>2. SamePolicies(s, z)
      BY <1>10, <3>1 DEF SamePolicies
    <3> QED  BY <1>7, <2>5, <2>6, <2>7, <2>8, <3>2 DEF SystemSeen
  <2>10. AllRight(s) => Ready(u, q.line, IsWrite(q), data)
    <3> SUFFICES ASSUME AllRight(s) PROVE Ready(u, q.line, IsWrite(q), data)
      OBVIOUS
    <3>1. ASSUME NEW x \in Nat, ~ IsWrite(q) \/ x # q.line PROVE Right(u, x)
      <4>1. Right(y, x)
        BY <3>1
      <4>2. Below(y, x) => Below(u, x)
        BY <1>7, <1>15
      <4> QED  BY <1>9, <4>1, <4>2 DEF Right
    <3>2. \A x \in Nat : x # q.line => Right(u, x)
      BY <3>1
    <3>3. ASSUME ~ IsWrite(q) PROVE Right(u, q.line)
      BY <1>1, <3>1, <3>3
    <3>4. AllCurrent(u.l2cache, q.line) => data
      <4>1. PICK c \in CacheOf(LSets, L2CACHE_ASSOC) : c = u.l2cache
        BY <1>7 DEF MemType, L2Cache
      <4>2. PICK O, m : O = Cores /\ m = TRUE
        OBVIOUS
      <4>3. Fine(c, now, O, m)
        BY <1>9, <4>1, <4>2 DEF AllFine
      <4>4. HitWays(c, l, Owner(l)) = Copies(c, l)
        BY <4>3, Shapes, HitsAreCopies
      <4>5. AllCurrent(c, l) => CurrentIn(c, l, k)
        BY <1>1, <1>7, <1>15, <4>1, <4>4 DEF AllCurrent, CurrentIn
      <4> QED  BY <1>1, <2>1, <4>1, <4>5
    <3>5. IsWrite(q) => data
      BY <2>1
    <3> QED  BY <3>2, <3>3, <3>4, <3>5 DEF Ready
  <2> QED  BY <2>3, <2>4, <2>5, <2>9, <2>10 DEF TwoLevelsSeen
<1> QED  BY <1>14, <1>15

\* r is what L1Looked says that an access a takes and leaves.
LookedAs(s, q, k, a, r) ==
    IF a.hit THEN r.delay = Latency(q) /\ r.sys = WithL1(s, Level1(q), k, a.cache)
    ELSE r = L1Missed(q, k, memsys_l2_access(WithL1(s, Level1(q), k, a.cache),
                                             q.line, FALSE, q.core_id, q.now, FALSE))

LEMMA LookedParts ==
    ASSUME NEW s, NEW q, NEW k, NEW a
    PROVE  LookedAs(s, q, k, a, L1Looked(s, q, k, a))
<1>1. PICK y : y = WithL1(s, Level1(q), k, a.cache)
  OBVIOUS
<1>2. [s EXCEPT ![Level1(q)][k] = a.cache] = y
  BY <1>1 DEF WithL1
<1>3. CASE a.hit
  <2>1. L1Looked(s, q, k, a) = [delay |-> Latency(q), sys |-> y]
    BY <1>2, <1>3, Zenon DEF L1Looked
  <2> QED  BY <1>1, <1>3, <2>1 DEF LookedAs
<1>4. CASE ~ a.hit
  <2>1. L1Looked(s, q, k, a) =
            L1Missed(q, k, memsys_l2_access(y, q.line, FALSE, q.core_id, q.now, FALSE))
    BY <1>2, <1>4, Zenon DEF L1Looked
  <2> QED  BY <1>1, <1>4, <2>1, Zenon DEF LookedAs
<1> QED  BY <1>3, <1>4

\* A request that core k makes for its line; now is the cycle.
Asked(s, q, k) ==
    /\ SIM_MODE \in SIM_MODES /\ s \in MemType /\ q \in Requests
    /\ k \in Cores /\ k = q.core_id /\ k = Owner(q.line)
    /\ AllFine(s, q.now) /\ ~ Fault(s)

LEMMA TwoLevelsView ==
    ASSUME NEW s, NEW q, NEW k, Asked(s, q, k)
    PROVE  TwoLevelsSeen(s, q, TwoLevels(s, q, k))
<1>1. /\ SIM_MODE \in SIM_MODES /\ s \in MemType /\ q \in Requests
      /\ k \in Cores /\ k = q.core_id /\ k = Owner(q.line)
      /\ AllFine(s, q.now) /\ ~ Fault(s)
  BY DEF Asked
<1>2. PICK y \in MemType : y = Outdated(s, q)
  BY <1>1, OutdatedAllView DEF OutdatedAll
<1>3. OutdatedAll(s, q, y)
  BY <1>1, <1>2, OutdatedAllView
<1>4. /\ y.access = s.access /\ y.delay = s.delay
      /\ AllFine(y, q.now) /\ SamePolicies(s, y)
      /\ Fault(y) <=> Fault(s)
      /\ Balanced(s) => Balanced(y)
      /\ \A x \in Nat : ~ IsWrite(q) \/ x # q.line => (Right(s, x) => Right(y, x))
  BY <1>1, <1>3 DEF OutdatedAll
<1>5. PICK n \in L1s : n = Level1(q)
  BY DEF Level1, L1s
<1>6. PICK l \in Nat : l = q.line
  BY <1>1 DEF Requests
<1>7. PICK now \in Nat : now = q.now
  BY <1>1 DEF Requests
<1>8. PICK w \in BOOLEAN : w = IsWrite(q)
  BY DEF IsWrite
<1>9. w => n = "dcache"
  BY <1>5, <1>8 DEF IsWrite, Level1
<1>10. PICK t \in BOOLEAN : t = TRUE
  OBVIOUS
<1>11. PICK a : a = cache_access(y[n][k], l, w, k, now, t)
  OBVIOUS
<1>12. PICK z : z = WithL1(y, n, k, a.cache)
  OBVIOUS
<1>13. L1AccessSeen(y, n, k, l, w, t, now, a, z)
  <2>1. k = Owner(l) /\ AllFine(y, now)
    BY <1>1, <1>4, <1>6, <1>7
  <2>2. L1AccessSeen(y, n, k, l, w, t, now, a, WithL1(y, n, k, a.cache))
    BY <1>1, <1>9, <1>11, <2>1, L1AccessView
  <2> QED  BY <1>12, <2>2
<1>14. /\ z \in MemType /\ z.access = y.access /\ z.delay = y.delay /\ z.l2cache = y.l2cache
       /\ AllFine(z, now) /\ SamePolicies(y, z)
       /\ Fault(z) <=> Fault(y)
       /\ LowBalance(y) => LowBalance(z)
       /\ Reads(z) = Reads(y) + (IF a.hit THEN 0 ELSE 1) /\ Evicts(z) = Evicts(y)
       /\ ~ a.hit => Copies(z[n][k], l) = {}
       /\ \A x \in Nat : x # l \/ ~ w \/ ~ a.hit => (Right(y, x) => Right(z, x))
       /\ w /\ a.hit => Right(z, l)
  BY <1>10, <1>13 DEF L1AccessSeen
<1>15. SamePolicies(s, z)
  BY <1>4, <1>14 DEF SamePolicies
<1>16. PICK r : r = TwoLevels(s, q, k)
  OBVIOUS
<1>17. LookedAs(y, q, k, a, r)
  <2>1. r = L1Looked(y, q, k, a)
    BY <1>1, <1>2, <1>5, <1>6, <1>7, <1>8, <1>10, <1>11, <1>16 DEF TwoLevels
  <2> QED  BY <2>1, LookedParts
<1>18. y.l2cache.stat_read_access \in Nat
  BY DEF MemType, L2Cache, CacheOf
<1>20. CASE a.hit
  <2>1. r.delay = Latency(q) /\ r.sys = z
    BY <1>5, <1>12, <1>17, <1>20 DEF LookedAs
  <2>2. r.delay \in Nat /\ Latency(q) <= r.delay
    <3>1. PICK a0 \in Nat : a0 = Latency(q)
      BY LatencyType
    <3> QED  BY <2>1, <3>1
  <2>3. Balanced(s) => Balanced(z)
    BY <1>4, <1>14, <1>18, <1>20 DEF Balanced, UpBalance
  <2>4. SystemSeen(s, q.now, z)
    BY <1>1, <1>4, <1>7, <1>14, <1>15, <2>3 DEF SystemSeen
  <2>5. AllRight(s) => AllRight(z)
    <3> SUFFICES ASSUME AllRight(s), NEW x \in Nat PROVE Right(z, x)
      BY DEF AllRight
    <3>1. CASE ~ w \/ x # l
      BY <1>4, <1>6, <1>8, <1>14, <3>1 DEF AllRight
    <3>2. CASE w /\ x = l
      BY <1>14, <1>20, <3>2
    <3> QED  BY <3>1, <3>2
  <2> QED  BY <1>16, <2>1, <2>2, <2>4, <2>5 DEF TwoLevelsSeen
<1>21. CASE ~ a.hit
  <2>1. PICK no \in BOOLEAN : no = FALSE
    OBVIOUS
  <2>2. r = L1Missed(q, k, memsys_l2_access(z, q.line, no, q.core_id, q.now, no))
    BY <1>5, <1>12, <1>17, <1>21, <2>1, Zenon DEF LookedAs
  <2>3. /\ IsWrite(q) => n = "dcache"
        /\ AllFine(z, q.now) /\ Copies(z[n][k], q.line) = {}
        /\ z.access = s.access /\ z.delay = s.delay /\ (Fault(z) <=> Fault(s))
    BY <1>4, <1>6, <1>7, <1>8, <1>9, <1>14, <1>21
  <2>4. Balanced(s) => /\ LowBalance(z)
                       /\ z.l2cache.stat_read_access + 1 = Reads(z)
                       /\ z.l2cache.stat_write_access = Evicts(z)
    BY <1>4, <1>14, <1>21 DEF Balanced, UpBalance
  <2>5. AllRight(s) => \A x \in Nat : ~ IsWrite(q) \/ x # q.line => Right(z, x)
    BY <1>4, <1>14, <1>21 DEF AllRight
  <2>6. ~ no
    BY <2>1
  <2>7. TwoLevelsSeen(s, q, r)
    BY <1>1, <1>5, <1>14, <1>15, <2>2, <2>3, <2>4, <2>5, <2>6, L1MissView
  <2> QED  BY <1>16, <2>7
<1> QED  BY <1>20, <1>21

\* In mode A there is nothing below the one cache.
AllRightA(s) == \A x \in Nat : AllCurrent(DOf(s, x), x) /\ Copies(s.l2cache, x) = {}

ModeASeen(s, q, r) ==
    /\ r.delay \in Nat
    /\ SystemSeen(s, q.now, r.sys)
    /\ AllRightA(s) /\ ~ Fault(r.sys) => AllRightA(r.sys)

ModeAInstalls(q, k, c, data) ==
    cache_install(c, q.line, IsWrite(q), q.core_id, q.now, data)

\* r is what memsys_access_modeA leaves of s when a is the access of the cache.
ModeAAs(s, q, a, data, r) ==
    /\ r.delay = 0
    /\ r.sys = IF q.type = "IFETCH" THEN s
               ELSE WithL1(Outdated(s, q), "dcache", 0,
                           IF a.hit THEN a.cache ELSE ModeAInstalls(q, 0, a.cache, data))

LEMMA Pair ==
    ASSUME NEW d, NEW z, NEW r, r = [delay |-> d, sys |-> z]
    PROVE  r.delay = d /\ r.sys = z
OBVIOUS

LEMMA ModeAParts ==
    ASSUME NEW s, NEW q, NEW data, data = TRUE, NEW y \in MemType, y = Outdated(s, q),
           NEW a, a = cache_access(y["dcache"][0], q.line, IsWrite(q), q.core_id, q.now, data)
    PROVE  ModeAAs(s, q, a, data, memsys_access_modeA(s, q))
<1>1. PICK c : c = IF a.hit THEN a.cache ELSE ModeAInstalls(q, 0, a.cache, data)
  OBVIOUS
<1>2. y["dcache"] = y.dcache
  BY DEF MemType
<1>3. LookedA(y, q, a) = [y EXCEPT !.dcache[0] = c]
  BY <1>1, Zenon DEF LookedA, ModeAInstalls
<1>4. WithL1(y, "dcache", 0, c) = [y EXCEPT !.dcache[0] = c]
  BY DEF WithL1
<1>5. a = cache_access(Outdated(s, q).dcache[0], q.line, IsWrite(q), q.core_id, q.now, TRUE)
  BY <1>2
<1>6. PICK left : left = IF q.type = "IFETCH" THEN s ELSE LookedA(y, q, a)
  OBVIOUS
<1>7. memsys_access_modeA(s, q) = [delay |-> 0, sys |-> left]
  BY <1>5, <1>6, Zenon DEF memsys_access_modeA
<1>8. PICK r : r = memsys_access_modeA(s, q)
  OBVIOUS
<1>9. r.delay = 0 /\ r.sys = left
  BY <1>7, <1>8, Pair
<1>10. left = IF q.type = "IFETCH" THEN s ELSE WithL1(y, "dcache", 0, c)
  BY <1>3, <1>4, <1>6, Zenon
<1> QED  BY <1>1, <1>8, <1>9, <1>10, Zenon DEF ModeAAs

LEMMA SetTwice ==
    ASSUME NEW s \in MemType, NEW n, n = "dcache", NEW k \in Cores,
           NEW b \in L1Cache(n), NEW c \in L1Cache(n)
    PROVE  WithL1(WithL1(s, n, k, b), n, k, c) = WithL1(s, n, k, c)
<1>1. PICK f, g, h : /\ f = [s.dcache EXCEPT ![k] = b] /\ g = [f EXCEPT ![k] = c]
                     /\ h = [s.dcache EXCEPT ![k] = c]
  OBVIOUS
<1>2. b \in CacheOf(DSets, DCACHE_ASSOC) /\ c \in CacheOf(DSets, DCACHE_ASSOC)
  BY DEF L1Cache, SetCount, WayCount
<1>3. g = h /\ f \in DCaches
  BY <1>1, <1>2 DEF MemType, DCaches
<1>4. PICK y : y = [s EXCEPT !.dcache = f]
  OBVIOUS
<1>5. y \in MemType /\ y.dcache = f
  BY <1>3, <1>4 DEF MemType
<1>6. WithL1(s, n, k, b) = y
  BY <1>1, <1>4 DEF WithL1, MemType
<1>7. WithL1(y, n, k, c) = [y EXCEPT !.dcache = g]
  BY <1>1, <1>5 DEF WithL1, MemType
<1>8. WithL1(s, n, k, c) = [s EXCEPT !.dcache = h]
  BY <1>1 DEF WithL1, MemType
<1>9. [y EXCEPT !.dcache = g] = [s EXCEPT !.dcache = h]
  BY <1>3, <1>4 DEF MemType
<1> QED  BY <1>6, <1>7, <1>8, <1>9

LEMMA ModeAView ==
    ASSUME NEW s, NEW q, Asked(s, q, 0), SIM_MODE = "A"
    PROVE  ModeASeen(s, q, memsys_access_modeA(s, q))
<1>1. /\ SIM_MODE \in SIM_MODES /\ s \in MemType /\ q \in Requests
      /\ 0 \in Cores /\ 0 = q.core_id /\ 0 = Owner(q.line)
      /\ AllFine(s, q.now) /\ ~ Fault(s)
  BY DEF Asked
<1>2. PICK y \in MemType : y = Outdated(s, q)
  BY <1>1, OutdatedAllView DEF OutdatedAll
<1>3. OutdatedAll(s, q, y)
  BY <1>1, <1>2, OutdatedAllView
<1>4. /\ y.access = s.access /\ y.delay = s.delay
      /\ AllFine(y, q.now) /\ SamePolicies(s, y)
      /\ Fault(y) <=> Fault(s)
      /\ \A x \in Nat : Copies(y.l2cache, x) = Copies(s.l2cache, x)
      /\ \A x \in Nat : ~ IsWrite(q) \/ x # q.line =>
             (AllCurrent(DOf(s, x), x) => AllCurrent(DOf(y, x), x))
  BY <1>1, <1>3 DEF OutdatedAll
<1>5. PICK n \in L1s : n = "dcache"
  BY DEF L1s
<1>6. PICK l \in Nat : l = q.line
  BY <1>1 DEF Requests
<1>7. PICK now \in Nat : now = q.now
  BY <1>1 DEF Requests
<1>8. PICK w \in BOOLEAN : w = IsWrite(q)
  BY DEF IsWrite
<1>9. PICK k \in Cores : k = 0
  BY <1>1
<1>10. PICK t \in BOOLEAN : t = TRUE
  OBVIOUS
<1>11. PICK a : a = cache_access(y[n][k], l, w, k, now, t)
  OBVIOUS
<1>12. PICK z : z = WithL1(y, n, k, a.cache)
  OBVIOUS
<1>13. L1AccessSeen(y, n, k, l, w, t, now, a, z)
  <2>1. k = Owner(l) /\ AllFine(y, now)
    BY <1>1, <1>4, <1>6, <1>7, <1>9
  <2>2. L1AccessSeen(y, n, k, l, w, t, now, a, WithL1(y, n, k, a.cache))
    BY <1>1, <1>5, <1>11, <2>1, L1AccessView
  <2> QED  BY <1>12, <2>2
<1>14. /\ z \in MemType /\ z.access = y.access /\ z.delay = y.delay /\ z.l2cache = y.l2cache
       /\ AllFine(z, now) /\ SamePolicies(y, z)
       /\ Fault(z) <=> Fault(y)
       /\ ~ a.hit => Copies(z[n][k], l) = {}
       /\ \A x \in Nat : x # l \/ ~ w \/ ~ a.hit =>
              (AllCurrent(DOf(y, x), x) => AllCurrent(DOf(z, x), x))
       /\ w /\ a.hit => AllCurrent(DOf(z, l), l)
  BY <1>10, <1>13 DEF L1AccessSeen
<1>15. SamePolicies(s, z)
  BY <1>4, <1>14 DEF SamePolicies
<1>16. PICK r : r = memsys_access_modeA(s, q)
  OBVIOUS
<1>17. ModeAAs(s, q, a, t, r)
  <2>1. a = cache_access(y["dcache"][0], q.line, IsWrite(q), q.core_id, q.now, t)
    BY <1>1, <1>5, <1>6, <1>7, <1>8, <1>9, <1>11
  <2>2. ModeAAs(s, q, a, t, memsys_access_modeA(s, q))
    BY <1>2, <1>10, <2>1, ModeAParts
  <2> QED  BY <1>16, <2>2
<1>18. r.delay \in Nat
  BY <1>17 DEF ModeAAs
<1>19. CASE q.type = "IFETCH"
  <2>1. r.sys = s
    BY <1>17, <1>19 DEF ModeAAs
  <2>2. SystemSeen(s, q.now, s)
    BY <1>1 DEF SystemSeen, SamePolicies
  <2> QED  BY <1>16, <1>18, <2>1, <2>2 DEF ModeASeen
<1>20. CASE q.type # "IFETCH" /\ a.hit
  <2>1. r.sys = z
    BY <1>2, <1>5, <1>9, <1>12, <1>17, <1>20 DEF ModeAAs
  <2>2. SystemSeen(s, q.now, z)
    BY <1>1, <1>4, <1>7, <1>14, <1>15 DEF SystemSeen
  <2>3. AllRightA(s) => AllRightA(z)
    <3> SUFFICES ASSUME AllRightA(s), NEW x \in Nat
                 PROVE  AllCurrent(DOf(z, x), x) /\ Copies(z.l2cache, x) = {}
      BY DEF AllRightA
    <3>1. Copies(z.l2cache, x) = {}
      BY <1>4, <1>14 DEF AllRightA
    <3>2. CASE ~ w \/ x # l
      BY <1>4, <1>6, <1>8, <1>14, <3>1, <3>2 DEF AllRightA
    <3>3. CASE w /\ x = l
      BY <1>14, <1>20, <3>1, <3>3
    <3> QED  BY <3>2, <3>3
  <2> QED  BY <1>16, <1>18, <2>1, <2>2, <2>3 DEF ModeASeen
<1>21. CASE q.type # "IFETCH" /\ ~ a.hit
  <2>1. PICK c : c = cache_install(z[n][k], l, w, k, now, t)
    OBVIOUS
  <2>2. PICK u : u = WithL1(z, n, k, c)
    OBVIOUS
  <2>3. L1InstallSeen(z, n, k, l, w, t, now, c, u)
    <3>1. Copies(z[n][k], l) = {} /\ AllFine(z, now) /\ k = Owner(l)
      BY <1>1, <1>6, <1>9, <1>14, <1>21
    <3>2. L1InstallSeen(z, n, k, l, w, t, now, c, WithL1(z, n, k, c))
      BY <1>1, <1>5, <1>14, <2>1, <3>1, L1Installs
    <3> QED  BY <2>2, <3>2
  <2>4. /\ u \in MemType /\ u.access = z.access /\ u.delay = z.delay /\ u.l2cache = z.l2cache
        /\ AllFine(u, now) /\ SamePolicies(z, u)
        /\ Suits(z[n][k].replacement_policy, WayCount(n), {k}) /\ L1Faultless(z) =>
               ~ c.fault /\ L1Faultless(u)
        /\ c.fault => ~ L1Faultless(u)
        /\ ~ c.fault =>
               \A x \in Nat : x = l \/ AllCurrent(DOf(z, x), x) => AllCurrent(DOf(u, x), x)
    BY <1>5, <1>10, <2>3 DEF L1InstallSeen
  <2>5. r.sys = u
    <3>1. a.cache \in L1Cache(n)
      <4>1. PICK o \in BOOLEAN : o = TRUE
        OBVIOUS
      <4>2. y[n][k] \in CacheOf(SetCount(n), WayCount(n))
        BY L1Type DEF L1Cache
      <4>3. AccessOutcome(SetCount(n), WayCount(n), y[n][k], l, w, k, now, t,
                          cache_access(y[n][k], l, w, k, now, t))
        BY <4>2, L1Shape, AccessFacts
      <4> QED  BY <1>11, <4>3 DEF AccessOutcome, L1Cache
    <3>2. c \in L1Cache(n)
      <4>1. u[n][k] = c
        <5>1. z[n][k] \in CacheOf(SetCount(n), WayCount(n))
          BY <1>14, L1Type DEF L1Cache
        <5>2. InstallOutcome(SetCount(n), WayCount(n), z[n][k], l, w, k, now, t, c)
          BY <2>1, <5>1, L1Shape, InstallFacts
        <5>3. c \in L1Cache(n)
          BY <5>2 DEF InstallOutcome, L1Cache
        <5>4. L1SetTo(z, n, k, c, u)
          BY <1>14, <2>2, <5>3, L1Put
        <5> QED  BY <5>4 DEF L1SetTo
      <4> QED  BY <2>4, <4>1, L1Type
    <3>3. z[n][k] = a.cache
      <4>1. L1SetTo(y, n, k, a.cache, z)
        BY <1>12, <3>1, L1Put
      <4> QED  BY <4>1 DEF L1SetTo
    <3>4. c = ModeAInstalls(q, 0, a.cache, t)
      BY <1>1, <1>6, <1>7, <1>8, <1>9, <2>1, <3>3 DEF ModeAInstalls
    <3>5. r.sys = WithL1(y, n, k, c)
      BY <1>2, <1>5, <1>9, <1>17, <1>21, <3>4 DEF ModeAAs
    <3>6. u = WithL1(y, n, k, c)
      BY <1>5, <1>12, <2>2, <3>1, <3>2, SetTwice
    <3> QED  BY <3>5, <3>6
  <2>6. Fault(u) <=> ~ L1Faultless(u) /\ ~ Fault(z)
    BY <1>1, <1>4, <1>14, <2>4, NoFault
  <2>7. SystemSeen(s, q.now, u)
    <3>1. SamePolicies(s, u)
      BY <1>15, <2>4 DEF SamePolicies
    <3>2. AllSuit(s) => Suits(z[n][k].replacement_policy, WayCount(n), {k})
      BY <1>15 DEF AllSuit, SamePolicies
    <3>3. L1Faultless(z)
      BY <1>1, <1>4, <1>14, NoFault
    <3> QED  BY <1>1, <1>4, <1>7, <1>14, <2>4, <2>6, <3>1, <3>2, <3>3 DEF SystemSeen
  <2>8. AllRightA(s) /\ ~ Fault(u) => AllRightA(u)
    <3> SUFFICES ASSUME AllRightA(s), ~ Fault(u), NEW x \in Nat
                 PROVE  AllCurrent(DOf(u, x), x) /\ Copies(u.l2cache, x) = {}
      BY DEF AllRightA
    <3>1. Copies(u.l2cache, x) = {}
      BY <1>4, <1>14, <2>4 DEF AllRightA
    <3>2. ~ c.fault
      BY <1>1, <1>4, <1>14, <2>4, <2>6
    <3>3. CASE x = l
      BY <2>4, <3>1, <3>2, <3>3
    <3>4. CASE x # l
      <4>1. AllCurrent(DOf(s, x), x)
        BY DEF AllRightA
      <4> QED  BY <1>4, <1>6, <1>14, <1>21, <2>4, <3>1, <3>2, <3>4, <4>1
    <3> QED  BY <3>3, <3>4
  <2> QED  BY <1>16, <1>18, <2>5, <2>7, <2>8 DEF ModeASeen
<1> QED  BY <1>19, <1>20, <1>21

-----------------------------------------------------------------------------
(* The lines that a core asks for are its own. *)

LEMMA Divided ==
    ASSUME NEW a \in Nat, NEW b \in Nat \ {0}
    PROVE  /\ a \div b \in Nat /\ a % b \in 0 .. b - 1
           /\ b * (a \div b) \in Nat /\ a = b * (a \div b) + (a % b)
OBVIOUS

LEMMA SmallerQuotient ==
    ASSUME NEW a \in Nat, NEW b \in Nat \ {0}, NEW m \in Nat, a < b * m
    PROVE  a \div b < m
<1>1. PICK g \in Nat : g = a \div b
  BY Divided
<1>2. PICK e \in Nat : e = b * g
  BY <1>1
<1>3. e <= a
  BY <1>1, <1>2, Divided
<1>4. ASSUME m <= g PROVE FALSE
  <2>1. PICK d \in Nat : g = m + d
    <3>1. g - m \in Nat /\ g = m + (g - m)
      BY <1>4
    <3> QED  BY <3>1
  <2>2. PICK x \in Nat : x = b * m
    OBVIOUS
  <2>3. PICK y \in Nat : y = b * d
    OBVIOUS
  <2>4. b * g = b * m + b * d
    BY <2>1
  <2>5. e = x + y
    BY <1>2, <2>2, <2>3, <2>4
  <2> QED  BY <1>3, <2>2, <2>5
<1> QED  BY <1>1, <1>4

LEMMA SmallNumber ==
    ASSUME NEW a \in Nat, NEW b \in Nat \ {0}, a < b
    PROVE  a \div b = 0 /\ a % b = a
<1>1. a \div b < 1
  BY SmallerQuotient
<1>2. a \div b = 0
  BY <1>1, Divided
<1>3. a = b * 0 + (a % b)
  BY <1>2, Divided
<1>4. a % b \in Nat
  BY Divided
<1> QED  BY <1>2, <1>3, <1>4

LEMMA OwnLine ==
    ASSUME SIM_MODE = "DEF", SIM_MODE \in SIM_MODES, NEW k \in Cores,
           NEW addr \in 0 .. PAGE_SIZE * VPN_TAIL - 1
    PROVE  /\ PhysicalLine(addr \div CACHE_LINESIZE, k) \in Nat
           /\ Owner(PhysicalLine(addr \div CACHE_LINESIZE, k)) = k
<1>1. PICK L \in Nat \ {0} : L = CACHE_LINESIZE
  BY Sizes
<1>2. PICK P \in Nat \ {0} : P = PAGE_SIZE
  BY MemSysAssumption
<1>3. PICK V \in Nat \ {0} : V = VPN_TAIL
  BY MemSysAssumption
<1>4. L <= P
  BY <1>1, <1>2, MemSysAssumption
<1>5. PICK span \in Nat : span = P * V
  OBVIOUS
<1>6. addr \in Nat /\ addr < span
  BY <1>2, <1>3, <1>5
<1>7. PICK v \in Nat : v = addr \div L
  BY <1>6, Divided
<1>8. PICK a \in Nat : a = v * L
  OBVIOUS
<1>9. a < span
  <2>1. v * L = L * v
    OBVIOUS
  <2>2. a <= addr
    BY <1>6, <1>7, <1>8, <2>1, Divided
  <2> QED  BY <1>6, <2>2
<1>10. PICK g \in Nat : g = a \div P
  BY Divided
<1>11. PICK r \in Nat : r = a % P
  BY Divided
<1>12. r < P /\ a = P * g + r
  BY <1>10, <1>11, Divided
<1>13. g < V
  BY <1>5, <1>9, <1>10, SmallerQuotient
<1>14. memsys_convert_vpn_to_pfn(g, k) = g + k * 2 * V + 0 * 2 * V
  BY <1>3, <1>13, SmallNumber DEF memsys_convert_vpn_to_pfn
<1>15. k \in {0, 1}
  BY ZeroIsACore
<1>16. memsys_convert_vpn_to_pfn(g, k) = g + k * 2 * V
  <2>1. CASE k = 0
    BY <1>14, <2>1
  <2>2. CASE k = 1
    BY <1>14, <2>2
  <2> QED  BY <1>15, <2>1, <2>2
<1>17. PICK x : x = PhysicalLine(v, k)
  OBVIOUS
<1>18. PICK p \in Nat : p = (g + k * 2 * V) * P + r
  BY <1>15
<1>19. x = p \div L
  BY <1>1, <1>2, <1>8, <1>10, <1>11, <1>16, <1>17, <1>18 DEF PhysicalLine
<1>20. x \in Nat
  BY <1>19, Divided
<1>21. PICK y \in Nat : y = x * L
  BY <1>20
<1>22. y <= p /\ p < y + L
  <2>1. x * L = L * x
    BY <1>20
  <2>2. p = L * x + (p % L) /\ p % L \in 0 .. L - 1
    BY <1>19, Divided
  <2> QED  BY <1>21, <2>1, <2>2
<1>23. Owner(x) = IF span <= y THEN 1 ELSE 0
  <2>1. V * P = P * V
    OBVIOUS
  <2> QED  BY <1>1, <1>2, <1>3, <1>5, <1>21, <2>1 DEF Owner
<1>24. CASE k = 0
  <2>1. p = a
    <3>1. (g + 0 * 2 * V) * P = P * g
      OBVIOUS
    <3> QED  BY <1>12, <1>18, <1>24, <3>1
  <2> QED  BY <1>1, <1>7, <1>9, <1>17, <1>20, <1>22, <1>23, <1>24, <2>1
<1>25. CASE k = 1
  <2>1. p = a + 2 * span
    <3>1. (g + 1 * 2 * V) * P = P * g + 2 * (P * V)
      OBVIOUS
    <3> QED  BY <1>5, <1>12, <1>18, <1>25, <3>1
  <2>2. P <= span
    <3>1. PICK m \in Nat : V = 1 + m
      <4>1. V - 1 \in Nat /\ V = 1 + (V - 1)
        OBVIOUS
      <4> QED  BY <4>1
    <3>2. P * V = P + P * m /\ P * m \in Nat
      BY <3>1
    <3> QED  BY <1>5, <3>2
  <2>3. span <= y
    BY <1>4, <1>22, <2>1, <2>2
  <2> QED  BY <1>1, <1>7, <1>17, <1>20, <1>23, <1>25, <2>3
<1> QED  BY <1>15, <1>24, <1>25

-----------------------------------------------------------------------------
(* memsys_access. *)

IsPair(r) == \E d, z : r = [delay |-> d, sys |-> z]

LEMMA ArePairs ==
    ASSUME NEW s, NEW q, NEW k
    PROVE  IsPair(TwoLevels(s, q, k)) /\ IsPair(memsys_access_modeA(s, q))
<1>1. \A p : IsPair(L1Missed(q, k, p))
  BY DEF IsPair, L1Missed
<1>2. \A y, a : IsPair(L1Looked(y, q, k, a))
  <2>1. ASSUME NEW y, NEW a PROVE IsPair(L1Looked(y, q, k, a))
    <3>1. PICK z : z = [y EXCEPT ![Level1(q)][k] = a.cache]
      OBVIOUS
    <3>2. CASE a.hit
      <4>1. L1Looked(y, q, k, a) = [delay |-> Latency(q), sys |-> z]
        BY <3>1, <3>2, Zenon DEF L1Looked
      <4> QED  BY <4>1, Zenon DEF IsPair
    <3>3. CASE ~ a.hit
      <4>1. PICK p : p = memsys_l2_access(z, q.line, FALSE, q.core_id, q.now, FALSE)
        OBVIOUS
      <4>2. L1Looked(y, q, k, a) = L1Missed(q, k, p)
        BY <3>1, <3>3, <4>1, Zenon DEF L1Looked
      <4> QED  BY <1>1, <4>2, Zenon
    <3> QED  BY <3>2, <3>3
  <2> QED  BY <2>1
<1>3. IsPair(TwoLevels(s, q, k))
  BY <1>2, Zenon DEF TwoLevels
<1>4. IsPair(memsys_access_modeA(s, q))
  BY Zenon DEF IsPair, memsys_access_modeA
<1> QED  BY <1>3, <1>4

\* One more access of this type, which took so long.
CountedAs(y, type, delay, z) ==
    /\ z \in MemType
    /\ z.dcache = y.dcache /\ z.icache = y.icache /\ z.l2cache = y.l2cache /\ z.dram = y.dram
    /\ \A t \in ACCESS_TYPES :
           /\ z.access[t] = y.access[t] + (IF t = type THEN 1 ELSE 0)
           /\ z.delay[t] = y.delay[t] + (IF t = type THEN delay ELSE 0)

LEMMA CountedFacts ==
    ASSUME NEW q \in Requests, NEW r, IsPair(r), r.delay \in Nat, r.sys \in MemType
    PROVE  /\ Counted(q, r).delay = r.delay
           /\ CountedAs(r.sys, q.type, r.delay, Counted(q, r).sys)
<1>1. PICK d, y : r = [delay |-> d, sys |-> y]
  BY DEF IsPair
<1>2. d = r.delay /\ y = r.sys /\ d \in Nat /\ y \in MemType
  BY <1>1
<1>3. PICK type \in ACCESS_TYPES : type = q.type
  BY DEF Requests
<1>4. y.access \in Counters /\ y.delay \in Counters
  BY <1>2 DEF MemType
<1>5. PICK n : n = [y.access EXCEPT ![type] = @ + 1]
  OBVIOUS
<1>6. PICK e : e = [y.delay EXCEPT ![type] = @ + d]
  OBVIOUS
<1>7. /\ n \in Counters
      /\ \A t \in ACCESS_TYPES : n[t] = y.access[t] + (IF t = type THEN 1 ELSE 0)
  BY <1>4, <1>5 DEF Counters
<1>8. /\ e \in Counters
      /\ \A t \in ACCESS_TYPES : e[t] = y.delay[t] + (IF t = type THEN d ELSE 0)
  BY <1>2, <1>4, <1>6 DEF Counters
<1>9. PICK z : z = [y EXCEPT !.access = n, !.delay = e]
  OBVIOUS
<1>10. Counted(q, r) = [delay |-> d, sys |-> z]
  <2>1. PICK v : v = [y EXCEPT !.access = n]
    OBVIOUS
  <2>2. v \in MemType /\ v.delay = y.delay
    BY <1>2, <1>7, <2>1 DEF MemType
  <2>3. PICK w : w = [r EXCEPT !.sys.access[type] = @ + 1]
    OBVIOUS
  <2>4. w = [delay |-> d, sys |-> v]
    BY <1>1, <1>5, <2>1, <2>3
  <2>5. [w EXCEPT !.sys.delay[type] = @ + d] = [delay |-> d, sys |-> [v EXCEPT !.delay = e]]
    BY <1>6, <2>2, <2>4
  <2>6. z = [v EXCEPT !.delay = e]
    BY <1>9, <2>1
  <2>7. Counted(q, r) = [w EXCEPT !.sys.delay[type] = @ + d]
    BY <1>2, <1>3, <2>3 DEF Counted
  <2> QED  BY <2>5, <2>6, <2>7
<1>11. /\ z \in MemType /\ z.access = n /\ z.delay = e
       /\ z.dcache = y.dcache /\ z.icache = y.icache /\ z.l2cache = y.l2cache /\ z.dram = y.dram
  BY <1>2, <1>7, <1>8, <1>9 DEF MemType
<1>12. CountedAs(y, type, d, z)
  BY <1>7, <1>8, <1>11 DEF CountedAs
<1>13. Counted(q, r).delay = d /\ Counted(q, r).sys = z
  BY <1>10
<1> QED  BY <1>2, <1>3, <1>12, <1>13

SystemRight(s) == IF SIM_MODE = "A" THEN AllRightA(s) ELSE AllRight(s)

\* What does not depend on the counters.
LEMMA CountingKeeps ==
    ASSUME NEW y \in MemType, NEW type, NEW delay, NEW z, CountedAs(y, type, delay, z)
    PROVE  /\ \A t : AllFine(y, t) => AllFine(z, t)
           /\ \A s : SamePolicies(s, y) => SamePolicies(s, z)
           /\ Fault(z) <=> Fault(y)
           /\ SystemRight(y) => SystemRight(z)
           /\ Balanced(y) => Balanced(z)
<1>1. /\ z \in MemType
      /\ z.dcache = y.dcache /\ z.icache = y.icache /\ z.l2cache = y.l2cache /\ z.dram = y.dram
  BY DEF CountedAs
<1>2. z["dcache"] = y["dcache"] /\ z["icache"] = y["icache"]
  BY <1>1 DEF MemType
<1>3. \A n \in L1s : \A k \in Cores : z[n][k] = y[n][k]
  BY <1>2 DEF L1s
<1>4. \A t : AllFine(y, t) => AllFine(z, t)
  BY <1>1, <1>3 DEF AllFine
<1>5. \A s : SamePolicies(s, y) => SamePolicies(s, z)
  BY <1>1, <1>3 DEF SamePolicies
<1>6. Fault(z) <=> Fault(y)
  BY <1>1 DEF Fault
<1>7. \A x : DOf(z, x) = DOf(y, x)
  BY <1>2 DEF DOf
<1>8. \A x : Below(z, x) <=> Below(y, x)
  BY <1>1 DEF Below
<1>9. AllRight(y) => AllRight(z)
  BY <1>7, <1>8 DEF AllRight, Right
<1>10. AllRightA(y) => AllRightA(z)
  BY <1>1, <1>7 DEF AllRightA
<1>11. SystemRight(y) => SystemRight(z)
  BY <1>9, <1>10 DEF SystemRight
<1>12. Reads(z) = Reads(y) /\ Evicts(z) = Evicts(y)
  BY <1>2 DEF Reads, Evicts, MissesOf, EvictsOf
<1>13. Balanced(y) => Balanced(z)
  BY <1>1, <1>12 DEF Balanced, LowBalance, UpBalance
<1> QED  BY <1>4, <1>5, <1>6, <1>11, <1>13

HitLatency(type) == IF type = "IFETCH" THEN ICACHE_HIT_LATENCY ELSE DCACHE_HIT_LATENCY

\* What memsys_access says and leaves.
MemSeen(s, type, now, r) ==
    /\ r.delay \in Nat /\ r.sys \in MemType
    /\ SIM_MODE # "A" => HitLatency(type) <= r.delay
    /\ AllFine(r.sys, now) /\ SamePolicies(s, r.sys)
    /\ AllSuit(s) /\ ~ Fault(s) => ~ Fault(r.sys)
    /\ ~ Fault(r.sys) /\ SystemRight(s) => SystemRight(r.sys)
    /\ SIM_MODE # "A" /\ ~ Fault(r.sys) /\ Balanced(s) => Balanced(r.sys)
    /\ \A t \in ACCESS_TYPES :
           /\ r.sys.access[t] = s.access[t] + (IF t = type THEN 1 ELSE 0)
           /\ r.sys.delay[t] = s.delay[t] + (IF t = type THEN r.delay ELSE 0)

LEMMA CountedView ==
    ASSUME NEW s \in MemType, NEW q \in Requests, NEW r, IsPair(r), r.delay \in Nat,
           SIM_MODE # "A" => Latency(q) <= r.delay, SystemSeen(s, q.now, r.sys),
           SystemRight(s) /\ ~ Fault(r.sys) => SystemRight(r.sys)
    PROVE  MemSeen(s, q.type, q.now, Counted(q, r))
<1>1. PICK y : y = r.sys
  OBVIOUS
<1>2. PICK c : c = Counted(q, r)
  OBVIOUS
<1>3. PICK z : z = c.sys
  OBVIOUS
<1>4. /\ y \in MemType /\ y.access = s.access /\ y.delay = s.delay
      /\ AllFine(y, q.now) /\ SamePolicies(s, y)
      /\ AllSuit(s) /\ ~ Fault(s) => ~ Fault(y)
      /\ SIM_MODE # "A" /\ ~ Fault(y) /\ Balanced(s) => Balanced(y)
      /\ SystemRight(s) /\ ~ Fault(y) => SystemRight(y)
  BY <1>1 DEF SystemSeen
<1>5. c.delay = r.delay /\ CountedAs(y, q.type, r.delay, z)
  BY <1>1, <1>2, <1>3, <1>4, CountedFacts
<1>6. /\ AllFine(y, q.now) => AllFine(z, q.now)
      /\ SamePolicies(s, y) => SamePolicies(s, z)
      /\ Fault(z) <=> Fault(y)
      /\ SystemRight(y) => SystemRight(z)
      /\ Balanced(y) => Balanced(z)
  BY <1>4, <1>5, CountingKeeps
<1>7. /\ z \in MemType
      /\ \A t \in ACCESS_TYPES :
             /\ z.access[t] = s.access[t] + (IF t = q.type THEN 1 ELSE 0)
             /\ z.delay[t] = s.delay[t] + (IF t = q.type THEN c.delay ELSE 0)
  BY <1>4, <1>5 DEF CountedAs
<1>8. SIM_MODE # "A" => HitLatency(q.type) <= c.delay
  BY <1>5 DEF HitLatency, Latency
<1> QED  BY <1>2, <1>3, <1>4, <1>5, <1>6, <1>7, <1>8 DEF MemSeen

LEMMA MemView ==
    ASSUME SIM_MODE \in SIM_MODES, NEW s \in MemType, NEW addr \in 0 .. PAGE_SIZE * VPN_TAIL - 1,
           NEW type \in ACCESS_TYPES, NEW k \in Cores, NEW now \in Nat,
           AllFine(s, now), ~ Fault(s)
    PROVE  MemSeen(s, type, now, memsys_access(s, addr, type, k, now))
<1>1. PICK v \in Nat : v = addr \div CACHE_LINESIZE
  <2>1. addr \in Nat /\ CACHE_LINESIZE \in Nat \ {0}
    BY Sizes
  <2> QED  BY <2>1, Divided
<1>2. PICK q : q = Request(v, type, k, now)
  OBVIOUS
<1>3. q \in Requests /\ q.type = type /\ q.now = now /\ q.core_id = k /\ q.line = v
  BY <1>2 DEF Requests, Request
<1>4. SIM_MODE # "DEF" => k = 0 /\ Owner(q.line) = 0
  BY MemSysAssumption DEF Cores, Owner
<1>5. CASE SIM_MODE = "A"
  <2>1. PICK r : r = memsys_access_modeA(s, q)
    OBVIOUS
  <2>2. memsys_access(s, addr, type, k, now) = Counted(q, r)
    BY <1>1, <1>2, <1>5, <2>1 DEF memsys_access
  <2>3. Asked(s, q, 0)
    BY <1>3, <1>4, <1>5 DEF Asked
  <2>4. ModeASeen(s, q, r)
    BY <1>5, <2>1, <2>3, ModeAView
  <2>5. IsPair(r)
    BY <2>1, ArePairs
  <2>6. MemSeen(s, q.type, q.now, Counted(q, r))
    BY <1>3, <1>5, <2>4, <2>5, CountedView DEF ModeASeen, SystemRight
  <2> QED  BY <1>3, <2>2, <2>6
<1>6. CASE SIM_MODE \in {"B", "C"}
  <2>1. PICK r : r = TwoLevels(s, q, 0)
    OBVIOUS
  <2>2. memsys_access(s, addr, type, k, now) = Counted(q, r)
    BY <1>1, <1>2, <1>6, <2>1 DEF memsys_access, memsys_access_modeBC
  <2>3. Asked(s, q, 0)
    BY <1>3, <1>4, <1>6 DEF Asked
  <2>4. TwoLevelsSeen(s, q, r)
    BY <2>1, <2>3, TwoLevelsView
  <2>5. IsPair(r)
    BY <2>1, ArePairs
  <2>6. MemSeen(s, q.type, q.now, Counted(q, r))
    BY <1>3, <1>6, <2>4, <2>5, CountedView DEF TwoLevelsSeen, SystemRight
  <2> QED  BY <1>3, <2>2, <2>6
<1>7. CASE SIM_MODE = "DEF"
  <2>1. PICK p : p = Physical(q)
    OBVIOUS
  <2>2. PICK r : r = TwoLevels(s, p, k)
    OBVIOUS
  <2>3. PICK x \in Nat : x = PhysicalLine(v, k) /\ Owner(x) = k
    BY <1>1, <1>7, OwnLine
  <2>4. p \in Requests /\ p.type = type /\ p.now = now /\ p.core_id = k /\ p.line = x
    BY <1>3, <2>1, <2>3 DEF Requests, Physical
  <2>5. memsys_access(s, addr, type, k, now) = Counted(q, r)
    BY <1>1, <1>2, <1>3, <1>7, <2>1, <2>2 DEF memsys_access, memsys_access_modeDEF
  <2>6. Asked(s, p, k)
    BY <2>3, <2>4 DEF Asked
  <2>7. TwoLevelsSeen(s, p, r)
    BY <2>2, <2>6, TwoLevelsView
  <2>8. IsPair(r)
    BY <2>2, ArePairs
  <2>9. /\ r.delay \in Nat /\ Latency(q) <= r.delay /\ SystemSeen(s, q.now, r.sys)
        /\ SystemRight(s) /\ ~ Fault(r.sys) => SystemRight(r.sys)
    BY <1>3, <1>7, <2>4, <2>7 DEF TwoLevelsSeen, SystemRight, Latency
  <2>10. MemSeen(s, q.type, q.now, Counted(q, r))
    BY <1>3, <2>8, <2>9, CountedView
  <2> QED  BY <1>3, <2>5, <2>10
<1>8. SIM_MODE \in {"A", "B", "C", "DEF"}
  BY DRAMAssumption
<1> QED  BY <1>5, <1>6, <1>7, <1>8

-----------------------------------------------------------------------------
(* The cores and the loop of main. *)

L2Policies == IF "DEF" \in SIM_MODES THEN L2CACHE_REPLS ELSE {REPL_POLICY}

Addresses == 0 .. PAGE_SIZE * VPN_TAIL - 1

\* A core in cycle t.
CoreState(t) ==
    [done : BOOLEAN, trace : MemRecords \cup {NoRecord},
     snooze_end_cycle : Nat, inst_count : 0 .. MaxInst,
     done_inst_count : 0 .. MaxInst, done_cycle_count : 0 .. t]

\* The caches: no line is from the future, none is there twice, and a valid
\* line is of the core to whose frames its address belongs.
CachesInv ==
    /\ SIM_MODE \in SIM_MODES
    /\ sys \in MemType
    /\ AllFine(sys, current_cycle)
    /\ \A n \in L1s : \A k \in Cores : sys[n][k].replacement_policy = REPL_POLICY
    /\ sys.l2cache.replacement_policy \in L2Policies

\* A core that is not done has a record to execute.
CoresInv ==
    /\ core \in [Cores -> CoreState(current_cycle)]
    /\ \A k \in Cores : ~ core[k].done =>
           core[k].trace \in MemRecords /\ core[k].inst_count < MaxInst
    /\ current_cycle \in 0 .. MaxCycle /\ i \in 0 .. NUM_CORES
    /\ all_cores_done \in BOOLEAN /\ running \in BOOLEAN

\* When all are done, the last has become so in this cycle, or in the one
\* before once the loop has ended.
LoopInv ==
    /\ all_cores_done <=> \A k \in Cores : k < i => core[k].done
    /\ running /\ (\A k \in Cores : core[k].done) =>
           \E k \in Cores : core[k].done_cycle_count = current_cycle
    /\ ~ running => /\ \A k \in Cores : core[k].done_cycle_count <= current_cycle - 1
                    /\ \E k \in Cores : core[k].done_cycle_count = current_cycle - 1

RightInv   == ~ Fault(sys) => SystemRight(sys)
TrafficInv == SIM_MODE # "A" /\ ~ Fault(sys) => Balanced(sys)

MemInv == CachesInv /\ CoresInv /\ LoopInv /\ RightInv /\ TrafficInv

LEMMA RecordFacts ==
    ASSUME NEW r \in MemRecords \cup {NoRecord}
    PROVE  /\ r.inst_addr \in Addresses /\ r.ldst_addr \in Addresses
           /\ r.inst_type \in {"ALU", "LOAD", "STORE", "OTHER"}
<1>1. CASE r \in MemRecords
  BY <1>1, MemSimAssumption DEF Addresses
<1>2. CASE r = NoRecord
  <2>1. PICK P \in Nat \ {0} : P = PAGE_SIZE
    BY MemSysAssumption
  <2>2. PICK V \in Nat \ {0} : V = VPN_TAIL
    BY MemSysAssumption
  <2>3. PICK m \in Nat : V = 1 + m
    <3>1. V - 1 \in Nat /\ V = 1 + (V - 1)
      OBVIOUS
    <3> QED  BY <3>1
  <2>4. P * V = P + P * m /\ P * m \in Nat
    BY <2>3
  <2>5. 0 \in Addresses
    BY <2>1, <2>2, <2>4 DEF Addresses
  <2> QED  BY <1>2, <2>5 DEF NoRecord
<1> QED  BY <1>1, <1>2

\* Core k with the next record, or at the end of its trace.
ReadSeen(k, t, r) ==
    /\ r \in CoreState(t)
    /\ ~ r.done => r.trace \in MemRecords /\ r.inst_count < MaxInst
    /\ r.done => r.done_cycle_count = t
    /\ r.snooze_end_cycle = k.snooze_end_cycle /\ r.inst_count = k.inst_count

LEMMA ReadFacts ==
    ASSUME NEW t \in Nat, t = current_cycle, NEW k \in CoreState(t), ~ k.done,
           NEW r \in AfterRead(k)
    PROVE  ReadSeen(k, t, r)
<1>1. CASE \E x \in IF k.inst_count < MaxInst THEN MemRecords ELSE {} : r = [k EXCEPT !.trace = x]
  <2>1. PICK x \in MemRecords : r = [k EXCEPT !.trace = x] /\ k.inst_count < MaxInst
    BY <1>1
  <2>2. /\ r \in CoreState(t) /\ r.trace = x /\ r.done = k.done /\ r.inst_count = k.inst_count
        /\ r.snooze_end_cycle = k.snooze_end_cycle
    BY <2>1 DEF CoreState
  <2> QED  BY <2>1, <2>2 DEF ReadSeen
<1>2. CASE r = [k EXCEPT !.trace = NoRecord, !.done = TRUE,
                         !.done_inst_count = k.inst_count, !.done_cycle_count = current_cycle]
  <2>1. PICK yes \in BOOLEAN : yes = TRUE
    OBVIOUS
  <2>2. PICK x \in MemRecords \cup {NoRecord} : x = NoRecord
    OBVIOUS
  <2>3. PICK n \in 0 .. MaxInst : n = k.inst_count
    BY DEF CoreState
  <2>4. r = [k EXCEPT !.trace = x, !.done = yes, !.done_inst_count = n, !.done_cycle_count = t]
    BY <1>2, <2>1, <2>2, <2>3
  <2>5. t \in 0 .. t
    OBVIOUS
  <2>6. /\ r \in CoreState(t) /\ r.done = yes /\ r.inst_count = k.inst_count
        /\ r.done_cycle_count = t /\ r.snooze_end_cycle = k.snooze_end_cycle
    BY <2>4, <2>5 DEF CoreState
  <2> QED  BY <2>1, <2>6 DEF ReadSeen
<1> QED  BY <1>1, <1>2 DEF AfterRead

\* What an instruction of this type does to the memory system s: z is what it
\* leaves, fetch and data the delays of its accesses.
InstructionSeen(s, now, type, fetch, data, z) ==
    /\ z \in MemType /\ fetch \in Nat /\ data \in Nat
    /\ AllFine(z, now) /\ SamePolicies(s, z)
    /\ AllSuit(s) => ~ Fault(z)
    /\ ~ Fault(z) /\ SystemRight(s) => SystemRight(z)
    /\ SIM_MODE # "A" /\ ~ Fault(z) /\ Balanced(s) => Balanced(z)
    /\ z.access["IFETCH"] = s.access["IFETCH"] + 1
    /\ z.delay["IFETCH"] = s.delay["IFETCH"] + fetch
    /\ ~ Fault(z) =>
           /\ z.access["LOAD"] = s.access["LOAD"] + (IF type = "LOAD" THEN 1 ELSE 0)
           /\ z.delay["LOAD"] = s.delay["LOAD"] + (IF type = "LOAD" THEN data ELSE 0)
           /\ SIM_MODE # "A" => /\ ICACHE_HIT_LATENCY <= fetch
                                /\ type = "LOAD" => DCACHE_HIT_LATENCY <= data

LEMMA InstructionView ==
    ASSUME CachesInv, CoresInv, ~ Fault(sys), NEW k \in Cores, ~ core[k].done,
           NEW f, f = memsys_access(sys, core[k].trace.inst_addr, "IFETCH", k, current_cycle),
           NEW d, d = DataAccess(f.sys, k)
    PROVE  InstructionSeen(sys, current_cycle, core[k].trace.inst_type, f.delay, d.delay, d.sys)
<1>1. PICK rec : rec = core[k].trace
  OBVIOUS
<1>2. rec \in MemRecords
  BY <1>1 DEF CoresInv
<1>3. /\ rec.inst_addr \in Addresses /\ rec.ldst_addr \in Addresses
  BY <1>2, RecordFacts
<1>4. PICK now \in Nat : now = current_cycle
  BY DEF CoresInv
<1>5. PICK s \in MemType : s = sys
  BY DEF CachesInv
<1>6. SIM_MODE \in SIM_MODES /\ AllFine(s, now) /\ ~ Fault(s)
  BY <1>4, <1>5 DEF CachesInv
<1>7. PICK fetch \in ACCESS_TYPES : fetch = "IFETCH"
  BY DEF ACCESS_TYPES
<1>8. MemSeen(s, fetch, now, f)
  <2>1. PICK a \in 0 .. PAGE_SIZE * VPN_TAIL - 1 : a = rec.inst_addr
    BY <1>3 DEF Addresses
  <2>2. f = memsys_access(s, a, fetch, k, now)
    BY <1>1, <1>4, <1>5, <1>7, <2>1
  <2> QED  BY <1>6, <2>2, MemView
<1>9. PICK e : e = f.sys
  OBVIOUS
<1>10. PICK df : df = f.delay
  OBVIOUS
<1>11. PICK z : z = d.sys
  OBVIOUS
<1>12. PICK dd : dd = d.delay
  OBVIOUS
<1>13. PICK type : type = rec.inst_type
  OBVIOUS
<1> SUFFICES InstructionSeen(s, now, type, df, dd, z)
  BY <1>1, <1>4, <1>5, <1>10, <1>11, <1>12, <1>13
<1>14. "IFETCH" \in ACCESS_TYPES /\ "LOAD" \in ACCESS_TYPES
  BY DEF ACCESS_TYPES
<1>15. \A y \in MemType : \A t \in ACCESS_TYPES : y.access[t] \in Nat /\ y.delay[t] \in Nat
  BY DEF MemType, Counters
<1>16. /\ e \in MemType /\ df \in Nat /\ AllFine(e, now) /\ SamePolicies(s, e)
       /\ SIM_MODE # "A" => ICACHE_HIT_LATENCY <= df
       /\ AllSuit(s) => ~ Fault(e)
       /\ ~ Fault(e) /\ SystemRight(s) => SystemRight(e)
       /\ SIM_MODE # "A" /\ ~ Fault(e) /\ Balanced(s) => Balanced(e)
       /\ e.access["IFETCH"] = s.access["IFETCH"] + 1
       /\ e.delay["IFETCH"] = s.delay["IFETCH"] + df
       /\ e.access["LOAD"] = s.access["LOAD"] + 0
       /\ e.delay["LOAD"] = s.delay["LOAD"] + 0
  BY <1>6, <1>7, <1>8, <1>9, <1>10, <1>14 DEF MemSeen, HitLatency
<1>17. e.access["LOAD"] = s.access["LOAD"] /\ e.delay["LOAD"] = s.delay["LOAD"]
  BY <1>14, <1>15, <1>16
<1>18. CASE type \notin {"LOAD", "STORE"} \/ Fault(e)
  <2>1. d = [delay |-> 0, sys |-> e]
    BY <1>1, <1>9, <1>13, <1>18 DEF DataAccess
  <2>2. z = e /\ dd = 0
    BY <1>11, <1>12, <2>1, Pair
  <2>3. type = "LOAD" => Fault(e)
    BY <1>18
  <2>4. e.access["LOAD"] + 0 = s.access["LOAD"] + 0 /\ e.delay["LOAD"] + 0 = s.delay["LOAD"] + 0
    BY <1>17
  <2> QED  BY <1>16, <2>2, <2>3, <2>4 DEF InstructionSeen
<1>19. CASE ~ Fault(e) /\ type \in {"LOAD", "STORE"}
  <2>1. PICK ty \in ACCESS_TYPES : ty = type /\ ty # "IFETCH"
    BY <1>19 DEF ACCESS_TYPES
  <2>2. MemSeen(e, ty, now, d)
    <3>1. PICK a \in 0 .. PAGE_SIZE * VPN_TAIL - 1 : a = rec.ldst_addr
      BY <1>3 DEF Addresses
    <3>2. d = memsys_access(e, a, ty, k, now)
      BY <1>1, <1>4, <1>9, <1>13, <1>19, <2>1, <3>1 DEF DataAccess
    <3> QED  BY <1>6, <1>16, <1>19, <3>2, MemView
  <2>3. /\ z \in MemType /\ dd \in Nat /\ AllFine(z, now) /\ SamePolicies(e, z)
        /\ AllSuit(e) => ~ Fault(z)
        /\ ~ Fault(z) /\ SystemRight(e) => SystemRight(z)
        /\ SIM_MODE # "A" /\ ~ Fault(z) /\ Balanced(e) => Balanced(z)
        /\ z.access["IFETCH"] = e.access["IFETCH"] + 0
        /\ z.delay["IFETCH"] = e.delay["IFETCH"] + 0
        /\ z.access["LOAD"] = e.access["LOAD"] + (IF type = "LOAD" THEN 1 ELSE 0)
        /\ z.delay["LOAD"] = e.delay["LOAD"] + (IF type = "LOAD" THEN dd ELSE 0)
        /\ SIM_MODE # "A" => (type = "LOAD" => DCACHE_HIT_LATENCY <= dd)
    BY <1>11, <1>12, <1>14, <1>19, <2>1, <2>2 DEF MemSeen, HitLatency
  <2>4. SamePolicies(s, z)
    BY <1>16, <2>3 DEF SamePolicies
  <2>5. AllSuit(s) => AllSuit(e)
    BY <1>16 DEF AllSuit, SamePolicies
  <2>6. e.access["IFETCH"] \in Nat /\ e.delay["IFETCH"] \in Nat
    BY <1>14, <1>15, <1>16
  <2>7. /\ z.access["IFETCH"] = s.access["IFETCH"] + 1
        /\ z.delay["IFETCH"] = s.delay["IFETCH"] + df
    BY <1>16, <2>3, <2>6
  <2> QED  BY <1>16, <1>17, <1>19, <2>3, <2>4, <2>5, <2>7 DEF InstructionSeen
<1> QED  BY <1>18, <1>19

\* The definitions that mention the mode, which does not change.
LEMMA SameMode ==
    ASSUME SIM_MODE' = SIM_MODE
    PROVE  /\ \A s, t : AllFine(s, t)' <=> AllFine(s, t)
           /\ \A s : SystemRight(s)' <=> SystemRight(s)
<1>1. \A l : Owner(l)' = Owner(l)
  BY DEF Owner
<1>2. \A c, x, line, t, O, m : LineFine(c, x, line, t, O, m)' <=> LineFine(c, x, line, t, O, m)
  BY <1>1 DEF LineFine
<1>3. \A c, t, O, m : Fine(c, t, O, m)' <=> Fine(c, t, O, m)
  BY <1>2 DEF Fine
<1>4. \A s, t : AllFine(s, t)' <=> AllFine(s, t)
  BY <1>3 DEF AllFine
<1>5. \A s, x : DOf(s, x)' = DOf(s, x)
  BY <1>1 DEF DOf
<1>6. \A s, x : Right(s, x)' <=> Right(s, x)
  BY <1>5 DEF Right
<1>7. \A s : SystemRight(s)' <=> SystemRight(s)
  BY <1>5, <1>6 DEF SystemRight, AllRight, AllRightA
<1> QED  BY <1>4, <1>7

\* A cache as it is made.
IsNew(n, a, p, c) ==
    /\ c \in CacheOf(n, a) /\ ~ c.fault /\ c.replacement_policy = p
    /\ Misses(c) = 0 /\ c.stat_dirty_evicts = 0
    /\ c.stat_read_access = 0 /\ c.stat_write_access = 0
    /\ \A t \in Nat : \A O, m : Fine(c, t, O, m)
    /\ \A s \in Sets(c) : \A w \in Ways(c) : ~ c.sets[s][w].valid
    /\ \A x \in Nat : Copies(c, x) = {}

LEMMA NewCacheView ==
    ASSUME NEW size, NEW a \in Nat \ {0}, NEW p \in Policies,
           size \div (a * CACHE_LINESIZE) \in Nat \ {0}
    PROVE  IsNew(size \div (a * CACHE_LINESIZE), a, p, cache_new(size, a, CACHE_LINESIZE, p))
<1>1. PICK n \in Nat \ {0} : n = size \div (a * CACHE_LINESIZE)
  OBVIOUS
<1>2. PICK c : c = cache_new(size, a, CACHE_LINESIZE, p)
  OBVIOUS
<1>3. /\ c \in CacheOf(n, a) /\ ~ c.fault /\ c.replacement_policy = p
      /\ \A s \in 0 .. n - 1 : \A w \in 0 .. a - 1 : c.sets[s][w] = EmptyLine
  <2>1. c \in CacheOf(size \div (a * CACHE_LINESIZE), a)
    BY <1>2, NewCache
  <2>2. ~ c.fault /\ c.replacement_policy = p
    BY <1>2, NewCache
  <2>3. \A s \in 0 .. size \div (a * CACHE_LINESIZE) - 1 : \A w \in 0 .. a - 1 :
            c.sets[s][w] = EmptyLine
    BY <1>2, NewCache
  <2> QED  BY <1>1, <2>1, <2>2, <2>3
<1>4. /\ c.stat_read_access = 0 /\ c.stat_read_miss = 0 /\ c.stat_write_access = 0
      /\ c.stat_write_miss = 0 /\ c.stat_dirty_evicts = 0
  BY <1>2 DEF cache_new
<1>5. Sets(c) = 0 .. n - 1 /\ Ways(c) = 0 .. a - 1
  <2>1. 0 \in Nat
    OBVIOUS
  <2> QED  BY <1>3, <2>1, Address
<1>6. ~ EmptyLine.valid /\ ~ EmptyLine.dirty /\ EmptyLine.last_access_time = 0
      /\ EmptyLine.coreID = 0
  BY DEF EmptyLine
<1>7. ASSUME NEW t \in Nat, NEW O, NEW m PROVE Fine(c, t, O, m)
  <2>1. \A s : LineFine(c, s, EmptyLine, t, O, m)
    BY <1>6 DEF LineFine
  <2> QED  BY <1>3, <1>5, <1>6, <2>1 DEF Fine
<1>8. ASSUME NEW x \in Nat PROVE Copies(c, x) = {}
  <2>1. IndexOf(c, x) \in 0 .. n - 1
    BY <1>3, Address
  <2>2. \A w \in Ways(c) : SetOf(c, x)[w] = EmptyLine
    BY <1>3, <1>5, <2>1 DEF SetOf
  <2> QED  BY <1>6, <2>2 DEF Copies
<1>9. Misses(c) = 0
  BY <1>4 DEF Misses
<1> QED  BY <1>1, <1>2, <1>3, <1>4, <1>5, <1>6, <1>7, <1>8, <1>9 DEF IsNew

\* The memory system as it is made.
SystemIsNew(s) ==
    /\ s \in MemType
    /\ \A n \in L1s : \A k \in Cores : IsNew(SetCount(n), WayCount(n), REPL_POLICY, s[n][k])
    /\ \E p \in L2Policies : IsNew(LSets, L2CACHE_ASSOC, p, s.l2cache)
    /\ s.dram = dram_new
    /\ \A t \in ACCESS_TYPES : s.access[t] = 0 /\ s.delay[t] = 0

LEMMA NewSystem ==
    ASSUME SIM_MODE \in SIM_MODES, NEW p \in L2CACHE_REPLS
    PROVE  SystemIsNew(memsys_new(p))
<1>1. REPL_POLICY \in Policies /\ p \in Policies
  BY MemSysAssumption, MemSimAssumption DEF Policies
<1>2. PICK dc : dc = cache_new(DCACHE_SIZE, DCACHE_ASSOC, CACHE_LINESIZE, REPL_POLICY)
  OBVIOUS
<1>3. PICK ic : ic = cache_new(ICACHE_SIZE, ICACHE_ASSOC, CACHE_LINESIZE, REPL_POLICY)
  OBVIOUS
<1>4. PICK r \in L2Policies \cap Policies : r = IF SIM_MODE = "DEF" THEN p ELSE REPL_POLICY
  BY <1>1, MemSysAssumption DEF L2Policies
<1>5. PICK lc : lc = cache_new(L2CACHE_SIZE, L2CACHE_ASSOC, CACHE_LINESIZE, r)
  OBVIOUS
<1>6. IsNew(DSets, DCACHE_ASSOC, REPL_POLICY, dc)
  BY <1>1, <1>2, Shapes, NewCacheView DEF DSets
<1>7. IsNew(ISets, ICACHE_ASSOC, REPL_POLICY, ic)
  BY <1>1, <1>3, Shapes, NewCacheView DEF ISets
<1>8. IsNew(LSets, L2CACHE_ASSOC, r, lc)
  BY <1>4, <1>5, Shapes, NewCacheView DEF LSets
<1>9. PICK D : D = [k \in Cores |-> dc]
  OBVIOUS
<1>10. PICK I : I = [k \in Cores |-> ic]
  OBVIOUS
<1>11. PICK Z : Z = [t \in ACCESS_TYPES |-> 0]
  OBVIOUS
<1>12. PICK s : s = memsys_new(p)
  OBVIOUS
<1>13. s = [dcache |-> D, icache |-> I, l2cache |-> lc, dram |-> dram_new,
            access |-> Z, delay |-> Z]
  BY <1>2, <1>3, <1>4, <1>5, <1>9, <1>10, <1>11, <1>12 DEF memsys_new
<1>14. D \in DCaches /\ I \in ICaches /\ lc \in L2Cache
  BY <1>6, <1>7, <1>8, <1>9, <1>10 DEF IsNew, DCaches, ICaches, L2Cache
<1>15. Z \in Counters /\ \A t \in ACCESS_TYPES : Z[t] = 0
  BY <1>11 DEF Counters
<1>16. s \in MemType
  BY <1>13, <1>14, <1>15, NewDram DEF MemType
<1>17. s["dcache"] = D /\ s["icache"] = I
  BY <1>13
<1>18. ASSUME NEW n \in L1s, NEW k \in Cores
       PROVE  IsNew(SetCount(n), WayCount(n), REPL_POLICY, s[n][k])
  <2>1. CASE n = "dcache"
    BY <1>6, <1>9, <1>17, <2>1 DEF SetCount, WayCount
  <2>2. CASE n = "icache"
    BY <1>7, <1>10, <1>17, <2>2 DEF SetCount, WayCount
  <2> QED  BY <2>1, <2>2 DEF L1s
<1>19. s.l2cache = lc /\ s.dram = dram_new /\ s.access = Z /\ s.delay = Z
  BY <1>13
<1> QED  BY <1>4, <1>8, <1>12, <1>15, <1>16, <1>18, <1>19 DEF SystemIsNew

LEMMA NewIsRight ==
    ASSUME SIM_MODE \in SIM_MODES, NEW s, SystemIsNew(s)
    PROVE  AllFine(s, 0) /\ SystemRight(s) /\ Balanced(s)
<1>1. PICK p \in L2Policies : IsNew(LSets, L2CACHE_ASSOC, p, s.l2cache)
  BY DEF SystemIsNew
<1>2. \A n \in L1s : \A k \in Cores : IsNew(SetCount(n), WayCount(n), REPL_POLICY, s[n][k])
  BY DEF SystemIsNew
<1>3. 0 \in Nat /\ "dcache" \in L1s /\ "icache" \in L1s /\ 0 \in Cores
  BY ZeroIsACore DEF L1s
<1>4. AllFine(s, 0)
  BY <1>1, <1>2, <1>3 DEF AllFine, IsNew
<1>5. \A x \in Nat : Copies(DOf(s, x), x) = {} /\ Copies(s.l2cache, x) = {}
  <2>1. ASSUME NEW x \in Nat PROVE Copies(DOf(s, x), x) = {}
    <3>1. Owner(x) \in Cores
      BY OwnerIsACore
    <3> QED  BY <1>2, <1>3, <3>1 DEF DOf, IsNew
  <2> QED  BY <1>1, <2>1 DEF IsNew
<1>6. /\ s.dram.stale = {} /\ s.dram.stat_read_access = 0 /\ s.dram.stat_write_access = 0
  BY DEF SystemIsNew, dram_new
<1>7. ASSUME NEW x \in Nat PROVE Right(s, x)
  <2>1. AllCurrent(DOf(s, x), x) /\ AllCurrent(s.l2cache, x)
    BY <1>5 DEF AllCurrent
  <2> QED  BY <1>6, <2>1 DEF Right, Below
<1>8. SystemRight(s)
  BY <1>5, <1>7 DEF SystemRight, AllRight, AllRightA, AllCurrent
<1>9. LowBalance(s)
  BY <1>1, <1>6 DEF LowBalance, IsNew
<1>10. \A k \in Cores : MissesOf(s, k) = 0 /\ EvictsOf(s, k) = 0
  BY <1>2, <1>3 DEF MissesOf, EvictsOf, IsNew
<1>11. Reads(s) = 0 /\ Evicts(s) = 0
  <2>1. CASE NUM_CORES = 1
    BY <1>3, <1>10, <2>1 DEF Reads, Evicts
  <2>2. CASE NUM_CORES # 1
    <3>1. 1 \in Cores
      BY <2>2, ZeroIsACore DEF Cores
    <3> QED  BY <1>3, <1>10, <2>2, <3>1 DEF Reads, Evicts
  <2> QED  BY <2>1, <2>2
<1>12. UpBalance(s)
  BY <1>1, <1>11 DEF UpBalance, IsNew
<1> QED  BY <1>4, <1>8, <1>9, <1>12 DEF Balanced

-----------------------------------------------------------------------------
(* The invariant. *)

LEMMA NewCoreFacts ==
    NewCore \in CoreState(0) /\ ~ NewCore.done /\ NewCore.inst_count = 0
    /\ NewCore.snooze_end_cycle = 0
<1>1. 0 \in 0 .. MaxInst /\ 0 \in 0 .. 0
  BY MemSimAssumption
<1>2. PICK no \in BOOLEAN : no = FALSE
  OBVIOUS
<1>3. NewCore = [done |-> no, trace |-> NoRecord, snooze_end_cycle |-> 0, inst_count |-> 0,
                 done_inst_count |-> 0, done_cycle_count |-> 0]
  BY <1>2 DEF NewCore
<1> QED  BY <1>1, <1>2, <1>3 DEF CoreState

LEMMA MemInvInit == Init => MemInv
<1> SUFFICES ASSUME Init PROVE MemInv
  OBVIOUS
<1>1. PICK p \in L2CACHE_REPLS : sys = memsys_new(p)
  BY DEF Init
<1>2. SystemIsNew(sys) /\ SIM_MODE \in SIM_MODES
  BY <1>1, NewSystem DEF Init
<1>3. current_cycle = 0 /\ i = 0 /\ core \in [Cores -> AfterRead(NewCore)]
  BY DEF Init
<1>4. AllFine(sys, 0) /\ SystemRight(sys) /\ Balanced(sys)
  BY <1>2, NewIsRight
<1>5. CachesInv
  <2>1. sys \in MemType
    BY <1>2 DEF SystemIsNew
  <2>2. \A n \in L1s : \A k \in Cores : sys[n][k].replacement_policy = REPL_POLICY
    BY <1>2 DEF SystemIsNew, IsNew
  <2>3. sys.l2cache.replacement_policy \in L2Policies
    BY <1>2 DEF SystemIsNew, IsNew
  <2> QED  BY <1>2, <1>3, <1>4, <2>1, <2>2, <2>3 DEF CachesInv
<1>6. ASSUME NEW k \in Cores PROVE ReadSeen(NewCore, 0, core[k])
  <2>1. 0 \in Nat /\ core[k] \in AfterRead(NewCore)
    BY <1>3
  <2> QED  BY <1>3, <2>1, NewCoreFacts, ReadFacts
<1>7. core \in [Cores -> CoreState(0)]
  BY <1>3, <1>6 DEF ReadSeen
<1>8. CoresInv
  <2>1. 0 \in 0 .. MaxCycle /\ 0 \in 0 .. NUM_CORES
    BY MemSimAssumption, ZeroIsACore
  <2>2. all_cores_done \in BOOLEAN /\ running \in BOOLEAN
    BY DEF Init
  <2>3. \A k \in Cores : ~ core[k].done =>
            core[k].trace \in MemRecords /\ core[k].inst_count < MaxInst
    BY <1>6 DEF ReadSeen
  <2> QED  BY <1>3, <1>7, <2>1, <2>2, <2>3 DEF CoresInv
<1>9. LoopInv
  <2>1. all_cores_done /\ running
    BY DEF Init
  <2>2. \A k \in Cores : ~ k < i
    BY <1>3 DEF Cores
  <2>3. 0 \in Cores
    BY ZeroIsACore
  <2>4. \A k \in Cores : core[k].done => core[k].done_cycle_count = current_cycle
    BY <1>3, <1>6 DEF ReadSeen
  <2> QED  BY <2>1, <2>2, <2>3, <2>4 DEF LoopInv
<1> QED  BY <1>4, <1>5, <1>8, <1>9 DEF MemInv, RightInv, TrafficInv

\* What the core that executes has become.
LEMMA ExecutedView ==
    ASSUME CoresInv, NEW k \in Cores, ~ core[k].done, NEW b \in Nat,
           NEW r \in AfterRead(Executed(core[k], b))
    PROVE  /\ r \in CoreState(current_cycle)
           /\ ~ r.done => r.trace \in MemRecords /\ r.inst_count < MaxInst
           /\ r.done => r.done_cycle_count = current_cycle
           /\ r.inst_count = core[k].inst_count + 1
           /\ r.snooze_end_cycle = IF b > 0 THEN current_cycle + b
                                   ELSE core[k].snooze_end_cycle
<1>1. PICK t \in Nat : t = current_cycle
  BY DEF CoresInv
<1>2. PICK c \in CoreState(t) : c = core[k]
  BY <1>1 DEF CoresInv
<1>3. ~ c.done /\ c.inst_count < MaxInst
  BY <1>2 DEF CoresInv
<1>4. PICK e : e = Executed(c, b)
  OBVIOUS
<1>5. PICK n \in 0 .. MaxInst : n = c.inst_count + 1
  BY <1>3, MemSimAssumption DEF CoreState
<1>6. PICK z \in Nat : z = IF b > 0 THEN t + b ELSE c.snooze_end_cycle
  BY DEF CoreState
<1>7. e = [c EXCEPT !.inst_count = n, !.snooze_end_cycle = z]
  BY <1>1, <1>4, <1>5, <1>6 DEF Executed, CoreState
<1>8. e \in CoreState(t) /\ e.done = c.done /\ e.inst_count = n /\ e.snooze_end_cycle = z
  BY <1>7 DEF CoreState
<1>9. ReadSeen(e, t, r)
  BY <1>1, <1>2, <1>3, <1>4, <1>8, ReadFacts
<1> QED  BY <1>1, <1>2, <1>5, <1>6, <1>8, <1>9 DEF ReadSeen

\* One step of core_cycle that executes.
ExecutesAs(k, f, d, r) ==
    /\ f = memsys_access(sys, core[k].trace.inst_addr, "IFETCH", k, current_cycle)
    /\ d = DataAccess(f.sys, k)
    /\ sys' = d.sys
    /\ r \in AfterRead(Executed(core[k], Bubble("IFETCH", f.delay)
                                         + Bubble(core[k].trace.inst_type, d.delay)))
    /\ core' = [core EXCEPT ![k] = r]
    /\ CallNextCore(r)

LEMMA BubbleType == \A type : \A n \in Nat : Bubble(type, n) \in Nat
BY DEF Bubble

\* What MemInv says of a step that executes an instruction of core k.
ExecuteSeen(k, type, fetch, data, r) ==
    /\ InstructionSeen(sys, current_cycle, type, fetch, data, sys')
    /\ r \in CoreState(current_cycle)
    /\ ~ r.done => r.trace \in MemRecords /\ r.inst_count < MaxInst
    /\ r.done => r.done_cycle_count = current_cycle
    /\ r.inst_count = core[k].inst_count + 1
    /\ r.snooze_end_cycle =
           LET b == Bubble("IFETCH", fetch) + Bubble(type, data)
           IN  IF b > 0 THEN current_cycle + b ELSE core[k].snooze_end_cycle
    /\ core' = [core EXCEPT ![k] = r]
    /\ k = i /\ ~ core[k].done /\ ~ Snoozing(core[k])
    /\ CallNextCore(r)

LEMMA ExecuteView ==
    ASSUME CachesInv, CoresInv, CoreExecutes
    PROVE  \E k \in Cores : \E fetch, data \in Nat : \E r \in CoreState(current_cycle) :
               ExecuteSeen(k, core[k].trace.inst_type, fetch, data, r)
<1>1. PICK k \in Cores : k = i /\ ~ core[k].done /\ ~ Snoozing(core[k]) /\ ~ Fault(sys)
  <2>1. i < NUM_CORES /\ ~ core[i].done /\ ~ Snoozing(core[i]) /\ ~ Fault(sys)
    BY Zenon DEF CoreExecutes
  <2>2. NUM_CORES \in Nat
    BY ZeroIsACore
  <2>3. i \in Cores
    BY <2>1, <2>2 DEF CoresInv, Cores
  <2> QED  BY <2>1, <2>3
<1>2. PICK f, d, r : ExecutesAs(k, f, d, r)
  BY <1>1, Zenon DEF CoreExecutes, ExecutesAs, InstructionFetch
<1>3. /\ f = memsys_access(sys, core[k].trace.inst_addr, "IFETCH", k, current_cycle)
      /\ d = DataAccess(f.sys, k) /\ sys' = d.sys
      /\ core' = [core EXCEPT ![k] = r]
      /\ CallNextCore(r)
  BY <1>2 DEF ExecutesAs
<1>4. PICK type : type = core[k].trace.inst_type
  OBVIOUS
<1>5. InstructionSeen(sys, current_cycle, type, f.delay, d.delay, d.sys)
  BY <1>1, <1>3, <1>4, InstructionView
<1>6. PICK fetch \in Nat : fetch = f.delay
  BY <1>5 DEF InstructionSeen
<1>7. PICK data \in Nat : data = d.delay
  BY <1>5 DEF InstructionSeen
<1>8. PICK b \in Nat : b = Bubble("IFETCH", fetch) + Bubble(type, data)
  <2>1. PICK x \in Nat : x = Bubble("IFETCH", fetch)
    BY BubbleType
  <2>2. PICK y \in Nat : y = Bubble(type, data)
    BY BubbleType
  <2> QED  BY <2>1, <2>2
<1>9. r \in AfterRead(Executed(core[k], b))
  BY <1>2, <1>4, <1>6, <1>7, <1>8 DEF ExecutesAs
<1>10. /\ r \in CoreState(current_cycle)
       /\ ~ r.done => r.trace \in MemRecords /\ r.inst_count < MaxInst
       /\ r.done => r.done_cycle_count = current_cycle
       /\ r.inst_count = core[k].inst_count + 1
       /\ r.snooze_end_cycle = IF b > 0 THEN current_cycle + b ELSE core[k].snooze_end_cycle
  BY <1>1, <1>9, ExecutedView
<1>11. InstructionSeen(sys, current_cycle, type, fetch, data, sys')
  BY <1>3, <1>5, <1>6, <1>7
<1>12. ExecuteSeen(k, type, fetch, data, r)
  BY <1>1, <1>3, <1>8, <1>10, <1>11 DEF ExecuteSeen
<1> QED  BY <1>4, <1>10, <1>12

LEMMA LaterIsFine ==
    ASSUME NEW s \in MemType, NEW t \in Nat, AllFine(s, t)
    PROVE  AllFine(s, t + 1)
<1>1. ASSUME NEW n \in Nat \ {0}, NEW a \in Nat \ {0}, NEW c \in CacheOf(n, a),
             NEW O, NEW m, Fine(c, t, O, m)
      PROVE  Fine(c, t + 1, O, m)
  <2>1. Sets(c) = 0 .. n - 1 /\ Ways(c) = 0 .. a - 1
    <3>1. 0 \in Nat
      OBVIOUS
    <3> QED  BY <3>1, Address
  <2>2. ASSUME NEW x \in Sets(c), NEW w \in Ways(c)
        PROVE  LineFine(c, x, c.sets[x][w], t + 1, O, m)
    <3>1. c.sets[x][w].last_access_time \in Nat
      <4>1. c.sets \in SetsOf(n, a) /\ x \in 0 .. n - 1 /\ w \in 0 .. a - 1
        BY <2>1, <2>2 DEF CacheOf
      <4>2. c.sets[x] \in LinesOfSet(a)
        BY <4>1 DEF SetsOf
      <4>3. c.sets[x][w] \in Line
        BY <4>1, <4>2 DEF LinesOfSet
      <4> QED  BY <4>3 DEF Line
    <3>2. LineFine(c, x, c.sets[x][w], t, O, m)
      BY <1>1 DEF Fine
    <3> QED  BY <3>1, <3>2 DEF LineFine
  <2> QED  BY <1>1, <2>2 DEF Fine
<1>2. ASSUME NEW n \in L1s, NEW k \in Cores PROVE Fine(s[n][k], t + 1, {k}, IsWritten(n))
  <2>1. s[n][k] \in CacheOf(SetCount(n), WayCount(n))
    BY L1Type DEF L1Cache
  <2>2. Fine(s[n][k], t, {k}, IsWritten(n))
    BY DEF AllFine
  <2> QED  BY <1>1, <2>1, <2>2, L1Shape
<1>3. PICK m : m = TRUE
  OBVIOUS
<1>4. Fine(s.l2cache, t + 1, Cores, m)
  <2>1. s.l2cache \in CacheOf(LSets, L2CACHE_ASSOC)
    BY DEF MemType, L2Cache
  <2>2. Fine(s.l2cache, t, Cores, m)
    BY <1>3 DEF AllFine
  <2> QED  BY <1>1, <2>1, <2>2, Shapes
<1> QED  BY <1>2, <1>3, <1>4 DEF AllFine

LEMMA MemInvStep == MemInv /\ [Next]_vars => MemInv'
<1> SUFFICES ASSUME MemInv, [Next]_vars PROVE MemInv'
  OBVIOUS
<1>1. CachesInv /\ CoresInv /\ LoopInv /\ RightInv /\ TrafficInv
  BY DEF MemInv
<1>2. NUM_CORES \in Nat /\ NUM_CORES \in {1, 2} /\ 0 \in Cores
  BY ZeroIsACore
<1>3. /\ current_cycle \in Nat /\ current_cycle <= MaxCycle /\ MaxCycle \in Nat
      /\ i \in 0 .. NUM_CORES
  BY <1>1, MemSimAssumption DEF CoresInv
<1>4. CASE UNCHANGED vars
  <2>1. /\ sys' = sys /\ core' = core /\ current_cycle' = current_cycle /\ i' = i
        /\ all_cores_done' = all_cores_done /\ running' = running /\ SIM_MODE' = SIM_MODE
    BY <1>4 DEF vars, options
  <2>2. CachesInv'
    BY <1>1, <2>1, SameMode DEF CachesInv
  <2>3. CoresInv'
    BY <1>1, <2>1 DEF CoresInv, CoreState
  <2>4. LoopInv'
    BY <1>1, <2>1 DEF LoopInv
  <2>5. RightInv' /\ TrafficInv'
    BY <1>1, <2>1, SameMode DEF RightInv, TrafficInv
  <2> QED  BY <2>2, <2>3, <2>4, <2>5 DEF MemInv
<1>5. CASE CoreIdle
  <2>1. /\ sys' = sys /\ core' = core /\ current_cycle' = current_cycle /\ i' = i + 1
        /\ i < NUM_CORES /\ running
        /\ all_cores_done' = (all_cores_done /\ core[i].done)
        /\ running' = running /\ SIM_MODE' = SIM_MODE
    BY <1>5 DEF CoreIdle, CallNextCore, options
  <2>2. CachesInv'
    BY <1>1, <2>1, SameMode DEF CachesInv
  <2>3. i \in Cores /\ i + 1 \in 0 .. NUM_CORES
    BY <1>2, <1>3, <2>1 DEF Cores
  <2>4. CoresInv'
    <3>1. all_cores_done' \in BOOLEAN
      BY <2>1
    <3> QED  BY <1>1, <2>1, <2>3, <3>1 DEF CoresInv, CoreState
  <2>5. LoopInv'
    <3>1. \A k \in Cores : k < i + 1 <=> (k < i \/ k = i)
      BY <1>3 DEF Cores
    <3>2. all_cores_done' <=> \A k \in Cores : k < i + 1 => core[k].done
      BY <1>1, <2>1, <2>3, <3>1 DEF LoopInv
    <3> QED  BY <1>1, <2>1, <3>2 DEF LoopInv
  <2>6. RightInv' /\ TrafficInv'
    BY <1>1, <2>1, SameMode DEF RightInv, TrafficInv
  <2> QED  BY <2>2, <2>4, <2>5, <2>6 DEF MemInv
<1>6. CASE CoreExecutes
  <2>1. PICK k \in Cores, fetch \in Nat, data \in Nat, r \in CoreState(current_cycle) :
            ExecuteSeen(k, core[k].trace.inst_type, fetch, data, r)
    BY <1>1, <1>6, ExecuteView
  <2>2. /\ InstructionSeen(sys, current_cycle, core[k].trace.inst_type, fetch, data, sys')
        /\ r \in CoreState(current_cycle)
        /\ ~ r.done => r.trace \in MemRecords /\ r.inst_count < MaxInst
        /\ r.done => r.done_cycle_count = current_cycle
        /\ core' = [core EXCEPT ![k] = r]
        /\ k = i /\ ~ core[k].done
    BY <2>1 DEF ExecuteSeen
  <2>3. /\ current_cycle' = current_cycle /\ i' = i + 1
        /\ all_cores_done' = (all_cores_done /\ r.done)
        /\ running' = running /\ SIM_MODE' = SIM_MODE
    BY <2>1 DEF ExecuteSeen, CallNextCore, options
  <2>4. i < NUM_CORES /\ running /\ ~ Fault(sys)
    BY <1>6, Zenon DEF CoreExecutes
  <2>5. /\ sys' \in MemType
        /\ AllFine(sys', current_cycle) /\ SamePolicies(sys, sys')
        /\ ~ Fault(sys') /\ SystemRight(sys) => SystemRight(sys')
        /\ SIM_MODE # "A" /\ ~ Fault(sys') /\ Balanced(sys) => Balanced(sys')
    BY <2>2 DEF InstructionSeen
  <2>6. CachesInv'
    <3>1. AllFine(sys, current_cycle)'
      BY <2>3, <2>5, SameMode
    <3>2. \A n \in L1s : \A j \in Cores : sys'[n][j].replacement_policy = REPL_POLICY
      BY <1>1, <2>5 DEF SamePolicies, CachesInv
    <3>3. sys'.l2cache.replacement_policy \in L2Policies
      BY <1>1, <2>5 DEF SamePolicies, CachesInv
    <3> QED  BY <1>1, <2>3, <2>5, <3>1, <3>2, <3>3 DEF CachesInv
  <2>7. /\ core' \in [Cores -> CoreState(current_cycle)] /\ core'[k] = r
        /\ \A j \in Cores : j # k => core'[j] = core[j]
    BY <1>1, <2>2 DEF CoresInv
  <2>8. CoresInv'
    <3>1. all_cores_done' \in BOOLEAN
      BY <2>3
    <3>2. i' \in 0 .. NUM_CORES
      BY <1>2, <1>3, <2>3, <2>4
    <3>3. ASSUME NEW j \in Cores, ~ core'[j].done
          PROVE  core'[j].trace \in MemRecords /\ core'[j].inst_count < MaxInst
      BY <1>1, <2>2, <2>7, <3>3 DEF CoresInv
    <3>4. core' \in [Cores -> CoreState(current_cycle)']
      BY <2>3, <2>7 DEF CoreState
    <3> QED  BY <1>1, <2>3, <3>1, <3>2, <3>3, <3>4 DEF CoresInv
  <2>9. LoopInv'
    <3>1. \A j \in Cores : j < i + 1 <=> (j < i \/ j = i)
      BY <1>3 DEF Cores
    <3>2. \A j \in Cores : j < i => j # k
      BY <1>3, <2>2
    <3>3. all_cores_done' <=> \A j \in Cores : j < i + 1 => core'[j].done
      BY <1>1, <2>2, <2>3, <2>7, <3>1, <3>2 DEF LoopInv
    <3>4. (\A j \in Cores : core'[j].done) =>
              \E j \in Cores : core'[j].done_cycle_count = current_cycle
      BY <2>2, <2>7
    <3> QED  BY <2>3, <2>4, <3>3, <3>4 DEF LoopInv
  <2>10. RightInv'
    BY <1>1, <2>3, <2>4, <2>5, SameMode DEF RightInv
  <2>11. TrafficInv'
    BY <1>1, <2>3, <2>4, <2>5 DEF TrafficInv
  <2> QED  BY <2>6, <2>8, <2>9, <2>10, <2>11 DEF MemInv
<1>7. CASE EndCycle
  <2>1. /\ sys' = sys /\ core' = core /\ current_cycle' = current_cycle + 1 /\ i' = 0
        /\ i = NUM_CORES /\ running /\ current_cycle < MaxCycle
        /\ all_cores_done' = TRUE
        /\ running' = ~ all_cores_done /\ SIM_MODE' = SIM_MODE
    BY <1>7 DEF EndCycle, EndOfTurn, options
  <2>2. CachesInv'
    <3>1. AllFine(sys, current_cycle + 1)
      BY <1>1, <1>3, LaterIsFine DEF CachesInv
    <3>2. AllFine(sys, current_cycle)'
      BY <2>1, <3>1, SameMode
    <3> QED  BY <1>1, <2>1, <3>2 DEF CachesInv
  <2>3. CoresInv'
    <3>1. core' \in [Cores -> CoreState(current_cycle)']
      <4>1. ASSUME NEW k \in Cores PROVE core[k] \in CoreState(current_cycle + 1)
        BY <1>1, <1>3 DEF CoresInv, CoreState
      <4>2. core \in [Cores -> CoreState(current_cycle + 1)]
        BY <1>1, <4>1 DEF CoresInv
      <4> QED  BY <2>1, <4>2 DEF CoreState
    <3>2. current_cycle' \in 0 .. MaxCycle /\ i' \in 0 .. NUM_CORES
      BY <1>2, <1>3, <2>1
    <3>3. all_cores_done' \in BOOLEAN /\ running' \in BOOLEAN
      BY <2>1
    <3> QED  BY <1>1, <2>1, <3>1, <3>2, <3>3 DEF CoresInv
  <2>4. LoopInv'
    <3>1. \A k \in Cores : k < NUM_CORES /\ ~ k < 0
      BY <1>2 DEF Cores
    <3>2. all_cores_done <=> \A k \in Cores : core[k].done
      BY <1>1, <2>1, <3>1 DEF LoopInv
    <3>3. \A k \in Cores : core[k].done_cycle_count \in 0 .. current_cycle
      BY <1>1 DEF CoresInv, CoreState
    <3>4. current_cycle' - 1 = current_cycle
      BY <1>3, <2>1
    <3>5. all_cores_done => \E k \in Cores : core[k].done_cycle_count = current_cycle
      BY <1>1, <2>1, <3>2 DEF LoopInv
    <3>6. ~ running' => all_cores_done
      BY <2>1
    <3>7. running' => ~ \A k \in Cores : core[k].done
      BY <2>1, <3>2
    <3>8. \A k \in Cores : core[k].done_cycle_count <= current_cycle
      BY <1>3, <3>3
    <3> QED  BY <2>1, <3>1, <3>4, <3>5, <3>6, <3>7, <3>8 DEF LoopInv
  <2>5. RightInv' /\ TrafficInv'
    BY <1>1, <2>1, SameMode DEF RightInv, TrafficInv
  <2> QED  BY <2>2, <2>3, <2>4, <2>5 DEF MemInv
<1> QED  BY <1>4, <1>5, <1>6, <1>7 DEF Next

LEMMA Invariant == Spec => []MemInv
BY MemInvInit, MemInvStep, PTL DEF Spec

-----------------------------------------------------------------------------
(* What follows from it. *)

LEMMA CachesOK ==
    ASSUME NEW n \in Nat \ {0}, NEW a \in Nat \ {0}, NEW c \in CacheOf(n, a), NEW O, NEW m,
           Fine(c, current_cycle, O, m)
    PROVE  \A owners : O \cup {0} \subseteq owners => CacheOK(c, owners)
<1>1. Sets(c) = 0 .. n - 1 /\ Ways(c) = 0 .. a - 1
  <2>1. 0 \in Nat
    OBVIOUS
  <2> QED  BY <2>1, Address
<1>2. ASSUME NEW owners, O \cup {0} \subseteq owners, NEW s \in Sets(c), NEW w \in Ways(c)
      PROVE  LineOK(c.sets[s][w], owners)
  <2>1. c.sets[s][w] \in Line
    <3>1. c.sets \in SetsOf(n, a) /\ s \in 0 .. n - 1 /\ w \in 0 .. a - 1
      BY <1>1, <1>2 DEF CacheOf
    <3>2. c.sets[s] \in LinesOfSet(a)
      BY <3>1 DEF SetsOf
    <3> QED  BY <3>1, <3>2 DEF LinesOfSet
  <2>2. LineFine(c, s, c.sets[s][w], current_cycle, O, m)
    BY <1>2 DEF Fine
  <2> QED  BY <1>2, <2>1, <2>2 DEF LineOK, LineFine, Line
<1> QED  BY <1>2 DEF CacheOK

LEMMA TypesFollow == CachesInv /\ CoresInv => MemTypeOK
<1> SUFFICES ASSUME CachesInv, CoresInv PROVE MemTypeOK
  OBVIOUS
<1>1. sys \in MemType /\ AllFine(sys, current_cycle)
  BY DEF CachesInv
<1>2. sys["dcache"] = sys.dcache /\ sys["icache"] = sys.icache
  BY <1>1 DEF MemType
<1>3. ASSUME NEW n \in L1s, NEW k \in Cores PROVE CacheOK(sys[n][k], {0, k})
  <2>1. sys[n][k] \in CacheOf(SetCount(n), WayCount(n))
    BY <1>1, L1Type DEF L1Cache
  <2>2. Fine(sys[n][k], current_cycle, {k}, IsWritten(n))
    BY <1>1 DEF AllFine
  <2>3. {k} \cup {0} \subseteq {0, k}
    OBVIOUS
  <2> QED  BY <2>1, <2>2, <2>3, L1Shape, CachesOK
<1>4. \A k \in Cores : CacheOK(sys.dcache[k], {0, k}) /\ CacheOK(sys.icache[k], {0, k})
  BY <1>2, <1>3 DEF L1s
<1>5. CacheOK(sys.l2cache, Cores)
  <2>1. sys.l2cache \in CacheOf(LSets, L2CACHE_ASSOC)
    BY <1>1 DEF MemType, L2Cache
  <2>2. PICK m : m = TRUE
    OBVIOUS
  <2>3. Fine(sys.l2cache, current_cycle, Cores, m)
    BY <1>1, <2>2 DEF AllFine
  <2>4. Cores \cup {0} \subseteq Cores
    BY ZeroIsACore
  <2> QED  BY <2>1, <2>3, <2>4, Shapes, CachesOK
<1>6. sys.dram.row_buffer_array \in [0 .. NUM_BANKS - 1 -> [valid : BOOLEAN, row_id : Nat]]
  BY <1>1 DEF MemType, DramType, RowBuffers
<1> QED  BY <1>4, <1>5, <1>6 DEF MemTypeOK, CoresInv, CoreState

\* Type correctness: no line of a cache is from the future, a dirty line is
\* valid, and a core's own caches hold that core's lines only (cache_access,
\* cache_install).
THEOREM MemTypesHold == Spec => []MemTypeOK
<1>1. MemInv => MemTypeOK
  BY TypesFollow DEF MemInv
<1> QED  BY <1>1, Invariant, PTL

\* No cache ever holds a line twice, of whatever size it is and whatever the
\* replacement policy: a line is installed only after it was looked for in
\* vain under the one core to whose frames it belongs.
THEOREM LinesAreSingle == Spec => []OneCopy
<1>1. ASSUME MemInv PROVE OneCopy
  <2>1. sys \in MemType /\ AllFine(sys, current_cycle)
    BY <1>1 DEF MemInv, CachesInv
  <2>2. sys["dcache"] = sys.dcache /\ sys["icache"] = sys.icache
    BY <2>1 DEF MemType
  <2>3. \A k \in Cores :
            /\ Fine(sys.dcache[k], current_cycle, {k}, IsWritten("dcache"))
            /\ Fine(sys.icache[k], current_cycle, {k}, IsWritten("icache"))
    BY <2>1, <2>2 DEF AllFine, L1s
  <2>4. PICK m : m = TRUE
    OBVIOUS
  <2>5. Fine(sys.l2cache, current_cycle, Cores, m)
    BY <2>1, <2>4 DEF AllFine
  <2>6. \A c \in L1Caches \cup {sys.l2cache} : \E O, w : Fine(c, current_cycle, O, w)
    BY <2>3, <2>5 DEF L1Caches
  <2> QED  BY <2>6 DEF OneCopy, Fine
<1> QED  BY <1>1, Invariant, PTL

\* What the policies need of the sizes: a quota that leaves each core a way of
\* every set that is full, and under DWP two ways.  sim.cpp checks neither.
QuotasFit ==
    /\ \A n \in L1s : \A k \in Cores : Suits(REPL_POLICY, WayCount(n), {k})
    /\ \A p \in L2Policies : Suits(p, L2CACHE_ASSOC, Cores)

LEMMA AlwaysSuits ==
    ASSUME QuotasFit, CachesInv
    PROVE  AllSuit(sys)
BY DEF QuotasFit, CachesInv, AllSuit

LEMMA VictimInvStep ==
    ASSUME QuotasFit
    PROVE  MemInv /\ VictimIsAWay /\ [Next]_vars => VictimIsAWay'
<1> SUFFICES ASSUME MemInv, VictimIsAWay, [Next]_vars PROVE ~ Fault(sys')
  BY DEF VictimIsAWay, Fault
<1>1. CachesInv /\ CoresInv
  BY DEF MemInv
<1>2. CASE sys' = sys
  BY <1>2 DEF VictimIsAWay
<1>3. CASE CoreExecutes
  <2>1. PICK k \in Cores, fetch \in Nat, data \in Nat, r \in CoreState(current_cycle) :
            ExecuteSeen(k, core[k].trace.inst_type, fetch, data, r)
    BY <1>1, <1>3, ExecuteView
  <2>2. AllSuit(sys) => ~ Fault(sys')
    BY <2>1 DEF ExecuteSeen, InstructionSeen
  <2> QED  BY <1>1, <2>2, AlwaysSuits
<1> QED  BY <1>2, <1>3 DEF Next, CoreIdle, EndCycle, EndOfTurn, vars

\* cache_find_victim always returns a way of the set when the quotas fit the
\* caches, which is all that it takes (cache.h: "the index of the victim way").
THEOREM VictimIsAlwaysAWay == ASSUME QuotasFit PROVE Spec => []VictimIsAWay
<1>1. Init => VictimIsAWay
  <2> SUFFICES ASSUME Init PROVE ~ Fault(sys)
    BY DEF VictimIsAWay
  <2>1. PICK p \in L2CACHE_REPLS : sys = memsys_new(p)
    BY DEF Init
  <2>2. SystemIsNew(sys)
    BY <2>1, NewSystem DEF Init
  <2>3. sys \in MemType /\ L1Faultless(sys) /\ ~ sys.l2cache.fault
    BY <2>2 DEF SystemIsNew, IsNew, L1Faultless
  <2> QED  BY <2>3, NoFault
<1>2. MemInv /\ VictimIsAWay /\ [Next]_vars => VictimIsAWay'
  BY VictimInvStep
<1> QED  BY <1>1, <1>2, Invariant, PTL DEF Spec

\* main's loop ends in the very cycle in which the last core is done
\* (sim.cpp), so that CYCLES is one more than the largest CORE_x_CYCLES.
THEOREM EndsWithTheLastCore == Spec => []StopsWithTheLastCore
<1>1. ASSUME MemInv, \A k \in Cores : core[k].done,
             NEW last, last = Max({core[k].done_cycle_count : k \in Cores})
      PROVE  /\ running => current_cycle = last
             /\ ~ running => current_cycle = last + 1
  <2>1. PICK S : S = {core[k].done_cycle_count : k \in Cores}
    OBVIOUS
  <2>2. PICK t \in Nat : t = current_cycle
    BY <1>1 DEF MemInv, CoresInv
  <2>3. \A k \in Cores : core[k].done_cycle_count \in 0 .. t
    BY <1>1, <2>2 DEF MemInv, CoresInv, CoreState
  <2>4. S \in SUBSET Nat /\ S # {} /\ \A x \in S : x <= t
    BY <2>1, <2>3, ZeroIsACore
  <2>5. last \in S /\ \A x \in S : x <= last
    BY <1>1, <2>1, <2>2, <2>4, MaxIsThere
  <2>6. CASE running
    <3>1. t \in S
      BY <1>1, <2>1, <2>2, <2>6 DEF MemInv, LoopInv
    <3> QED  BY <2>2, <2>4, <2>5, <2>6, <3>1
  <2>7. CASE ~ running
    <3>1. t - 1 \in S /\ \A x \in S : x <= t - 1
      BY <1>1, <2>1, <2>2, <2>7 DEF MemInv, LoopInv
    <3> QED  BY <2>2, <2>4, <2>5, <2>7, <3>1
  <2> QED  BY <2>6, <2>7
<1>2. MemInv => StopsWithTheLastCore
  BY <1>1 DEF StopsWithTheLastCore
<1> QED  BY <1>2, Invariant, PTL

LEMMA LinesFacts ==
    ASSUME SIM_MODE \in SIM_MODES, NEW k \in Cores, NEW l \in LinesOf(k)
    PROVE  l \in Nat /\ Owner(l) = k
<1>1. PICK r \in MemRecords : l = IF SIM_MODE = "DEF"
                                  THEN PhysicalLine(r.ldst_addr \div CACHE_LINESIZE, k)
                                  ELSE r.ldst_addr \div CACHE_LINESIZE
  BY DEF LinesOf
<1>2. PICK addr \in 0 .. PAGE_SIZE * VPN_TAIL - 1 : addr = r.ldst_addr
  BY RecordFacts DEF Addresses
<1>3. CASE SIM_MODE = "DEF"
  <2>1. l = PhysicalLine(addr \div CACHE_LINESIZE, k)
    BY <1>1, <1>2, <1>3
  <2> QED  BY <1>3, <2>1, OwnLine
<1>4. CASE SIM_MODE # "DEF"
  <2>1. l = addr \div CACHE_LINESIZE /\ addr \in Nat
    BY <1>1, <1>2, <1>4
  <2>2. l \in Nat
    BY <2>1, Sizes, Divided
  <2>3. k = 0
    BY <1>4, MemSysAssumption DEF Cores
  <2> QED  BY <1>4, <2>2, <2>3 DEF Owner
<1> QED  BY <1>3, <1>4

LEMMA RightIsSeen ==
    ASSUME CachesInv, SystemRight(sys)
    PROVE  LoadsSeeTheLastStore
<1>1. SIM_MODE \in SIM_MODES /\ sys \in MemType /\ AllFine(sys, current_cycle)
  BY DEF CachesInv
<1>2. ASSUME NEW k \in Cores, NEW l \in LinesOf(k)
      PROVE  /\ Holds(DataCache(k), l, k) => CurrentIn(DataCache(k), l, k)
             /\ ~ Holds(DataCache(k), l, k) /\ Holds(sys.l2cache, l, k) =>
                    CurrentIn(sys.l2cache, l, k)
             /\ ~ Holds(DataCache(k), l, k) /\ ~ Holds(sys.l2cache, l, k) =>
                    SIM_MODE = "A" \/ l \notin sys.dram.stale
  <2>1. l \in Nat /\ Owner(l) = k
    BY <1>1, LinesFacts
  <2>2. PICK c : c = DataCache(k)
    OBVIOUS
  <2>3. PICK n \in L1s : n = "dcache"
    BY DEF L1s
  <2>4. c = sys[n][k] /\ c = DOf(sys, l)
    <3>1. SIM_MODE # "DEF" => k = 0
      BY <1>1, MemSysAssumption DEF Cores
    <3>2. sys["dcache"] = sys.dcache
      BY <1>1 DEF MemType
    <3> QED  BY <2>1, <2>2, <2>3, <3>1, <3>2 DEF DataCache, DOf
  <2>5. HitWays(c, l, k) = Copies(c, l)
    <3>1. c \in CacheOf(SetCount(n), WayCount(n))
      BY <1>1, <2>4, L1Type DEF L1Cache
    <3>2. Fine(c, current_cycle, {k}, IsWritten(n))
      BY <1>1, <2>4 DEF AllFine
    <3> QED  BY <2>1, <3>1, <3>2, L1Shape, HitsAreCopies
  <2>6. PICK b : b = sys.l2cache
    OBVIOUS
  <2>7. HitWays(b, l, k) = Copies(b, l)
    <3>1. b \in CacheOf(LSets, L2CACHE_ASSOC)
      BY <1>1, <2>6 DEF MemType, L2Cache
    <3>2. PICK m : m = TRUE
      OBVIOUS
    <3>3. Fine(b, current_cycle, Cores, m)
      BY <1>1, <2>6, <3>2 DEF AllFine
    <3> QED  BY <2>1, <3>1, <3>3, Shapes, HitsAreCopies
  <2>8. /\ AllCurrent(c, l)
        /\ SIM_MODE = "A" => Copies(b, l) = {}
        /\ SIM_MODE # "A" /\ ~ HasDirty(c, l) =>
               AllCurrent(b, l) /\ (~ HasDirty(b, l) => l \notin sys.dram.stale)
    BY <2>1, <2>4, <2>6 DEF SystemRight, AllRight, AllRightA, Right, Below
  <2>9. Holds(c, l, k) => CurrentIn(c, l, k)
    BY <2>5, <2>8 DEF Holds, CurrentIn, AllCurrent
  <2>10. ~ Holds(c, l, k) => ~ HasDirty(c, l)
    BY <2>5 DEF Holds, HasDirty
  <2>11. ~ Holds(b, l, k) => ~ HasDirty(b, l)
    BY <2>7 DEF Holds, HasDirty
  <2>12. Holds(b, l, k) /\ AllCurrent(b, l) => CurrentIn(b, l, k)
    BY <2>7 DEF Holds, CurrentIn, AllCurrent
  <2>13. SIM_MODE = "A" => ~ Holds(b, l, k)
    BY <2>7, <2>8 DEF Holds
  <2> QED  BY <2>2, <2>6, <2>8, <2>9, <2>10, <2>11, <2>12, <2>13
<1> QED  BY <1>2 DEF LoadsSeeTheLastStore

\* As long as no install has written outside a set, a load finds what the last
\* store to its line wrote, in the first level that holds the line or in DRAM:
\* no order of misses and writebacks (memsys_access_modeBC, memsys_access_
\* modeDEF, memsys_l2_access) loses a store.
THEOREM NoStoreIsLost == Spec => [](~ Fault(sys) => LoadsSeeTheLastStore)
<1>1. MemInv => (~ Fault(sys) => LoadsSeeTheLastStore)
  BY RightIsSeen DEF MemInv, RightInv
<1> QED  BY <1>1, Invariant, PTL

\* With quotas that fit, that is always.
THEOREM LoadsAlwaysSeeTheLastStore == ASSUME QuotasFit PROVE Spec => []LoadsSeeTheLastStore
<1>1. (~ Fault(sys) => LoadsSeeTheLastStore) /\ VictimIsAWay => LoadsSeeTheLastStore
  BY DEF VictimIsAWay
<1> QED  BY <1>1, NoStoreIsLost, VictimIsAlwaysAWay, PTL

-----------------------------------------------------------------------------
(* Sums over the cores, of which there are one or two. *)

Both(f) == IF NUM_CORES = 1 THEN f[0] ELSE f[0] + f[1]

LEMMA CoresSummed ==
    ASSUME NEW f, \A k \in Cores : f[k] \in Int, NEW g, Sums(f, SUBSET Cores, g)
    PROVE  g[Cores] = Both(f)
<1>1. ASSUME NEW s \in SUBSET Cores
      PROVE  g[s] = IF s = {} THEN 0 ELSE f[Choice(s)] + g[s \ {Choice(s)}]
  BY DEF Sums
<1>2. g[{}] = 0
  BY <1>1
<1>3. ASSUME NEW k \in Cores PROVE g[{k}] = f[k]
  <2>1. Choice({k}) = k
    BY DEF Choice
  <2>2. {k} \ {k} = {}
    OBVIOUS
  <2>3. {k} \in SUBSET Cores /\ {k} # {}
    OBVIOUS
  <2>4. g[{k}] = f[k] + g[{}]
    BY <1>1, <2>1, <2>2, <2>3
  <2> QED  BY <1>2, <2>4
<1>4. CASE NUM_CORES = 1
  <2>1. Cores = {0}
    BY <1>4 DEF Cores
  <2> QED  BY <1>3, <1>4, <2>1 DEF Both
<1>5. CASE NUM_CORES # 1
  <2>1. Cores = {0, 1}
    BY <1>5, ZeroIsACore DEF Cores
  <2>2. Choice(Cores) \in {0, 1}
    BY <2>1 DEF Choice
  <2>3. g[Cores] = f[Choice(Cores)] + g[Cores \ {Choice(Cores)}]
    BY <1>1, <2>1
  <2>4. Cores \ {0} = {1} /\ Cores \ {1} = {0}
    BY <2>1
  <2>5. g[{0}] = f[0] /\ g[{1}] = f[1] /\ f[0] \in Int /\ f[1] \in Int
    BY <1>3, <2>1
  <2>6. CASE Choice(Cores) = 0
    <3>1. g[Cores] = f[0] + g[{1}]
      BY <2>3, <2>4, <2>6
    <3>2. PICK x, y \in Int : x = f[0] /\ y = f[1]
      BY <2>5
    <3> QED  BY <1>5, <2>5, <3>1, <3>2 DEF Both
  <2>7. CASE Choice(Cores) = 1
    <3>1. g[Cores] = f[1] + g[{0}]
      BY <2>3, <2>4, <2>7
    <3>2. PICK x, y \in Int : x = f[0] /\ y = f[1]
      BY <2>5
    <3> QED  BY <1>5, <2>5, <3>1, <3>2 DEF Both
  <2> QED  BY <2>2, <2>6, <2>7
<1> QED  BY <1>4, <1>5

\* f[k] is written e[k] by the step function G of a sum.
LEMMA SumIsThere ==
    ASSUME NEW f, \A k \in Cores : f[k] \in Int
    PROVE  /\ \E g : Sums(f, SUBSET Cores, g)
           /\ \A g : Sums(f, SUBSET Cores, g) => g[Cores] = Both(f)
<1>1. \E g : Sums(f, SUBSET Cores, g)
  BY ZeroIsACore, SumsExist
<1> QED  BY <1>1, CoresSummed

\* The instructions that the cores have executed.
Instructions == Both([k \in Cores |-> core[k].inst_count])

LEMMA InstructionsSummed ==
    ASSUME CoresInv
    PROVE  SumOverCores(LAMBDA k : core[k].inst_count) = Instructions
<1> DEFINE f == [k \in Cores |-> core[k].inst_count]
           G(g) == g = [s \in SUBSET Cores |->
                            IF s = {} THEN 0
                            ELSE core[CHOOSE x \in s : TRUE].inst_count
                                 + g[s \ {CHOOSE x \in s : TRUE}]]
           sum == CHOOSE g : G(g)
<1>1. SumOverCores(LAMBDA k : core[k].inst_count) = sum[Cores]
  BY DEF SumOverCores, MapThenSumSet, MapThenFoldSet
<1>2. \A k \in Cores : f[k] \in Int
  BY DEF CoresInv, CoreState
<1>3. ASSUME NEW g PROVE Sums(f, SUBSET Cores, g) <=> G(g)
  <2>1. ASSUME NEW s \in SUBSET Cores, s # {} PROVE f[Choice(s)] = core[Choice(s)].inst_count
    BY <2>1 DEF Choice
  <2> HIDE DEF f
  <2>2. [s \in SUBSET Cores |-> IF s = {} THEN 0 ELSE f[Choice(s)] + g[s \ {Choice(s)}]]
        = [s \in SUBSET Cores |-> IF s = {} THEN 0
                                  ELSE core[Choice(s)].inst_count + g[s \ {Choice(s)}]]
    BY <2>1
  <2> QED  BY <2>2, Zenon DEF Sums, Choice
<1> HIDE DEF f, G
<1>4. G(sum)
  BY <1>2, <1>3, SumIsThere
<1>5. sum[Cores] = Both(f)
  <2> HIDE DEF sum
  <2> QED  BY <1>2, <1>3, <1>4, SumIsThere
<1>6. Both(f) = Instructions
  BY DEF f, Instructions
<1> QED  BY <1>1, <1>5, <1>6

LEMMA MissesSummed ==
    ASSUME sys \in MemType
    PROVE  SumOverCores(LAMBDA k : Misses(sys.dcache[k]) + Misses(sys.icache[k])) = Reads(sys)
<1> DEFINE f == [k \in Cores |-> Misses(sys.dcache[k]) + Misses(sys.icache[k])]
           G(g) == g = [s \in SUBSET Cores |->
                            IF s = {} THEN 0
                            ELSE (Misses(sys.dcache[CHOOSE x \in s : TRUE])
                                  + Misses(sys.icache[CHOOSE x \in s : TRUE]))
                                 + g[s \ {CHOOSE x \in s : TRUE}]]
           sum == CHOOSE g : G(g)
<1>1. SumOverCores(LAMBDA k : Misses(sys.dcache[k]) + Misses(sys.icache[k])) = sum[Cores]
  BY DEF SumOverCores, MapThenSumSet, MapThenFoldSet
<1>2. \A k \in Cores : f[k] \in Int
  <2>1. ASSUME NEW k \in Cores PROVE f[k] \in Int
    <3>1. "dcache" \in L1s /\ "icache" \in L1s
      BY DEF L1s
    <3>2. Misses(sys["dcache"][k]) \in Nat /\ Misses(sys["icache"][k]) \in Nat
      BY <3>1, CountTypes
    <3>3. sys["dcache"] = sys.dcache /\ sys["icache"] = sys.icache
      BY DEF MemType
    <3>4. PICK x, y \in Nat : x = Misses(sys.dcache[k]) /\ y = Misses(sys.icache[k])
      BY <3>2, <3>3
    <3> QED  BY <3>4
  <2> QED  BY <2>1
<1>3. ASSUME NEW g PROVE Sums(f, SUBSET Cores, g) <=> G(g)
  <2>1. ASSUME NEW s \in SUBSET Cores, s # {}
        PROVE  f[Choice(s)] = Misses(sys.dcache[Choice(s)]) + Misses(sys.icache[Choice(s)])
    BY <2>1 DEF Choice
  <2> HIDE DEF f
  <2>2. [s \in SUBSET Cores |-> IF s = {} THEN 0 ELSE f[Choice(s)] + g[s \ {Choice(s)}]]
        = [s \in SUBSET Cores |-> IF s = {} THEN 0
                                  ELSE (Misses(sys.dcache[Choice(s)])
                                        + Misses(sys.icache[Choice(s)]))
                                       + g[s \ {Choice(s)}]]
    BY <2>1
  <2> QED  BY <2>2, Zenon DEF Sums, Choice
<1> HIDE DEF f, G
<1>4. G(sum)
  BY <1>2, <1>3, SumIsThere
<1>5. sum[Cores] = Both(f)
  <2> HIDE DEF sum
  <2> QED  BY <1>2, <1>3, <1>4, SumIsThere
<1>6. Both(f) = Reads(sys)
  <2>1. 0 \in Cores /\ (NUM_CORES # 1 => 1 \in Cores)
    BY ZeroIsACore DEF Cores
  <2>2. \A k \in Cores : MissesOf(sys, k) = f[k]
    BY DEF f, MissesOf, MemType
  <2> QED  BY <2>1, <2>2 DEF Both, Reads
<1> QED  BY <1>1, <1>5, <1>6

LEMMA EvictsSummed ==
    ASSUME sys \in MemType
    PROVE  SumOverCores(LAMBDA k : sys.dcache[k].stat_dirty_evicts) = Evicts(sys)
<1> DEFINE f == [k \in Cores |-> sys.dcache[k].stat_dirty_evicts]
           G(g) == g = [s \in SUBSET Cores |->
                            IF s = {} THEN 0
                            ELSE sys.dcache[CHOOSE x \in s : TRUE].stat_dirty_evicts
                                 + g[s \ {CHOOSE x \in s : TRUE}]]
           sum == CHOOSE g : G(g)
<1>1. SumOverCores(LAMBDA k : sys.dcache[k].stat_dirty_evicts) = sum[Cores]
  BY DEF SumOverCores, MapThenSumSet, MapThenFoldSet
<1>2. \A k \in Cores : f[k] \in Int
  <2>1. ASSUME NEW k \in Cores PROVE f[k] \in Int
    <3>1. "dcache" \in L1s
      BY DEF L1s
    <3>2. sys["dcache"][k].stat_dirty_evicts \in Nat
      BY <3>1, CountTypes
    <3>3. sys["dcache"] = sys.dcache
      BY DEF MemType
    <3> QED  BY <3>2, <3>3
  <2> QED  BY <2>1
<1>3. ASSUME NEW g PROVE Sums(f, SUBSET Cores, g) <=> G(g)
  <2>1. ASSUME NEW s \in SUBSET Cores, s # {}
        PROVE  f[Choice(s)] = sys.dcache[Choice(s)].stat_dirty_evicts
    BY <2>1 DEF Choice
  <2> HIDE DEF f
  <2>2. [s \in SUBSET Cores |-> IF s = {} THEN 0 ELSE f[Choice(s)] + g[s \ {Choice(s)}]]
        = [s \in SUBSET Cores |-> IF s = {} THEN 0
                                  ELSE sys.dcache[Choice(s)].stat_dirty_evicts
                                       + g[s \ {Choice(s)}]]
    BY <2>1
  <2> QED  BY <2>2, Zenon DEF Sums, Choice
<1> HIDE DEF f, G
<1>4. G(sum)
  BY <1>2, <1>3, SumIsThere
<1>5. sum[Cores] = Both(f)
  <2> HIDE DEF sum
  <2> QED  BY <1>2, <1>3, <1>4, SumIsThere
<1>6. Both(f) = Evicts(sys)
  <2>1. 0 \in Cores /\ (NUM_CORES # 1 => 1 \in Cores)
    BY ZeroIsACore DEF Cores
  <2>2. \A k \in Cores : EvictsOf(sys, k) = f[k]
    BY DEF f, EvictsOf, MemType
  <2> QED  BY <2>1, <2>2 DEF Both, Evicts
<1> QED  BY <1>1, <1>5, <1>6

LEMMA BothChange ==
    ASSUME NEW f, \A j \in Cores : f[j] \in Int, NEW g, NEW k \in Cores, NEW m \in Int,
           g[k] = f[k] + m, \A j \in Cores : j # k => g[j] = f[j]
    PROVE  Both(g) = Both(f) + m
<1>1. CASE NUM_CORES = 1
  <2>1. k = 0
    BY <1>1 DEF Cores
  <2> QED  BY <1>1, <2>1 DEF Both
<1>2. CASE NUM_CORES # 1
  <2>1. Cores = {0, 1}
    BY <1>2, ZeroIsACore DEF Cores
  <2>2. PICK x, y \in Int : x = f[0] /\ y = f[1]
    BY <2>1
  <2>3. CASE k = 0
    <3>1. g[0] = x + m /\ g[1] = y
      BY <2>1, <2>2, <2>3
    <3> QED  BY <1>2, <2>2, <3>1 DEF Both
  <2>4. CASE k = 1
    <3>1. g[1] = y + m /\ g[0] = x
      BY <2>1, <2>2, <2>4
    <3> QED  BY <1>2, <2>2, <3>1 DEF Both
  <2> QED  BY <2>1, <2>3, <2>4
<1> QED  BY <1>1, <1>2

\* Every instruction executed was fetched once.
FetchInv == sys.access["IFETCH"] = Instructions

LEMMA FetchInvInit == Init => FetchInv
<1> SUFFICES ASSUME Init PROVE FetchInv
  OBVIOUS
<1>1. PICK p \in L2CACHE_REPLS : sys = memsys_new(p)
  BY DEF Init
<1>2. sys.access["IFETCH"] = 0
  <2>1. "IFETCH" \in ACCESS_TYPES
    BY DEF ACCESS_TYPES
  <2> QED  BY <1>1, <2>1, NewSystem DEF Init, SystemIsNew
<1>3. ASSUME NEW k \in Cores PROVE core[k].inst_count = 0
  <2>1. 0 \in Nat /\ core[k] \in AfterRead(NewCore) /\ current_cycle = 0
    BY DEF Init
  <2>2. ReadSeen(NewCore, 0, core[k])
    BY <2>1, NewCoreFacts, ReadFacts
  <2> QED  BY <2>2, NewCoreFacts DEF ReadSeen
<1>4. 0 \in Cores /\ (NUM_CORES # 1 => 1 \in Cores)
  BY ZeroIsACore DEF Cores
<1>5. Instructions = 0
  BY <1>3, <1>4 DEF Instructions, Both
<1> QED  BY <1>2, <1>5 DEF FetchInv

LEMMA FetchInvStep == MemInv /\ FetchInv /\ [Next]_vars => FetchInv'
<1> SUFFICES ASSUME MemInv, FetchInv, [Next]_vars PROVE FetchInv'
  OBVIOUS
<1>1. CachesInv /\ CoresInv
  BY DEF MemInv
<1>2. CASE sys' = sys /\ core' = core
  BY <1>2 DEF FetchInv, Instructions
<1>3. CASE CoreExecutes
  <2>1. PICK k \in Cores, fetch \in Nat, data \in Nat, r \in CoreState(current_cycle) :
            ExecuteSeen(k, core[k].trace.inst_type, fetch, data, r)
    BY <1>1, <1>3, ExecuteView
  <2>2. /\ sys'.access["IFETCH"] = sys.access["IFETCH"] + 1
        /\ r.inst_count = core[k].inst_count + 1 /\ core' = [core EXCEPT ![k] = r]
    BY <2>1 DEF ExecuteSeen, InstructionSeen
  <2>3. PICK f : f = [j \in Cores |-> core[j].inst_count]
    OBVIOUS
  <2>4. PICK g : g = [j \in Cores |-> core'[j].inst_count]
    OBVIOUS
  <2>5. \A j \in Cores : f[j] \in Int
    BY <1>1, <2>3 DEF CoresInv, CoreState
  <2>6. core'[k] = r /\ \A j \in Cores : j # k => core'[j] = core[j]
    BY <1>1, <2>2 DEF CoresInv
  <2>7. g[k] = f[k] + 1 /\ \A j \in Cores : j # k => g[j] = f[j]
    BY <2>2, <2>3, <2>4, <2>6
  <2>8. Both(g) = Both(f) + 1
    BY <2>5, <2>7, BothChange
  <2>9. Instructions = Both(f) /\ Instructions' = Both(g)
    BY <2>3, <2>4 DEF Instructions, Both
  <2> QED  BY <2>2, <2>8, <2>9 DEF FetchInv
<1> QED  BY <1>2, <1>3 DEF Next, CoreIdle, EndCycle, EndOfTurn, vars

\* The statistics of the levels agree: every miss of the first level reads the
\* second and every dirty eviction writes to it, likewise the second level and
\* DRAM, and every instruction is fetched once (memsys.cpp, dram.cpp).
THEOREM StatisticsBalance == Spec => []TrafficBalances
<1>1. ASSUME MemInv, FetchInv PROVE TrafficBalances
  <2>1. sys \in MemType /\ CoresInv
    BY <1>1 DEF MemInv, CachesInv
  <2>2. SIM_MODE # "A" /\ ~ Fault(sys) => Balanced(sys)
    BY <1>1 DEF MemInv, TrafficInv
  <2>3. SumOverCores(LAMBDA k : Misses(sys.dcache[k]) + Misses(sys.icache[k])) = Reads(sys)
    BY <2>1, MissesSummed
  <2>4. SumOverCores(LAMBDA k : sys.dcache[k].stat_dirty_evicts) = Evicts(sys)
    BY <2>1, EvictsSummed
  <2>5. SumOverCores(LAMBDA k : core[k].inst_count) = Instructions
    BY <2>1, InstructionsSummed
  <2>6. Balanced(sys) =>
            /\ sys.l2cache.stat_read_access = Reads(sys)
            /\ sys.l2cache.stat_write_access = Evicts(sys)
            /\ sys.dram.stat_read_access = Misses(sys.l2cache)
            /\ sys.dram.stat_write_access = sys.l2cache.stat_dirty_evicts
    BY DEF Balanced, UpBalance, LowBalance
  <2> QED  BY <1>1, <2>2, <2>3, <2>4, <2>5, <2>6 DEF TrafficBalances, FetchInv
<1> QED  BY <1>1, Invariant, FetchInvInit, FetchInvStep, PTL DEF Spec

-----------------------------------------------------------------------------
(* Every delay is waited out once. *)

LEMMA Larger ==
    ASSUME NEW x \in Nat, NEW y \in Nat
    PROVE  Max({x, y}) = IF y <= x THEN x ELSE y
<1>1. PICK b \in Nat : x <= b /\ y <= b
  <2>1. x <= x + y /\ y <= x + y /\ x + y \in Nat
    OBVIOUS
  <2> QED  BY <2>1
<1>2. {x, y} \in SUBSET Nat /\ {x, y} # {} /\ \A t \in {x, y} : t <= b
  BY <1>1
<1>3. Max({x, y}) \in {x, y} /\ \A t \in {x, y} : t <= Max({x, y})
  BY <1>1, <1>2, MaxIsThere
<1> QED  BY <1>3

\* When a core that main next calls in cycle v may start an instruction.
StartOf(c, v) ==
    Max({c.snooze_end_cycle + 1, IF c.done THEN c.done_cycle_count + 1 ELSE v})

LEMMA StartFacts ==
    ASSUME NEW t \in Nat, NEW c \in CoreState(t), NEW v \in Nat
    PROVE  /\ StartOf(c, v) \in Nat
           /\ ~ c.done => StartOf(c, v) = IF v <= c.snooze_end_cycle + 1
                                          THEN c.snooze_end_cycle + 1 ELSE v
           /\ c.done => StartOf(c, v) = IF c.done_cycle_count <= c.snooze_end_cycle
                                        THEN c.snooze_end_cycle + 1 ELSE c.done_cycle_count + 1
<1>1. PICK s \in Nat : s = c.snooze_end_cycle
  BY DEF CoreState
<1>2. PICK d \in Nat : d = c.done_cycle_count
  BY DEF CoreState
<1>3. CASE c.done
  <2>1. StartOf(c, v) = Max({s + 1, d + 1})
    BY <1>1, <1>2, <1>3 DEF StartOf
  <2>2. Max({s + 1, d + 1}) = IF d + 1 <= s + 1 THEN s + 1 ELSE d + 1
    BY Larger
  <2> QED  BY <1>1, <1>2, <1>3, <2>1, <2>2
<1>4. CASE ~ c.done
  <2>1. StartOf(c, v) = Max({s + 1, v})
    BY <1>1, <1>4 DEF StartOf
  <2>2. Max({s + 1, v}) = IF v <= s + 1 THEN s + 1 ELSE v
    BY Larger
  <2> QED  BY <1>1, <1>4, <2>1, <2>2
<1> QED  BY <1>3, <1>4

LEMMA StartTypes ==
    ASSUME CoresInv, NEW k \in Cores
    PROVE  NextVisit(k) \in Nat /\ NextStart(k) = StartOf(core[k], NextVisit(k))
           /\ NextStart(k) \in Nat
<1>1. current_cycle \in Nat /\ core[k] \in CoreState(current_cycle)
  BY DEF CoresInv
<1>2. NextVisit(k) \in Nat
  BY <1>1 DEF NextVisit
<1>3. NextStart(k) = StartOf(core[k], NextVisit(k))
  BY DEF NextStart, StartOf
<1> QED  BY <1>1, <1>2, <1>3, StartFacts

\* The cycles in which the cores may start their next instructions, summed.
Starts == Both([k \in Cores |-> NextStart(k)])

LEMMA StartsSummed ==
    ASSUME CoresInv
    PROVE  SumOverCores(NextStart) = Starts
<1> DEFINE f == [k \in Cores |-> NextStart(k)]
           G(g) == g = [s \in SUBSET Cores |->
                            IF s = {} THEN 0
                            ELSE NextStart(CHOOSE x \in s : TRUE)
                                 + g[s \ {CHOOSE x \in s : TRUE}]]
           sum == CHOOSE g : G(g)
<1>1. SumOverCores(NextStart) = sum[Cores]
  BY DEF SumOverCores, MapThenSumSet, MapThenFoldSet
<1>2. \A k \in Cores : f[k] \in Int
  BY StartTypes
<1>3. ASSUME NEW g PROVE Sums(f, SUBSET Cores, g) <=> G(g)
  <2>1. ASSUME NEW s \in SUBSET Cores, s # {} PROVE f[Choice(s)] = NextStart(Choice(s))
    BY <2>1 DEF Choice
  <2> HIDE DEF f
  <2>2. [s \in SUBSET Cores |-> IF s = {} THEN 0 ELSE f[Choice(s)] + g[s \ {Choice(s)}]]
        = [s \in SUBSET Cores |-> IF s = {} THEN 0
                                  ELSE NextStart(Choice(s)) + g[s \ {Choice(s)}]]
    BY <2>1
  <2> QED  BY <2>2, Zenon DEF Sums, Choice
<1> HIDE DEF f, G
<1>4. G(sum)
  BY <1>2, <1>3, SumIsThere
<1>5. sum[Cores] = Both(f)
  <2> HIDE DEF sum
  <2> QED  BY <1>2, <1>3, <1>4, SumIsThere
<1>6. Both(f) = Starts
  BY DEF f, Starts
<1> QED  BY <1>1, <1>5, <1>6

\* What the code's caches take at least: a hit costs a cycle.
HitsTakeACycle == 1 <= ICACHE_HIT_LATENCY /\ 1 <= DCACHE_HIT_LATENCY

\* TimeIsAccounted, the sum written out.
TimeInv ==
    SIM_MODE # "A" /\ ~ Fault(sys) =>
        Starts = NUM_CORES + sys.delay["IFETCH"] + sys.delay["LOAD"] - sys.access["LOAD"]

LEMMA CounterTypes ==
    ASSUME CachesInv
    PROVE  /\ sys.access["IFETCH"] \in Nat /\ sys.access["LOAD"] \in Nat
           /\ sys.delay["IFETCH"] \in Nat /\ sys.delay["LOAD"] \in Nat
BY DEF CachesInv, MemType, Counters, ACCESS_TYPES

LEMMA TimeInvInit == Init => TimeInv
<1> SUFFICES ASSUME Init PROVE TimeInv
  OBVIOUS
<1>1. PICK p \in L2CACHE_REPLS : sys = memsys_new(p)
  BY DEF Init
<1>2. "IFETCH" \in ACCESS_TYPES /\ "LOAD" \in ACCESS_TYPES
  BY DEF ACCESS_TYPES
<1>3. sys.delay["IFETCH"] = 0 /\ sys.delay["LOAD"] = 0 /\ sys.access["LOAD"] = 0
  BY <1>1, <1>2, NewSystem DEF Init, SystemIsNew
<1>4. CoresInv
  BY MemInvInit DEF MemInv
<1>5. ASSUME NEW k \in Cores PROVE NextStart(k) = 1
  <2>1. 0 \in Nat /\ core[k] \in AfterRead(NewCore) /\ current_cycle = 0 /\ i = 0
    BY DEF Init
  <2>2. ReadSeen(NewCore, 0, core[k])
    BY <2>1, NewCoreFacts, ReadFacts
  <2>3. PICK c \in CoreState(0) : c = core[k] /\ c.snooze_end_cycle = 0
    BY <2>2, NewCoreFacts DEF ReadSeen
  <2>4. c.done_cycle_count = 0
    BY DEF CoreState
  <2>5. NextVisit(k) = 0
    BY <2>1, ZeroIsACore DEF NextVisit, Cores
  <2>6. StartOf(c, 0) = 1
    BY <2>1, <2>3, <2>4, StartFacts
  <2> QED  BY <1>4, <2>3, <2>5, <2>6, StartTypes
<1>6. 0 \in Cores /\ (NUM_CORES # 1 => 1 \in Cores) /\ NUM_CORES \in {1, 2}
  BY ZeroIsACore DEF Cores
<1>7. Starts = NUM_CORES
  <2>1. CASE NUM_CORES = 1
    BY <1>5, <1>6, <2>1 DEF Starts, Both
  <2>2. CASE NUM_CORES = 2
    BY <1>5, <1>6, <2>2 DEF Starts, Both
  <2> QED  BY <1>6, <2>1, <2>2
<1> QED  BY <1>3, <1>6, <1>7 DEF TimeInv

\* Nobody's next start changes: Starts does not either.
LEMMA StartsAreKept ==
    ASSUME \A k \in Cores : NextStart(k)' = NextStart(k)
    PROVE  Starts' = Starts
<1>1. 0 \in Cores /\ (NUM_CORES # 1 => 1 \in Cores)
  BY ZeroIsACore DEF Cores
<1> QED  BY <1>1 DEF Starts, Both

\* One instruction's delays, waited out.
LEMMA BubbleSum ==
    ASSUME NEW fetch \in Nat, NEW data \in Nat, NEW type,
           1 <= fetch, type = "LOAD" => 1 <= data, type # "IFETCH"
    PROVE  1 + (Bubble("IFETCH", fetch) + Bubble(type, data))
               = IF type = "LOAD" THEN fetch + data - 1 ELSE fetch
<1>1. Bubble("IFETCH", fetch) = fetch - 1
  BY DEF Bubble
<1>2. CASE type = "LOAD"
  <2>1. Bubble(type, data) = data - 1
    BY <1>2 DEF Bubble
  <2> QED  BY <1>1, <1>2, <2>1
<1>3. CASE type # "LOAD"
  <2>1. Bubble(type, data) = 0
    BY <1>3 DEF Bubble
  <2> QED  BY <1>1, <1>3, <2>1
<1> QED  BY <1>2, <1>3

\* main's going on to the next core does not matter to the others.
LEMMA OthersVisit ==
    ASSUME CoresInv, i' = i + 1, current_cycle' = current_cycle, NEW k \in Cores
    PROVE  /\ k # i => NextVisit(k)' = NextVisit(k)
           /\ k = i => NextVisit(k) = current_cycle /\ NextVisit(k)' = current_cycle + 1
<1>1. PICK n \in Nat : n = i
  BY ZeroIsACore DEF CoresInv
<1>2. k \in Nat
  BY DEF Cores
<1>3. k # n => (n + 1 > k <=> n > k)
  BY <1>2
<1>4. ~ (n > n) /\ n + 1 > n
  OBVIOUS
<1> QED  BY <1>1, <1>3, <1>4 DEF NextVisit

LEMMA IdleStarts ==
    ASSUME CoresInv, CoreIdle
    PROVE  Starts' = Starts
<1>1. /\ core' = core /\ current_cycle' = current_cycle /\ i' = i + 1
      /\ core[i].done \/ Snoozing(core[i])
  BY DEF CoreIdle, CallNextCore
<1>2. ASSUME NEW k \in Cores PROVE NextStart(k)' = NextStart(k)
  <2>1. CASE k # i
    BY <1>1, <2>1, OthersVisit DEF NextStart
  <2>2. CASE k = i
    <3>1. PICK t \in Nat : t = current_cycle
      BY DEF CoresInv
    <3>2. PICK c \in CoreState(t) : c = core[k]
      BY <3>1 DEF CoresInv
    <3>3. NextStart(k) = StartOf(c, t)
      BY <1>1, <2>2, <3>1, <3>2, OthersVisit DEF NextStart, StartOf
    <3>4. NextStart(k)' = StartOf(c, t + 1)
      BY <1>1, <2>2, <3>1, <3>2, OthersVisit DEF NextStart, StartOf
    <3>5. CASE c.done
      BY <3>3, <3>4, <3>5 DEF StartOf
    <3>6. CASE ~ c.done
      <4>1. PICK z \in Nat : z = c.snooze_end_cycle
        BY DEF CoreState
      <4>2. t <= z
        BY <1>1, <2>2, <3>1, <3>2, <3>6, <4>1 DEF Snoozing
      <4>3. t + 1 \in Nat
        OBVIOUS
      <4> QED  BY <3>3, <3>4, <3>6, <4>1, <4>2, <4>3, StartFacts
    <3> QED  BY <3>5, <3>6
  <2> QED  BY <2>1, <2>2
<1> QED  BY <1>2, StartsAreKept

LEMMA TurnStarts ==
    ASSUME CoresInv, EndCycle
    PROVE  Starts' = Starts
<1>1. /\ core' = core /\ current_cycle' = current_cycle + 1 /\ i' = 0 /\ i = NUM_CORES
  BY DEF EndCycle, EndOfTurn
<1>2. ASSUME NEW k \in Cores PROVE NextStart(k)' = NextStart(k)
  <2>1. ~ (0 > k) /\ NUM_CORES > k
    BY ZeroIsACore DEF Cores
  <2>2. NextVisit(k) = current_cycle + 1 /\ NextVisit(k)' = current_cycle + 1
    BY <1>1, <2>1 DEF NextVisit
  <2> QED  BY <1>1, <2>2 DEF NextStart
<1> QED  BY <1>2, StartsAreKept

LEMMA ExecuteStarts ==
    ASSUME HitsTakeACycle, CoresInv, SIM_MODE # "A", ~ Fault(sys'), NEW k \in Cores,
           NEW fetch \in Nat, NEW data \in Nat, NEW r,
           ExecuteSeen(k, core[k].trace.inst_type, fetch, data, r)
    PROVE  Starts' = Starts + (IF core[k].trace.inst_type = "LOAD"
                               THEN fetch + data - 1 ELSE fetch)
<1>1. /\ r \in CoreState(current_cycle) /\ core' = [core EXCEPT ![k] = r]
      /\ r.done => r.done_cycle_count = current_cycle
      /\ k = i /\ ~ core[k].done /\ ~ Snoozing(core[k])
      /\ i' = i + 1 /\ current_cycle' = current_cycle
  BY DEF ExecuteSeen, CallNextCore
<1>2. PICK t \in Nat : t = current_cycle
  BY DEF CoresInv
<1>3. PICK c \in CoreState(t) : c = core[k]
  BY <1>2 DEF CoresInv
<1>4. PICK type : type = core[k].trace.inst_type
  OBVIOUS
<1>5. 1 <= fetch /\ (type = "LOAD" => 1 <= data)
  <2>1. /\ ICACHE_HIT_LATENCY <= fetch /\ (type = "LOAD" => DCACHE_HIT_LATENCY <= data)
    BY <1>4 DEF ExecuteSeen, InstructionSeen
  <2>2. ICACHE_HIT_LATENCY \in Nat /\ DCACHE_HIT_LATENCY \in Nat
    BY MemSysAssumption
  <2> QED  BY <2>1, <2>2 DEF HitsTakeACycle
<1>6. type # "IFETCH"
  <2>1. c.trace \in MemRecords
    BY <1>1, <1>3 DEF CoresInv
  <2>2. c.trace.inst_type \in {"ALU", "LOAD", "STORE", "OTHER"}
    BY <2>1, MemSimAssumption
  <2> QED  BY <1>3, <1>4, <2>2
<1>7. PICK b \in Nat : b = Bubble("IFETCH", fetch) + Bubble(type, data)
  <2>1. PICK x \in Nat : x = Bubble("IFETCH", fetch)
    BY BubbleType
  <2>2. PICK y \in Nat : y = Bubble(type, data)
    BY BubbleType
  <2> QED  BY <2>1, <2>2
<1>8. PICK m \in Nat : m = IF type = "LOAD" THEN fetch + data - 1 ELSE fetch
  BY <1>5
<1>9. m = 1 + b
  BY <1>5, <1>6, <1>7, <1>8, BubbleSum
<1>10. c.snooze_end_cycle \in Nat /\ c.snooze_end_cycle < t /\ ~ c.done
  <2>1. c.snooze_end_cycle \in Nat
    BY DEF CoreState
  <2> QED  BY <1>1, <1>2, <1>3, <2>1 DEF Snoozing
<1>11. r.snooze_end_cycle = IF b > 0 THEN t + b ELSE c.snooze_end_cycle
  BY <1>2, <1>3, <1>4, <1>7 DEF ExecuteSeen
<1>12. NextStart(k) = t
  <2>1. NextStart(k) = StartOf(c, t)
    BY <1>1, <1>2, <1>3, OthersVisit DEF NextStart, StartOf
  <2> QED  BY <1>10, <2>1, StartFacts
<1>13. NextStart(k)' = t + m
  <2>1. NextStart(k)' = StartOf(r, t + 1)
    <3>1. core'[k] = r
      BY <1>1 DEF CoresInv
    <3>2. NextVisit(k)' = t + 1
      BY <1>1, <1>2, OthersVisit
    <3> QED  BY <3>1, <3>2 DEF NextStart, StartOf
  <2>2. PICK z \in Nat : z = r.snooze_end_cycle
    BY <1>1, <1>2 DEF CoreState
  <2>3. z = IF b > 0 THEN t + b ELSE c.snooze_end_cycle
    BY <1>11, <2>2
  <2>4. StartOf(r, t + 1) = IF t <= z THEN z + 1 ELSE t + 1
    <3>1. r \in CoreState(t) /\ t + 1 \in Nat
      BY <1>1, <1>2
    <3>2. CASE r.done
      BY <1>1, <1>2, <2>2, <3>1, <3>2, StartFacts
    <3>3. CASE ~ r.done
      <4>1. StartOf(r, t + 1) = IF t + 1 <= z + 1 THEN z + 1 ELSE t + 1
        BY <2>2, <3>1, <3>3, StartFacts
      <4> QED  BY <4>1
    <3> QED  BY <3>2, <3>3
  <2>5. CASE b > 0
    <3>1. z = t + b
      BY <2>3, <2>5
    <3> QED  BY <1>9, <2>1, <2>4, <3>1
  <2>6. CASE ~ (b > 0)
    <3>1. z < t /\ b = 0
      BY <1>10, <2>3, <2>6
    <3> QED  BY <1>9, <2>1, <2>4, <3>1
  <2> QED  BY <2>5, <2>6
<1>14. ASSUME NEW j \in Cores, j # k PROVE NextStart(j)' = NextStart(j)
  <2>1. core'[j] = core[j]
    BY <1>1, <1>14 DEF CoresInv
  <2>2. NextVisit(j)' = NextVisit(j)
    BY <1>1, <1>14, OthersVisit
  <2> QED  BY <2>1, <2>2 DEF NextStart
<1>15. PICK f : f = [j \in Cores |-> NextStart(j)]
  OBVIOUS
<1>16. PICK g : g = [j \in Cores |-> NextStart(j)']
  OBVIOUS
<1>17. \A j \in Cores : f[j] \in Int
  BY <1>15, StartTypes
<1>18. g[k] = f[k] + m /\ \A j \in Cores : j # k => g[j] = f[j]
  BY <1>12, <1>13, <1>14, <1>15, <1>16
<1>19. Both(g) = Both(f) + m
  BY <1>17, <1>18, BothChange
<1>20. Starts = Both(f) /\ Starts' = Both(g)
  BY <1>15, <1>16 DEF Starts, Both
<1> QED  BY <1>4, <1>8, <1>19, <1>20

LEMMA TimeInvStep ==
    ASSUME HitsTakeACycle
    PROVE  MemInv /\ TimeInv /\ [Next]_vars => TimeInv'
<1> SUFFICES ASSUME MemInv, TimeInv, [Next]_vars, SIM_MODE' # "A", ~ Fault(sys')
             PROVE  Starts' = NUM_CORES + sys'.delay["IFETCH"] + sys'.delay["LOAD"]
                              - sys'.access["LOAD"]
  BY DEF TimeInv, Fault
<1>1. CachesInv /\ CoresInv
  BY DEF MemInv
<1>2. SIM_MODE' = SIM_MODE
  BY DEF Next, CoreIdle, CoreExecutes, EndCycle, EndOfTurn, CallNextCore, options, vars
<1>3. CASE sys' = sys /\ Starts' = Starts
  BY <1>2, <1>3 DEF TimeInv
<1>4. CASE CoreExecutes
  <2>1. ~ Fault(sys)
    BY <1>4, Zenon DEF CoreExecutes
  <2>2. PICK k \in Cores, fetch \in Nat, data \in Nat, r \in CoreState(current_cycle) :
            ExecuteSeen(k, core[k].trace.inst_type, fetch, data, r)
    BY <1>1, <1>4, ExecuteView
  <2>3. PICK type : type = core[k].trace.inst_type
    OBVIOUS
  <2>4. Starts' = Starts + (IF type = "LOAD" THEN fetch + data - 1 ELSE fetch)
    BY <1>1, <1>2, <2>2, <2>3, ExecuteStarts
  <2>5. /\ sys'.delay["IFETCH"] = sys.delay["IFETCH"] + fetch
        /\ sys'.access["LOAD"] = sys.access["LOAD"] + (IF type = "LOAD" THEN 1 ELSE 0)
        /\ sys'.delay["LOAD"] = sys.delay["LOAD"] + (IF type = "LOAD" THEN data ELSE 0)
    BY <2>2, <2>3 DEF ExecuteSeen, InstructionSeen
  <2>6. PICK di, dl, al \in Nat :
            di = sys.delay["IFETCH"] /\ dl = sys.delay["LOAD"] /\ al = sys.access["LOAD"]
    BY <1>1, CounterTypes
  <2>7. Starts = NUM_CORES + di + dl - al
    BY <1>2, <2>1, <2>6 DEF TimeInv
  <2>8. NUM_CORES \in Nat
    BY ZeroIsACore
  <2>9. PICK m, n, e \in Int :
            /\ m = IF type = "LOAD" THEN fetch + data - 1 ELSE fetch
            /\ n = IF type = "LOAD" THEN 1 ELSE 0
            /\ e = IF type = "LOAD" THEN data ELSE 0
            /\ m = fetch + e - n
    <3>1. CASE type = "LOAD"
      BY <3>1
    <3>2. CASE type # "LOAD"
      BY <3>2
    <3> QED  BY <3>1, <3>2
  <2>10. Starts' = Starts + m
    BY <2>4, <2>9
  <2>11. sys'.delay["IFETCH"] = di + fetch
    BY <2>5, <2>6
  <2>12. sys'.access["LOAD"] = al + n
    BY <2>5, <2>6, <2>9
  <2>13. sys'.delay["LOAD"] = dl + e
    BY <2>5, <2>6, <2>9
  <2>14. PICK q \in Nat : q = NUM_CORES
    BY <2>8
  <2>15. PICK S \in Int : S = Starts /\ S = q + di + dl - al
    BY <2>7, <2>14
  <2>16. S + m = q + (di + fetch) + (dl + e) - (al + n)
    BY <2>9, <2>15
  <2> QED  BY <2>10, <2>11, <2>12, <2>13, <2>14, <2>15, <2>16
<1>5. CASE CoreIdle
  BY <1>1, <1>3, <1>5, IdleStarts DEF CoreIdle
<1>6. CASE EndCycle
  BY <1>1, <1>3, <1>6, TurnStarts DEF EndCycle, EndOfTurn
<1>7. CASE UNCHANGED vars
  <2>1. sys' = sys /\ core' = core /\ current_cycle' = current_cycle /\ i' = i
    BY <1>7 DEF vars
  <2>2. \A k \in Cores : NextStart(k)' = NextStart(k)
    BY <2>1 DEF NextStart, NextVisit
  <2> QED  BY <1>3, <2>1, <2>2, StartsAreKept
<1> QED  BY <1>4, <1>5, <1>6, <1>7 DEF Next

\* Every delay that the memory system reports for a fetch or a load is waited
\* out once by the core that asked for it, and nothing else is (core_cycle).
THEOREM DelaysAreWaitedOut == ASSUME HitsTakeACycle PROVE Spec => []TimeIsAccounted
<1>1. MemInv /\ TimeInv => TimeIsAccounted
  BY StartsSummed DEF MemInv, TimeInv, TimeIsAccounted
<1>2. MemInv /\ TimeInv /\ [Next]_vars => TimeInv'
  BY TimeInvStep
<1> QED  BY <1>1, <1>2, Invariant, TimeInvInit, PTL DEF Spec

-----------------------------------------------------------------------------
(* Which caches an access goes through. *)

\* What a request leaves of a cache before it looks it up.
Outdate(c, q) == IF IsWrite(q) THEN OutdatedIn(c, q.line) ELSE c

LEMMA OutdatedParts ==
    ASSUME NEW s \in MemType, NEW q \in Requests, NEW y, y = Outdated(s, q)
    PROVE  /\ y.l2cache = Outdate(s.l2cache, q)
           /\ \A n \in L1s : \A k \in Cores : y[n][k] = Outdate(s[n][k], q)
<1>1. CASE ~ IsWrite(q)
  BY <1>1 DEF Outdated, Outdate
<1>2. CASE IsWrite(q)
  <2>1. PICK l : l = q.line
    OBVIOUS
  <2>2. PICK D, I, L : /\ D = [k \in Cores |-> OutdatedIn(s.dcache[k], l)]
                       /\ I = [k \in Cores |-> OutdatedIn(s.icache[k], l)]
                       /\ L = OutdatedIn(s.l2cache, l)
    OBVIOUS
  <2>3. PICK e : e = [s.dram EXCEPT !.stale = @ \cup {l}]
    OBVIOUS
  <2>4. y = [s EXCEPT !.dcache = D, !.icache = I, !.l2cache = L, !.dram = e]
    BY <1>2, <2>1, <2>2, <2>3, Zenon DEF Outdated
  <2>5. y.dcache = D /\ y.icache = I /\ y.l2cache = L
    BY <2>4 DEF MemType
  <2>6. y.l2cache = Outdate(s.l2cache, q)
    BY <1>2, <2>1, <2>2, <2>5 DEF Outdate
  <2>7. ASSUME NEW k \in Cores PROVE y["dcache"][k] = Outdate(s["dcache"][k], q)
    BY <1>2, <2>1, <2>2, <2>5, Zenon DEF Outdate
  <2>8. ASSUME NEW k \in Cores PROVE y["icache"][k] = Outdate(s["icache"][k], q)
    BY <1>2, <2>1, <2>2, <2>5, Zenon DEF Outdate
  <2> QED  BY <2>6, <2>7, <2>8 DEF L1s
<1> QED  BY <1>1, <1>2

\* r is what an access of cache c to line l leaves, if the line is installed
\* after a miss.
Fills(c, a, l, w, k, now, put) ==
    IF a.hit THEN a.cache ELSE cache_install(a.cache, l, w, k, now, put)
Serves(c, l, w, k, now, r) ==
    \E data, put \in BOOLEAN :
        r = Fills(c, cache_access(c, l, w, k, now, data), l, w, k, now, put)

LEMMA L2Serves ==
    ASSUME NEW s \in MemType, NEW l, NEW w \in BOOLEAN, NEW k,
           NEW now, NEW data \in BOOLEAN
    PROVE  Serves(s.l2cache, l, w, k, now, memsys_l2_access(s, l, w, k, now, data).sys.l2cache)
<1>1. PICK c : c = s.l2cache
  OBVIOUS
<1>2. PICK a : a = cache_access(c, l, w, k, now, data)
  OBVIOUS
<1>3. PICK r : r = memsys_l2_access(s, l, w, k, now, data)
  OBVIOUS
<1>4. r = L2Looked(s, l, w, k, now, data, a)
  BY <1>1, <1>2, <1>3 DEF memsys_l2_access
<1>5. CASE a.hit
  <2>1. r.sys = [s EXCEPT !.l2cache = a.cache]
    BY <1>4, <1>5, Pair DEF L2Looked
  <2>2. r.sys.l2cache = a.cache
    BY <2>1 DEF MemType
  <2>3. r.sys.l2cache = Fills(c, a, l, w, k, now, data)
    BY <1>5, <2>2 DEF Fills
  <2> QED  BY <1>1, <1>2, <1>3, <2>3 DEF Serves
<1>6. CASE ~ a.hit
  <2>1. PICK put \in BOOLEAN : put = IF w THEN data ELSE l \notin s.dram.stale
    OBVIOUS
  <2>2. PICK u : u = cache_install(a.cache, l, w, k, now, put)
    OBVIOUS
  <2>3. PICK d : d = dram_access(s.dram, l, FALSE, FALSE)
    OBVIOUS
  <2>4. r = L2Filled(s, l, d, u)
    BY <1>4, <1>6, <2>1, <2>2, <2>3 DEF L2Looked
  <2>5. FilledAs(s, l, d, u, r)
    BY <2>4, FilledParts
  <2>6. PICK e : e = WriteBackL2(d.dram, u, l)
    OBVIOUS
  <2>7. r.sys = [s EXCEPT !.l2cache = u, !.dram = e]
    BY <2>5, <2>6 DEF FilledAs
  <2>8. r.sys.l2cache = u
    BY <2>7 DEF MemType
  <2>9. r.sys.l2cache = Fills(c, a, l, w, k, now, put)
    BY <1>6, <2>2, <2>8 DEF Fills
  <2> QED  BY <1>1, <1>2, <1>3, <2>9 DEF Serves
<1> QED  BY <1>5, <1>6

\* u is what an access of the second level leaves of y.
L2Goes(y, l, k, now, u) ==
    /\ u \in MemType /\ AllFine(u, now)
    /\ \A n \in L1s : \A j \in Cores : u[n][j] = y[n][j]
    /\ \E w \in BOOLEAN : Serves(y.l2cache, l, w, k, now, u.l2cache)

LEMMA L2Path ==
    ASSUME NEW s \in MemType, NEW l \in Nat, NEW w \in BOOLEAN, NEW k \in Cores, k = Owner(l),
           NEW now \in Nat, NEW data \in BOOLEAN, AllFine(s, now)
    PROVE  L2Goes(s, l, k, now, memsys_l2_access(s, l, w, k, now, data).sys)
<1>1. PICK r : r = memsys_l2_access(s, l, w, k, now, data)
  OBVIOUS
<1>2. L2Seen(s, l, w, now, data, r)
  BY <1>1, L2View DEF AllFine
<1>3. L2StepSeen(s, now, r.sys)
  BY <1>2, L2StepFacts
<1>4. r.sys \in MemType
  BY <1>2 DEF L2Seen
<1>5. Serves(s.l2cache, l, w, k, now, r.sys.l2cache)
  BY <1>1, L2Serves
<1> QED  BY <1>1, <1>3, <1>4, <1>5 DEF L2Goes, L2StepSeen

\* An access of a first-level cache, without its install.
Looks(c, l, w, k, now, a) == \E data \in BOOLEAN : a = cache_access(c, l, w, k, now, data)
Installs(c, l, w, k, now, r) == \E data \in BOOLEAN : r = cache_install(c, l, w, k, now, data)

\* z is y with another cache n of core k.
OnlyL1(y, n, k, z) == \A m \in L1s : \A j \in Cores : m # n \/ j # k => z[m][j] = y[m][j]

\* Line l goes into cache n of core k, and what it replaces to the second level.
L1Goes(u, n, k, l, w, now, z) ==
    /\ z \in MemType /\ AllFine(z, now)
    /\ Installs(u[n][k], l, w, k, now, z[n][k])
    /\ OnlyL1(u, n, k, z)
    /\ IF MustWriteBack(z[n][k])
       THEN /\ Evicted(z[n][k], l) \in Nat /\ Owner(Evicted(z[n][k], l)) = k
            /\ \E v \in BOOLEAN : Serves(u.l2cache, Evicted(z[n][k], l), v, k, now, z.l2cache)
       ELSE z.l2cache = u.l2cache

LEMMA L1FilledPath ==
    ASSUME SIM_MODE \in SIM_MODES,
           NEW s \in MemType, NEW q \in Requests, NEW n \in L1s, n = Level1(q),
           NEW k \in Cores, k = q.core_id, k = Owner(q.line),
           IsWrite(q) => n = "dcache", NEW data \in BOOLEAN,
           AllFine(s, q.now), Copies(s[n][k], q.line) = {}, ~ s.l2cache.fault,
           NEW z, z = L1Filled(s, q, k, cache_install(s[n][k], q.line, IsWrite(q), q.core_id,
                                                      q.now, data))
    PROVE  L1Goes(s, n, k, q.line, IsWrite(q), q.now, z)
<1>1. PICK c : c = cache_install(s[n][k], q.line, IsWrite(q), q.core_id, q.now, data)
  OBVIOUS
<1>2. PICK y : y = WithL1(s, n, k, c)
  OBVIOUS
<1>3. PICK l \in Nat : l = q.line
  BY DEF Requests
<1>4. PICK now \in Nat : now = q.now
  BY DEF Requests
<1>5. PICK w \in BOOLEAN : w = IsWrite(q)
  BY DEF IsWrite
<1>6. L1InstallSeen(s, n, k, l, w, data, now, c, y)
  <2>1. c = cache_install(s[n][k], l, w, k, now, data)
    BY <1>1, <1>3, <1>4, <1>5
  <2>2. /\ w => n = "dcache"
        /\ AllFine(s, now) /\ Copies(s[n][k], l) = {} /\ k = Owner(l)
    BY <1>3, <1>4, <1>5
  <2> QED  BY <1>2, <2>1, <2>2, L1Installs
<1>7. /\ y \in MemType /\ y.l2cache = s.l2cache /\ AllFine(y, now)
      /\ MustWriteBack(c) => /\ Evicted(c, l) \in Nat /\ Owner(Evicted(c, l)) = k
                             /\ c.last_evicted_line.current \in BOOLEAN
  BY <1>6 DEF L1InstallSeen
<1>8. c \in L1Cache(n)
  <2>1. s[n][k] \in CacheOf(SetCount(n), WayCount(n))
    BY L1Type DEF L1Cache
  <2>2. c = cache_install(s[n][k], l, w, k, now, data)
    BY <1>1, <1>3, <1>4, <1>5
  <2>3. InstallOutcome(SetCount(n), WayCount(n), s[n][k], l, w, k, now, data, c)
    BY <2>1, <2>2, L1Shape, InstallFacts
  <2> QED  BY <2>3 DEF InstallOutcome, L1Cache
<1>9. y[n][k] = c /\ OnlyL1(s, n, k, y)
  <2>1. L1SetTo(s, n, k, c, y)
    BY <1>2, <1>8, L1Put
  <2> QED  BY <2>1 DEF L1SetTo, OnlyL1
<1>10. z = WriteBackL1(y, c, q)
  BY <1>1, <1>2 DEF L1Filled, WithL1
<1>11. Installs(s[n][k], l, w, k, now, c)
  BY <1>1, <1>3, <1>4, <1>5 DEF Installs
<1>12. CASE ~ MustWriteBack(c)
  <2>1. z = y
    BY <1>10, <1>12 DEF WriteBackL1
  <2> QED  BY <1>3, <1>4, <1>5, <1>7, <1>9, <1>11, <1>12, <2>1 DEF L1Goes
<1>13. CASE MustWriteBack(c)
  <2>1. PICK e \in Nat : e = Evicted(c, l) /\ Owner(e) = k
    BY <1>7, <1>13
  <2>2. PICK v \in BOOLEAN : v = c.last_evicted_line.current
    BY <1>7, <1>13
  <2>3. PICK t \in BOOLEAN : t = TRUE
    OBVIOUS
  <2>4. z = memsys_l2_access(y, e, t, k, now, v).sys
    <3>1. e = EvictedAddr(c, q.line)
      BY <1>3, <2>1 DEF Evicted, EvictedAddr
    <3> QED  BY <1>4, <1>10, <1>13, <2>2, <2>3, <3>1 DEF WriteBackL1
  <2>5. L2Goes(y, e, k, now, z)
    BY <1>7, <2>1, <2>4, L2Path
  <2>6. /\ z \in MemType /\ AllFine(z, now) /\ z[n][k] = c /\ OnlyL1(s, n, k, z)
        /\ \E b \in BOOLEAN : Serves(s.l2cache, e, b, k, now, z.l2cache)
    BY <1>7, <1>9, <2>5 DEF L2Goes, OnlyL1
  <2> QED  BY <1>3, <1>4, <1>5, <1>11, <1>13, <2>1, <2>6 DEF L1Goes
<1> QED  BY <1>12, <1>13

\* The way of a request of core k through the levels: z is what it leaves of s.
\* The first level answers; or the second does, or cannot and ends the run; or
\* the line goes into the first level.
TwoLevelsBy(s, q, k, n, y, a, b, z) ==
    /\ y.l2cache = Outdate(s.l2cache, q)
    /\ \A m \in L1s : \A j \in Cores : y[m][j] = Outdate(s[m][j], q)
    /\ AllFine(y, q.now) /\ AllFine(b, q.now)
    /\ Looks(y[n][k], q.line, IsWrite(q), k, q.now, a)
    /\ b.l2cache = y.l2cache /\ b[n][k] = a.cache /\ OnlyL1(y, n, k, b)
    /\ IF a.hit THEN z = b
       ELSE \E u : /\ L2Goes(b, q.line, k, q.now, u)
                   /\ IF u.l2cache.fault THEN z = u
                      ELSE L1Goes(u, n, k, q.line, IsWrite(q), q.now, z)
TwoLevelsGo(s, q, k, z) ==
    \E n \in {Level1(q)} : \E y, b \in MemType : \E a : TwoLevelsBy(s, q, k, n, y, a, b, z)

LEMMA TwoLevelsPath ==
    ASSUME NEW s, NEW q, NEW k, Asked(s, q, k)
    PROVE  TwoLevelsGo(s, q, k, TwoLevels(s, q, k).sys)
<1>1. /\ SIM_MODE \in SIM_MODES /\ s \in MemType /\ q \in Requests
      /\ k \in Cores /\ k = q.core_id /\ k = Owner(q.line)
      /\ AllFine(s, q.now) /\ ~ Fault(s)
  BY DEF Asked
<1>2. PICK y \in MemType : y = Outdated(s, q)
  BY <1>1, OutdatedAllView DEF OutdatedAll
<1>3. /\ y.l2cache = Outdate(s.l2cache, q)
      /\ \A m \in L1s : \A j \in Cores : y[m][j] = Outdate(s[m][j], q)
  BY <1>1, <1>2, OutdatedParts
<1>4. AllFine(y, q.now)
  <2>1. OutdatedAll(s, q, y)
    BY <1>1, <1>2, OutdatedAllView
  <2> QED  BY <1>1, <2>1 DEF OutdatedAll
<1>5. PICK n \in L1s : n = Level1(q)
  BY DEF Level1, L1s
<1>6. PICK l \in Nat : l = q.line
  BY <1>1 DEF Requests
<1>7. PICK now \in Nat : now = q.now
  BY <1>1 DEF Requests
<1>8. PICK w \in BOOLEAN : w = IsWrite(q)
  BY DEF IsWrite
<1>9. w => n = "dcache"
  BY <1>5, <1>8 DEF IsWrite, Level1
<1>10. PICK t \in BOOLEAN : t = TRUE
  OBVIOUS
<1>11. PICK a : a = cache_access(y[n][k], l, w, k, now, t)
  OBVIOUS
<1>12. PICK b : b = WithL1(y, n, k, a.cache)
  OBVIOUS
<1>13. L1AccessSeen(y, n, k, l, w, t, now, a, b)
  <2>1. k = Owner(l) /\ AllFine(y, now)
    BY <1>1, <1>4, <1>6, <1>7
  <2>2. L1AccessSeen(y, n, k, l, w, t, now, a, WithL1(y, n, k, a.cache))
    BY <1>1, <1>9, <1>11, <2>1, L1AccessView
  <2> QED  BY <1>12, <2>2
<1>14. /\ b \in MemType /\ b.l2cache = y.l2cache /\ AllFine(b, now)
       /\ ~ a.hit => Copies(b[n][k], l) = {}
  BY <1>13 DEF L1AccessSeen
<1>15. b[n][k] = a.cache /\ OnlyL1(y, n, k, b)
  <2>1. y[n][k] \in CacheOf(SetCount(n), WayCount(n))
    BY <1>1, L1Type DEF L1Cache
  <2>2. AccessOutcome(SetCount(n), WayCount(n), y[n][k], l, w, k, now, t, a)
    BY <1>1, <1>11, <2>1, L1Shape, AccessFacts
  <2>3. a.cache \in L1Cache(n)
    BY <2>2 DEF AccessOutcome, L1Cache
  <2>4. L1SetTo(y, n, k, a.cache, b)
    BY <1>1, <1>12, <2>3, L1Put
  <2> QED  BY <2>4 DEF L1SetTo, OnlyL1
<1>16. Looks(y[n][k], l, w, k, now, a)
  BY <1>11 DEF Looks
<1>17. PICK r : r = TwoLevels(s, q, k)
  OBVIOUS
<1>18. LookedAs(y, q, k, a, r)
  <2>1. r = L1Looked(y, q, k, a)
    BY <1>1, <1>2, <1>5, <1>6, <1>7, <1>8, <1>10, <1>11, <1>17 DEF TwoLevels
  <2> QED  BY <2>1, LookedParts
<1>19. PICK z : z = r.sys
  OBVIOUS
<1> SUFFICES IF a.hit THEN z = b
             ELSE \E u : /\ L2Goes(b, l, k, now, u)
                         /\ IF u.l2cache.fault THEN z = u ELSE L1Goes(u, n, k, l, w, now, z)
  <2> HIDE DEF L2Goes, L1Goes, OnlyL1, Looks, Outdate
  <2>1. TwoLevelsGo(s, q, k, z)
    BY <1>2, <1>3, <1>4, <1>5, <1>6, <1>7, <1>8, <1>14, <1>15, <1>16, Zenon
       DEF TwoLevelsGo, TwoLevelsBy
  <2> QED  BY <1>17, <1>19, <2>1
<1>20. CASE a.hit
  <2>1. z = b
    BY <1>5, <1>12, <1>18, <1>19, <1>20 DEF LookedAs
  <2> QED  BY <1>20, <2>1
<1>21. CASE ~ a.hit
  <2>1. PICK no \in BOOLEAN : no = FALSE
    OBVIOUS
  <2>2. PICK p : p = memsys_l2_access(b, l, no, k, now, no)
    OBVIOUS
  <2>3. r = L1Missed(q, k, p)
    BY <1>1, <1>5, <1>6, <1>7, <1>12, <1>18, <1>21, <2>1, <2>2, Zenon DEF LookedAs
  <2>4. MissedAs(q, k, p, r)
    BY <2>3, MissedParts
  <2>5. PICK u : u = p.sys
    OBVIOUS
  <2>6. L2Goes(b, l, k, now, u)
    BY <1>1, <1>6, <1>14, <2>2, <2>5, L2Path
  <2>7. CASE u.l2cache.fault
    <3>1. z = u
      BY <1>19, <2>4, <2>5, <2>7 DEF MissedAs
    <3> QED  BY <1>21, <2>6, <2>7, <3>1
  <2>8. CASE ~ u.l2cache.fault
    <3>1. PICK data \in BOOLEAN : data = (IsWrite(q) \/ CurrentIn(u.l2cache, q.line, q.core_id))
      OBVIOUS
    <3>2. z = L1Filled(u, q, k, cache_install(u[n][k], q.line, IsWrite(q), q.core_id, q.now,
                                              data))
      <4>1. z = L1Filled(u, q, k, MissInstalls(q, k, u))
        BY <1>19, <2>4, <2>5, <2>8 DEF MissedAs
      <4> QED  BY <1>5, <3>1, <4>1 DEF MissInstalls
    <3>3. /\ u \in MemType /\ AllFine(u, q.now) /\ u[n][k] = b[n][k]
      BY <1>1, <1>7, <2>6 DEF L2Goes
    <3>4. Copies(u[n][k], q.line) = {} /\ (IsWrite(q) => n = "dcache")
      BY <1>6, <1>8, <1>9, <1>14, <1>21, <3>3
    <3>5. L1Goes(u, n, k, q.line, IsWrite(q), q.now, z)
      BY <1>1, <1>5, <2>8, <3>2, <3>3, <3>4, L1FilledPath
    <3> QED  BY <1>6, <1>7, <1>8, <1>21, <2>6, <2>8, <3>5
  <2> QED  BY <2>7, <2>8
<1> QED  BY <1>20, <1>21

\* The same in mode A, where there is one cache.
ModeAGoes(s, q, z) ==
    IF q.type = "IFETCH" THEN z = s
    ELSE \E y \in MemType : \E a :
        /\ y.l2cache = Outdate(s.l2cache, q)
        /\ \A m \in L1s : \A j \in Cores : y[m][j] = Outdate(s[m][j], q)
        /\ AllFine(y, q.now)
        /\ Looks(y["dcache"][0], q.line, IsWrite(q), 0, q.now, a)
        /\ z.l2cache = y.l2cache /\ OnlyL1(y, "dcache", 0, z)
        /\ IF a.hit THEN z["dcache"][0] = a.cache
           ELSE Installs(a.cache, q.line, IsWrite(q), 0, q.now, z["dcache"][0])

LEMMA ModeAPath ==
    ASSUME NEW s, NEW q, Asked(s, q, 0), SIM_MODE = "A"
    PROVE  ModeAGoes(s, q, memsys_access_modeA(s, q).sys)
<1>1. /\ SIM_MODE \in SIM_MODES /\ s \in MemType /\ q \in Requests
      /\ 0 \in Cores /\ 0 = q.core_id /\ 0 = Owner(q.line)
      /\ AllFine(s, q.now) /\ ~ Fault(s)
  BY DEF Asked
<1>2. PICK y \in MemType : y = Outdated(s, q)
  BY <1>1, OutdatedAllView DEF OutdatedAll
<1>3. /\ y.l2cache = Outdate(s.l2cache, q)
      /\ \A m \in L1s : \A j \in Cores : y[m][j] = Outdate(s[m][j], q)
  BY <1>1, <1>2, OutdatedParts
<1>4. AllFine(y, q.now)
  <2>1. OutdatedAll(s, q, y)
    BY <1>1, <1>2, OutdatedAllView
  <2> QED  BY <1>1, <2>1 DEF OutdatedAll
<1>5. PICK n \in L1s : n = "dcache"
  BY DEF L1s
<1>6. PICK l \in Nat : l = q.line
  BY <1>1 DEF Requests
<1>7. PICK now \in Nat : now = q.now
  BY <1>1 DEF Requests
<1>8. PICK w \in BOOLEAN : w = IsWrite(q)
  BY DEF IsWrite
<1>9. PICK k \in Cores : k = 0
  BY <1>1
<1>10. PICK t \in BOOLEAN : t = TRUE
  OBVIOUS
<1>11. PICK a : a = cache_access(y[n][k], l, w, k, now, t)
  OBVIOUS
<1>12. PICK r : r = memsys_access_modeA(s, q)
  OBVIOUS
<1>13. ModeAAs(s, q, a, t, r)
  <2>1. a = cache_access(y["dcache"][0], q.line, IsWrite(q), q.core_id, q.now, t)
    BY <1>1, <1>5, <1>6, <1>7, <1>8, <1>9, <1>11
  <2>2. ModeAAs(s, q, a, t, memsys_access_modeA(s, q))
    BY <1>2, <1>10, <2>1, ModeAParts
  <2> QED  BY <1>12, <2>2
<1>14. PICK z : z = r.sys
  OBVIOUS
<1>15. CASE q.type = "IFETCH"
  BY <1>12, <1>13, <1>14, <1>15 DEF ModeAAs, ModeAGoes
<1>16. CASE q.type # "IFETCH"
  <2>1. a.cache \in CacheOf(SetCount(n), WayCount(n))
    <3>1. y[n][k] \in CacheOf(SetCount(n), WayCount(n))
      BY <1>1, L1Type DEF L1Cache
    <3>2. AccessOutcome(SetCount(n), WayCount(n), y[n][k], l, w, k, now, t, a)
      BY <1>1, <1>11, <3>1, L1Shape, AccessFacts
    <3> QED  BY <3>2 DEF AccessOutcome
  <2>2. PICK i1 : i1 = cache_install(a.cache, l, w, k, now, t)
    OBVIOUS
  <2>3. i1 \in CacheOf(SetCount(n), WayCount(n))
    <3>1. InstallOutcome(SetCount(n), WayCount(n), a.cache, l, w, k, now, t, i1)
      BY <2>1, <2>2, L1Shape, InstallFacts
    <3> QED  BY <3>1 DEF InstallOutcome
  <2>4. PICK c \in L1Cache(n) : c = IF a.hit THEN a.cache ELSE i1
    BY <2>1, <2>3 DEF L1Cache
  <2>5. z = WithL1(y, n, k, c)
    <3>1. i1 = ModeAInstalls(q, 0, a.cache, t)
      BY <1>1, <1>6, <1>7, <1>8, <1>9, <2>2 DEF ModeAInstalls
    <3> QED  BY <1>2, <1>5, <1>9, <1>13, <1>14, <1>16, <2>4, <3>1 DEF ModeAAs
  <2>6. L1SetTo(y, n, k, c, z)
    BY <2>5, L1Put
  <2>7. z.l2cache = y.l2cache /\ OnlyL1(y, n, k, z) /\ z[n][k] = c
    BY <2>6 DEF L1SetTo, OnlyL1
  <2>8. Looks(y[n][k], l, w, k, now, a)
    BY <1>11 DEF Looks
  <2>9. ~ a.hit => Installs(a.cache, l, w, k, now, c)
    BY <2>2, <2>4 DEF Installs
  <2>10. ModeAGoes(s, q, z)
    BY <1>3, <1>4, <1>5, <1>6, <1>7, <1>8, <1>9, <1>16, <2>4, <2>7, <2>8, <2>9, Zenon
       DEF ModeAGoes
  <2> QED  BY <1>12, <1>14, <2>10
<1> QED  BY <1>15, <1>16

SameCaches(x, z) ==
    /\ z.l2cache = x.l2cache
    /\ \A n \in L1s : \A k \in Cores : z[n][k] = x[n][k]

\* The line that an address of core k is in.
LineOf(addr, k) == LET l == addr \div CACHE_LINESIZE
                   IN  IF SIM_MODE = "DEF" THEN PhysicalLine(l, k) ELSE l

\* Access q of core k, through the levels that the mode has.
Goes(s, q, k, z) ==
    \E x \in MemType :
        /\ SameCaches(x, z)
        /\ IF SIM_MODE = "A" THEN k = 0 /\ ModeAGoes(s, q, x) ELSE TwoLevelsGo(s, q, k, x)

LEMMA CountedSame ==
    ASSUME NEW q \in Requests, NEW r, IsPair(r), r.delay \in Nat, r.sys \in MemType
    PROVE  SameCaches(r.sys, Counted(q, r).sys)
<1>1. PICK y \in MemType : y = r.sys
  OBVIOUS
<1>2. PICK z : z = Counted(q, r).sys
  OBVIOUS
<1>3. z.dcache = y.dcache /\ z.icache = y.icache /\ z.l2cache = y.l2cache
  BY <1>1, <1>2, CountedFacts DEF CountedAs
<1> QED  BY <1>1, <1>2, <1>3 DEF SameCaches, L1s

LEMMA MemPath ==
    ASSUME SIM_MODE \in SIM_MODES, NEW s \in MemType, NEW addr \in 0 .. PAGE_SIZE * VPN_TAIL - 1,
           NEW type \in ACCESS_TYPES, NEW k \in Cores, NEW now \in Nat,
           AllFine(s, now), ~ Fault(s)
    PROVE  \E q \in Requests :
               /\ q.line = LineOf(addr, k) /\ q.type = type /\ q.now = now
               /\ Asked(s, q, k)
               /\ Goes(s, q, k, memsys_access(s, addr, type, k, now).sys)
<1>1. PICK v \in Nat : v = addr \div CACHE_LINESIZE
  <2>1. addr \in Nat /\ CACHE_LINESIZE \in Nat \ {0}
    BY Sizes
  <2> QED  BY <2>1, Divided
<1>2. PICK q : q = Request(v, type, k, now)
  OBVIOUS
<1>3. q \in Requests /\ q.type = type /\ q.now = now /\ q.core_id = k /\ q.line = v
  BY <1>2 DEF Requests, Request
<1>4. SIM_MODE # "DEF" => k = 0 /\ Owner(q.line) = 0
  BY MemSysAssumption DEF Cores, Owner
<1>5. CASE SIM_MODE = "A"
  <2>1. PICK r : r = memsys_access_modeA(s, q)
    OBVIOUS
  <2>2. memsys_access(s, addr, type, k, now) = Counted(q, r)
    BY <1>1, <1>2, <1>5, <2>1 DEF memsys_access
  <2>3. Asked(s, q, 0)
    BY <1>3, <1>4, <1>5 DEF Asked
  <2>4. ModeASeen(s, q, r)
    BY <1>5, <2>1, <2>3, ModeAView
  <2>5. IsPair(r)
    BY <2>1, ArePairs
  <2>6. r.sys \in MemType /\ SameCaches(r.sys, Counted(q, r).sys)
    BY <1>3, <2>4, <2>5, CountedSame DEF ModeASeen, SystemSeen
  <2>7. ModeAGoes(s, q, r.sys)
    BY <1>5, <2>1, <2>3, ModeAPath
  <2>8. Goes(s, q, k, Counted(q, r).sys)
    BY <1>4, <1>5, <2>6, <2>7 DEF Goes
  <2> QED  BY <1>1, <1>3, <1>4, <1>5, <2>2, <2>3, <2>8 DEF LineOf
<1>6. CASE SIM_MODE \in {"B", "C"}
  <2>1. PICK r : r = TwoLevels(s, q, 0)
    OBVIOUS
  <2>2. memsys_access(s, addr, type, k, now) = Counted(q, r)
    BY <1>1, <1>2, <1>6, <2>1 DEF memsys_access, memsys_access_modeBC
  <2>3. Asked(s, q, 0)
    BY <1>3, <1>4, <1>6 DEF Asked
  <2>4. TwoLevelsSeen(s, q, r)
    BY <2>1, <2>3, TwoLevelsView
  <2>5. IsPair(r)
    BY <2>1, ArePairs
  <2>6. r.sys \in MemType /\ SameCaches(r.sys, Counted(q, r).sys)
    BY <1>3, <2>4, <2>5, CountedSame DEF TwoLevelsSeen, SystemSeen
  <2>7. TwoLevelsGo(s, q, k, r.sys)
    BY <1>4, <1>6, <2>1, <2>3, TwoLevelsPath
  <2>8. Goes(s, q, k, Counted(q, r).sys)
    BY <1>6, <2>6, <2>7 DEF Goes
  <2> QED  BY <1>1, <1>3, <1>4, <1>6, <2>2, <2>3, <2>8 DEF LineOf
<1>7. CASE SIM_MODE = "DEF"
  <2>1. PICK p : p = Physical(q)
    OBVIOUS
  <2>2. PICK r : r = TwoLevels(s, p, k)
    OBVIOUS
  <2>3. PICK x \in Nat : x = PhysicalLine(v, k) /\ Owner(x) = k
    BY <1>1, <1>7, OwnLine
  <2>4. p \in Requests /\ p.type = type /\ p.now = now /\ p.core_id = k /\ p.line = x
    BY <1>3, <2>1, <2>3 DEF Requests, Physical
  <2>5. memsys_access(s, addr, type, k, now) = Counted(q, r)
    BY <1>1, <1>2, <1>3, <1>7, <2>1, <2>2 DEF memsys_access, memsys_access_modeDEF
  <2>6. Asked(s, p, k)
    BY <2>3, <2>4 DEF Asked
  <2>7. TwoLevelsSeen(s, p, r)
    BY <2>2, <2>6, TwoLevelsView
  <2>8. IsPair(r)
    BY <2>2, ArePairs
  <2>9. r.sys \in MemType /\ SameCaches(r.sys, Counted(q, r).sys)
    BY <1>3, <2>7, <2>8, CountedSame DEF TwoLevelsSeen, SystemSeen
  <2>10. TwoLevelsGo(s, p, k, r.sys)
    BY <2>2, <2>6, TwoLevelsPath
  <2>11. Goes(s, p, k, Counted(q, r).sys)
    BY <1>7, <2>9, <2>10 DEF Goes
  <2> QED  BY <1>1, <1>7, <2>3, <2>4, <2>5, <2>6, <2>11 DEF LineOf
<1>8. SIM_MODE \in {"A", "B", "C", "DEF"}
  BY DRAMAssumption
<1> QED  BY <1>5, <1>6, <1>7, <1>8

\* An instruction of core k, whose fetch leaves e: q and p are its requests.
IsRequest(q, n, k, type) ==
    /\ q \in Requests
    /\ q.line = AskedLine(<<n, k>>) /\ q.type = type
    /\ q.now = current_cycle
InstructionGoes(k, e) ==
    /\ e \in MemType /\ AllFine(e, current_cycle) /\ SamePolicies(sys, e)
    /\ \E q \in Requests : /\ IsRequest(q, "icache", k, "IFETCH")
                           /\ Asked(sys, q, k) /\ Goes(sys, q, k, e)
    /\ IF core[k].trace.inst_type \in {"LOAD", "STORE"} /\ ~ Fault(e)
       THEN \E q \in Requests : /\ IsRequest(q, "dcache", k, core[k].trace.inst_type)
                                /\ Asked(e, q, k) /\ Goes(e, q, k, sys')
       ELSE sys' = e

LEMMA InstructionPath ==
    ASSUME CachesInv, CoresInv, CoreExecutes
    PROVE  /\ i \in Cores /\ ~ Fault(sys) /\ ~ core[i].done
           /\ \E e : InstructionGoes(i, e)
<1>1. PICK k \in Cores : k = i /\ ~ core[k].done /\ ~ Snoozing(core[k]) /\ ~ Fault(sys)
  <2>1. i < NUM_CORES /\ ~ core[i].done /\ ~ Snoozing(core[i]) /\ ~ Fault(sys)
    BY Zenon DEF CoreExecutes
  <2>2. NUM_CORES \in Nat
    BY ZeroIsACore
  <2>3. i \in Cores
    BY <2>1, <2>2 DEF CoresInv, Cores
  <2> QED  BY <2>1, <2>3
<1>2. PICK f, d, r : ExecutesAs(k, f, d, r)
  BY <1>1, Zenon DEF CoreExecutes, ExecutesAs, InstructionFetch
<1>3. /\ f = memsys_access(sys, core[k].trace.inst_addr, "IFETCH", k, current_cycle)
      /\ d = DataAccess(f.sys, k) /\ sys' = d.sys
  BY <1>2 DEF ExecutesAs
<1>4. PICK rec : rec = core[k].trace
  OBVIOUS
<1>5. rec \in MemRecords
  BY <1>1, <1>4 DEF CoresInv
<1>6. PICK ia, da \in 0 .. PAGE_SIZE * VPN_TAIL - 1 : ia = rec.inst_addr /\ da = rec.ldst_addr
  BY <1>5, RecordFacts DEF Addresses
<1>7. PICK now \in Nat : now = current_cycle
  BY DEF CoresInv
<1>8. SIM_MODE \in SIM_MODES /\ sys \in MemType /\ AllFine(sys, now)
  BY <1>7 DEF CachesInv
<1>9. PICK fetch \in ACCESS_TYPES : fetch = "IFETCH"
  BY DEF ACCESS_TYPES
<1>10. f = memsys_access(sys, ia, fetch, k, now)
  BY <1>3, <1>4, <1>6, <1>7, <1>9
<1>11. PICK e : e = f.sys
  OBVIOUS
<1>12. e \in MemType /\ AllFine(e, now) /\ SamePolicies(sys, e)
  <2>1. MemSeen(sys, fetch, now, f)
    BY <1>1, <1>8, <1>10, MemView
  <2> QED  BY <1>11, <2>1 DEF MemSeen
<1>13. \E q \in Requests : /\ IsRequest(q, "icache", k, "IFETCH")
                           /\ Asked(sys, q, k) /\ Goes(sys, q, k, e)
  <2>1. PICK q \in Requests : /\ q.line = LineOf(ia, k) /\ q.type = fetch /\ q.now = now
                              /\ Asked(sys, q, k)
                              /\ Goes(sys, q, k, memsys_access(sys, ia, fetch, k, now).sys)
    BY <1>1, <1>8, MemPath
  <2>2. LineOf(ia, k) = AskedLine(<<"icache", k>>)
    BY <1>4, <1>6 DEF LineOf, AskedLine
  <2>3. IsRequest(q, "icache", k, "IFETCH")
    BY <1>7, <1>9, <2>1, <2>2 DEF IsRequest
  <2> QED  BY <1>10, <1>11, <2>1, <2>3
<1>14. CASE rec.inst_type \notin {"LOAD", "STORE"} \/ Fault(e)
  <2>1. d = [delay |-> 0, sys |-> e]
    BY <1>3, <1>4, <1>11, <1>14 DEF DataAccess
  <2>2. sys' = e
    BY <1>3, <2>1, Pair
  <2> QED  BY <1>1, <1>4, <1>7, <1>12, <1>13, <1>14, <2>2 DEF InstructionGoes
<1>15. CASE rec.inst_type \in {"LOAD", "STORE"} /\ ~ Fault(e)
  <2>1. PICK ty \in ACCESS_TYPES : ty = rec.inst_type
    BY <1>15 DEF ACCESS_TYPES
  <2>2. d = memsys_access(e, da, ty, k, now)
    BY <1>3, <1>4, <1>6, <1>7, <1>11, <1>15, <2>1 DEF DataAccess
  <2>3. PICK q \in Requests : /\ q.line = LineOf(da, k) /\ q.type = ty /\ q.now = now
                              /\ Asked(e, q, k)
                              /\ Goes(e, q, k, memsys_access(e, da, ty, k, now).sys)
    BY <1>8, <1>12, <1>15, MemPath
  <2>4. LineOf(da, k) = AskedLine(<<"dcache", k>>)
    BY <1>4, <1>6 DEF LineOf, AskedLine
  <2>5. IsRequest(q, "dcache", k, core[k].trace.inst_type)
    BY <1>4, <1>7, <2>1, <2>3, <2>4 DEF IsRequest
  <2>6. Goes(e, q, k, sys')
    BY <1>3, <2>2, <2>3
  <2> QED  BY <1>1, <1>4, <1>7, <1>12, <1>13, <1>15, <2>3, <2>5, <2>6 DEF InstructionGoes
<1> QED  BY <1>1, <1>14, <1>15

-----------------------------------------------------------------------------
(* Way partitioning. *)

\* A set of a ways, of which z are core 0's.
LEMMA Shares ==
    ASSUME NEW a \in Nat \ {0}, NEW set \in LinesOfSet(a)
    PROVE  /\ WaysOf(set, TRUE) = {w \in 0 .. a - 1 : set[w].coreID = 0}
           /\ IsFiniteSet(WaysOf(set, TRUE)) /\ Cardinality(WaysOf(set, TRUE)) \in Nat
           /\ Cardinality(WaysOf(set, FALSE)) = a - Cardinality(WaysOf(set, TRUE))
           /\ Cardinality(DOMAIN set) = a
           /\ Distance(set) \in Nat
<1>1. DOMAIN set = 0 .. a - 1
  BY DEF LinesOfSet
<1>2. PICK D : D = 0 .. a - 1
  OBVIOUS
<1>3. IsFiniteSet(D) /\ Cardinality(D) = a
  <2>1. 0 \in Int /\ a - 1 \in Int
    OBVIOUS
  <2> QED  BY <1>2, <2>1, FS_Interval
<1>4. PICK Z, O : Z = WaysOf(set, TRUE) /\ O = WaysOf(set, FALSE)
  OBVIOUS
<1>5. Z = {w \in D : set[w].coreID = 0} /\ O = D \ Z
  BY <1>1, <1>2, <1>4 DEF WaysOf
<1>6. Z \subseteq D /\ O \subseteq D
  BY <1>5
<1>7. IsFiniteSet(Z) /\ Cardinality(Z) \in Nat
  BY <1>3, <1>6, FS_Subset, FS_CardinalityType
<1>8. Cardinality(O) = a - Cardinality(Z)
  <2>1. Cardinality(D \ Z) = Cardinality(D) - Cardinality(D \cap Z)
    BY <1>3, FS_Difference
  <2>2. D \cap Z = Z
    BY <1>6
  <2> QED  BY <1>3, <1>5, <2>1, <2>2
<1>9. Distance(set) \in Nat
  <2>1. PICK P \in Nat : P = SWP_CORE0_WAYS
    BY CacheAssumption
  <2>2. PICK z \in Nat : z = Cardinality(Z)
    BY <1>7
  <2>3. Distance(set) = IF z - P < 0 THEN - (z - P) ELSE z - P
    BY <1>4, <2>1, <2>2 DEF Distance
  <2> QED  BY <2>3
<1> QED  BY <1>1, <1>2, <1>3, <1>4, <1>5, <1>7, <1>8, <1>9

\* A set that is full stays so when core k's line replaces the victim that
\* static partitioning chooses, and core 0's share does not leave its quota.
LEMMA QuotaIsNeared ==
    ASSUME NEW a \in Nat \ {0}, NEW set \in LinesOfSet(a), NEW new \in LinesOfSet(a),
           NEW c, c.replacement_policy = "SWP", NEW k \in Cores, Full(set),
           NEW w \in 0 .. a - 1, w = cache_find_victim(c, set, k),
           new[w].valid, new[w].coreID = k,
           \A v \in 0 .. a - 1 : v # w => new[v] = set[v]
    PROVE  Full(new) /\ Distance(new) <= Distance(set)
<1>1. DOMAIN set = 0 .. a - 1 /\ DOMAIN new = 0 .. a - 1
  BY DEF LinesOfSet
<1>2. Full(new)
  <2> SUFFICES ASSUME NEW v \in 0 .. a - 1 PROVE new[v].valid
    BY <1>1 DEF Full
  <2>1. set[v].valid
    BY <1>1 DEF Full
  <2> QED  BY <2>1
<1>3. PICK P \in Nat : P = SWP_CORE0_WAYS
  BY CacheAssumption
<1>4. PICK vc : vc = VictimCore(set, k, P)
  OBVIOUS
<1>5. PICK W : W = {v \in 0 .. a - 1 : set[v].coreID = vc}
  OBVIOUS
<1>6. w = Oldest(set, W)
  <2>1. {v \in DOMAIN set : ~ set[v].valid} = {}
    BY DEF Full
  <2>2. w = cache_find_victim_from_partition(set, k, P)
    BY <1>3, <2>1 DEF cache_find_victim
  <2> QED  BY <1>1, <1>4, <1>5, <2>2 DEF cache_find_victim_from_partition
<1>7. w \in W
  <2>1. W # {}
    BY <1>6 DEF Oldest, NoWay
  <2>2. W \in SUBSET (0 .. a - 1)
    BY <1>5
  <2> QED  BY <1>6, <2>1, <2>2, OldestIsThere
<1>8. set[w].coreID = vc
  BY <1>5, <1>7
<1>9. PICK Z, N : Z = WaysOf(set, TRUE) /\ N = WaysOf(new, TRUE)
  OBVIOUS
<1>10. PICK z \in Nat : z = Cardinality(Z)
  BY <1>9, Shares
<1>11. PICK n \in Nat : n = Cardinality(N)
  BY <1>9, Shares
<1>12. /\ Z = {v \in 0 .. a - 1 : set[v].coreID = 0} /\ N = {v \in 0 .. a - 1 : new[v].coreID = 0}
       /\ IsFiniteSet(Z)
  BY <1>9, Shares
<1>13. vc = IF k = 0 THEN IF a - z > a - P THEN 1 ELSE 0 ELSE IF z > P THEN 0 ELSE 1
  BY <1>4, <1>9, <1>10, Shares DEF VictimCore
<1>14. k \in {0, 1}
  BY ZeroIsACore
<1>15. /\ Distance(set) = IF z - P < 0 THEN - (z - P) ELSE z - P
       /\ Distance(new) = IF n - P < 0 THEN - (n - P) ELSE n - P
  BY <1>3, <1>9, <1>10, <1>11 DEF Distance
<1>16. CASE vc = k
  <2>1. N = Z
    BY <1>8, <1>12, <1>16
  <2>2. n = z
    BY <1>10, <1>11, <2>1
  <2> QED  BY <1>2, <1>15, <2>2
<1>17. CASE k = 0 /\ vc = 1
  <2>1. N = Z \cup {w} /\ w \notin Z
    BY <1>8, <1>12, <1>17
  <2>2. n = z + 1
    <3>1. IsFiniteSet(Z)
      BY <1>12
    <3>2. Cardinality(Z \cup {w}) = Cardinality(Z) + 1
      BY <2>1, <3>1, FS_AddElement
    <3> QED  BY <1>10, <1>11, <2>1, <3>2
  <2>3. z < P
    BY <1>13, <1>17
  <2> QED  BY <1>2, <1>15, <2>2, <2>3
<1>18. CASE k = 1 /\ vc = 0
  <2>1. N = Z \ {w} /\ w \in Z
    BY <1>8, <1>12, <1>18
  <2>2. n = z - 1
    <3>1. IsFiniteSet(Z)
      BY <1>12
    <3>2. Cardinality(Z \ {w}) = Cardinality(Z) - 1
      BY <2>1, <3>1, FS_RemoveElement
    <3> QED  BY <1>10, <1>11, <2>1, <3>2
  <2>3. z > P
    BY <1>13, <1>18
  <2> QED  BY <1>2, <1>15, <2>2, <2>3
<1> QED  BY <1>13, <1>14, <1>16, <1>17, <1>18

\* Of core 0's share in the sets of c that are full: r is as near its quota.
Converges(c, r) ==
    /\ r.replacement_policy = c.replacement_policy
    /\ c.replacement_policy = "SWP" =>
           \A s \in Sets(c) :
               Full(c.sets[s]) =>
                   Full(r.sets[s]) /\ Distance(r.sets[s]) <= Distance(c.sets[s])

LEMMA L2Sets ==
    ASSUME NEW c \in L2Cache
    PROVE  /\ Sets(c) = 0 .. LSets - 1 /\ Ways(c) = 0 .. L2CACHE_ASSOC - 1
           /\ \A s \in Sets(c) : c.sets[s] \in LinesOfSet(L2CACHE_ASSOC)
<1>1. PICK n, a \in Nat \ {0} : n = LSets /\ a = L2CACHE_ASSOC
  BY Shapes
<1>2. c \in CacheOf(n, a) /\ 0 \in Nat
  BY <1>1 DEF L2Cache
<1>3. Sets(c) = 0 .. n - 1 /\ Ways(c) = 0 .. a - 1
  BY <1>1, <1>2, Address
<1>4. c.sets \in SetsOf(n, a)
  BY <1>2 DEF CacheOf
<1> QED  BY <1>1, <1>3, <1>4 DEF SetsOf

LEMMA ConvergesTo ==
    ASSUME NEW c \in L2Cache, NEW d \in L2Cache, NEW e \in L2Cache,
           Converges(c, d), Converges(d, e)
    PROVE  Converges(c, e)
<1>1. \A s \in Sets(c) : Distance(c.sets[s]) \in Nat /\ Distance(d.sets[s]) \in Nat
                         /\ Distance(e.sets[s]) \in Nat
  BY L2Sets, Shapes, Shares
<1>2. Sets(d) = Sets(c)
  BY L2Sets
<1>3. ASSUME c.replacement_policy = "SWP", NEW s \in Sets(c), Full(c.sets[s])
      PROVE  Full(e.sets[s]) /\ Distance(e.sets[s]) <= Distance(c.sets[s])
  <2>1. Full(d.sets[s]) /\ Distance(d.sets[s]) <= Distance(c.sets[s])
    BY <1>3 DEF Converges
  <2>2. Full(e.sets[s]) /\ Distance(e.sets[s]) <= Distance(d.sets[s])
    BY <1>2, <1>3, <2>1 DEF Converges
  <2> QED  BY <1>1, <2>1, <2>2
<1> QED  BY <1>3 DEF Converges

LEMMA ConvergesItself ==
    ASSUME NEW c \in L2Cache
    PROVE  Converges(c, c)
<1>1. \A s \in Sets(c) : Distance(c.sets[s]) \in Nat
  BY L2Sets, Shapes, Shares
<1> QED  BY <1>1 DEF Converges

\* The same lines as far as a partition can tell.
LEMMA SameShares ==
    ASSUME NEW c \in L2Cache, NEW r \in L2Cache, r.replacement_policy = c.replacement_policy,
           \A s \in Sets(c) : \A w \in Ways(c) :
               /\ r.sets[s][w].valid <=> c.sets[s][w].valid
               /\ r.sets[s][w].coreID = c.sets[s][w].coreID
    PROVE  Converges(c, r)
<1>1. PICK a \in Nat \ {0} : a = L2CACHE_ASSOC
  BY Shapes
<1>2. ASSUME NEW s \in Sets(c), Full(c.sets[s])
      PROVE  Full(r.sets[s]) /\ Distance(r.sets[s]) <= Distance(c.sets[s])
  <2>1. PICK u \in LinesOfSet(a), v \in LinesOfSet(a) : u = c.sets[s] /\ v = r.sets[s]
    BY <1>1, L2Sets
  <2>2. DOMAIN u = 0 .. a - 1 /\ DOMAIN v = 0 .. a - 1
    BY DEF LinesOfSet
  <2>3. \A w \in 0 .. a - 1 : (v[w].valid <=> u[w].valid) /\ v[w].coreID = u[w].coreID
    BY <1>1, <2>1, L2Sets
  <2>4. Full(v)
    BY <1>2, <2>1, <2>2, <2>3 DEF Full
  <2>5. WaysOf(v, TRUE) = WaysOf(u, TRUE)
    <3>1. WaysOf(u, TRUE) = {w \in 0 .. a - 1 : u[w].coreID = 0}
      BY Shares
    <3>2. WaysOf(v, TRUE) = {w \in 0 .. a - 1 : v[w].coreID = 0}
      BY Shares
    <3> QED  BY <2>3, <3>1, <3>2
  <2>6. Distance(v) = Distance(u) /\ Distance(u) \in Nat
    BY <2>5, Shares DEF Distance
  <2> QED  BY <2>1, <2>4, <2>6
<1> QED  BY <1>2 DEF Converges

LEMMA ServesConverges ==
    ASSUME NEW c \in L2Cache, NEW l \in Nat, NEW w \in BOOLEAN, NEW k \in Cores, NEW now \in Nat,
           NEW r, Serves(c, l, w, k, now, r)
    PROVE  r \in L2Cache /\ Converges(c, r)
<1>1. PICK n, m \in Nat \ {0} : n = LSets /\ m = L2CACHE_ASSOC
  BY Shapes
<1>2. PICK data \in BOOLEAN, put \in BOOLEAN :
          r = Fills(c, cache_access(c, l, w, k, now, data), l, w, k, now, put)
  BY DEF Serves
<1>3. PICK a : a = cache_access(c, l, w, k, now, data)
  OBVIOUS
<1>4. c \in CacheOf(n, m)
  BY <1>1 DEF L2Cache
<1>5. AccessOutcome(n, m, c, l, w, k, now, data, a)
  BY <1>3, <1>4, AccessFacts
<1>6. a.cache \in CacheOf(n, m) /\ a.cache.replacement_policy = c.replacement_policy
  BY <1>5 DEF AccessOutcome
<1>7. CASE a.hit
  <2>1. r = a.cache
    BY <1>2, <1>3, <1>7 DEF Fills
  <2>2. PICK h \in HitWays(c, l, k) :
            Put(c, r, IndexOf(c, l), h, Accessed(SetOf(c, l)[h], w, now, data))
    BY <1>5, <1>7, <2>1 DEF AccessOutcome
  <2>3. h \in Ways(c) /\ IndexOf(c, l) \in Sets(c) /\ SetOf(c, l)[h] \in Line
    <3>1. IndexOf(c, l) \in 0 .. n - 1 /\ Sets(c) = 0 .. n - 1 /\ Ways(c) = 0 .. m - 1
          /\ SetOf(c, l) \in LinesOfSet(m)
      BY <1>4, Address
    <3>2. h \in 0 .. m - 1
      BY <3>1 DEF HitWays
    <3> QED  BY <3>1, <3>2 DEF LinesOfSet
  <2>4. PICK new : new = Accessed(SetOf(c, l)[h], w, now, data)
    OBVIOUS
  <2>5. /\ new.valid <=> SetOf(c, l)[h].valid
        /\ new.coreID = SetOf(c, l)[h].coreID
    <3>1. PICK old \in Line : old = SetOf(c, l)[h]
      BY <2>3
    <3>2. LineAccessed(old, new, w, now, data)
      BY <2>4, <3>1, AccessedType
    <3> QED  BY <3>1, <3>2 DEF LineAccessed
  <2>6. ASSUME NEW s \in Sets(c), NEW v \in Ways(c)
        PROVE  /\ r.sets[s][v].valid <=> c.sets[s][v].valid
               /\ r.sets[s][v].coreID = c.sets[s][v].coreID
    <3>1. r.sets[s][v] = IF s = IndexOf(c, l) /\ v = h THEN new ELSE c.sets[s][v]
      BY <2>2, <2>4 DEF Put
    <3> QED  BY <2>5, <3>1 DEF SetOf
  <2> QED  BY <1>1, <1>6, <2>1, <2>6, SameShares DEF L2Cache
<1>8. CASE ~ a.hit
  <2>1. PICK b : b = a.cache
    OBVIOUS
  <2>2. b \in CacheOf(n, m) /\ b.replacement_policy = c.replacement_policy /\ b.sets = c.sets
        /\ b.index_span = c.index_span
    BY <1>5, <1>6, <1>8, <2>1 DEF AccessOutcome
  <2>3. r = cache_install(b, l, w, k, now, put)
    BY <1>2, <1>3, <1>8, <2>1 DEF Fills
  <2>4. InstallOutcome(n, m, b, l, w, k, now, put, r)
    BY <2>2, <2>3, InstallFacts
  <2>5. r \in CacheOf(n, m) /\ r.replacement_policy = c.replacement_policy
    BY <2>2, <2>4 DEF InstallOutcome
  <2>6. r \in L2Cache /\ b \in L2Cache
    BY <1>1, <2>2, <2>5 DEF L2Cache
  <2>7. PICK x : x = Victim(b, l, k)
    OBVIOUS
  <2>8. CASE x = NoWay
    <3>1. r.sets = c.sets
      BY <2>2, <2>4, <2>7, <2>8 DEF InstallOutcome
    <3> QED  BY <2>5, <2>6, <3>1, SameShares
  <2>9. CASE x \in 0 .. m - 1
    <3>1. PICK new : new = Installed(b, l, w, k, now, put)
      OBVIOUS
    <3>2. new.valid = TRUE /\ new.coreID = k
      BY <3>1 DEF Installed
    <3>3. PICK j : j = IndexOf(b, l)
      OBVIOUS
    <3>4. Put(b, r, j, x, new)
      BY <2>4, <2>7, <2>9, <3>1, <3>3 DEF InstallOutcome
    <3>5. \A s \in 0 .. n - 1 : \A v \in 0 .. m - 1 :
              r.sets[s][v] = IF s = j /\ v = x THEN new ELSE c.sets[s][v]
      <4>1. Sets(b) = 0 .. n - 1 /\ Ways(b) = 0 .. m - 1
        BY <1>1, <2>6, L2Sets
      <4> QED  BY <2>2, <3>4, <4>1 DEF Put
    <3>6. ASSUME c.replacement_policy = "SWP", NEW s \in Sets(c), Full(c.sets[s])
          PROVE  Full(r.sets[s]) /\ Distance(r.sets[s]) <= Distance(c.sets[s])
      <4>1. PICK u \in LinesOfSet(m), v \in LinesOfSet(m) : u = c.sets[s] /\ v = r.sets[s]
        BY <1>1, <2>6, L2Sets
      <4>2. s \in 0 .. n - 1
        BY <1>1, L2Sets
      <4>3. CASE s # j
        <5>1. \A y \in 0 .. m - 1 : v[y] = u[y]
          BY <3>5, <4>1, <4>2, <4>3
        <5>2. v = u
          BY <5>1 DEF LinesOfSet
        <5>3. Distance(u) \in Nat
          BY Shares
        <5> QED  BY <3>6, <4>1, <5>2, <5>3
      <4>4. CASE s = j
        <5>1. SetOf(b, l) = u
          BY <2>2, <3>3, <4>1, <4>4 DEF SetOf
        <5>2. x = cache_find_victim(b, u, k)
          BY <2>7, <5>1 DEF Victim
        <5>3. \A y \in 0 .. m - 1 : y # x => v[y] = u[y]
          BY <3>5, <4>1, <4>2
        <5>4. v[x].valid /\ v[x].coreID = k
          BY <2>9, <3>2, <3>5, <4>1, <4>2, <4>4
        <5>5. Full(u) /\ b.replacement_policy = "SWP"
          BY <2>2, <3>6, <4>1
        <5>6. Full(v) /\ Distance(v) <= Distance(u)
          BY <2>9, <5>2, <5>3, <5>4, <5>5, QuotaIsNeared
        <5> QED  BY <4>1, <5>6
      <4> QED  BY <4>3, <4>4
    <3> QED  BY <2>5, <2>6, <3>6 DEF Converges
  <2>10. x \in (0 .. m - 1) \cup {NoWay}
    BY <2>4, <2>7 DEF InstallOutcome
  <2> QED  BY <2>8, <2>9, <2>10
<1> QED  BY <1>7, <1>8

LEMMA OutdateLines ==
    ASSUME NEW n \in Nat \ {0}, NEW a \in Nat \ {0}, NEW c \in CacheOf(n, a), NEW q \in Requests
    PROVE  /\ Outdate(c, q) \in CacheOf(n, a)
           /\ Outdate(c, q).index_span = c.index_span
           /\ Outdate(c, q).replacement_policy = c.replacement_policy
           /\ Outdate(c, q).fault = c.fault
           /\ Outdate(c, q).stat_read_access = c.stat_read_access
           /\ Outdate(c, q).stat_write_access = c.stat_write_access
           /\ Misses(Outdate(c, q)) = Misses(c)
           /\ SameLines(c, Outdate(c, q))
<1>1. CASE ~ IsWrite(q)
  BY <1>1 DEF Outdate, SameLines
<1>2. CASE IsWrite(q)
  <2>1. OutdatedSeen(n, a, c, q.line, OutdatedIn(c, q.line))
    BY OutdatedView DEF Requests
  <2> QED  BY <1>2, <2>1 DEF Outdate, OutdatedSeen
<1> QED  BY <1>1, <1>2

LEMMA OutdateConverges ==
    ASSUME NEW c \in L2Cache, NEW q \in Requests
    PROVE  Outdate(c, q) \in L2Cache /\ Converges(c, Outdate(c, q))
<1>1. PICK n, m \in Nat \ {0} : n = LSets /\ m = L2CACHE_ASSOC
  BY Shapes
<1>2. PICK r : r = Outdate(c, q)
  OBVIOUS
<1>3. c \in CacheOf(n, m)
  BY <1>1 DEF L2Cache
<1>4. r \in CacheOf(n, m) /\ r.replacement_policy = c.replacement_policy /\ SameLines(c, r)
  BY <1>2, <1>3, OutdateLines
<1>5. r \in L2Cache
  BY <1>1, <1>4 DEF L2Cache
<1> QED  BY <1>2, <1>4, <1>5, SameShares DEF SameLines

LEMMA L2OfMem == \A s \in MemType : s.l2cache \in L2Cache
BY DEF MemType

LEMMA TwoLevelsConverges ==
    ASSUME NEW s \in MemType, NEW q \in Requests, NEW k \in Cores, NEW z, TwoLevelsGo(s, q, k, z)
    PROVE  z.l2cache \in L2Cache /\ Converges(s.l2cache, z.l2cache)
<1>1. PICK n \in {Level1(q)}, y \in MemType, b \in MemType :
          \E a : TwoLevelsBy(s, q, k, n, y, a, b, z)
  BY Zenon DEF TwoLevelsGo
<1>2. PICK a : TwoLevelsBy(s, q, k, n, y, a, b, z)
  BY <1>1, Zenon
<1>3. PICK c \in L2Cache, d \in L2Cache : c = s.l2cache /\ d = b.l2cache
  BY L2OfMem
<1>4. PICK e : e = z.l2cache
  OBVIOUS
<1>5. Converges(c, d)
  <2>1. d = Outdate(c, q)
    BY <1>2, <1>3 DEF TwoLevelsBy
  <2> QED  BY <2>1, OutdateConverges
<1>6. PICK now \in Nat, l \in Nat : now = q.now /\ l = q.line
  BY DEF Requests
<1>7. IF a.hit THEN z = b
      ELSE \E u : /\ L2Goes(b, l, k, now, u)
                  /\ IF u.l2cache.fault THEN z = u
                     ELSE L1Goes(u, n, k, l, IsWrite(q), now, z)
  BY <1>2, <1>6 DEF TwoLevelsBy
<1>8. CASE a.hit
  <2>1. e = d
    BY <1>3, <1>4, <1>7, <1>8
  <2> QED  BY <1>3, <1>4, <1>5, <2>1
<1>9. CASE ~ a.hit
  <2>1. PICK u : /\ L2Goes(b, l, k, now, u)
                 /\ IF u.l2cache.fault THEN z = u
                    ELSE L1Goes(u, n, k, l, IsWrite(q), now, z)
    BY <1>7, <1>9
  <2>2. PICK w \in BOOLEAN : Serves(d, l, w, k, now, u.l2cache)
    BY <1>3, <2>1 DEF L2Goes
  <2>3. PICK f : f = u.l2cache
    OBVIOUS
  <2>4. f \in L2Cache /\ Converges(d, f)
    BY <1>6, <2>2, <2>3, ServesConverges
  <2>5. Converges(c, f)
    BY <1>5, <2>4, ConvergesTo
  <2>6. CASE z = u
    BY <1>3, <2>3, <2>4, <2>5, <2>6
  <2>7. CASE L1Goes(u, n, k, l, IsWrite(q), now, z)
    <3>1. CASE e = f
      BY <1>3, <1>4, <2>4, <2>5, <3>1
    <3>2. CASE e # f
      <4>1. PICK x \in Nat, v \in BOOLEAN : Serves(f, x, v, k, now, e)
        BY <1>4, <2>3, <2>7, <3>2 DEF L1Goes
      <4>2. e \in L2Cache /\ Converges(f, e)
        BY <1>6, <2>4, <4>1, ServesConverges
      <4>3. Converges(c, e)
        BY <2>4, <2>5, <4>2, ConvergesTo
      <4> QED  BY <1>3, <1>4, <4>2, <4>3
    <3> QED  BY <3>1, <3>2
  <2> QED  BY <2>1, <2>6, <2>7
<1> QED  BY <1>8, <1>9

LEMMA GoesConverges ==
    ASSUME NEW s \in MemType, NEW q \in Requests, NEW k \in Cores, NEW z, Goes(s, q, k, z)
    PROVE  z.l2cache \in L2Cache /\ Converges(s.l2cache, z.l2cache)
<1>1. PICK x \in MemType :
        /\ SameCaches(x, z)
        /\ IF SIM_MODE = "A" THEN k = 0 /\ ModeAGoes(s, q, x) ELSE TwoLevelsGo(s, q, k, x)
  BY DEF Goes
<1>2. z.l2cache = x.l2cache /\ s.l2cache \in L2Cache
  BY <1>1, L2OfMem DEF SameCaches
<1>3. CASE TwoLevelsGo(s, q, k, x)
  BY <1>2, <1>3, TwoLevelsConverges
<1>4. CASE ModeAGoes(s, q, x)
  <2>1. CASE x = s
    BY <1>2, <2>1, ConvergesItself
  <2>2. CASE x # s
    <3>1. x.l2cache = Outdate(s.l2cache, q)
      BY <1>4, <2>2, Zenon DEF ModeAGoes
    <3> QED  BY <1>2, <3>1, OutdateConverges
  <2> QED  BY <2>1, <2>2
<1> QED  BY <1>1, <1>3, <1>4

LEMMA QuotaStep ==
    ASSUME MemInv, [Next]_vars
    PROVE  sys'.l2cache \in L2Cache /\ Converges(sys.l2cache, sys'.l2cache)
<1>1. CachesInv /\ CoresInv /\ sys \in MemType /\ sys.l2cache \in L2Cache
  BY L2OfMem DEF MemInv, CachesInv
<1>2. CASE sys' = sys
  BY <1>1, <1>2, ConvergesItself
<1>3. CASE CoreExecutes
  <2>1. PICK k, e : k \in Cores /\ InstructionGoes(k, e)
    BY <1>1, <1>3, InstructionPath
  <2>2. e \in MemType
    BY <2>1 DEF InstructionGoes
  <2>3. Converges(sys.l2cache, e.l2cache) /\ e.l2cache \in L2Cache
    <3>1. PICK q \in Requests : Goes(sys, q, k, e)
      BY <2>1 DEF InstructionGoes
    <3> QED  BY <1>1, <2>1, <3>1, GoesConverges
  <2>4. CASE sys' = e
    BY <2>3, <2>4
  <2>5. CASE sys' # e
    <3>1. PICK q \in Requests : Goes(e, q, k, sys')
      BY <2>1, <2>5 DEF InstructionGoes
    <3>2. PICK z : z = sys'.l2cache
      OBVIOUS
    <3>3. z \in L2Cache /\ Converges(e.l2cache, z)
      BY <2>1, <2>2, <3>1, <3>2, GoesConverges
    <3> QED  BY <1>1, <2>3, <3>2, <3>3, ConvergesTo
  <2> QED  BY <2>4, <2>5
<1>4. CASE CoreIdle
  BY <1>2, <1>4 DEF CoreIdle
<1>5. CASE EndCycle
  BY <1>2, <1>5 DEF EndCycle, EndOfTurn
<1>6. CASE UNCHANGED vars
  BY <1>2, <1>6 DEF vars
<1> QED  BY <1>3, <1>4, <1>5, <1>6 DEF Next

\* Under static partitioning no step takes core 0's share of a set that is
\* full further from its quota, whoever misses, and whatever its victim's
\* writeback then replaces (cache_find_victim_from_partition); nor does the
\* quota have to fit the cache.
THEOREM QuotaIsApproached == Spec => QuotaConverges
<1>1. MemInv /\ [Next]_vars =>
          [sys.l2cache.replacement_policy = "SWP" =>
              \A s \in Sets(sys.l2cache) :
                  Full(sys.l2cache.sets[s]) =>
                      Distance(sys'.l2cache.sets[s]) <= Distance(sys.l2cache.sets[s])]_vars
  BY QuotaStep DEF Converges
<1> QED  BY <1>1, Invariant, PTL DEF Spec, QuotaConverges

-----------------------------------------------------------------------------
(* The use of the second level. *)

LEMMA StampedFacts ==
    ASSUME NEW U, NEW L, NEW now
    PROVE  /\ DOMAIN Stamped(U, L, now) = L \cup DOMAIN U
           /\ \A x \in L \cup DOMAIN U :
                  Stamped(U, L, now)[x] = IF x \in L THEN now ELSE U[x]
BY DEF Stamped

LEMMA StampedAgain ==
    ASSUME NEW U, NEW L, NEW M, NEW now
    PROVE  Stamped(Stamped(U, L, now), M, now) = Stamped(U, L \cup M, now)
BY DEF Stamped

\* U says of each line when it was last used; c holds the lines of each set
\* that were used last, with those times.
Recency(c, U, now) ==
    /\ \A l \in DOMAIN U : l \in Nat /\ U[l] \in 0 .. now
    /\ \A s \in Sets(c) : \A w \in Ways(c) :
           c.sets[s][w].valid =>
               LET l == LineAddr(c, c.sets[s][w].tag, s)
               IN  l \in DOMAIN U /\ U[l] = c.sets[s][w].last_access_time
    /\ \A l \in DOMAIN U :
           Copies(c, l) = {} =>
               \A w \in Ways(c) : /\ SetOf(c, l)[w].valid
                                  /\ U[l] <= SetOf(c, l)[w].last_access_time

LEMMA L2Facts ==
    ASSUME NEW c \in L2Cache
    PROVE  /\ Sets(c) = 0 .. LSets - 1 /\ Ways(c) = 0 .. L2CACHE_ASSOC - 1
           /\ \A s \in Sets(c) : \A w \in Ways(c) : c.sets[s][w] \in Line
           /\ \A l \in Nat : /\ IndexOf(c, l) \in Sets(c) /\ IndexOf(c, l) < c.index_span
                             /\ LineAddr(c, TagOf(c, l), IndexOf(c, l)) = l
                             /\ TagOf(c, l) \in Nat
           /\ \A s \in Sets(c) : \A tag \in Nat : s < c.index_span =>
                  LET l == LineAddr(c, tag, s)
                  IN  l \in Nat /\ IndexOf(c, l) = s /\ TagOf(c, l) = tag
<1>1. PICK n, a \in Nat \ {0} : n = LSets /\ a = L2CACHE_ASSOC
  BY Shapes
<1>2. c \in CacheOf(n, a) /\ 0 \in Nat
  BY <1>1 DEF L2Cache
<1>3. Sets(c) = 0 .. n - 1 /\ Ways(c) = 0 .. a - 1
  BY <1>1, <1>2, Address
<1>4. c.sets \in SetsOf(n, a) /\ c.index_span \in 1 .. n
  BY <1>2 DEF CacheOf
<1>5. \A s \in 0 .. n - 1 : \A w \in 0 .. a - 1 : c.sets[s][w] \in Line
  BY <1>4 DEF SetsOf, LinesOfSet
<1>6. ASSUME NEW l \in Nat
      PROVE  /\ IndexOf(c, l) \in Sets(c) /\ IndexOf(c, l) < c.index_span
             /\ LineAddr(c, TagOf(c, l), IndexOf(c, l)) = l
             /\ TagOf(c, l) \in Nat
  <2>1. IndexOf(c, l) \in 0 .. c.index_span - 1 /\ IndexOf(c, l) \in 0 .. n - 1
    BY <1>2, Address, Zenon
  <2>2. LineAddr(c, TagOf(c, l), IndexOf(c, l)) = l
    BY <1>2, Address, SMT
  <2>3. TagOf(c, l) \in Nat
    BY <1>2, Address, Zenon
  <2> QED  BY <1>3, <1>4, <2>1, <2>2, <2>3
<1>7. ASSUME NEW s \in Sets(c), NEW tag \in Nat, s < c.index_span
      PROVE  LET l == LineAddr(c, tag, s)
             IN  l \in Nat /\ IndexOf(c, l) = s /\ TagOf(c, l) = tag
  <2>1. s \in 0 .. c.index_span - 1
    BY <1>3, <1>4, <1>7
  <2> QED  BY <1>2, <2>1, Parts
<1> QED  BY <1>1, <1>3, <1>5, <1>6, <1>7

\* A line is read or written, in a way that holds it or in one that is free or
\* has the least time of its set.
LEMMA LineIsUsed ==
    ASSUME NEW c \in L2Cache, NEW r \in L2Cache, NEW U, NEW now \in Nat, Recency(c, U, now),
           Fine(c, now, Cores, TRUE), NEW l \in Nat, NEW w \in Ways(c), NEW new,
           Put(c, r, IndexOf(c, l), w, new),
           new.valid, new.tag = TagOf(c, l), new.last_access_time = now,
           \/ w \in Copies(c, l)
           \/ /\ Copies(c, l) = {}
              /\ SetOf(c, l)[w].valid =>
                     \A v \in Ways(c) : /\ SetOf(c, l)[v].valid
                                        /\ SetOf(c, l)[w].last_access_time
                                               <= SetOf(c, l)[v].last_access_time
    PROVE  Recency(r, Stamped(U, {l}, now), now)
<1>1. PICK V : V = Stamped(U, {l}, now)
  OBVIOUS
<1>2. DOMAIN V = {l} \cup DOMAIN U /\ \A x \in DOMAIN V : V[x] = IF x = l THEN now ELSE U[x]
  <2>1. DOMAIN V = {l} \cup DOMAIN U
    BY <1>1, StampedFacts, Zenon
  <2>2. \A x \in {l} \cup DOMAIN U : V[x] = IF x \in {l} THEN now ELSE U[x]
    BY <1>1 DEF Stamped
  <2> QED  BY <2>1, <2>2
<1>3. PICK j : j = IndexOf(c, l)
  OBVIOUS
<1>4. j \in Sets(c) /\ TagOf(c, l) \in Nat /\ LineAddr(c, TagOf(c, l), j) = l
      /\ j < c.index_span
  BY <1>3, L2Facts
<1>5. /\ Sets(r) = Sets(c) /\ Ways(r) = Ways(c) /\ r.index_span = c.index_span
      /\ \A s \in Sets(c) : \A v \in Ways(c) :
             r.sets[s][v] = IF s = j /\ v = w THEN new ELSE c.sets[s][v]
  BY <1>3, L2Facts DEF Put
<1>6. /\ \A tag, s : LineAddr(r, tag, s) = LineAddr(c, tag, s)
      /\ \A x : IndexOf(r, x) = IndexOf(c, x) /\ TagOf(r, x) = TagOf(c, x)
  BY <1>5 DEF LineAddr, IndexOf, TagOf
<1>7. /\ \A x \in DOMAIN U : x \in Nat /\ U[x] \in 0 .. now
      /\ \A s \in Sets(c) : \A v \in Ways(c) :
             c.sets[s][v].valid =>
                 /\ LineAddr(c, c.sets[s][v].tag, s) \in DOMAIN U
                 /\ U[LineAddr(c, c.sets[s][v].tag, s)] = c.sets[s][v].last_access_time
      /\ \A x \in DOMAIN U :
             Copies(c, x) = {} =>
                 \A v \in Ways(c) : /\ c.sets[IndexOf(c, x)][v].valid
                                    /\ U[x] <= c.sets[IndexOf(c, x)][v].last_access_time
  BY DEF Recency, SetOf
<1>8. \A s \in Sets(c) : \A v \in Ways(c) :
          c.sets[s][v].valid => s < c.index_span /\ c.sets[s][v].tag \in Nat
  BY L2Facts DEF Fine, LineFine, Line
<1>9. \A x \in Nat : \A v : v \in Copies(c, x) <=>
          v \in Ways(c) /\ c.sets[IndexOf(c, x)][v].valid
                       /\ c.sets[IndexOf(c, x)][v].tag = TagOf(c, x)
  BY DEF Copies, SetOf
<1>10. \A x \in Nat : \A v : v \in Copies(r, x) <=>
          v \in Ways(c) /\ r.sets[IndexOf(c, x)][v].valid
                       /\ r.sets[IndexOf(c, x)][v].tag = TagOf(c, x)
  BY <1>5, <1>6 DEF Copies, SetOf
<1>11. w \notin Copies(c, l) =>
          /\ Copies(c, l) = {}
          /\ c.sets[j][w].valid =>
                 \A v \in Ways(c) : /\ c.sets[j][v].valid
                                    /\ c.sets[j][w].last_access_time
                                           <= c.sets[j][v].last_access_time
  BY <1>3 DEF SetOf
<1>12. ASSUME NEW x \in DOMAIN V PROVE x \in Nat /\ V[x] \in 0 .. now
  BY <1>2, <1>7
<1>13. ASSUME NEW s \in Sets(c), NEW v \in Ways(c), r.sets[s][v].valid
       PROVE  /\ LineAddr(c, r.sets[s][v].tag, s) \in DOMAIN V
              /\ V[LineAddr(c, r.sets[s][v].tag, s)] = r.sets[s][v].last_access_time
  <2>1. CASE s = j /\ v = w
    BY <1>2, <1>4, <1>5, <2>1
  <2>2. CASE ~ (s = j /\ v = w)
    <3>1. r.sets[s][v] = c.sets[s][v]
      BY <1>5, <2>2
    <3>2. PICK tag \in Nat : tag = c.sets[s][v].tag /\ s < c.index_span
      BY <1>8, <1>13, <3>1
    <3>3. PICK x \in Nat : x = LineAddr(c, tag, s) /\ IndexOf(c, x) = s /\ TagOf(c, x) = tag
      <4>1. PICK x : x = LineAddr(c, tag, s)
        OBVIOUS
      <4>2. x \in Nat /\ IndexOf(c, x) = s /\ TagOf(c, x) = tag
        BY <3>2, <4>1, L2Facts
      <4> QED  BY <4>1, <4>2
    <3>4. x # l
      <4> SUFFICES ASSUME x = l PROVE FALSE
        OBVIOUS
      <4>1. s = j /\ v # w
        BY <1>3, <2>2, <3>3
      <4>2. v \in Copies(c, l)
        BY <1>9, <1>13, <3>1, <3>2, <3>3
      <4>3. w \in Copies(c, l)
        BY <1>11, <4>2
      <4>4. c.sets[j][w].valid /\ c.sets[j][v].valid /\ c.sets[j][w].tag = c.sets[j][v].tag
        BY <1>3, <1>9, <4>2, <4>3
      <4> QED  BY <1>4, <4>1, <4>4 DEF Fine
    <3>5. x \in DOMAIN U /\ U[x] = c.sets[s][v].last_access_time
      BY <1>7, <1>13, <3>1, <3>2, <3>3
    <3> QED  BY <1>2, <3>1, <3>2, <3>3, <3>4, <3>5
  <2> QED  BY <2>1, <2>2
<1>14. ASSUME NEW x \in DOMAIN V, Copies(r, x) = {}, NEW v \in Ways(c)
       PROVE  /\ r.sets[IndexOf(c, x)][v].valid
              /\ V[x] <= r.sets[IndexOf(c, x)][v].last_access_time
  <2>1. x \in Nat
    BY <1>12
  <2>2. PICK s \in Sets(c) : s = IndexOf(c, x)
    BY <2>1, L2Facts
  <2>3. x # l
    <3>1. w \in Copies(r, l)
      BY <1>3, <1>4, <1>5, <1>10
    <3> QED  BY <1>14, <3>1
  <2>4. x \in DOMAIN U /\ V[x] = U[x] /\ U[x] \in 0 .. now
    BY <1>2, <1>7, <2>3
  <2>5. CASE Copies(c, x) = {}
    <3>1. c.sets[s][v].valid /\ U[x] <= c.sets[s][v].last_access_time
      BY <1>7, <2>2, <2>4, <2>5
    <3>2. CASE s = j /\ v = w
      BY <1>5, <2>2, <2>4, <3>2
    <3>3. CASE ~ (s = j /\ v = w)
      BY <1>5, <2>2, <2>4, <3>1, <3>3
    <3> QED  BY <3>2, <3>3
  <2>6. CASE Copies(c, x) # {}
    <3>1. PICK y \in Copies(c, x) : TRUE
      BY <2>6
    <3>2. y \in Ways(c) /\ c.sets[s][y].valid /\ c.sets[s][y].tag = TagOf(c, x)
      BY <1>9, <2>1, <2>2, <3>1
    <3>3. s = j /\ y = w
      <4> SUFFICES ASSUME ~ (s = j /\ y = w) PROVE FALSE
        OBVIOUS
      <4>1. r.sets[s][y] = c.sets[s][y]
        BY <1>5, <3>2
      <4>2. y \in Copies(r, x)
        BY <1>10, <2>1, <2>2, <3>2, <4>1
      <4> QED  BY <1>14, <4>2
    <3>4. LineAddr(c, TagOf(c, x), s) = x
      BY <2>1, <2>2, L2Facts
    <3>5. U[x] = c.sets[j][w].last_access_time
      BY <1>7, <3>2, <3>3, <3>4
    <3>6. w \notin Copies(c, l)
      <4> SUFFICES ASSUME w \in Copies(c, l) PROVE FALSE
        OBVIOUS
      <4>1. c.sets[j][w].tag = TagOf(c, l)
        BY <1>3, <1>9
      <4>2. x = l
        BY <1>4, <3>2, <3>3, <3>4, <4>1
      <4> QED  BY <2>3, <4>2
    <3>7. c.sets[j][v].valid /\ U[x] <= c.sets[j][v].last_access_time
      BY <1>11, <3>2, <3>3, <3>5, <3>6
    <3>8. CASE v = w
      BY <1>5, <2>2, <2>4, <3>3, <3>8
    <3>9. CASE v # w
      BY <1>5, <2>2, <2>4, <3>3, <3>7, <3>9
    <3> QED  BY <3>8, <3>9
  <2> QED  BY <2>5, <2>6
<1>15. Recency(r, V, now)
  BY <1>5, <1>6, <1>12, <1>13, <1>14 DEF Recency, SetOf
<1> QED  BY <1>1, <1>15

\* A second level under LRU that U is the history of.
UnderLRU(c, U, now) == c \in L2Cache /\ c.replacement_policy = "LRU" /\ Recency(c, U, now)

\* Way x of a set of m ways is free, or none is and it was used first.
LeastRecent(set, m, x) ==
    /\ x \in 0 .. m - 1
    /\ set[x].valid =>
           \A v \in 0 .. m - 1 :
               set[v].valid /\ set[x].last_access_time <= set[v].last_access_time

\* That is the victim under LRU.
LEMMA LRUVictim ==
    ASSUME NEW m \in Nat \ {0}, NEW set \in LinesOfSet(m), NEW c, c.replacement_policy = "LRU",
           NEW k \in Cores, NEW x, x = cache_find_victim(c, set, k)
    PROVE  LeastRecent(set, m, x)
<1>1. x \in 0 .. m - 1
  <2>1. c.replacement_policy \in Policies /\ c.replacement_policy \in {"LRU", "RANDOM"}
    BY DEF Policies
  <2> QED  BY <2>1, VictimType
<1>2. ASSUME set[x].valid, NEW v \in 0 .. m - 1
      PROVE  set[v].valid /\ set[x].last_access_time <= set[v].last_access_time
  <2>1. DOMAIN set = 0 .. m - 1
    BY DEF LinesOfSet
  <2>2. PICK I : I = {y \in 0 .. m - 1 : ~ set[y].valid}
    OBVIOUS
  <2>3. I = {}
    <3> SUFFICES ASSUME I # {} PROVE FALSE
      OBVIOUS
    <3>1. x = Min(I)
      BY <2>1, <2>2 DEF cache_find_victim
    <3>2. I \in SUBSET Nat
      BY <2>2
    <3>3. x \in I
      BY <3>1, <3>2, MinIsThere
    <3> QED  BY <1>2, <2>2, <3>3
  <2>4. x = Oldest(set, 0 .. m - 1)
    BY <2>1, <2>2, <2>3 DEF cache_find_victim, cache_find_victim_LRU
  <2>5. PICK W \in SUBSET (0 .. m - 1) : W = 0 .. m - 1 /\ W # {}
    OBVIOUS
  <2>6. \A y \in W : set[x].last_access_time <= set[y].last_access_time
    BY <2>4, <2>5, OldestIsThere
  <2> QED  BY <1>2, <2>2, <2>3, <2>5, <2>6
<1> QED  BY <1>1, <1>2 DEF LeastRecent

LEMMA ServesRecency ==
    ASSUME NEW c, NEW U, NEW now \in Nat, UnderLRU(c, U, now), Fine(c, now, Cores, TRUE),
           NEW l \in Nat, NEW w \in BOOLEAN, NEW k \in Cores, k = Owner(l),
           NEW r, Serves(c, l, w, k, now, r)
    PROVE  UnderLRU(r, Stamped(U, {l}, now), now)
<1>0. c \in L2Cache /\ c.replacement_policy = "LRU" /\ Recency(c, U, now)
  BY DEF UnderLRU
<1>1. PICK n, m \in Nat \ {0} : n = LSets /\ m = L2CACHE_ASSOC
  BY Shapes
<1>2. PICK data \in BOOLEAN, put \in BOOLEAN :
          r = Fills(c, cache_access(c, l, w, k, now, data), l, w, k, now, put)
  BY DEF Serves
<1>3. PICK a : a = cache_access(c, l, w, k, now, data)
  OBVIOUS
<1>4. c \in CacheOf(n, m)
  BY <1>0, <1>1 DEF L2Cache
<1>5. AccessOutcome(n, m, c, l, w, k, now, data, a)
  BY <1>3, <1>4, AccessFacts
<1>6. r \in L2Cache /\ r.replacement_policy = "LRU"
  BY <1>0, ServesConverges DEF Converges
<1> SUFFICES Recency(r, Stamped(U, {l}, now), now)
  BY <1>6 DEF UnderLRU
<1>7. HitWays(c, l, k) = Copies(c, l)
  BY <1>4, HitsAreCopies
<1>8. PICK j \in Sets(c) : j = IndexOf(c, l)
  BY <1>0, L2Facts
<1>9. PICK set \in LinesOfSet(m) : set = c.sets[j] /\ set = SetOf(c, l) /\ Ways(c) = 0 .. m - 1
  BY <1>0, <1>1, <1>8, L2Sets DEF SetOf
<1>10. CASE a.hit
  <2>1. r = a.cache
    BY <1>2, <1>3, <1>10 DEF Fills
  <2>2. PICK h \in HitWays(c, l, k) :
            Put(c, r, IndexOf(c, l), h, Accessed(SetOf(c, l)[h], w, now, data))
    BY <1>5, <1>10, <2>1 DEF AccessOutcome
  <2>3. h \in Copies(c, l) /\ h \in Ways(c) /\ set[h].valid /\ set[h].tag = TagOf(c, l)
    BY <1>7, <1>9 DEF Copies
  <2>4. PICK old \in Line : old = set[h]
    BY <1>9, <2>3 DEF LinesOfSet
  <2>5. PICK new : new = Accessed(old, w, now, data)
    OBVIOUS
  <2>6. LineAccessed(old, new, w, now, data)
    BY <2>4, <2>5, AccessedType
  <2>7. new.valid /\ new.tag = TagOf(c, l) /\ new.last_access_time = now
    BY <2>3, <2>4, <2>6 DEF LineAccessed
  <2>8. Put(c, r, IndexOf(c, l), h, new)
    BY <1>9, <2>2, <2>4, <2>5
  <2> QED  BY <1>0, <1>6, <2>3, <2>7, <2>8, LineIsUsed
<1>11. CASE ~ a.hit
  <2>1. PICK b : b = a.cache
    OBVIOUS
  <2>2. b \in CacheOf(n, m) /\ b.replacement_policy = "LRU" /\ b.sets = c.sets
        /\ b.index_span = c.index_span /\ Copies(c, l) = {}
    BY <1>0, <1>5, <1>7, <1>11, <2>1 DEF AccessOutcome
  <2>3. r = cache_install(b, l, w, k, now, put)
    BY <1>2, <1>3, <1>11, <2>1 DEF Fills
  <2>4. InstallOutcome(n, m, b, l, w, k, now, put, r)
    BY <2>2, <2>3, InstallFacts
  <2>5. IndexOf(b, l) = IndexOf(c, l) /\ TagOf(b, l) = TagOf(c, l) /\ SetOf(b, l) = set
    BY <1>9, <2>2 DEF IndexOf, TagOf, SetOf
  <2>6. PICK x : x = cache_find_victim(b, set, k)
    OBVIOUS
  <2>7. x = Victim(b, l, k)
    BY <2>5, <2>6 DEF Victim
  <2>8. LeastRecent(set, m, x)
    BY <2>2, <2>6, LRUVictim
  <2>14. x \in 0 .. m - 1
    BY <2>8 DEF LeastRecent
  <2>9. PICK new : new = Installed(b, l, w, k, now, put)
    OBVIOUS
  <2>10. new.valid /\ new.tag = TagOf(c, l) /\ new.last_access_time = now
    BY <2>5, <2>9 DEF Installed
  <2>11. Put(b, r, IndexOf(c, l), x, new)
    BY <2>4, <2>5, <2>7, <2>9, <2>14 DEF InstallOutcome
  <2>12. Put(c, r, IndexOf(c, l), x, new)
    BY <2>2, <2>11 DEF Put, Ways, Sets
  <2>13. ASSUME set[x].valid, NEW v \in 0 .. m - 1
         PROVE  set[v].valid /\ set[x].last_access_time <= set[v].last_access_time
    BY <2>8, <2>13 DEF LeastRecent
  <2> QED  BY <1>0, <1>6, <1>9, <2>2, <2>10, <2>12, <2>13, <2>14, LineIsUsed
<1> QED  BY <1>10, <1>11

\* Where a cache holds the same lines as before, as old as before.
LEMMA SameRecency ==
    ASSUME NEW c, NEW U, NEW now, UnderLRU(c, U, now), NEW r \in L2Cache,
           r.index_span = c.index_span, r.replacement_policy = c.replacement_policy,
           SameLines(c, r)
    PROVE  UnderLRU(r, U, now)
<1>0. c \in L2Cache /\ c.replacement_policy = "LRU" /\ Recency(c, U, now)
  BY DEF UnderLRU
<1>1. Sets(r) = Sets(c) /\ Ways(r) = Ways(c)
  BY <1>0, L2Facts
<1>2. \A s \in Sets(c) : \A w \in Ways(c) :
          /\ r.sets[s][w].valid <=> c.sets[s][w].valid
          /\ r.sets[s][w].tag = c.sets[s][w].tag
          /\ r.sets[s][w].last_access_time = c.sets[s][w].last_access_time
  BY DEF SameLines
<1>3. /\ \A tag, s : LineAddr(r, tag, s) = LineAddr(c, tag, s)
      /\ \A x : IndexOf(r, x) = IndexOf(c, x) /\ TagOf(r, x) = TagOf(c, x)
  BY DEF LineAddr, IndexOf, TagOf
<1>4. \A x \in DOMAIN U : x \in Nat /\ IndexOf(c, x) \in Sets(c)
  BY <1>0, L2Facts DEF Recency
<1>5. \A x \in DOMAIN U : Copies(r, x) = Copies(c, x)
  BY <1>1, <1>2, <1>3, <1>4 DEF Copies, SetOf
<1>6. Recency(r, U, now)
  BY <1>0, <1>1, <1>2, <1>3, <1>4, <1>5 DEF Recency, SetOf
<1> QED  BY <1>0, <1>6 DEF UnderLRU

LEMMA NobodyIsStamped ==
    ASSUME NEW c, NEW U, NEW now, UnderLRU(c, U, now)
    PROVE  UnderLRU(c, Stamped(U, {}, now), now)
<1>1. PICK V : V = Stamped(U, {}, now)
  OBVIOUS
<1>2. DOMAIN V = DOMAIN U /\ \A x \in DOMAIN U : V[x] = U[x]
  BY <1>1 DEF Stamped
<1>3. /\ \A x \in DOMAIN U : x \in Nat /\ U[x] \in 0 .. now
      /\ \A s \in Sets(c) : \A v \in Ways(c) :
             c.sets[s][v].valid =>
                 /\ LineAddr(c, c.sets[s][v].tag, s) \in DOMAIN U
                 /\ U[LineAddr(c, c.sets[s][v].tag, s)] = c.sets[s][v].last_access_time
      /\ \A x \in DOMAIN U :
             Copies(c, x) = {} =>
                 \A v \in Ways(c) : /\ SetOf(c, x)[v].valid
                                    /\ U[x] <= SetOf(c, x)[v].last_access_time
  BY DEF UnderLRU, Recency
<1>4. Recency(c, V, now)
  BY <1>2, <1>3 DEF Recency
<1> QED  BY <1>1, <1>4 DEF UnderLRU

LEMMA LaterRecency ==
    ASSUME NEW c, NEW U, NEW now \in Nat, UnderLRU(c, U, now)
    PROVE  UnderLRU(c, U, now + 1)
<1>1. \A x \in DOMAIN U : U[x] \in 0 .. now + 1
  BY DEF UnderLRU, Recency
<1> QED  BY <1>1 DEF UnderLRU, Recency

\* What leaves a first-level cache.
Gone(c, r) == {x \in Nat : HasDirty(c, x) /\ Copies(r, x) = {}}

LEMMA OutdateView ==
    ASSUME NEW n \in Nat \ {0}, NEW a \in Nat \ {0}, NEW c \in CacheOf(n, a), NEW q \in Requests
    PROVE  /\ \A t, O, m : Fine(c, t, O, m) => Fine(Outdate(c, q), t, O, m)
           /\ \A x \in Nat : /\ Copies(Outdate(c, q), x) = Copies(c, x)
                             /\ HasDirty(Outdate(c, q), x) <=> HasDirty(c, x)
<1>1. CASE ~ IsWrite(q)
  BY <1>1 DEF Outdate
<1>2. CASE IsWrite(q)
  <2>1. OutdatedSeen(n, a, c, q.line, OutdatedIn(c, q.line))
    BY OutdatedView DEF Requests
  <2> QED  BY <1>2, <2>1 DEF Outdate, OutdatedSeen
<1> QED  BY <1>1, <1>2

\* A dirty line leaves a first-level cache only when it is evicted by a miss.
LookSeen(n, c, k, l, now, a) ==
    /\ a.cache \in L1Cache(n) /\ Fine(a.cache, now, {k}, IsWritten(n))
    /\ a.hit <=> Copies(c, l) # {}
    /\ a.hit => Gone(c, a.cache) = {}
    /\ ~ a.hit => \A x \in Nat : Same(c, a.cache, x)

LEMMA LookLeaves ==
    ASSUME NEW n \in L1s, NEW k \in Cores, NEW c \in L1Cache(n), NEW l \in Nat, k = Owner(l),
           NEW w \in BOOLEAN, w => n = "dcache", NEW now \in Nat,
           Fine(c, now, {k}, IsWritten(n)), NEW a, Looks(c, l, w, k, now, a)
    PROVE  LookSeen(n, c, k, l, now, a)
<1>1. PICK data \in BOOLEAN : a = cache_access(c, l, w, k, now, data)
  BY DEF Looks
<1>2. PICK h, v \in Nat \ {0} : h = SetCount(n) /\ v = WayCount(n) /\ c \in CacheOf(h, v)
  BY L1Shape DEF L1Cache
<1>3. PICK m \in BOOLEAN : m = IsWritten(n) /\ (w => m)
  BY DEF IsWritten
<1>4. AccessSeen(c, l, w, now, data, {k}, m, a)
  BY <1>1, <1>2, <1>3, AccessView
<1>5. AccessOutcome(h, v, c, l, w, k, now, data, a)
  BY <1>1, <1>2, AccessFacts
<1>6. a.cache \in L1Cache(n)
  BY <1>2, <1>5 DEF AccessOutcome, L1Cache
<1>7. \A x \in Nat : x # l \/ ~ w \/ Copies(c, l) = {} => Same(c, a.cache, x)
  BY <1>4 DEF AccessSeen
<1>8. a.hit <=> Copies(c, l) # {}
  BY <1>4 DEF AccessSeen
<1>9. ASSUME a.hit, NEW x \in Nat, HasDirty(c, x)
      PROVE  Copies(a.cache, x) # {}
  <2>1. CASE Same(c, a.cache, x)
    BY <1>9, <2>1 DEF Same, HasDirty
  <2>2. CASE ~ Same(c, a.cache, x)
    <3>1. x = l /\ w
      BY <1>7, <2>2
    <3>2. HasDirty(a.cache, l)
      BY <1>4, <1>8, <1>9, <3>1 DEF AccessSeen
    <3> QED  BY <3>1, <3>2 DEF HasDirty
  <2> QED  BY <2>1, <2>2
<1> QED  BY <1>3, <1>4, <1>6, <1>7, <1>8, <1>9 DEF LookSeen, Gone, AccessSeen

LEMMA InstallLeaves ==
    ASSUME NEW n \in L1s, NEW k \in Cores, NEW c \in L1Cache(n), NEW l \in Nat, k = Owner(l),
           NEW w \in BOOLEAN, w => n = "dcache", NEW now \in Nat,
           Fine(c, now, {k}, IsWritten(n)), Copies(c, l) = {},
           NEW r, Installs(c, l, w, k, now, r), ~ r.fault
    PROVE  Gone(c, r) = IF MustWriteBack(r) THEN {Evicted(r, l)} ELSE {}
<1>1. PICK data \in BOOLEAN : r = cache_install(c, l, w, k, now, data)
  BY DEF Installs
<1>2. PICK h, v \in Nat \ {0} : h = SetCount(n) /\ v = WayCount(n) /\ c \in CacheOf(h, v)
  BY L1Shape DEF L1Cache
<1>3. PICK m \in BOOLEAN : m = IsWritten(n) /\ (w => m)
  BY DEF IsWritten
<1>4. InstallOutcome(h, v, c, l, w, k, now, data, r)
  BY <1>1, <1>2, InstallFacts
<1>5. Victim(c, l, k) \in 0 .. v - 1
  BY <1>4 DEF InstallOutcome
<1>6. InstallSeen(c, l, w, now, data, {k}, m, r)
  BY <1>1, <1>2, <1>3, <1>5, InstallView
<1>7. PICK old \in Line : old = r.last_evicted_line
  BY <1>6 DEF InstallSeen
<1>8. MustWriteBack(r) <=> old.dirty /\ old.valid
  BY <1>7 DEF MustWriteBack
<1>9. PICK e : e = Evicted(r, l)
  OBVIOUS
<1>10. /\ Copies(r, l) # {}
       /\ old.dirty => old.valid
       /\ old.valid => /\ e \in Nat /\ Copies(r, e) = {}
                       /\ HasDirty(c, e) <=> old.dirty
       /\ \A x \in Nat : x # l /\ (old.valid => x # e) => Same(c, r, x)
  BY <1>6, <1>7, <1>9 DEF InstallSeen
<1>11. ASSUME NEW x \in Nat
       PROVE  HasDirty(c, x) /\ Copies(r, x) = {} <=> old.dirty /\ old.valid /\ x = e
  <2>1. CASE Same(c, r, x)
    <3>1. HasDirty(c, x) => Copies(r, x) # {}
      BY <2>1 DEF Same, HasDirty
    <3>2. old.valid /\ x = e => ~ HasDirty(c, e)
      BY <1>10, <3>1
    <3> QED  BY <1>10, <3>1, <3>2
  <2>2. CASE x = l
    BY <1>10, <2>2
  <2>3. CASE old.valid /\ x = e
    BY <1>10, <2>3
  <2> QED  BY <1>10, <2>1, <2>2, <2>3
<1> QED  BY <1>8, <1>9, <1>10, <1>11 DEF Gone

\* The lines of the second level that a request of core k uses: z is what it leaves of s.
UsedBy(s, q, k, z) ==
    LET n == Level1(q)
    IN  (IF Copies(s[n][k], q.line) = {} THEN {q.line} ELSE {}) \cup Gone(s[n][k], z[n][k])

RequestSeen(s, q, k, U, z) ==
    /\ z \in MemType /\ AllFine(z, q.now)
    /\ UnderLRU(z.l2cache, Stamped(U, UsedBy(s, q, k, z), q.now), q.now)
    /\ \A m \in L1s : \A j \in Cores : m # Level1(q) \/ j # k => z[m][j] = Outdate(s[m][j], q)

LEMMA TwoLevelsUses ==
    ASSUME NEW s, NEW q, NEW k, Asked(s, q, k), NEW z, TwoLevelsGo(s, q, k, z), ~ Fault(z),
           NEW U, UnderLRU(s.l2cache, U, q.now)
    PROVE  RequestSeen(s, q, k, U, z)
<1>1. /\ SIM_MODE \in SIM_MODES /\ s \in MemType /\ q \in Requests
      /\ k \in Cores /\ k = q.core_id /\ k = Owner(q.line)
      /\ AllFine(s, q.now)
  BY DEF Asked
<1>0. PICK n \in {Level1(q)}, y \in MemType, b \in MemType :
          \E a : TwoLevelsBy(s, q, k, n, y, a, b, z)
  BY Zenon DEF TwoLevelsGo
<1>2. PICK a :
        /\ y.l2cache = Outdate(s.l2cache, q)
        /\ \A m \in L1s : \A j \in Cores : y[m][j] = Outdate(s[m][j], q)
        /\ AllFine(y, q.now) /\ AllFine(b, q.now)
        /\ Looks(y[n][k], q.line, IsWrite(q), k, q.now, a)
        /\ b.l2cache = y.l2cache /\ b[n][k] = a.cache /\ OnlyL1(y, n, k, b)
        /\ IF a.hit THEN z = b
           ELSE \E u : /\ L2Goes(b, q.line, k, q.now, u)
                       /\ IF u.l2cache.fault THEN z = u
                          ELSE L1Goes(u, n, k, q.line, IsWrite(q), q.now, z)
  BY <1>0, Zenon DEF TwoLevelsBy
<1>3. n \in L1s /\ n = Level1(q)
  BY DEF Level1, L1s
<1>4. PICK now \in Nat, l \in Nat : now = q.now /\ l = q.line
  BY <1>1 DEF Requests
<1>5. PICK w \in BOOLEAN : w = IsWrite(q) /\ (w => n = "dcache")
  BY <1>1, <1>3 DEF IsWrite, Level1
<1>6. PICK c : c = s[n][k]
  OBVIOUS
<1>7. PICK d : d = y[n][k]
  OBVIOUS
<1>8. c \in L1Cache(n) /\ d \in L1Cache(n) /\ d = Outdate(c, q)
  BY <1>1, <1>2, <1>3, <1>6, <1>7, L1Type
<1>9. \A x \in Nat : Copies(d, x) = Copies(c, x) /\ (HasDirty(d, x) <=> HasDirty(c, x))
  BY <1>1, <1>3, <1>8, L1Shape, OutdateView DEF L1Cache
<1>10. Fine(d, now, {k}, IsWritten(n))
  BY <1>1, <1>2, <1>3, <1>4, <1>7 DEF AllFine
<1>11. /\ a.cache \in L1Cache(n) /\ Fine(a.cache, now, {k}, IsWritten(n))
       /\ a.hit <=> Copies(d, l) # {}
       /\ a.hit => Gone(d, a.cache) = {}
       /\ ~ a.hit => \A x \in Nat : Same(d, a.cache, x)
  <2>1. Looks(d, l, w, k, now, a) /\ k = Owner(l) /\ k \in Cores
    BY <1>1, <1>2, <1>4, <1>5, <1>7
  <2>2. LookSeen(n, d, k, l, now, a)
    BY <1>3, <1>4, <1>5, <1>8, <1>10, <2>1, LookLeaves
  <2> QED  BY <2>2 DEF LookSeen
<1>12. \A r : Gone(d, r) = Gone(c, r)
  BY <1>9 DEF Gone
<1>13. PICK p \in L2Cache, f \in L2Cache : p = s.l2cache /\ f = b.l2cache
  BY <1>1, L2OfMem
<1>14. UnderLRU(f, U, now) /\ Fine(f, now, Cores, TRUE)
  <2>1. f = Outdate(p, q)
    BY <1>2, <1>13
  <2>2. f.index_span = p.index_span /\ f.replacement_policy = p.replacement_policy
        /\ SameLines(p, f)
    BY <1>1, <2>1, Shapes, OutdateLines DEF L2Cache
  <2>3. UnderLRU(f, U, now)
    BY <1>4, <1>13, <2>2, SameRecency
  <2>4. Fine(f, now, Cores, TRUE)
    BY <1>2, <1>4, <1>13 DEF AllFine
  <2> QED  BY <2>3, <2>4
<1>15. UsedBy(s, q, k, z) = (IF Copies(d, l) = {} THEN {l} ELSE {}) \cup Gone(d, z[n][k])
  BY <1>3, <1>4, <1>6, <1>9, <1>12 DEF UsedBy
<1>16. CASE a.hit
  <2>1. z = b
    BY <1>2, <1>16
  <2>2. UsedBy(s, q, k, z) = {}
    BY <1>2, <1>11, <1>15, <1>16, <2>1
  <2>3. UnderLRU(f, Stamped(U, {}, now), now)
    BY <1>14, NobodyIsStamped
  <2>4. UnderLRU(z.l2cache, Stamped(U, UsedBy(s, q, k, z), now), now)
    BY <1>13, <2>1, <2>2, <2>3
  <2>5. \A m \in L1s : \A j \in Cores : m # n \/ j # k => z[m][j] = Outdate(s[m][j], q)
    BY <1>2, <2>1 DEF OnlyL1
  <2> QED  BY <1>2, <1>3, <1>4, <1>13, <1>14, <2>1, <2>4, <2>5 DEF RequestSeen
<1>17. CASE ~ a.hit
  <2>1. PICK u : /\ L2Goes(b, l, k, now, u)
                 /\ IF u.l2cache.fault THEN z = u ELSE L1Goes(u, n, k, l, w, now, z)
    BY <1>2, <1>4, <1>5, <1>17
  <2>2. /\ u \in MemType /\ AllFine(u, now)
        /\ \A m \in L1s : \A j \in Cores : u[m][j] = b[m][j]
    BY <2>1 DEF L2Goes
  <2>3. PICK v \in BOOLEAN : Serves(b.l2cache, l, v, k, now, u.l2cache)
    BY <2>1 DEF L2Goes
  <2>4. PICK V : V = Stamped(U, {l}, now)
    OBVIOUS
  <2>5. PICK g \in L2Cache : g = u.l2cache
    BY <2>2, L2OfMem
  <2>6. UnderLRU(g, V, now)
    <3>1. Serves(f, l, v, k, now, g) /\ k = Owner(l) /\ k \in Cores
      BY <1>1, <1>4, <1>13, <2>3, <2>5
    <3> QED  BY <1>4, <1>13, <1>14, <2>3, <2>4, <2>5, <3>1, ServesRecency
  <2>7. ~ g.fault
    BY <2>1, <2>5 DEF Fault
  <2>8. L1Goes(u, n, k, l, w, now, z)
    BY <2>1, <2>5, <2>7
  <2>9. PICK r : r = z[n][k]
    OBVIOUS
  <2>10. ~ r.fault
    BY <1>1, <1>3, <2>9 DEF Fault, L1s
  <2>11. u[n][k] = a.cache
    BY <1>1, <1>2, <1>3, <2>2
  <2>12. Installs(a.cache, l, w, k, now, r)
    BY <2>8, <2>9, <2>11 DEF L1Goes
  <2>13. Copies(a.cache, l) = {} /\ Copies(d, l) = {}
    BY <1>11, <1>17 DEF Same
  <2>14. Gone(a.cache, r) = Gone(d, r)
    BY <1>11, <1>17 DEF Same, Gone
  <2>15. Gone(d, r) = IF MustWriteBack(r) THEN {Evicted(r, l)} ELSE {}
    BY <1>1, <1>3, <1>4, <1>5, <1>11, <2>10, <2>12, <2>13, <2>14, InstallLeaves
  <2>16. PICK G : G = Gone(d, r)
    OBVIOUS
  <2>17. UsedBy(s, q, k, z) = {l} \cup G
    BY <1>15, <2>9, <2>13, <2>16
  <2>18. z \in MemType /\ AllFine(z, now)
    BY <2>8 DEF L1Goes
  <2>19. UnderLRU(z.l2cache, Stamped(V, G, now), now)
    <3>1. CASE MustWriteBack(r)
      <4>1. PICK e \in Nat, o \in BOOLEAN :
                /\ e = Evicted(r, l) /\ Owner(e) = k
                /\ Serves(u.l2cache, e, o, k, now, z.l2cache)
        BY <2>8, <2>9, <3>1 DEF L1Goes
      <4>2. Fine(g, now, Cores, TRUE)
        BY <2>2, <2>5 DEF AllFine
      <4>3. PICK x : x = z.l2cache
        OBVIOUS
      <4>4. UnderLRU(x, Stamped(V, {e}, now), now)
        <5>1. Serves(g, e, o, k, now, x) /\ k = Owner(e) /\ k \in Cores
          BY <1>1, <2>5, <4>1, <4>3
        <5> QED  BY <1>4, <2>5, <2>6, <4>1, <4>2, <5>1, ServesRecency
      <4> QED  BY <2>15, <2>16, <3>1, <4>1, <4>3, <4>4
    <3>2. CASE ~ MustWriteBack(r)
      <4>1. z.l2cache = g
        BY <2>5, <2>8, <2>9, <3>2 DEF L1Goes
      <4>2. UnderLRU(g, Stamped(V, {}, now), now)
        BY <2>6, NobodyIsStamped
      <4> QED  BY <2>6, <2>15, <2>16, <3>2, <4>1, <4>2
    <3> QED  BY <3>1, <3>2
  <2>20. Stamped(V, G, now) = Stamped(U, {l} \cup G, now)
    BY <2>4, StampedAgain
  <2>21. \A m \in L1s : \A j \in Cores : m # n \/ j # k => z[m][j] = Outdate(s[m][j], q)
    BY <1>2, <2>2, <2>8 DEF OnlyL1, L1Goes
  <2> QED  BY <1>3, <1>4, <2>17, <2>18, <2>19, <2>20, <2>21 DEF RequestSeen
<1> QED  BY <1>16, <1>17

LEMMA GoesUses ==
    ASSUME NEW s, NEW q, NEW k, Asked(s, q, k), SIM_MODE # "A", NEW z \in MemType,
           Goes(s, q, k, z), ~ Fault(z), NEW U, UnderLRU(s.l2cache, U, q.now)
    PROVE  RequestSeen(s, q, k, U, z)
<1>1. PICK x \in MemType : SameCaches(x, z) /\ TwoLevelsGo(s, q, k, x)
  BY DEF Goes
<1>2. z.l2cache = x.l2cache /\ \A n \in L1s : \A j \in Cores : z[n][j] = x[n][j]
  BY <1>1 DEF SameCaches
<1>3. ~ Fault(x)
  BY <1>2, NoFault DEF L1Faultless
<1>4. RequestSeen(s, q, k, U, x)
  BY <1>1, <1>3, TwoLevelsUses
<1>5. AllFine(z, q.now)
  BY <1>2, <1>4 DEF RequestSeen, AllFine
<1>6. Level1(q) \in L1s /\ k \in Cores
  BY DEF Level1, L1s, Asked
<1>7. z[Level1(q)][k] = x[Level1(q)][k]
  BY <1>2, <1>6
<1>8. UsedBy(s, q, k, z) = UsedBy(s, q, k, x)
  BY <1>7 DEF UsedBy
<1>9. UnderLRU(z.l2cache, Stamped(U, UsedBy(s, q, k, z), q.now), q.now)
  BY <1>2, <1>4, <1>8 DEF RequestSeen
<1>10. \A m \in L1s : \A j \in Cores : m # Level1(q) \/ j # k => z[m][j] = Outdate(s[m][j], q)
  BY <1>2, <1>4 DEF RequestSeen
<1> QED  BY <1>5, <1>9, <1>10 DEF RequestSeen

\* The dirty lines of a core's own cache.
LEMMA DirtyLinesAre ==
    ASSUME NEW n \in Nat \ {0}, NEW a \in Nat \ {0}, NEW c \in CacheOf(n, a), NEW k, NEW t,
           NEW m, Fine(c, t, {k}, m)
    PROVE  /\ DirtyLines(c) = {x \in Nat : HasDirty(c, x)}
           /\ \A x \in DirtyLines(c) : Owner(x) = k
<1>1. Sets(c) = 0 .. n - 1 /\ Ways(c) = 0 .. a - 1 /\ c.index_span \in 1 .. n
  BY Address DEF CacheOf
<1>2. c.sets \in SetsOf(n, a)
  BY DEF CacheOf
<1>3. \A s \in Sets(c) : \A w \in Ways(c) :
          /\ c.sets[s][w] \in Line
          /\ c.sets[s][w].dirty => c.sets[s][w].valid
          /\ c.sets[s][w].valid => s < c.index_span /\ Owner(LineAddr(c, c.sets[s][w].tag, s)) = k
  BY <1>1, <1>2 DEF Fine, LineFine, SetsOf, LinesOfSet
<1>4. \A x \in Nat : HasDirty(c, x) <=>
          \E w \in Ways(c) : /\ c.sets[IndexOf(c, x)][w].valid /\ c.sets[IndexOf(c, x)][w].dirty
                             /\ c.sets[IndexOf(c, x)][w].tag = TagOf(c, x)
  BY DEF HasDirty, Copies, SetOf
<1>5. \A x : x \in DirtyLines(c) <=>
          \E s \in Sets(c) : \E w \in Ways(c) :
              c.sets[s][w].dirty /\ x = LineAddr(c, c.sets[s][w].tag, s)
  BY DEF DirtyLines
<1>6. ASSUME NEW s \in Sets(c), NEW w \in Ways(c), c.sets[s][w].dirty,
             NEW x, x = LineAddr(c, c.sets[s][w].tag, s)
      PROVE  x \in Nat /\ HasDirty(c, x) /\ Owner(x) = k
  <2>1. PICK tag \in Nat : tag = c.sets[s][w].tag
    BY <1>3 DEF Line
  <2>2. s \in 0 .. c.index_span - 1 /\ c.sets[s][w].valid /\ Owner(x) = k
    BY <1>1, <1>3, <1>6
  <2>3. x \in Nat /\ IndexOf(c, x) = s /\ TagOf(c, x) = tag
    BY <1>6, <2>1, <2>2, Parts
  <2> QED  BY <1>4, <1>6, <2>1, <2>2, <2>3
<1>7. ASSUME NEW x \in Nat, HasDirty(c, x)
      PROVE  x \in DirtyLines(c)
  <2>1. PICK s \in Sets(c) : s = IndexOf(c, x)
    BY <1>1, Address
  <2>2. PICK w \in Ways(c) : c.sets[s][w].dirty /\ c.sets[s][w].tag = TagOf(c, x)
    BY <1>4, <1>7, <2>1
  <2>3. LineAddr(c, TagOf(c, x), s) = x
    BY <2>1, Address, SMT
  <2> QED  BY <1>5, <2>2, <2>3
<1> QED  BY <1>5, <1>6, <1>7

LEMMA OwnIs ==
    ASSUME SIM_MODE \in SIM_MODES, NEW k \in Cores
    PROVE  Own(k) = k
BY MemSysAssumption DEF Own, Cores

\* What RecencyNext records, in the terms of the proof.
Reads1(s, l, n, k) == IF Copies(s[n][k], l) = {} THEN {l} ELSE {}

LEMMA ReadsAre ==
    ASSUME CachesInv, NEW k \in Cores, Owner(AskedLine(<<"icache", k>>)) = k,
           AskedLine(<<"icache", k>>) \in Nat,
           Asks(<<"dcache", k>>) => /\ Owner(AskedLine(<<"dcache", k>>)) = k
                                    /\ AskedLine(<<"dcache", k>>) \in Nat
    PROVE  L2Reads(k) = Reads1(sys, AskedLine(<<"icache", k>>), "icache", k)
                        \cup (IF Asks(<<"dcache", k>>)
                              THEN Reads1(sys, AskedLine(<<"dcache", k>>), "dcache", k) ELSE {})
<1>1. Own(k) = k
  BY OwnIs DEF CachesInv
<1>2. PICK I, D : I = <<"icache", k>> /\ D = <<"dcache", k>>
  OBVIOUS
<1>3. I[1] = "icache" /\ D[1] = "dcache" /\ I[2] = k /\ D[2] = k /\ Asks(I)
  BY <1>2 DEF Asks
<1>4. {"icache", "dcache"} \X {k} = {I, D}
  BY <1>2
<1>5. ASSUME NEW n \in L1s, NEW l \in Nat, Owner(l) = k
      PROVE  HitWays(sys[n][k], l, k) = Copies(sys[n][k], l)
  <2>1. Fine(sys[n][k], current_cycle, {k}, IsWritten(n)) /\ sys[n][k] \in L1Cache(n)
    BY L1Type DEF CachesInv, AllFine
  <2> QED  BY <1>5, <2>1, L1Shape, HitsAreCopies DEF L1Cache
<1>6. L2Reads(k) =
          {AskedLine(n) : n \in {n \in {I, D} :
                                     Asks(n) /\ HitWays(sys[n[1]][k], AskedLine(n), k) = {}}}
  BY <1>1, <1>4 DEF L2Reads
<1>7. HitWays(sys["icache"][k], AskedLine(I), k) = Copies(sys["icache"][k], AskedLine(I))
  BY <1>2, <1>5 DEF L1s
<1>8. Asks(D) => HitWays(sys["dcache"][k], AskedLine(D), k) = Copies(sys["dcache"][k], AskedLine(D))
  BY <1>2, <1>5 DEF L1s
<1>9. L2Reads(k) = (IF Copies(sys["icache"][k], AskedLine(I)) = {} THEN {AskedLine(I)} ELSE {})
                   \cup (IF Asks(D) /\ Copies(sys["dcache"][k], AskedLine(D)) = {}
                         THEN {AskedLine(D)} ELSE {})
  BY <1>3, <1>6, <1>7, <1>8
<1> QED  BY <1>2, <1>9 DEF Reads1

LEMMA LeavingAre ==
    ASSUME CachesInv, NEW z \in MemType, z = sys', AllFine(z, current_cycle), NEW k \in Cores
    PROVE  Leaving(k) = Gone(sys["dcache"][k], z["dcache"][k])
<1>1. Own(k) = k
  BY OwnIs DEF CachesInv
<1>2. PICK n : n = "dcache"
  OBVIOUS
<1>3. PICK h, v \in Nat \ {0} : h = SetCount(n) /\ v = WayCount(n)
  BY <1>2, L1Shape DEF L1s
<1>4. PICK c \in CacheOf(h, v), r \in CacheOf(h, v) : c = sys[n][k] /\ r = z[n][k]
  BY <1>2, <1>3, L1Type DEF CachesInv, L1s, L1Cache
<1>5. Fine(c, current_cycle, {k}, IsWritten(n)) /\ Fine(r, current_cycle, {k}, IsWritten(n))
  BY <1>2, <1>4 DEF CachesInv, AllFine, L1s
<1>6. DirtyLines(c) = {x \in Nat : HasDirty(c, x)} /\ \A x \in DirtyLines(c) : Owner(x) = k
  BY <1>5, DirtyLinesAre
<1>7. \A x \in DirtyLines(c) : HitWays(r, x, k) = Copies(r, x)
  BY <1>5, <1>6, HitsAreCopies
<1>8. Leaving(k) = {l \in DirtyLines(c) : HitWays(r, l, k) = {}}
  BY <1>1, <1>2, <1>4 DEF Leaving
<1> QED  BY <1>2, <1>4, <1>6, <1>7, <1>8 DEF Gone

LEMMA FetchUses ==
    ASSUME CachesInv, NEW k \in Cores, NEW e, InstructionGoes(k, e), ~ Fault(e), SIM_MODE # "A",
           NEW U, UnderLRU(sys.l2cache, U, current_cycle)
    PROVE  LET l == AskedLine(<<"icache", k>>)
           IN  /\ l \in Nat /\ Owner(l) = k
               /\ e \in MemType /\ AllFine(e, current_cycle)
               /\ e["dcache"][k] = sys["dcache"][k]
               /\ UnderLRU(e.l2cache, Stamped(U, Reads1(sys, l, "icache", k), current_cycle),
                           current_cycle)
<1>1. PICK q \in Requests : /\ IsRequest(q, "icache", k, "IFETCH")
                            /\ Asked(sys, q, k) /\ Goes(sys, q, k, e)
  BY DEF InstructionGoes
<1>2. PICK l \in Nat : l = q.line /\ l = AskedLine(<<"icache", k>>)
  BY <1>1 DEF IsRequest, Requests
<1>3. PICK now : now = current_cycle /\ now = q.now
  BY <1>1 DEF IsRequest
<1>4. q.type = "IFETCH" /\ Owner(l) = k
  BY <1>1, <1>2 DEF IsRequest, Asked
<1>5. e \in MemType
  BY DEF InstructionGoes
<1>6. RequestSeen(sys, q, k, U, e)
  BY <1>1, <1>3, <1>5, GoesUses
<1>7. PICK n : n = "icache" /\ n = Level1(q)
  BY <1>4 DEF Level1
<1>8. Gone(sys[n][k], e[n][k]) = {}
  <2>1. sys[n][k] \in L1Cache(n) /\ Fine(sys[n][k], now, {k}, IsWritten(n))
    BY <1>3, <1>7, L1Type DEF CachesInv, AllFine, L1s
  <2>2. PICK h, v \in Nat \ {0} : h = SetCount(n) /\ v = WayCount(n)
    BY <1>7, L1Shape DEF L1s
  <2>3. PICK c \in CacheOf(h, v) : c = sys[n][k]
    BY <2>1, <2>2 DEF L1Cache
  <2>4. ASSUME NEW x \in Nat PROVE ~ HasDirty(c, x)
    <3>1. IndexOf(c, x) \in Sets(c)
      BY Address
    <3>2. \A w \in Ways(c) : ~ SetOf(c, x)[w].dirty
      BY <1>7, <2>1, <2>3, <3>1 DEF Fine, LineFine, SetOf, IsWritten
    <3> QED  BY <3>2 DEF HasDirty, Copies
  <2> QED  BY <2>3, <2>4 DEF Gone
<1>9. UsedBy(sys, q, k, e) = Reads1(sys, l, n, k)
  BY <1>2, <1>7, <1>8 DEF UsedBy, Reads1
<1>10. UnderLRU(e.l2cache, Stamped(U, Reads1(sys, l, n, k), now), now)
  BY <1>3, <1>6, <1>9 DEF RequestSeen
<1>11. e["dcache"][k] = sys["dcache"][k]
  <2>1. e["dcache"][k] = Outdate(sys["dcache"][k], q)
    BY <1>6, <1>7 DEF RequestSeen, L1s
  <2> QED  BY <1>4, <2>1 DEF Outdate, IsWrite
<1> QED  BY <1>2, <1>3, <1>4, <1>5, <1>6, <1>7, <1>10, <1>11 DEF RequestSeen

LEMMA DataUses ==
    ASSUME NEW k \in Cores, NEW e, NEW z \in MemType, z = sys', NEW q \in Requests,
           IsRequest(q, "dcache", k, core[k].trace.inst_type),
           core[k].trace.inst_type \in {"LOAD", "STORE"},
           Asked(e, q, k), Goes(e, q, k, z), ~ Fault(z), SIM_MODE # "A",
           e["dcache"][k] = sys["dcache"][k],
           NEW U, UnderLRU(e.l2cache, U, current_cycle)
    PROVE  LET l == AskedLine(<<"dcache", k>>)
           IN  /\ l \in Nat /\ Owner(l) = k
               /\ AllFine(z, current_cycle)
               /\ UnderLRU(z.l2cache,
                           Stamped(U, Reads1(sys, l, "dcache", k)
                                      \cup Gone(sys["dcache"][k], z["dcache"][k]), current_cycle),
                           current_cycle)
<1>2. PICK l \in Nat : l = q.line /\ l = AskedLine(<<"dcache", k>>)
  BY DEF IsRequest, Requests
<1>3. PICK now : now = current_cycle /\ now = q.now
  BY DEF IsRequest
<1>4. Owner(l) = k
  BY <1>2 DEF Asked
<1>6. RequestSeen(e, q, k, U, z)
  BY <1>3, GoesUses
<1>7. PICK n : n = "dcache" /\ n = Level1(q)
  BY DEF Level1, IsRequest
<1>9. UsedBy(e, q, k, z) = Reads1(sys, l, n, k) \cup Gone(sys[n][k], z[n][k])
  BY <1>2, <1>7 DEF UsedBy, Reads1
<1>10. UnderLRU(z.l2cache, Stamped(U, UsedBy(e, q, k, z), now), now)
  BY <1>3, <1>6 DEF RequestSeen
<1> QED  BY <1>2, <1>3, <1>4, <1>6, <1>7, <1>9, <1>10 DEF RequestSeen

LEMMA InstructionUses ==
    ASSUME CachesInv, NEW k \in Cores, NEW e, InstructionGoes(k, e), SIM_MODE # "A",
           NEW z \in MemType, z = sys', ~ Fault(z),
           NEW U, UnderLRU(sys.l2cache, U, current_cycle)
    PROVE  UnderLRU(z.l2cache, Stamped(U, L2Reads(k) \cup Leaving(k), current_cycle),
                    current_cycle)
<1>1. PICK now : now = current_cycle
  OBVIOUS
<1>2. PICK D : D = (core[k].trace.inst_type \in {"LOAD", "STORE"})
  OBVIOUS
<1>3. Asks(<<"dcache", k>>) <=> D
  BY <1>2 DEF Asks
<1>4. ~ Fault(e)
  BY DEF InstructionGoes
<1>5. PICK l : l = AskedLine(<<"icache", k>>)
  OBVIOUS
<1>6. PICK R : R = Reads1(sys, l, "icache", k)
  OBVIOUS
<1>7. /\ l \in Nat /\ Owner(l) = k /\ AllFine(e, now)
      /\ e["dcache"][k] = sys["dcache"][k]
      /\ UnderLRU(e.l2cache, Stamped(U, R, now), now)
  BY <1>1, <1>4, <1>5, <1>6, FetchUses
<1>8. PICK G : G = Gone(sys["dcache"][k], z["dcache"][k])
  OBVIOUS
<1>9. AllFine(z, now) => Leaving(k) = G
  BY <1>1, <1>8, LeavingAre
<1>10. CASE D
  <2>1. PICK q \in Requests : /\ IsRequest(q, "dcache", k, core[k].trace.inst_type)
                              /\ Asked(e, q, k) /\ Goes(e, q, k, z)
    BY <1>2, <1>4, <1>10 DEF InstructionGoes
  <2>2. PICK d : d = AskedLine(<<"dcache", k>>)
    OBVIOUS
  <2>3. PICK S : S = Reads1(sys, d, "dcache", k)
    OBVIOUS
  <2>4. PICK V : V = Stamped(U, R, now)
    OBVIOUS
  <2>5. UnderLRU(e.l2cache, V, now)
    BY <1>7, <2>4
  <2>6. /\ d \in Nat /\ Owner(d) = k /\ AllFine(z, now)
        /\ UnderLRU(z.l2cache, Stamped(V, S \cup G, now), now)
    BY <1>1, <1>2, <1>7, <1>8, <1>10, <2>1, <2>2, <2>3, <2>5, DataUses
  <2>7. L2Reads(k) = R \cup S
    BY <1>3, <1>5, <1>6, <1>7, <1>10, <2>2, <2>3, <2>6, ReadsAre
  <2>8. Stamped(V, S \cup G, now) = Stamped(U, R \cup (S \cup G), now)
    BY <2>4, StampedAgain
  <2>9. R \cup (S \cup G) = L2Reads(k) \cup Leaving(k)
    BY <1>9, <2>6, <2>7
  <2> QED  BY <1>1, <2>6, <2>8, <2>9
<1>11. CASE ~ D
  <2>1. z = e
    BY <1>2, <1>11 DEF InstructionGoes
  <2>2. G = {}
    BY <1>7, <1>8, <2>1 DEF Gone, HasDirty
  <2>3. L2Reads(k) = R
    BY <1>3, <1>5, <1>6, <1>7, <1>11, ReadsAre
  <2>4. L2Reads(k) \cup Leaving(k) = R
    BY <1>7, <1>9, <2>1, <2>2, <2>3
  <2> QED  BY <1>1, <1>7, <2>1, <2>4
<1> QED  BY <1>10, <1>11

\* l2_used is the second level's history.
RecencyInv ==
    SIM_MODE # "A" /\ ~ Fault(sys) /\ sys.l2cache.replacement_policy = "LRU" =>
        UnderLRU(sys.l2cache, l2_used, current_cycle)

LEMMA RecencyInvStep ==
    ASSUME MemInv, MemInv', RecencyInv, [RecencyNext]_<<vars, l2_used>>
    PROVE  RecencyInv'
<1> SUFFICES ASSUME SIM_MODE' # "A", ~ Fault(sys)', sys'.l2cache.replacement_policy = "LRU"
             PROVE  UnderLRU(sys'.l2cache, l2_used', current_cycle')
  BY DEF RecencyInv
<1>1. CachesInv /\ CoresInv /\ current_cycle \in Nat
  BY MemSimAssumption DEF MemInv, CoresInv
<1>2. ASSUME sys' = sys, l2_used' = l2_used, SIM_MODE' = SIM_MODE
      PROVE  UnderLRU(sys'.l2cache, l2_used', current_cycle)
  BY <1>2 DEF RecencyInv, Fault
<1>3. ASSUME CoreExecutes,
             l2_used' = Stamped(l2_used, IF SIM_MODE = "A" THEN {} ELSE L2Reads(i) \cup Leaving(i),
                                current_cycle)
      PROVE  UnderLRU(sys'.l2cache, l2_used', current_cycle')
  <2>1. PICK k, e : k = i /\ k \in Cores /\ ~ Fault(sys) /\ InstructionGoes(k, e)
    BY <1>1, <1>3, InstructionPath
  <2>2. PICK z \in MemType : z = sys'
    BY DEF MemInv, CachesInv
  <2>3. SIM_MODE' = SIM_MODE /\ current_cycle' = current_cycle
    BY <1>3, Zenon DEF CoreExecutes, CallNextCore, options
  <2>4. ~ Fault(z)
    BY <2>2 DEF Fault
  <2>5. sys.l2cache.replacement_policy = "LRU"
    BY QuotaStep, <1>3 DEF Next, Converges
  <2>6. PICK U : U = l2_used
    OBVIOUS
  <2>7. UnderLRU(sys.l2cache, U, current_cycle)
    BY <2>1, <2>3, <2>5, <2>6 DEF RecencyInv
  <2>8. PICK L : L = L2Reads(k) \cup Leaving(k)
    OBVIOUS
  <2>9. UnderLRU(z.l2cache, Stamped(U, L, current_cycle), current_cycle)
    BY <1>1, <2>1, <2>2, <2>3, <2>4, <2>7, <2>8, InstructionUses
  <2>10. l2_used' = Stamped(U, L, current_cycle)
    BY <1>3, <2>1, <2>3, <2>6, <2>8
  <2> QED  BY <2>2, <2>3, <2>9, <2>10
<1>4. CASE (CoreIdle \/ EndCycle) /\ l2_used' = l2_used
  <2>1. SIM_MODE' = SIM_MODE /\ sys' = sys
    BY <1>4 DEF CoreIdle, EndCycle, EndOfTurn, CallNextCore, options
  <2>2. UnderLRU(sys'.l2cache, l2_used', current_cycle)
    BY <1>2, <1>4, <2>1
  <2>3. CASE current_cycle' = current_cycle
    BY <2>2, <2>3
  <2>4. CASE current_cycle' = current_cycle + 1
    BY <1>1, <2>2, <2>4, LaterRecency
  <2>5. current_cycle' = current_cycle \/ current_cycle' = current_cycle + 1
    BY <1>4 DEF CoreIdle, EndCycle, EndOfTurn, CallNextCore
  <2> QED  BY <2>3, <2>4, <2>5
<1>5. CASE UNCHANGED <<vars, l2_used>>
  <2>1. sys' = sys /\ l2_used' = l2_used /\ SIM_MODE' = SIM_MODE /\ current_cycle' = current_cycle
    BY <1>5 DEF vars, options
  <2> QED  BY <1>2, <2>1
<1> QED  BY <1>3, <1>4, <1>5 DEF RecencyNext

LEMMA RecencyInvInit == RecencyInit => RecencyInv
<1> SUFFICES ASSUME RecencyInit, sys.l2cache.replacement_policy = "LRU" PROVE RecencyInv
  BY DEF RecencyInv
<1>1. SystemIsNew(sys) /\ current_cycle = 0 /\ l2_used = <<>>
  <2>1. PICK p \in L2CACHE_REPLS : sys = memsys_new(p)
    BY DEF RecencyInit, Init
  <2> QED  BY <2>1, NewSystem DEF RecencyInit, Init
<1>2. PICK c \in L2Cache : c = sys.l2cache
  BY <1>1, L2OfMem DEF SystemIsNew
<1>3. \A x \in Nat : Copies(c, x) = {}
  BY <1>1, <1>2 DEF SystemIsNew, IsNew
<1>4. ASSUME NEW s \in Sets(c), NEW w \in Ways(c) PROVE ~ c.sets[s][w].valid
  BY <1>1, <1>2 DEF SystemIsNew, IsNew
<1>5. DOMAIN l2_used = {}
  BY <1>1
<1> QED  BY <1>1, <1>2, <1>4, <1>5 DEF RecencyInv, UnderLRU, Recency

LEMMA RecencyInvariant == RecencySpec => [](MemInv /\ RecencyInv)
<1>1. RecencyInit => Init
  BY DEF RecencyInit
<1>2. [RecencyNext]_<<vars, l2_used>> => [Next]_vars
  BY DEF RecencyNext, Next, vars
<1>3. RecencySpec => Spec
  BY <1>1, <1>2, PTL DEF RecencySpec, Spec
<1>4. MemInv /\ MemInv' /\ RecencyInv /\ [RecencyNext]_<<vars, l2_used>> => RecencyInv'
  BY RecencyInvStep
<1> QED  BY <1>3, <1>4, RecencyInvInit, Invariant, PTL DEF RecencySpec

\* The lines of a set whose ways are all valid are as many as its ways.
LEMMA FullSet ==
    ASSUME NEW c \in L2Cache, NEW t, Fine(c, t, Cores, TRUE), NEW s \in Sets(c),
           \A w \in Ways(c) : c.sets[s][w].valid
    PROVE  Cardinality(LinesIn(c, s)) = Cardinality(Ways(c))
<1>1. PICK a \in Nat \ {0} : a = L2CACHE_ASSOC
  BY Shapes
<1>2. PICK W, H : W = Ways(c) /\ H = LinesIn(c, s)
  OBVIOUS
<1>3. PICK f : f = [w \in W |-> LineAddr(c, c.sets[s][w].tag, s)]
  OBVIOUS
<1>4. H = {f[w] : w \in W}
  BY <1>2, <1>3 DEF LinesIn
<1>5. ASSUME NEW v \in W, NEW w \in W, f[v] = f[w] PROVE v = w
  <2>1. \A y \in W : /\ c.sets[s][y].tag \in Nat /\ s < c.index_span
                     /\ TagOf(c, f[y]) = c.sets[s][y].tag
    <3> TAKE y \in W
    <3>1. c.sets[s][y] \in Line /\ c.sets[s][y].valid
      BY <1>2, L2Facts
    <3>2. PICK tag \in Nat : tag = c.sets[s][y].tag
      BY <3>1 DEF Line
    <3>3. s < c.index_span
      BY <1>2, <3>1 DEF Fine, LineFine
    <3> QED  BY <1>3, <3>2, <3>3, L2Facts
  <2>2. c.sets[s][v].tag = c.sets[s][w].tag
    BY <1>5, <2>1
  <2> QED  BY <1>2, <2>2 DEF Fine
<1>6. f \in Bijection(W, H)
  <2>1. f \in [W -> H]
    BY <1>3, <1>4
  <2>2. \A x, y \in DOMAIN f : f[x] = f[y] => x = y
    BY <1>3, <1>5
  <2>3. \A h \in H : \E w \in W : f[w] = h
    BY <1>4
  <2> QED  BY <2>1, <2>2, <2>3 DEF Bijection, Injection, Surjection, IsInjective
<1>7. IsFiniteSet(W)
  <2>1. W = 0 .. a - 1 /\ 0 \in Int /\ a - 1 \in Int
    BY <1>1, <1>2, L2Facts
  <2> QED  BY <2>1, FS_Interval
<1>8. ExistsBijection(W, H)
  BY <1>6 DEF ExistsBijection
<1> QED  BY <1>2, <1>7, <1>8, FS_Bijection

LEMMA HistoryShows ==
    ASSUME MemInv, RecencyInv, ~ Fault(sys)
    PROVE  SecondLevelIsLRU
<1> SUFFICES ASSUME sys.l2cache.replacement_policy = "LRU", SIM_MODE # "A",
                    NEW c, c = sys.l2cache
             PROVE  /\ UNION {LinesIn(c, s) : s \in Sets(c)} \subseteq DOMAIN l2_used
                    /\ \A l \in DOMAIN l2_used :
                           LET held == LinesIn(c, IndexOf(c, l))
                           IN  l \notin held =>
                                   /\ Cardinality(held) = Cardinality(Ways(c))
                                   /\ \A h \in held : l2_used[l] <= l2_used[h]
  BY DEF SecondLevelIsLRU
<1>1. PICK U : U = l2_used
  OBVIOUS
<1>2. c \in L2Cache /\ Recency(c, U, current_cycle)
  BY <1>1 DEF RecencyInv, UnderLRU
<1>3. PICK now : now = current_cycle /\ Fine(c, now, Cores, TRUE)
  BY DEF MemInv, CachesInv, AllFine
<1>4. /\ \A l \in DOMAIN U : l \in Nat /\ U[l] \in 0 .. now
      /\ \A s \in Sets(c) : \A w \in Ways(c) :
             c.sets[s][w].valid =>
                 /\ LineAddr(c, c.sets[s][w].tag, s) \in DOMAIN U
                 /\ U[LineAddr(c, c.sets[s][w].tag, s)] = c.sets[s][w].last_access_time
      /\ \A l \in DOMAIN U :
             Copies(c, l) = {} =>
                 \A w \in Ways(c) : /\ SetOf(c, l)[w].valid
                                    /\ U[l] <= SetOf(c, l)[w].last_access_time
  BY <1>2, <1>3 DEF Recency
<1>5. UNION {LinesIn(c, s) : s \in Sets(c)} \subseteq DOMAIN U
  BY <1>4 DEF LinesIn
<1>6. ASSUME NEW l \in DOMAIN U, l \notin LinesIn(c, IndexOf(c, l))
      PROVE  /\ Cardinality(LinesIn(c, IndexOf(c, l))) = Cardinality(Ways(c))
             /\ \A h \in LinesIn(c, IndexOf(c, l)) : U[l] <= U[h]
  <2>1. l \in Nat
    BY <1>4
  <2>2. PICK s \in Sets(c) : s = IndexOf(c, l) /\ LineAddr(c, TagOf(c, l), s) = l
    BY <1>2, <2>1, L2Facts
  <2>3. Copies(c, l) = {}
    BY <1>6, <2>2 DEF Copies, SetOf, LinesIn
  <2>4. \A w \in Ways(c) : c.sets[s][w].valid /\ U[l] <= c.sets[s][w].last_access_time
    BY <1>4, <2>2, <2>3 DEF SetOf
  <2>5. Cardinality(LinesIn(c, s)) = Cardinality(Ways(c))
    BY <1>2, <1>3, <2>4, FullSet
  <2>6. ASSUME NEW h \in LinesIn(c, s) PROVE U[l] <= U[h]
    <3>1. PICK w \in Ways(c) : c.sets[s][w].valid /\ h = LineAddr(c, c.sets[s][w].tag, s)
      BY DEF LinesIn
    <3>2. U[h] = c.sets[s][w].last_access_time
      BY <1>4, <3>1
    <3> QED  BY <2>4, <3>2
  <2> QED  BY <2>2, <2>5, <2>6
<1> QED  BY <1>1, <1>5, <1>6

\* Under LRU the second level always holds, of the lines of a set that were
\* read there or written back to it, those that were used last, whatever order
\* an instruction's fetch, its data access and its victim's writeback came in
\* and however many cores share it (cache_find_victim).
THEOREM SecondLevelKeepsTheLast == RecencySpec => [](~ Fault(sys) => SecondLevelIsLRU)
<1>1. MemInv /\ RecencyInv => (~ Fault(sys) => SecondLevelIsLRU)
  BY HistoryShows
<1> QED  BY <1>1, RecencyInvariant, PTL

\* With quotas that fit, that is always.
THEOREM SecondLevelAlwaysKeepsTheLast ==
    ASSUME QuotasFit PROVE RecencySpec => []SecondLevelIsLRU
<1>1. RecencySpec => Spec
  <2>1. RecencyInit => Init
    BY DEF RecencyInit
  <2>2. [RecencyNext]_<<vars, l2_used>> => [Next]_vars
    BY DEF RecencyNext, Next, vars
  <2> QED  BY <2>1, <2>2, PTL DEF RecencySpec, Spec
<1>2. (~ Fault(sys) => SecondLevelIsLRU) /\ VictimIsAWay => SecondLevelIsLRU
  BY DEF VictimIsAWay
<1> QED  BY <1>1, <1>2, SecondLevelKeepsTheLast, VictimIsAlwaysAWay, PTL

-----------------------------------------------------------------------------
(* A set whose valid ways were used at different times is a sequence of them. *)

\* f is the sequence of the n valid ways of a set, the last one used first.
Listed(set, n, f) ==
    /\ n \in Nat /\ f \in [1 .. n -> Valid(set)]
    /\ \A w \in Valid(set) : \E j \in 1 .. n : f[j] = w
    /\ \A j, k \in 1 .. n :
           j < k => set[f[k]].last_access_time < set[f[j]].last_access_time

Apart(set) ==
    \A v, w \in Valid(set) :
        v # w => set[v].last_access_time # set[w].last_access_time

LEMMA ValidWays ==
    ASSUME NEW a \in Nat \ {0}, NEW set \in LinesOfSet(a)
    PROVE  /\ DOMAIN set = 0 .. a - 1 /\ Valid(set) \in SUBSET (0 .. a - 1)
           /\ IsFiniteSet(Valid(set)) /\ Cardinality(Valid(set)) \in 0 .. a
           /\ \A w \in 0 .. a - 1 : w \in Valid(set) <=> set[w].valid
           /\ \A w \in 0 .. a - 1 : set[w].last_access_time \in Nat /\ set[w].tag \in Nat
           /\ (Cardinality(Valid(set)) = a => Valid(set) = 0 .. a - 1)
<1>1. DOMAIN set = 0 .. a - 1 /\ \A w \in 0 .. a - 1 : set[w] \in Line
  BY DEF LinesOfSet
<1>2. Valid(set) \in SUBSET (0 .. a - 1)
  BY <1>1 DEF Valid
<1>3. IsFiniteSet(0 .. a - 1) /\ Cardinality(0 .. a - 1) = a
  BY FS_Interval
<1>4. /\ IsFiniteSet(Valid(set)) /\ Cardinality(Valid(set)) <= a
      /\ (a = Cardinality(Valid(set)) => 0 .. a - 1 = Valid(set))
  BY <1>2, <1>3, FS_Subset
<1>5. Cardinality(Valid(set)) \in Nat
  BY <1>4, FS_CardinalityType
<1> QED  BY <1>1, <1>2, <1>4, <1>5 DEF Valid, Line

\* Fewer were used after the later one.
LEMMA LaterHasFewer ==
    ASSUME NEW a \in Nat \ {0}, NEW set \in LinesOfSet(a), NEW v \in Valid(set),
           NEW w \in Valid(set), set[w].last_access_time < set[v].last_access_time
    PROVE  Cardinality(After(set, v)) < Cardinality(After(set, w))
<1>1. /\ IsFiniteSet(Valid(set))
      /\ \A u \in Valid(set) : set[u].last_access_time \in Nat
  BY ValidWays
<1>2. PICK V, W : V = After(set, v) /\ W = After(set, w)
  OBVIOUS
<1>3. V \in SUBSET W /\ v \in W /\ v \notin V
  BY <1>1, <1>2 DEF After
<1>4. IsFiniteSet(W)
  BY <1>1, <1>2, FS_Subset DEF After
<1>5. Cardinality(V) <= Cardinality(W) /\ Cardinality(V) # Cardinality(W)
  BY <1>3, <1>4, FS_Subset
<1>6. IsFiniteSet(V) /\ Cardinality(V) \in Nat /\ Cardinality(W) \in Nat
  BY <1>3, <1>4, FS_Subset, FS_CardinalityType
<1> QED  BY <1>2, <1>5, <1>6

LEMMA AfterCount ==
    ASSUME NEW a \in Nat \ {0}, NEW set \in LinesOfSet(a), NEW w \in Valid(set)
    PROVE  Cardinality(After(set, w)) \in 0 .. Cardinality(Valid(set)) - 1
<1>1. IsFiniteSet(Valid(set)) /\ \A u \in Valid(set) : set[u].last_access_time \in Nat
  BY ValidWays
<1>2. PICK V, W : V = Valid(set) /\ W = After(set, w)
  OBVIOUS
<1>3. W \in SUBSET V /\ w \in V /\ w \notin W /\ IsFiniteSet(V)
  BY <1>1, <1>2 DEF After
<1>4. IsFiniteSet(W) /\ Cardinality(W) <= Cardinality(V) /\ Cardinality(W) # Cardinality(V)
  BY <1>3, FS_Subset
<1>5. Cardinality(V) \in Nat /\ Cardinality(W) \in Nat
  BY <1>3, <1>4, FS_CardinalityType
<1> QED  BY <1>2, <1>4, <1>5

LEMMA ApartAreListed ==
    ASSUME NEW a \in Nat \ {0}, NEW set \in LinesOfSet(a), Apart(set)
    PROVE  \E n, f : Listed(set, n, f)
<1>1. PICK V : V = Valid(set)
  OBVIOUS
<1>2. PICK n \in Nat : n = Cardinality(V)
  BY <1>1, ValidWays
<1>3. IsFiniteSet(V)
  BY <1>1, ValidWays
<1>4. PICK r : r = [w \in V |-> Cardinality(After(set, w)) + 1]
  OBVIOUS
<1>5. ASSUME NEW w \in V PROVE r[w] \in 1 .. n /\ Cardinality(After(set, w)) = r[w] - 1
  <2>1. Cardinality(After(set, w)) \in 0 .. n - 1
    BY <1>1, <1>2, AfterCount
  <2> QED  BY <1>4, <2>1
<1>6. ASSUME NEW v \in V, NEW w \in V, set[w].last_access_time < set[v].last_access_time
      PROVE  r[v] < r[w]
  <2>1. Cardinality(After(set, v)) < Cardinality(After(set, w))
    BY <1>1, <1>6, LaterHasFewer
  <2>2. Cardinality(After(set, v)) \in 0 .. n - 1 /\ Cardinality(After(set, w)) \in 0 .. n - 1
    BY <1>1, <1>2, AfterCount
  <2> QED  BY <1>4, <2>1, <2>2
<1>7. ASSUME NEW v \in V, NEW w \in V, v # w
      PROVE  r[v] # r[w] /\ (r[v] < r[w] => set[w].last_access_time < set[v].last_access_time)
  <2>1. PICK s, t : s = set[v].last_access_time /\ t = set[w].last_access_time
    OBVIOUS
  <2>2. s \in Nat /\ t \in Nat /\ s # t
    BY <1>1, <1>7, <2>1, ValidWays DEF Apart
  <2>3. r[v] \in 1 .. n /\ r[w] \in 1 .. n
    BY <1>5
  <2>4. CASE s < t
    BY <1>6, <2>1, <2>2, <2>3, <2>4
  <2>5. CASE t < s
    BY <1>6, <2>1, <2>2, <2>3, <2>5
  <2> QED  BY <2>2, <2>4, <2>5
<1>8. r \in Surjection(V, 1 .. n)
  <2>1. r \in Injection(V, 1 .. n)
    BY <1>4, <1>5, <1>7 DEF Injection, IsInjective
  <2>2. IsFiniteSet(1 .. n) /\ Cardinality(1 .. n) = n
    BY FS_Interval
  <2>3. PICK T : T = 1 .. n
    OBVIOUS
  <2>4. Cardinality(V) = Cardinality(T) <=> r \in Surjection(V, T)
    BY <2>1, <2>2, <2>3, FS_Injection
  <2> QED  BY <1>2, <2>2, <2>3, <2>4
<1>9. \A j \in 1 .. n : \E w \in V : r[w] = j
  BY <1>8 DEF Surjection
<1>10. PICK f : f = [j \in 1 .. n |-> CHOOSE w \in V : r[w] = j]
  OBVIOUS
<1>11. ASSUME NEW j \in 1 .. n PROVE f[j] \in V /\ r[f[j]] = j
  BY <1>9, <1>10
<1>12. ASSUME NEW w \in V PROVE \E j \in 1 .. n : f[j] = w
  <2>1. r[w] \in 1 .. n
    BY <1>5
  <2>2. f[r[w]] \in V /\ r[f[r[w]]] = r[w]
    BY <1>11, <2>1
  <2>3. f[r[w]] = w
    BY <1>7, <2>2
  <2> QED  BY <2>1, <2>3
<1>13. ASSUME NEW j \in 1 .. n, NEW k \in 1 .. n, j < k
       PROVE  set[f[k]].last_access_time < set[f[j]].last_access_time
  <2>1. f[j] \in V /\ f[k] \in V /\ r[f[j]] = j /\ r[f[k]] = k
    BY <1>11
  <2>2. f[j] # f[k] /\ r[f[j]] < r[f[k]]
    BY <1>13, <2>1
  <2> QED  BY <1>7, <2>1, <2>2
<1>14. f \in [1 .. n -> V]
  BY <1>10, <1>11
<1> QED  BY <1>1, <1>12, <1>13, <1>14 DEF Listed

LEMMA ListGivesTags ==
    ASSUME NEW a \in Nat \ {0}, NEW set \in LinesOfSet(a), NEW n, NEW f, Listed(set, n, f)
    PROVE  /\ n = Cardinality(Valid(set))
           /\ Tags(set) = [j \in 1 .. n |-> set[f[j]].tag]
<1>1. /\ n \in Nat /\ f \in [1 .. n -> Valid(set)]
      /\ \A w \in Valid(set) : \E j \in 1 .. n : f[j] = w
      /\ \A j, k \in 1 .. n :
             j < k => set[f[k]].last_access_time < set[f[j]].last_access_time
  BY DEF Listed
<1>2. \A w \in Valid(set) : set[w].last_access_time \in Nat
  BY ValidWays
<1>3. ASSUME NEW j \in 1 .. n, NEW k \in 1 .. n, f[j] = f[k] PROVE j = k
  <2>1. ~ (j < k) /\ ~ (k < j)
    BY <1>1, <1>2, <1>3
  <2> QED  BY <1>1, <2>1
<1>4. n = Cardinality(Valid(set))
  <2>1. f \in Bijection(1 .. n, Valid(set))
    BY <1>1, <1>3 DEF Bijection, Injection, Surjection, IsInjective
  <2>2. ExistsBijection(1 .. n, Valid(set))
    BY <2>1 DEF ExistsBijection
  <2> QED  BY <1>1, <2>2, FS_CountingElements
<1>5. ASSUME NEW j \in 1 .. n PROVE Cardinality(After(set, f[j])) = j - 1
  <2>1. PICK A : A = After(set, f[j])
    OBVIOUS
  <2>2. PICK m \in Nat : m = j - 1
    BY <1>1
  <2>3. PICK g : g = [k \in 1 .. m |-> f[k]]
    OBVIOUS
  <2>4. ASSUME NEW k \in 1 .. m PROVE k \in 1 .. n /\ g[k] = f[k] /\ g[k] \in A
    <3>1. k \in 1 .. n /\ k < j
      BY <1>1, <2>2
    <3>2. set[f[j]].last_access_time < set[f[k]].last_access_time
      BY <1>1, <3>1
    <3>3. f[k] \in Valid(set) /\ f[j] \in Valid(set)
      BY <1>1, <3>1
    <3> QED  BY <1>2, <2>1, <2>3, <3>1, <3>2, <3>3 DEF After
  <2>5. ASSUME NEW w \in A PROVE \E k \in 1 .. m : g[k] = w
    <3>1. PICK k \in 1 .. n : f[k] = w
      BY <1>1, <2>1 DEF After
    <3>2. set[f[j]].last_access_time < set[f[k]].last_access_time
      BY <1>1, <1>2, <2>1, <3>1 DEF After
    <3>3. ~ (j < k) /\ j # k
      BY <1>1, <1>2, <3>1, <3>2
    <3>4. k \in 1 .. m
      BY <1>1, <2>2, <3>3
    <3> QED  BY <2>3, <3>1, <3>4
  <2>6. g \in Bijection(1 .. m, A)
    BY <1>3, <2>3, <2>4, <2>5 DEF Bijection, Injection, Surjection, IsInjective
  <2>7. ExistsBijection(1 .. m, A)
    BY <2>6 DEF ExistsBijection
  <2> QED  BY <2>1, <2>2, <2>7, FS_CountingElements
<1>6. ASSUME NEW j \in 1 .. n PROVE Nth(set, j) = f[j]
  <2>1. f[j] \in Valid(set) /\ Cardinality(After(set, f[j])) = j - 1
    BY <1>1, <1>5
  <2>2. ASSUME NEW w \in Valid(set), Cardinality(After(set, w)) = j - 1 PROVE w = f[j]
    <3>1. PICK k \in 1 .. n : f[k] = w
      BY <1>1
    <3>2. k - 1 = j - 1
      BY <1>5, <2>2, <3>1
    <3> QED  BY <1>1, <3>1, <3>2
  <2> QED  BY <2>1, <2>2 DEF Nth
<1> QED  BY <1>4, <1>6 DEF Tags

\* p is the place of way w in the sequence f, or one more than the last.
PlaceOf(set, n, f, w, p) ==
    IF set[w].valid THEN p \in 1 .. n /\ f[p] = w ELSE p = n + 1

\* The sequence once way w has been used: w is the first.
ToFront(n, f, w, p) ==
    [j \in 1 .. n \cup {p} |-> IF j = 1 THEN w ELSE IF j <= p THEN f[j - 1] ELSE f[j]]

\* In new, way w has been used, in cycle now; nothing else has changed.
WayIsUsed(set, new, w, now) ==
    /\ \A v \in DOMAIN set : v # w => new[v] = set[v]
    /\ new[w].valid /\ new[w].last_access_time = now
    /\ \A v \in Valid(set) : set[v].last_access_time < now

LEMMA FrontIsListed ==
    ASSUME NEW a \in Nat \ {0}, NEW set \in LinesOfSet(a), NEW n, NEW f, Listed(set, n, f),
           NEW w \in 0 .. a - 1, NEW new \in LinesOfSet(a), NEW now \in Nat,
           WayIsUsed(set, new, w, now), NEW p, PlaceOf(set, n, f, w, p),
           NEW m, m = IF p <= n THEN n ELSE p
    PROVE  Listed(new, m, ToFront(n, f, w, p)) /\ p \in 1 .. m /\ 1 .. n \cup {p} = 1 .. m
<1>1. /\ n \in Nat /\ f \in [1 .. n -> Valid(set)]
      /\ \A v \in Valid(set) : \E j \in 1 .. n : f[j] = v
      /\ \A j, k \in 1 .. n :
             j < k => set[f[k]].last_access_time < set[f[j]].last_access_time
  BY DEF Listed
<1>2. /\ Valid(set) \in SUBSET (0 .. a - 1) /\ DOMAIN set = 0 .. a - 1
      /\ \A v \in Valid(set) : set[v].last_access_time \in Nat
      /\ \A v \in 0 .. a - 1 : v \in Valid(set) <=> set[v].valid
      /\ \A v \in 0 .. a - 1 : v \in Valid(new) <=> new[v].valid
      /\ Valid(new) \in SUBSET (0 .. a - 1)
  BY ValidWays
<1>3. /\ \A v \in 0 .. a - 1 : v # w => new[v] = set[v]
      /\ new[w].valid /\ new[w].last_access_time = now
      /\ \A v \in Valid(set) : set[v].last_access_time < now
  BY <1>2 DEF WayIsUsed
<1>4. p \in Nat /\ p \in 1 .. n + 1 /\ m \in Nat /\ p \in 1 .. m /\ n <= m /\ m <= n + 1
      /\ (m = n + 1 => p = m)
  <2>1. p \in 1 .. n \/ p = n + 1
    BY DEF PlaceOf
  <2>2. n \in Nat
    BY <1>1
  <2>3. CASE p \in 1 .. n
    <3>1. m = n
      BY <2>2, <2>3
    <3> QED  BY <2>2, <2>3, <3>1
  <2>4. CASE p = n + 1
    <3>1. m = n + 1
      BY <2>2, <2>4
    <3> QED  BY <2>2, <2>4, <3>1
  <2> QED  BY <2>1, <2>3, <2>4
<1>5. 1 .. n \cup {p} = 1 .. m
  BY <1>1, <1>4
<1>6. ASSUME NEW j \in 1 .. n, NEW k \in 1 .. n, f[j] = f[k] PROVE j = k
  <2>1. ~ (j < k) /\ ~ (k < j)
    BY <1>1, <1>2, <1>6
  <2> QED  BY <1>1, <2>1
<1>7. ASSUME NEW j \in 1 .. n PROVE f[j] = w => j = p
  BY <1>1, <1>2, <1>6 DEF PlaceOf
<1>8. PICK g : g = ToFront(n, f, w, p)
  OBVIOUS
<1>9. DOMAIN g = 1 .. m /\ g[1] = w
  BY <1>4, <1>5, <1>8 DEF ToFront
\* Where the elements of g but the first come from.
<1>10. PICK o : o = [j \in 2 .. m |-> IF j <= p THEN j - 1 ELSE j]
  OBVIOUS
<1>11. ASSUME NEW j \in 2 .. m
       PROVE  /\ o[j] \in 1 .. n /\ o[j] # p /\ g[j] = f[o[j]]
              /\ o[j] = IF j <= p THEN j - 1 ELSE j
  <2>1. o[j] = IF j <= p THEN j - 1 ELSE j
    BY <1>10
  <2>2. o[j] \in 1 .. n /\ o[j] # p
    BY <1>1, <1>4, <2>1
  <2>3. j \in 1 .. n \cup {p} /\ j # 1
    BY <1>4, <1>5
  <2>4. g[j] = IF j <= p THEN f[j - 1] ELSE f[j]
    BY <1>8, <2>3 DEF ToFront
  <2> QED  BY <2>1, <2>2, <2>4
<1>12. ASSUME NEW j \in 2 .. m
       PROVE  /\ g[j] \in Valid(set) /\ g[j] # w /\ new[g[j]] = set[g[j]] /\ g[j] \in Valid(new)
  <2>1. g[j] \in Valid(set) /\ g[j] # w
    BY <1>1, <1>7, <1>11
  <2> QED  BY <1>2, <1>3, <2>1
<1>13. w \in Valid(new)
  BY <1>2, <1>3
<1>14. g \in [1 .. m -> Valid(new)]
  <2>1. ASSUME NEW j \in 1 .. m PROVE g[j] \in Valid(new)
    <3>1. j = 1 \/ j \in 2 .. m
      BY <1>4
    <3> QED  BY <1>9, <1>12, <1>13, <3>1
  <2>2. g = [j \in 1 .. m |-> g[j]]
    BY <1>5, <1>8 DEF ToFront
  <2> QED  BY <2>1, <2>2
<1>15. ASSUME NEW v \in Valid(new) PROVE \E j \in 1 .. m : g[j] = v
  <2>1. CASE v = w
    BY <1>4, <1>9, <2>1
  <2>2. CASE v # w
    <3>1. v \in Valid(set)
      BY <1>2, <1>3, <2>2
    <3>2. PICK k \in 1 .. n : f[k] = v
      BY <1>1, <3>1
    <3>3. k # p
      BY <1>1, <1>2, <2>2, <3>2 DEF PlaceOf
    <3>4. PICK j : j = IF k < p THEN k + 1 ELSE k
      OBVIOUS
    <3>5. j \in 2 .. m /\ (j <= p => k = j - 1) /\ (~ (j <= p) => k = j)
      BY <1>1, <1>4, <3>3, <3>4
    <3>6. g[j] = v
      BY <1>11, <3>2, <3>5
    <3> QED  BY <1>4, <3>5, <3>6
  <2> QED  BY <2>1, <2>2
<1>16. ASSUME NEW j \in 1 .. m, NEW k \in 1 .. m, j < k
       PROVE  new[g[k]].last_access_time < new[g[j]].last_access_time
  <2>1. k \in 2 .. m
    BY <1>4, <1>16
  <2>2. CASE j = 1
    BY <1>3, <1>9, <1>12, <2>1, <2>2
  <2>3. CASE j # 1
    <3>1. j \in 2 .. m
      BY <1>4, <2>3
    <3>2. o[j] < o[k]
      BY <1>4, <1>11, <1>16, <2>1, <3>1
    <3>3. o[j] \in 1 .. n /\ o[k] \in 1 .. n /\ g[j] = f[o[j]] /\ g[k] = f[o[k]]
      BY <1>11, <2>1, <3>1
    <3>4. set[g[k]].last_access_time < set[g[j]].last_access_time
      BY <1>1, <3>2, <3>3
    <3> QED  BY <1>12, <2>1, <3>1, <3>4
  <2> QED  BY <2>2, <2>3
<1>17. Listed(new, m, g)
  BY <1>4, <1>14, <1>15, <1>16 DEF Listed
<1> QED  BY <1>4, <1>5, <1>8, <1>17

LEMMA ListedAreApart ==
    ASSUME NEW a \in Nat \ {0}, NEW set \in LinesOfSet(a), NEW n, NEW f, Listed(set, n, f)
    PROVE  Apart(set)
<1>1. \A w \in Valid(set) : set[w].last_access_time \in Nat
  BY ValidWays
<1> SUFFICES ASSUME NEW v \in Valid(set), NEW w \in Valid(set), v # w
             PROVE  set[v].last_access_time # set[w].last_access_time
  BY DEF Apart
<1>2. PICK j \in 1 .. n, k \in 1 .. n : f[j] = v /\ f[k] = w
  BY DEF Listed
<1>3. j < k \/ k < j
  BY <1>2 DEF Listed
<1> QED  BY <1>1, <1>2, <1>3 DEF Listed

\* The tags of a set are a sequence without repetition.
LEMMA TagsAre ==
    ASSUME NEW a \in Nat \ {0}, NEW set \in LinesOfSet(a), NEW n, NEW f, Listed(set, n, f)
    PROVE  /\ n \in 0 .. a /\ Len(Tags(set)) = n /\ DOMAIN Tags(set) = 1 .. n
           /\ \A j \in 1 .. n : Tags(set)[j] = set[f[j]].tag
<1>1. n \in 0 .. a /\ f \in [1 .. n -> Valid(set)]
  <2>1. n = Cardinality(Valid(set))
    BY ListGivesTags
  <2>2. Cardinality(Valid(set)) \in 0 .. a
    BY ValidWays
  <2> QED  BY <2>1, <2>2 DEF Listed
<1>2. Tags(set) = [j \in 1 .. n |-> set[f[j]].tag]
  BY ListGivesTags
<1>3. \A j \in 1 .. n : set[f[j]].tag \in Nat
  BY <1>1, ValidWays
<1>4. Tags(set) \in [1 .. n -> Nat]
  BY <1>2, <1>3
<1>5. Tags(set) \in Seq(Nat)
  BY <1>1, <1>4, SeqDef
<1>6. Len(Tags(set)) \in Nat /\ DOMAIN Tags(set) = 1 .. Len(Tags(set))
  BY <1>5, LenProperties
<1>7. Len(Tags(set)) = n
  BY <1>1, <1>4, <1>6
<1> QED  BY <1>1, <1>2, <1>7

\* The place that LRUCaches gives tag t is that of the way w which the code uses:
\* the one that holds t, or else one that is free, or else the one used first.
Chosen(set, t, w) ==
    IF \E v \in Valid(set) : set[v].tag = t
    THEN w \in Valid(set) /\ set[w].tag = t
    ELSE w \in Valid(set) =>
             /\ Valid(set) = DOMAIN set
             /\ \A v \in DOMAIN set : set[w].last_access_time <= set[v].last_access_time

LEMMA PlaceIs ==
    ASSUME NEW a \in Nat \ {0}, NEW set \in LinesOfSet(a), NEW n, NEW f, Listed(set, n, f),
           \A v, w \in Valid(set) : v # w => set[v].tag # set[w].tag,
           NEW w \in 0 .. a - 1, NEW t, Chosen(set, t, w)
    PROVE  /\ PlaceOf(set, n, f, w, FirstLevel!Place(Tags(set), t, a))
           /\ FirstLevel!Holding(Tags(set), t) <=> \E v \in Valid(set) : set[v].tag = t
<1>1. /\ n \in 0 .. a /\ Len(Tags(set)) = n /\ DOMAIN Tags(set) = 1 .. n
      /\ \A j \in 1 .. n : Tags(set)[j] = set[f[j]].tag
  BY TagsAre
<1>2. /\ n \in Nat /\ f \in [1 .. n -> Valid(set)]
      /\ \A v \in Valid(set) : \E j \in 1 .. n : f[j] = v
      /\ \A j, k \in 1 .. n :
             j < k => set[f[k]].last_access_time < set[f[j]].last_access_time
      /\ n = Cardinality(Valid(set))
  BY ListGivesTags DEF Listed
<1>3. /\ Valid(set) \in SUBSET (0 .. a - 1) /\ DOMAIN set = 0 .. a - 1
      /\ \A v \in 0 .. a - 1 : v \in Valid(set) <=> set[v].valid
      /\ \A v \in Valid(set) : set[v].last_access_time \in Nat
      /\ (n = a => Valid(set) = 0 .. a - 1)
  BY <1>2, ValidWays
<1>4. PICK p : p = FirstLevel!Place(Tags(set), t, a)
  OBVIOUS
<1>5. PICK H : H = \E v \in Valid(set) : set[v].tag = t
  OBVIOUS
<1>6. FirstLevel!Holding(Tags(set), t) <=> H
  BY <1>1, <1>2, <1>5 DEF FirstLevel!Holding
<1>7. CASE H
  <2>1. w \in Valid(set) /\ set[w].tag = t
    BY <1>5, <1>7 DEF Chosen
  <2>2. p = CHOOSE j \in 1 .. n : Tags(set)[j] = t
    BY <1>1, <1>4, <1>6, <1>7 DEF FirstLevel!Place
  <2>3. \E j \in 1 .. n : Tags(set)[j] = t
    BY <1>1, <1>2, <2>1
  <2>4. p \in 1 .. n /\ Tags(set)[p] = t
    BY <2>2, <2>3
  <2>5. f[p] \in Valid(set) /\ set[f[p]].tag = t
    BY <1>1, <1>2, <2>4
  <2>6. f[p] = w
    BY <2>1, <2>5
  <2> QED  BY <1>3, <1>4, <1>5, <1>6, <2>1, <2>4, <2>6 DEF PlaceOf
<1>8. CASE ~ H
  <2>1. p = IF n < a THEN n + 1 ELSE a
    BY <1>1, <1>4, <1>6, <1>8 DEF FirstLevel!Place
  <2>2. CASE w \in Valid(set)
    <3>1. /\ Valid(set) = 0 .. a - 1
          /\ \A v \in 0 .. a - 1 : set[w].last_access_time <= set[v].last_access_time
      BY <1>3, <1>5, <1>8, <2>2 DEF Chosen
    <3>2. n = a
      BY <1>2, <3>1, FS_Interval
    <3>3. p = n /\ p \in 1 .. n
      BY <1>1, <2>1, <3>2
    <3>4. PICK j \in 1 .. n : f[j] = w
      BY <1>2, <2>2
    <3>5. ~ (j < p)
      BY <1>2, <1>3, <3>1, <3>3, <3>4
    <3>6. j = p
      BY <1>2, <3>3, <3>5
    <3> QED  BY <1>3, <1>4, <1>5, <1>6, <2>2, <3>3, <3>4, <3>6 DEF PlaceOf
  <2>3. CASE w \notin Valid(set)
    <3>1. n < a
      BY <1>1, <1>3, <2>3
    <3> QED  BY <1>3, <1>4, <1>5, <1>6, <2>1, <2>3, <3>1 DEF PlaceOf
  <2> QED  BY <2>2, <2>3
<1> QED  BY <1>7, <1>8

\* What the use of a way makes of a set is what the use of its tag makes of its tags.
LEMMA UseIsUsed ==
    ASSUME NEW a \in Nat \ {0}, NEW set \in LinesOfSet(a), Apart(set),
           \A v, w \in Valid(set) : v # w => set[v].tag # set[w].tag,
           NEW new \in LinesOfSet(a), NEW now \in Nat, NEW w \in 0 .. a - 1,
           WayIsUsed(set, new, w, now), Chosen(set, new[w].tag, w)
    PROVE  Apart(new) /\ Tags(new) = FirstLevel!Used(Tags(set), new[w].tag, a)
<1>1. PICK n, f : Listed(set, n, f)
  BY ApartAreListed
<1>2. PICK t : t = new[w].tag
  OBVIOUS
<1>3. PICK p : p = FirstLevel!Place(Tags(set), t, a)
  OBVIOUS
<1>4. PlaceOf(set, n, f, w, p)
  BY <1>1, <1>2, <1>3, PlaceIs
<1>5. PICK m : m = IF p <= n THEN n ELSE p
  OBVIOUS
<1>6. PICK g : g = ToFront(n, f, w, p)
  OBVIOUS
<1>7. Listed(new, m, g) /\ p \in 1 .. m /\ 1 .. n \cup {p} = 1 .. m
  BY <1>1, <1>4, <1>5, <1>6, FrontIsListed
<1>8. Apart(new)
  BY <1>7, ListedAreApart
<1>9. Tags(new) = [j \in 1 .. m |-> new[g[j]].tag]
  BY <1>7, ListGivesTags
<1>10. /\ n \in 0 .. a /\ DOMAIN Tags(set) = 1 .. n
       /\ \A j \in 1 .. n : Tags(set)[j] = set[f[j]].tag
  BY <1>1, TagsAre
<1>11. PICK u : u = FirstLevel!Used(Tags(set), t, a)
  OBVIOUS
<1>12. u = [j \in 1 .. m |-> IF j = 1 THEN t
                             ELSE IF j <= p THEN Tags(set)[j - 1] ELSE Tags(set)[j]]
  BY <1>3, <1>7, <1>10, <1>11 DEF FirstLevel!Used
<1>13. ASSUME NEW j \in 1 .. m
       PROVE  new[g[j]].tag = IF j = 1 THEN t
                              ELSE IF j <= p THEN Tags(set)[j - 1] ELSE Tags(set)[j]
  <2>1. CASE j = 1
    BY <1>2, <1>6, <1>7, <2>1 DEF ToFront
  <2>2. CASE j # 1
    <3>1. PICK k : k = IF j <= p THEN j - 1 ELSE j
      OBVIOUS
    <3>2. g[j] = f[k]
      BY <1>6, <1>7, <2>2, <3>1 DEF ToFront
    <3>3. k \in 1 .. n /\ k # p
      <4>1. p \in 1 .. n \/ p = n + 1
        BY <1>4 DEF PlaceOf
      <4>2. CASE p \in 1 .. n
        BY <1>5, <1>7, <1>10, <2>2, <3>1, <4>2
      <4>3. CASE p = n + 1
        BY <1>5, <1>7, <1>10, <2>2, <3>1, <4>3
      <4> QED  BY <4>1, <4>2, <4>3
    <3>4. f[k] # w /\ f[k] \in Valid(set)
      <4>1. f[k] \in Valid(set)
        BY <1>1, <3>3 DEF Listed
      <4>2. ASSUME f[k] = w PROVE FALSE
        <5>1. set[w].valid
          BY <4>1, <4>2 DEF Valid
        <5>2. p \in 1 .. n /\ f[p] = w
          BY <1>4, <5>1 DEF PlaceOf
        <5>3. p < k \/ k < p
          BY <1>10, <3>3, <5>2
        <5>4. set[w].last_access_time \in Nat
          BY ValidWays
        <5> QED  BY <1>1, <3>3, <4>2, <5>2, <5>3, <5>4 DEF Listed
      <4> QED  BY <4>1, <4>2
    <3>5. new[f[k]] = set[f[k]]
      BY <3>4 DEF WayIsUsed, Valid
    <3>6. Tags(set)[k] = set[f[k]].tag
      BY <1>10, <3>3
    <3> QED  BY <2>2, <3>1, <3>2, <3>5, <3>6
  <2> QED  BY <2>1, <2>2
<1> QED  BY <1>2, <1>8, <1>9, <1>11, <1>12, <1>13

\* In each set of c the valid ways were used at different times, before t.
Separate(c, t) ==
    \A s \in Sets(c) : /\ Apart(c.sets[s])
                       /\ \A w \in Valid(c.sets[s]) : c.sets[s][w].last_access_time < t

Requested(c) == c.stat_read_access + c.stat_write_access

\* To LRUCaches, r is what c was.
Rests(c, r) ==
    /\ Sets(r) = Sets(c) /\ r.index_span = c.index_span
    /\ \A s \in Sets(c) : Tags(r.sets[s]) = Tags(c.sets[s])
    /\ Requested(r) = Requested(c) /\ Misses(r) = Misses(c)

\* To LRUCaches, r is what a request for line l makes of c, a cache of a ways.
Answers(c, r, l, a) ==
    /\ Sets(r) = Sets(c)
    /\ \A s \in Sets(c) :
           Tags(r.sets[s]) = IF s = IndexOf(c, l)
                             THEN FirstLevel!Used(Tags(c.sets[s]), TagOf(c, l), a)
                             ELSE Tags(c.sets[s])
    /\ Requested(r) = Requested(c) + 1
    /\ Misses(r) = Misses(c) + (IF FirstLevel!Holding(Tags(SetOf(c, l)), TagOf(c, l))
                                THEN 0 ELSE 1)

LEMMA CacheSets ==
    ASSUME NEW n \in Nat \ {0}, NEW a \in Nat \ {0}, NEW c \in CacheOf(n, a)
    PROVE  /\ Sets(c) = 0 .. n - 1 /\ Ways(c) = 0 .. a - 1
           /\ \A s \in 0 .. n - 1 : c.sets[s] \in LinesOfSet(a) /\ DOMAIN c.sets[s] = 0 .. a - 1
BY DEF CacheOf, SetsOf, LinesOfSet, Sets, Ways

\* The sequence of a set depends on the tags and times of the valid ways only.
LEMMA SameTags ==
    ASSUME NEW a \in Nat \ {0}, NEW set \in LinesOfSet(a), NEW new \in LinesOfSet(a), Apart(set),
           \A w \in 0 .. a - 1 : /\ new[w].valid <=> set[w].valid
                                 /\ new[w].tag = set[w].tag
                                 /\ new[w].last_access_time = set[w].last_access_time
    PROVE  Valid(new) = Valid(set) /\ Tags(new) = Tags(set) /\ Apart(new)
<1>1. PICK n, f : Listed(set, n, f)
  BY ApartAreListed
<1>2. Valid(set) \in SUBSET (0 .. a - 1) /\ Valid(new) = Valid(set)
  BY DEF Valid, LinesOfSet
<1>3. Listed(new, n, f)
  BY <1>1, <1>2 DEF Listed
<1>4. Tags(new) = [j \in 1 .. n |-> new[f[j]].tag] /\ Tags(set) = [j \in 1 .. n |-> set[f[j]].tag]
  BY <1>1, <1>3, ListGivesTags
<1>5. ASSUME NEW j \in 1 .. n PROVE new[f[j]].tag = set[f[j]].tag
  BY <1>1, <1>2 DEF Listed
<1>6. Apart(new)
  BY <1>3, ListedAreApart
<1> QED  BY <1>2, <1>4, <1>5, <1>6

LEMMA SameLinesRest ==
    ASSUME NEW n \in Nat \ {0}, NEW a \in Nat \ {0}, NEW c \in CacheOf(n, a),
           NEW r \in CacheOf(n, a), SameLines(c, r), r.index_span = c.index_span,
           NEW t, Separate(c, t),
           Requested(r) = Requested(c), Misses(r) = Misses(c)
    PROVE  Rests(c, r) /\ Separate(r, t)
<1>1. /\ Sets(c) = 0 .. n - 1 /\ Sets(r) = 0 .. n - 1 /\ Ways(c) = 0 .. a - 1
      /\ \A s \in 0 .. n - 1 : c.sets[s] \in LinesOfSet(a) /\ r.sets[s] \in LinesOfSet(a)
  BY CacheSets
<1>2. ASSUME NEW s \in Sets(c)
      PROVE  /\ Tags(r.sets[s]) = Tags(c.sets[s]) /\ Apart(r.sets[s])
             /\ \A w \in Valid(r.sets[s]) : r.sets[s][w].last_access_time < t
  <2>1. PICK set \in LinesOfSet(a), new \in LinesOfSet(a) : set = c.sets[s] /\ new = r.sets[s]
    BY <1>1
  <2>2. Apart(set) /\ \A w \in Valid(set) : set[w].last_access_time < t
    BY <2>1 DEF Separate
  <2>3. \A w \in 0 .. a - 1 : /\ new[w].valid <=> set[w].valid
                              /\ new[w].tag = set[w].tag
                              /\ new[w].last_access_time = set[w].last_access_time
    BY <1>1, <2>1 DEF SameLines
  <2>4. Valid(new) = Valid(set) /\ Tags(new) = Tags(set) /\ Apart(new)
    BY <2>2, <2>3, SameTags
  <2>5. \A w \in Valid(new) : new[w].last_access_time = set[w].last_access_time
    BY <2>3, <2>4 DEF Valid, LinesOfSet
  <2> QED  BY <2>1, <2>2, <2>4, <2>5
<1> QED  BY <1>1, <1>2 DEF Rests, Separate

\* c with this line in way w of its set, now, where LRUCaches puts its tag.
LEMMA PutServes ==
    ASSUME NEW n \in Nat \ {0}, NEW a \in Nat \ {0}, NEW c \in CacheOf(n, a),
           NEW r \in CacheOf(n, a), NEW now \in Nat, Separate(c, now),
           NEW t, NEW O, NEW m, Fine(c, t, O, m), NEW l \in Nat, NEW w \in 0 .. a - 1, NEW line,
           Put(c, r, IndexOf(c, l), w, line),
           line.valid, line.tag = TagOf(c, l), line.last_access_time = now,
           Chosen(SetOf(c, l), TagOf(c, l), w)
    PROVE  /\ Sets(r) = Sets(c) /\ Separate(r, now + 1)
           /\ \A s \in Sets(c) :
                  Tags(r.sets[s]) = IF s = IndexOf(c, l)
                                    THEN FirstLevel!Used(Tags(c.sets[s]), TagOf(c, l), a)
                                    ELSE Tags(c.sets[s])
<1>1. /\ Sets(c) = 0 .. n - 1 /\ Sets(r) = 0 .. n - 1 /\ Ways(c) = 0 .. a - 1
      /\ \A s \in 0 .. n - 1 : c.sets[s] \in LinesOfSet(a) /\ r.sets[s] \in LinesOfSet(a)
  BY CacheSets
<1>2. PICK j \in Sets(c) : j = IndexOf(c, l)
  BY <1>1, Address
<1>3. ASSUME NEW s \in Sets(c)
      PROVE  /\ Tags(r.sets[s]) = IF s = j THEN FirstLevel!Used(Tags(c.sets[s]), TagOf(c, l), a)
                                  ELSE Tags(c.sets[s])
             /\ Apart(r.sets[s])
             /\ \A v \in Valid(r.sets[s]) : r.sets[s][v].last_access_time < now + 1
  <2>1. PICK set \in LinesOfSet(a), new \in LinesOfSet(a) : set = c.sets[s] /\ new = r.sets[s]
    BY <1>1
  <2>2. /\ Apart(set)
        /\ \A v \in Valid(set) : set[v].last_access_time < now
    BY <2>1 DEF Separate
  <2>3. \A v \in 0 .. a - 1 : new[v] = IF s = j /\ v = w THEN line ELSE set[v]
    BY <1>1, <1>2, <2>1 DEF Put
  <2>4. /\ DOMAIN set = 0 .. a - 1 /\ Valid(set) \in SUBSET (0 .. a - 1)
        /\ \A v \in 0 .. a - 1 : v \in Valid(set) <=> set[v].valid
        /\ \A v \in 0 .. a - 1 : v \in Valid(new) <=> new[v].valid
        /\ Valid(new) \in SUBSET (0 .. a - 1)
        /\ \A v \in 0 .. a - 1 : set[v].last_access_time \in Nat
    BY ValidWays
  <2>5. \A v \in Valid(new) : new[v].last_access_time < now + 1
    BY <2>2, <2>3, <2>4
  <2>6. CASE s # j
    <3>1. Tags(new) = Tags(set) /\ Apart(new)
      BY <2>2, <2>3, <2>6, SameTags
    <3> QED  BY <2>1, <2>5, <2>6, <3>1
  <2>7. CASE s = j
    <3>1. WayIsUsed(set, new, w, now)
      BY <2>2, <2>3, <2>4, <2>7 DEF WayIsUsed
    <3>2. new[w].tag = TagOf(c, l)
      BY <2>3, <2>7
    <3>3. Chosen(set, new[w].tag, w)
      BY <1>2, <2>1, <2>7, <3>2 DEF SetOf
    <3>4. \A u, v \in Valid(set) : u # v => set[u].tag # set[v].tag
      BY <1>1, <2>1, <2>4 DEF Fine
    <3>5. Apart(new) /\ Tags(new) = FirstLevel!Used(Tags(set), new[w].tag, a)
      BY <2>2, <3>1, <3>3, <3>4, UseIsUsed
    <3> QED  BY <2>1, <2>5, <2>7, <3>2, <3>5
  <2> QED  BY <2>6, <2>7
<1> QED  BY <1>1, <1>2, <1>3 DEF Separate

LEMMA HoldsTag ==
    ASSUME NEW a \in Nat \ {0}, NEW set \in LinesOfSet(a), Apart(set), NEW t
    PROVE  FirstLevel!Holding(Tags(set), t) <=> \E v \in Valid(set) : set[v].tag = t
<1>1. PICK n, f : Listed(set, n, f)
  BY ApartAreListed
<1>2. /\ DOMAIN Tags(set) = 1 .. n
      /\ \A j \in 1 .. n : Tags(set)[j] = set[f[j]].tag
  BY <1>1, TagsAre
<1>3. /\ \A j \in 1 .. n : f[j] \in Valid(set)
      /\ \A v \in Valid(set) : \E j \in 1 .. n : f[j] = v
  BY <1>1 DEF Listed
<1> QED  BY <1>2, <1>3 DEF FirstLevel!Holding

\* An access that hits answers the request; after one that does not, the install does.
LookAnswered(c, l, w, k, now, a, x) ==
    IF x.hit THEN Answers(c, x.cache, l, a) /\ Separate(x.cache, now + 1)
    ELSE \A r : Installs(x.cache, l, w, k, now, r) =>
                    Answers(c, r, l, a) /\ Separate(r, now + 1)

LEMMA LookAnswers ==
    ASSUME NEW n \in Nat \ {0}, NEW a \in Nat \ {0}, NEW c \in CacheOf(n, a), NEW now \in Nat,
           NEW O, NEW m, Fine(c, now, O, m), Separate(c, now), c.replacement_policy = "LRU",
           NEW l \in Nat, NEW k \in Cores, k = Owner(l), NEW w \in BOOLEAN,
           NEW x, Looks(c, l, w, k, now, x)
    PROVE  LookAnswered(c, l, w, k, now, a, x)
<1>1. PICK data \in BOOLEAN : x = cache_access(c, l, w, k, now, data)
  BY DEF Looks
<1>2. AccessOutcome(n, a, c, l, w, k, now, data, x)
  BY <1>1, AccessFacts
<1>3. PICK j \in Sets(c) : j = IndexOf(c, l)
  BY CacheSets, Address
<1>4. PICK set \in LinesOfSet(a) : set = c.sets[j] /\ set = SetOf(c, l) /\ Apart(set)
  BY <1>3, CacheSets DEF SetOf, Separate
<1>5. /\ DOMAIN set = 0 .. a - 1 /\ Ways(c) = 0 .. a - 1
      /\ \A y \in 0 .. a - 1 : set[y] \in Line
  BY CacheSets DEF LinesOfSet
<1>6. HitWays(c, l, k) = Copies(c, l)
  BY HitsAreCopies
<1>7. PICK t : t = TagOf(c, l)
  OBVIOUS
<1>8. PICK H : H = Copies(c, l)
  OBVIOUS
<1>9. H = {v \in Valid(set) : set[v].tag = t}
  BY <1>4, <1>5, <1>7, <1>8 DEF Copies, Valid
<1>10. FirstLevel!Holding(Tags(SetOf(c, l)), TagOf(c, l)) <=> H # {}
  BY <1>4, <1>7, <1>9, HoldsTag
<1>11. PICK b \in CacheOf(n, a) : b = x.cache
  BY <1>2 DEF AccessOutcome
<1>12. /\ x.hit <=> H # {}
       /\ Misses(b) = Misses(c) + (IF H # {} THEN 0 ELSE 1)
       /\ b.stat_read_access = c.stat_read_access + (IF w THEN 0 ELSE 1)
       /\ b.stat_write_access = c.stat_write_access + (IF w THEN 1 ELSE 0)
       /\ b.replacement_policy = "LRU" /\ b.index_span = c.index_span
       /\ H = {} => b.sets = c.sets
       /\ H # {} => \E h \in H :
              Put(c, b, IndexOf(c, l), h, Accessed(SetOf(c, l)[h], w, now, data))
  BY <1>2, <1>6, <1>8, <1>11 DEF AccessOutcome
<1>13. Requested(b) = Requested(c) + 1
  <2>1. c.stat_read_access \in Nat /\ c.stat_write_access \in Nat
    BY DEF CacheOf
  <2> QED  BY <1>12, <2>1 DEF Requested
<1>14. CASE x.hit
  <2>1. PICK h \in H : Put(c, b, IndexOf(c, l), h, Accessed(SetOf(c, l)[h], w, now, data))
    BY <1>12, <1>14
  <2>2. h \in Valid(set) /\ h \in 0 .. a - 1 /\ set[h].tag = t /\ set[h].valid
    BY <1>5, <1>9 DEF Valid
  <2>3. PICK new : new = Accessed(set[h], w, now, data)
    OBVIOUS
  <2>4. LineAccessed(set[h], new, w, now, data)
    BY <1>5, <2>2, <2>3, AccessedType
  <2>5. new.valid /\ new.tag = TagOf(c, l) /\ new.last_access_time = now
    BY <1>7, <2>2, <2>4 DEF LineAccessed
  <2>6. Chosen(SetOf(c, l), TagOf(c, l), h)
    BY <1>4, <1>7, <2>2 DEF Chosen
  <2>7. Put(c, b, IndexOf(c, l), h, new)
    BY <1>4, <2>1, <2>3
  <2>8. /\ Sets(b) = Sets(c) /\ Separate(b, now + 1)
        /\ \A s \in Sets(c) :
               Tags(b.sets[s]) = IF s = IndexOf(c, l)
                                 THEN FirstLevel!Used(Tags(c.sets[s]), TagOf(c, l), a)
                                 ELSE Tags(c.sets[s])
    BY <2>2, <2>5, <2>6, <2>7, PutServes
  <2>9. Answers(c, b, l, a)
    BY <1>10, <1>12, <1>13, <1>14, <2>8 DEF Answers
  <2> QED  BY <1>11, <1>14, <2>8, <2>9 DEF LookAnswered
<1>15. CASE ~ x.hit
  <2> SUFFICES ASSUME NEW r, Installs(b, l, w, k, now, r)
               PROVE  Answers(c, r, l, a) /\ Separate(r, now + 1)
    BY <1>11, <1>15 DEF LookAnswered
  <2>1. PICK put \in BOOLEAN : r = cache_install(b, l, w, k, now, put)
    BY DEF Installs
  <2>2. InstallOutcome(n, a, b, l, w, k, now, put, r)
    BY <2>1, InstallFacts
  <2>3. b.sets = c.sets /\ H = {}
    BY <1>12, <1>15
  <2>4. IndexOf(b, l) = IndexOf(c, l) /\ TagOf(b, l) = TagOf(c, l) /\ SetOf(b, l) = set
    BY <1>4, <1>12, <2>3 DEF IndexOf, TagOf, SetOf
  <2>5. PICK y : y = cache_find_victim(b, set, k)
    OBVIOUS
  <2>6. y = Victim(b, l, k)
    BY <2>4, <2>5 DEF Victim
  <2>7. LeastRecent(set, a, y)
    BY <1>12, <2>5, LRUVictim
  <2>8. y \in 0 .. a - 1
    BY <2>7 DEF LeastRecent
  <2>9. PICK new : new = Installed(b, l, w, k, now, put)
    OBVIOUS
  <2>10. new.valid /\ new.tag = TagOf(c, l) /\ new.last_access_time = now
    BY <2>4, <2>9 DEF Installed
  <2>11. Put(c, r, IndexOf(c, l), y, new)
    <3>1. Put(b, r, IndexOf(b, l), y, new)
      BY <2>2, <2>6, <2>8, <2>9 DEF InstallOutcome
    <3> QED  BY <1>12, <2>3, <2>4, <3>1 DEF Put, Ways, Sets
  <2>12. Chosen(SetOf(c, l), TagOf(c, l), y)
    <3>1. ~ \E v \in Valid(set) : set[v].tag = t
      BY <1>9, <2>3
    <3>2. y \in Valid(set) => /\ Valid(set) = DOMAIN set
                              /\ \A v \in DOMAIN set :
                                     set[y].last_access_time <= set[v].last_access_time
      BY <1>5, <2>7 DEF LeastRecent, Valid
    <3> QED  BY <1>4, <1>7, <3>1, <3>2 DEF Chosen
  <2>13. r \in CacheOf(n, a) /\ Requested(r) = Requested(b) /\ Misses(r) = Misses(b)
    BY <2>2 DEF InstallOutcome, Requested
  <2>14. /\ Sets(r) = Sets(c) /\ Separate(r, now + 1)
         /\ \A s \in Sets(c) :
                Tags(r.sets[s]) = IF s = IndexOf(c, l)
                                  THEN FirstLevel!Used(Tags(c.sets[s]), TagOf(c, l), a)
                                  ELSE Tags(c.sets[s])
    BY <2>8, <2>10, <2>11, <2>12, <2>13, PutServes
  <2> QED  BY <1>10, <1>12, <1>13, <2>3, <2>13, <2>14 DEF Answers
<1> QED  BY <1>14, <1>15

\* To LRUCaches, r is what c was, and its ways are as far apart.
Stays(c, r) == Rests(c, r) /\ \A t : Separate(c, t) => Separate(r, t)

LEMMA RestsAgain ==
    ASSUME NEW c, NEW d, NEW r, Stays(c, d), Stays(d, r)
    PROVE  Stays(c, r)
BY DEF Stays, Rests

LEMMA AnswersAndRests ==
    ASSUME NEW c, NEW d, NEW r, NEW l, NEW a, Answers(c, d, l, a), Rests(d, r)
    PROVE  Answers(c, r, l, a)
BY DEF Rests, Answers

LEMMA RestsAndAnswers ==
    ASSUME NEW n \in Nat \ {0}, NEW a \in Nat \ {0}, NEW c \in CacheOf(n, a), NEW l \in Nat,
           NEW d, NEW r, NEW b, Rests(c, d), Answers(d, r, l, b)
    PROVE  Answers(c, r, l, b)
<1>1. IndexOf(d, l) = IndexOf(c, l) /\ TagOf(d, l) = TagOf(c, l)
  BY DEF Rests, IndexOf, TagOf
<1>2. IndexOf(c, l) \in Sets(c)
  BY CacheSets, Address
<1>3. Tags(SetOf(d, l)) = Tags(SetOf(c, l))
  BY <1>1, <1>2 DEF Rests, SetOf
<1> QED  BY <1>1, <1>3 DEF Rests, Answers

LEMMA OutdateStays ==
    ASSUME NEW n \in Nat \ {0}, NEW a \in Nat \ {0}, NEW c \in CacheOf(n, a), NEW q \in Requests,
           NEW t, Separate(c, t), NEW d, d = Outdate(c, q)
    PROVE  Stays(c, d)
<1>1. /\ d \in CacheOf(n, a) /\ d.index_span = c.index_span
      /\ d.stat_read_access = c.stat_read_access /\ d.stat_write_access = c.stat_write_access
      /\ Misses(d) = Misses(c) /\ SameLines(c, d)
  BY OutdateLines
<1>2. Requested(d) = Requested(c)
  BY <1>1 DEF Requested
<1>3. Rests(c, d)
  BY <1>1, <1>2, SameLinesRest
<1>4. ASSUME NEW u, Separate(c, u) PROVE Separate(d, u)
  BY <1>1, <1>2, <1>4, SameLinesRest
<1> QED  BY <1>3, <1>4 DEF Stays

\* To LRUCaches, cache n of core k has been asked for line l, and no other cache.
LevelAnswered(s, n, k, l, now, z) ==
    \A m \in L1s : \A j \in Cores :
        IF m = n /\ j = k
        THEN Answers(s[m][j], z[m][j], l, WayCount(m)) /\ Separate(z[m][j], now + 1)
        ELSE Stays(s[m][j], z[m][j])

\* The first-level caches are under LRU, and have been used at most once a cycle.
LevelSettled(s) ==
    \A m \in L1s : \A j \in Cores :
        s[m][j].replacement_policy = "LRU" /\ \E t : Separate(s[m][j], t)

LEMMA ThroughAnswers ==
    ASSUME NEW s, NEW q, NEW k, Asked(s, q, k), LevelSettled(s),
           NEW n \in L1s, Separate(s[n][k], q.now),
           NEW y \in MemType, AllFine(y, q.now),
           \A m \in L1s : \A j \in Cores : y[m][j] = Outdate(s[m][j], q),
           NEW a, Looks(y[n][k], q.line, IsWrite(q), k, q.now, a),
           NEW z, OnlyL1(y, n, k, z),
           IF a.hit THEN z[n][k] = a.cache
           ELSE Installs(a.cache, q.line, IsWrite(q), k, q.now, z[n][k])
    PROVE  LevelAnswered(s, n, k, q.line, q.now, z)
<1>1. s \in MemType /\ q \in Requests /\ k \in Cores /\ k = Owner(q.line)
  BY DEF Asked
<1>2. PICK now \in Nat, l \in Nat : now = q.now /\ l = q.line
  BY <1>1 DEF Requests
<1>3. PICK w \in BOOLEAN : w = IsWrite(q)
  BY DEF IsWrite
<1>4. ASSUME NEW m \in L1s, NEW j \in Cores PROVE Stays(s[m][j], y[m][j])
  <2>1. PICK h, v \in Nat \ {0} : h = SetCount(m) /\ v = WayCount(m)
    BY L1Shape
  <2>2. PICK c \in CacheOf(h, v) : c = s[m][j]
    BY <1>1, <2>1, L1Type DEF L1Cache
  <2>3. PICK t : Separate(c, t)
    BY <2>2 DEF LevelSettled
  <2>4. y[m][j] = Outdate(c, q)
    BY <2>2
  <2> QED  BY <1>1, <2>2, <2>3, <2>4, OutdateStays
<1>5. /\ Answers(s[n][k], z[n][k], l, WayCount(n))
      /\ Separate(z[n][k], now + 1)
  <2>1. PICK h, v \in Nat \ {0} : h = SetCount(n) /\ v = WayCount(n)
    BY L1Shape
  <2>2. PICK c \in CacheOf(h, v), d \in CacheOf(h, v) : c = s[n][k] /\ d = y[n][k]
    BY <1>1, <2>1, L1Type DEF L1Cache
  <2>3. Stays(c, d)
    BY <1>1, <1>4, <2>2
  <2>4. Fine(d, now, {k}, IsWritten(n)) /\ Separate(d, now)
    BY <1>1, <1>2, <2>2, <2>3 DEF AllFine, Stays
  <2>5. d.replacement_policy = "LRU"
    <3>1. c.replacement_policy = "LRU"
      BY <1>1, <2>2 DEF LevelSettled
    <3>2. d = Outdate(c, q)
      BY <1>1, <2>2
    <3> QED  BY <1>1, <3>1, <3>2, OutdateLines
  <2>6. Looks(d, l, w, k, now, a) /\ k = Owner(l) /\ k \in Cores
    BY <1>1, <1>2, <1>3, <2>2
  <2>7. LookAnswered(d, l, w, k, now, v, a)
    BY <1>2, <1>3, <2>4, <2>5, <2>6, LookAnswers
  <2>8. PICK r : r = z[n][k]
    OBVIOUS
  <2>9. Answers(d, r, l, v) /\ Separate(r, now + 1)
    <3>1. CASE a.hit
      BY <2>7, <2>8, <3>1 DEF LookAnswered
    <3>2. CASE ~ a.hit
      <4>1. Installs(a.cache, l, w, k, now, r)
        BY <1>2, <1>3, <2>8, <3>2
      <4> QED  BY <2>7, <3>2, <4>1 DEF LookAnswered
    <3> QED  BY <3>1, <3>2
  <2>10. Answers(c, r, l, v)
    BY <1>2, <2>3, <2>9, RestsAndAnswers DEF Stays
  <2> QED  BY <2>1, <2>2, <2>8, <2>9, <2>10
<1>6. ASSUME NEW m \in L1s, NEW j \in Cores, m # n \/ j # k PROVE Stays(s[m][j], z[m][j])
  <2>1. z[m][j] = y[m][j]
    BY <1>6 DEF OnlyL1
  <2> QED  BY <1>4, <2>1
<1> QED  BY <1>2, <1>5, <1>6 DEF LevelAnswered

LEMMA TwoLevelsAnswer ==
    ASSUME NEW s, NEW q, NEW k, Asked(s, q, k), NEW z, TwoLevelsGo(s, q, k, z), ~ Fault(z),
           LevelSettled(s), Separate(s[Level1(q)][k], q.now)
    PROVE  LevelAnswered(s, Level1(q), k, q.line, q.now, z)
<1>1. PICK n \in {Level1(q)}, y \in MemType, b \in MemType :
          \E a : TwoLevelsBy(s, q, k, n, y, a, b, z)
  BY Zenon DEF TwoLevelsGo
<1>2. PICK a :
        /\ \A m \in L1s : \A j \in Cores : y[m][j] = Outdate(s[m][j], q)
        /\ AllFine(y, q.now)
        /\ Looks(y[n][k], q.line, IsWrite(q), k, q.now, a)
        /\ b[n][k] = a.cache /\ OnlyL1(y, n, k, b)
        /\ IF a.hit THEN z = b
           ELSE \E u : /\ L2Goes(b, q.line, k, q.now, u)
                       /\ IF u.l2cache.fault THEN z = u
                          ELSE L1Goes(u, n, k, q.line, IsWrite(q), q.now, z)
  BY <1>1, Zenon DEF TwoLevelsBy
<1>3. n \in L1s /\ n = Level1(q) /\ k \in Cores /\ Separate(s[n][k], q.now)
  BY DEF Level1, L1s, Asked
<1>4. OnlyL1(y, n, k, z) /\ IF a.hit THEN z[n][k] = a.cache
                            ELSE Installs(a.cache, q.line, IsWrite(q), k, q.now, z[n][k])
  <2>1. CASE a.hit
    BY <1>2, <2>1
  <2>2. CASE ~ a.hit
    <3>1. PICK u : /\ L2Goes(b, q.line, k, q.now, u)
                   /\ IF u.l2cache.fault THEN z = u
                      ELSE L1Goes(u, n, k, q.line, IsWrite(q), q.now, z)
      BY <1>2, <2>2
    <3>2. L1Goes(u, n, k, q.line, IsWrite(q), q.now, z)
      BY <3>1 DEF Fault
    <3>3. \A m \in L1s : \A j \in Cores : u[m][j] = b[m][j]
      BY <3>1 DEF L2Goes
    <3>4. Installs(u[n][k], q.line, IsWrite(q), k, q.now, z[n][k]) /\ OnlyL1(u, n, k, z)
      BY <3>2 DEF L1Goes
    <3>5. u[n][k] = a.cache
      BY <1>2, <1>3, <3>3
    <3>6. OnlyL1(y, n, k, z)
      BY <1>2, <3>3, <3>4 DEF OnlyL1
    <3> QED  BY <2>2, <3>4, <3>5, <3>6
  <2> QED  BY <2>1, <2>2
<1>5. LevelAnswered(s, n, k, q.line, q.now, z)
  BY <1>2, <1>3, <1>4, ThroughAnswers
<1> QED  BY <1>3, <1>5

\* A request of core k; in mode A instructions are not fetched from a cache.
RequestAnswered(s, q, k, z) ==
    IF SIM_MODE = "A" /\ q.type = "IFETCH"
    THEN \A m \in L1s : \A j \in Cores : z[m][j] = s[m][j]
    ELSE LevelAnswered(s, Level1(q), k, q.line, q.now, z)

LEMMA GoesAnswers ==
    ASSUME NEW s, NEW q, NEW k, Asked(s, q, k), NEW z \in MemType, Goes(s, q, k, z), ~ Fault(z),
           LevelSettled(s), Separate(s[Level1(q)][k], q.now)
    PROVE  RequestAnswered(s, q, k, z)
<1>1. PICK x \in MemType :
        /\ SameCaches(x, z)
        /\ IF SIM_MODE = "A" THEN k = 0 /\ ModeAGoes(s, q, x) ELSE TwoLevelsGo(s, q, k, x)
  BY DEF Goes
<1>2. z.l2cache = x.l2cache /\ \A n \in L1s : \A j \in Cores : z[n][j] = x[n][j]
  BY <1>1 DEF SameCaches
<1>3. ~ Fault(x)
  BY <1>2, NoFault DEF L1Faultless
<1>4. CASE SIM_MODE # "A"
  <2>1. LevelAnswered(s, Level1(q), k, q.line, q.now, x)
    BY <1>1, <1>3, <1>4, TwoLevelsAnswer
  <2>2. LevelAnswered(s, Level1(q), k, q.line, q.now, z)
    BY <1>2, <2>1 DEF LevelAnswered
  <2> QED  BY <1>4, <2>2 DEF RequestAnswered
<1>5. CASE SIM_MODE = "A" /\ q.type = "IFETCH"
  <2>1. x = s
    BY <1>1, <1>5 DEF ModeAGoes
  <2> QED  BY <1>2, <1>5, <2>1 DEF RequestAnswered
<1>6. CASE SIM_MODE = "A" /\ q.type # "IFETCH"
  <2>1. k = 0 /\ ModeAGoes(s, q, x)
    BY <1>1, <1>6
  <2>2. PICK n \in L1s : n = "dcache" /\ n = Level1(q)
    BY <1>6 DEF L1s, Level1
  <2>3. PICK y \in MemType :
          \E a : /\ \A m \in L1s : \A j \in Cores : y[m][j] = Outdate(s[m][j], q)
                 /\ AllFine(y, q.now)
                 /\ Looks(y[n][k], q.line, IsWrite(q), k, q.now, a)
                 /\ OnlyL1(y, n, k, x)
                 /\ IF a.hit THEN x[n][k] = a.cache
                    ELSE Installs(a.cache, q.line, IsWrite(q), k, q.now, x[n][k])
    BY <1>6, <2>1, <2>2, Zenon DEF ModeAGoes
  <2>4. LevelAnswered(s, n, k, q.line, q.now, x)
    BY <2>2, <2>3, ThroughAnswers
  <2>5. LevelAnswered(s, n, k, q.line, q.now, z)
    BY <1>2, <2>4 DEF LevelAnswered
  <2> QED  BY <1>6, <2>2, <2>5 DEF RequestAnswered
<1> QED  BY <1>4, <1>5, <1>6

\* The next instruction of core k asks something of cache m.
IsAsked(m, k) ==
    IF m = "icache" THEN SIM_MODE # "A" ELSE core[k].trace.inst_type \in {"LOAD", "STORE"}

\* To LRUCaches, z is what the instruction of core k leaves of the first level.
InstructionAnswered(k, z) ==
    \A m \in L1s : \A j \in Cores :
        IF j = k /\ IsAsked(m, j)
        THEN /\ Answers(sys[m][j], z[m][j], AskedLine(<<m, j>>), WayCount(m))
             /\ Separate(z[m][j], current_cycle + 1)
             /\ AskedLine(<<m, j>>) \in Nat
        ELSE Stays(sys[m][j], z[m][j])

LEMMA SeparateLater ==
    ASSUME NEW n \in Nat \ {0}, NEW a \in Nat \ {0}, NEW c \in CacheOf(n, a), NEW t \in Nat,
           Separate(c, t)
    PROVE  Separate(c, t + 1)
<1> SUFFICES ASSUME NEW s \in Sets(c), NEW w \in Valid(c.sets[s])
             PROVE  c.sets[s][w].last_access_time < t + 1
  BY DEF Separate
<1>1. c.sets[s] \in LinesOfSet(a)
  BY CacheSets
<1>2. PICK x : x = c.sets[s][w].last_access_time
  OBVIOUS
<1>3. x \in Nat
  BY <1>1, <1>2, ValidWays
<1>4. x < t
  BY <1>2 DEF Separate
<1> QED  BY <1>2, <1>3, <1>4

LEMMA StaysItself == \A c : Stays(c, c)
BY DEF Stays, Rests

LEMMA InstructionAnswers ==
    ASSUME CachesInv, CoresInv, NEW k \in Cores, NEW e, InstructionGoes(k, e),
           LevelSettled(sys), \A m \in L1s : Separate(sys[m][k], current_cycle),
           NEW z \in MemType, z = sys', ~ Fault(z)
    PROVE  InstructionAnswered(k, z)
<1>1. PICK now \in Nat : now = current_cycle
  BY MemSimAssumption DEF CoresInv
<1>2. PICK D : D = (core[k].trace.inst_type \in {"LOAD", "STORE"})
  OBVIOUS
<1>3. ~ Fault(e) /\ e \in MemType
  BY DEF InstructionGoes
<1>4. PICK q \in Requests : /\ IsRequest(q, "icache", k, "IFETCH")
                            /\ Asked(sys, q, k) /\ Goes(sys, q, k, e)
  BY DEF InstructionGoes
<1>5. PICK l \in Nat : l = q.line /\ l = AskedLine(<<"icache", k>>)
  BY <1>4 DEF IsRequest, Requests
<1>6. q.type = "IFETCH" /\ q.now = now /\ Level1(q) = "icache"
  BY <1>1, <1>4 DEF IsRequest, Level1
<1>7. RequestAnswered(sys, q, k, e)
  BY <1>1, <1>3, <1>4, <1>6, GoesAnswers DEF L1s
<1>8. ASSUME NEW m \in L1s, NEW j \in Cores
      PROVE  IF m = "icache" /\ j = k /\ SIM_MODE # "A"
             THEN /\ Answers(sys[m][j], e[m][j], l, WayCount(m))
                  /\ Separate(e[m][j], now + 1)
             ELSE Stays(sys[m][j], e[m][j])
  <2>1. CASE SIM_MODE = "A"
    BY <1>6, <1>7, <2>1, StaysItself DEF RequestAnswered
  <2>2. CASE SIM_MODE # "A"
    BY <1>5, <1>6, <1>7, <2>2 DEF RequestAnswered, LevelAnswered
  <2> QED  BY <2>1, <2>2
<1>9. CASE D
  <2>1. PICK p \in Requests : /\ IsRequest(p, "dcache", k, core[k].trace.inst_type)
                              /\ Asked(e, p, k) /\ Goes(e, p, k, z)
    BY <1>2, <1>3, <1>9 DEF InstructionGoes
  <2>2. PICK d \in Nat : d = p.line /\ d = AskedLine(<<"dcache", k>>)
    BY <2>1 DEF IsRequest, Requests
  <2>3. p.type # "IFETCH" /\ p.now = now /\ Level1(p) = "dcache"
    BY <1>1, <1>2, <1>9, <2>1 DEF IsRequest, Level1
  <2>4. LevelSettled(e)
    <3> SUFFICES ASSUME NEW m \in L1s, NEW j \in Cores
                 PROVE  e[m][j].replacement_policy = "LRU" /\ \E t : Separate(e[m][j], t)
      BY DEF LevelSettled
    <3>1. e[m][j].replacement_policy = "LRU"
      BY DEF InstructionGoes, SamePolicies, LevelSettled
    <3>2. PICK t : Separate(sys[m][j], t)
      BY DEF LevelSettled
    <3>3. Separate(e[m][j], now + 1) \/ Separate(e[m][j], t)
      BY <1>8, <3>2 DEF Stays
    <3> QED  BY <3>1, <3>3
  <2>5. Separate(e["dcache"][k], now)
    BY <1>1, <1>8 DEF L1s, Stays
  <2>6. LevelAnswered(e, "dcache", k, d, now, z)
    <3>1. RequestAnswered(e, p, k, z)
      BY <2>1, <2>3, <2>4, <2>5, GoesAnswers
    <3> QED  BY <2>2, <2>3, <3>1 DEF RequestAnswered
  <2> SUFFICES ASSUME NEW m \in L1s, NEW j \in Cores
               PROVE  IF j = k /\ IsAsked(m, j)
                      THEN /\ Answers(sys[m][j], z[m][j], AskedLine(<<m, j>>), WayCount(m))
                           /\ Separate(z[m][j], now + 1) /\ AskedLine(<<m, j>>) \in Nat
                      ELSE Stays(sys[m][j], z[m][j])
    BY <1>1 DEF InstructionAnswered
  <2>7. PICK c, b, r : c = sys[m][j] /\ b = e[m][j] /\ r = z[m][j]
    OBVIOUS
  <2>8. CASE m = "dcache" /\ j = k
    <3>1. Answers(b, r, d, WayCount(m)) /\ Separate(r, now + 1)
      BY <2>6, <2>7, <2>8 DEF LevelAnswered
    <3>2. Rests(c, b)
      BY <1>8, <2>7, <2>8 DEF Stays
    <3>3. c \in CacheOf(SetCount(m), WayCount(m)) /\ SetCount(m) \in Nat \ {0}
          /\ WayCount(m) \in Nat \ {0}
      BY <2>7, L1Type, L1Shape DEF L1Cache, CachesInv
    <3>4. Answers(c, r, d, WayCount(m))
      BY <3>1, <3>2, <3>3, RestsAndAnswers
    <3> QED  BY <1>2, <1>9, <2>2, <2>7, <2>8, <3>1, <3>4 DEF IsAsked
  <2>9. CASE ~ (m = "dcache" /\ j = k)
    <3>1. Stays(b, r)
      BY <2>6, <2>7, <2>9 DEF LevelAnswered
    <3>2. CASE m = "icache" /\ j = k /\ SIM_MODE # "A"
      <4>1. Answers(c, b, l, WayCount(m)) /\ Separate(b, now + 1)
        BY <1>8, <2>7, <3>2
      <4>2. Answers(c, r, l, WayCount(m)) /\ Separate(r, now + 1)
        BY <3>1, <4>1, AnswersAndRests DEF Stays
      <4> QED  BY <1>5, <2>7, <3>2, <4>2 DEF IsAsked
    <3>3. CASE ~ (m = "icache" /\ j = k /\ SIM_MODE # "A")
      <4>1. Stays(c, b)
        BY <1>8, <2>7, <3>3
      <4>2. Stays(c, r)
        BY <3>1, <4>1, RestsAgain
      <4>3. ~ (j = k /\ IsAsked(m, j))
        BY <2>9, <3>3 DEF IsAsked, L1s
      <4> QED  BY <2>7, <4>2, <4>3
    <3> QED  BY <3>2, <3>3
  <2> QED  BY <2>8, <2>9
<1>10. CASE ~ D
  <2>1. z = e
    BY <1>2, <1>10 DEF InstructionGoes
  <2> SUFFICES ASSUME NEW m \in L1s, NEW j \in Cores
               PROVE  IF j = k /\ IsAsked(m, j)
                      THEN /\ Answers(sys[m][j], z[m][j], AskedLine(<<m, j>>), WayCount(m))
                           /\ Separate(z[m][j], now + 1) /\ AskedLine(<<m, j>>) \in Nat
                      ELSE Stays(sys[m][j], z[m][j])
    BY <1>1 DEF InstructionAnswered
  <2>2. j = k /\ IsAsked(m, j) <=> m = "icache" /\ j = k /\ SIM_MODE # "A"
    BY <1>2, <1>10 DEF IsAsked, L1s
  <2> QED  BY <1>5, <1>8, <2>1, <2>2
<1> QED  BY <1>9, <1>10

\* No first-level cache has been used in the cycle in which its core comes next.
SettledInv == \A m \in L1s : \A k \in Cores : Separate(sys[m][k], NextVisit(k))

LEMMA SettledIs ==
    ASSUME REPL_POLICY = "LRU", CachesInv, SettledInv
    PROVE  LevelSettled(sys)
BY DEF CachesInv, SettledInv, LevelSettled

\* The step of the first level.
LevelStep(z) ==
    \/ \A m \in L1s : \A k \in Cores : z[m][k] = sys[m][k]
    \/ \E k \in Cores : InstructionAnswered(k, z)

LEMMA LevelSteps ==
    ASSUME REPL_POLICY = "LRU", MemInv, MemInv', ~ Fault(sys), ~ Fault(sys)', SettledInv,
           [Next]_vars
    PROVE  SettledInv' /\ LevelStep(sys')
<1>1. /\ CachesInv /\ CoresInv /\ i \in 0 .. NUM_CORES
      /\ current_cycle \in Nat /\ NUM_CORES \in {1, 2}
  BY MemSimAssumption, ZeroIsACore DEF MemInv, CoresInv
<1>2. PICK z \in MemType : z = sys'
  BY DEF MemInv, CachesInv
<1>3. ~ Fault(z)
  BY <1>2 DEF Fault
<1>4. CASE CoreExecutes
  <2>1. PICK k, e : k = i /\ k \in Cores /\ InstructionGoes(k, e)
    BY <1>1, <1>4, InstructionPath
  <2>2. current_cycle' = current_cycle /\ i' = i + 1
    BY <1>4 DEF CoreExecutes, CallNextCore
  <2>3. \A m \in L1s : Separate(sys[m][k], current_cycle)
    BY <1>1, <2>1 DEF SettledInv, NextVisit
  <2>4. InstructionAnswered(k, z)
    BY <1>1, <1>2, <1>3, <2>1, <2>3, InstructionAnswers, SettledIs
  <2>5. ASSUME NEW m \in L1s, NEW j \in Cores
        PROVE  Separate(z[m][j], IF i + 1 > j THEN current_cycle + 1 ELSE current_cycle)
    <3>1. i \in Nat /\ j \in Nat
      BY <1>1 DEF Cores
    <3>2. CASE j = k
      <4>1. Separate(z[m][j], current_cycle + 1)
        <5>1. CASE IsAsked(m, j)
          BY <2>4, <3>2, <5>1 DEF InstructionAnswered
        <5>2. CASE ~ IsAsked(m, j)
          <6>1. Separate(z[m][j], current_cycle)
            BY <2>3, <2>4, <3>2, <5>2 DEF InstructionAnswered, Stays
          <6>2. z[m][j] \in CacheOf(SetCount(m), WayCount(m))
                /\ SetCount(m) \in Nat \ {0} /\ WayCount(m) \in Nat \ {0}
            BY L1Type, L1Shape DEF L1Cache
          <6> QED  BY <1>1, <6>1, <6>2, SeparateLater
        <5> QED  BY <5>1, <5>2
      <4> QED  BY <2>1, <3>1, <3>2, <4>1
    <3>3. CASE j # k
      <4>1. Separate(z[m][j], NextVisit(j))
        BY <2>4, <3>3 DEF InstructionAnswered, Stays, SettledInv
      <4>2. i + 1 > j <=> i > j
        BY <2>1, <3>1, <3>3
      <4> QED  BY <4>1, <4>2 DEF NextVisit
    <3> QED  BY <3>2, <3>3
  <2> QED  BY <1>2, <2>1, <2>2, <2>4, <2>5 DEF SettledInv, NextVisit, LevelStep
<1>5. ASSUME sys' = sys, \A j \in Cores : NextVisit(j)' \in {NextVisit(j), NextVisit(j) + 1}
      PROVE  SettledInv' /\ LevelStep(sys')
  <2>1. ASSUME NEW m \in L1s, NEW j \in Cores PROVE Separate(sys[m][j], NextVisit(j)')
    <3>1. PICK t \in Nat : t = NextVisit(j)
      BY <1>1 DEF NextVisit
    <3>2. Separate(sys[m][j], t)
      BY <3>1 DEF SettledInv
    <3>3. sys[m][j] \in CacheOf(SetCount(m), WayCount(m))
          /\ SetCount(m) \in Nat \ {0} /\ WayCount(m) \in Nat \ {0}
      BY <1>1, L1Type, L1Shape DEF L1Cache, CachesInv
    <3>4. Separate(sys[m][j], t + 1)
      BY <3>2, <3>3, SeparateLater
    <3> QED  BY <1>5, <3>1, <3>2, <3>4
  <2> QED  BY <1>5, <2>1 DEF SettledInv, LevelStep
<1>6. CASE CoreIdle
  <2>1. sys' = sys /\ i' = i + 1 /\ current_cycle' = current_cycle
    BY <1>6 DEF CoreIdle, CallNextCore
  <2>2. ASSUME NEW j \in Cores PROVE NextVisit(j)' \in {NextVisit(j), NextVisit(j) + 1}
    BY <1>1, <2>1 DEF NextVisit, Cores
  <2> QED  BY <1>5, <2>1, <2>2
<1>7. CASE EndCycle
  <2>1. sys' = sys /\ i = NUM_CORES /\ i' = 0 /\ current_cycle' = current_cycle + 1
    BY <1>7 DEF EndCycle, EndOfTurn
  <2>2. ASSUME NEW j \in Cores PROVE NextVisit(j)' \in {NextVisit(j), NextVisit(j) + 1}
    BY <1>1, <2>1 DEF NextVisit, Cores
  <2> QED  BY <1>5, <2>1, <2>2
<1>8. CASE UNCHANGED vars
  <2>1. sys' = sys /\ i' = i /\ current_cycle' = current_cycle
    BY <1>8 DEF vars
  <2>2. ASSUME NEW j \in Cores PROVE NextVisit(j)' \in {NextVisit(j), NextVisit(j) + 1}
    BY <2>1 DEF NextVisit
  <2> QED  BY <1>5, <2>1, <2>2
<1> QED  BY <1>4, <1>6, <1>7, <1>8 DEF Next

LEMMA SettledInit == Init => SettledInv
<1> SUFFICES ASSUME Init, NEW m \in L1s, NEW k \in Cores
             PROVE  Separate(sys[m][k], NextVisit(k))
  BY DEF SettledInv
<1>1. PICK p \in L2CACHE_REPLS : sys = memsys_new(p)
  BY DEF Init
<1>2. SystemIsNew(sys)
  BY <1>1, NewSystem DEF Init
<1>3. IsNew(SetCount(m), WayCount(m), REPL_POLICY, sys[m][k])
  BY <1>2 DEF SystemIsNew
<1>4. \A s \in Sets(sys[m][k]) : Valid(sys[m][k].sets[s]) = {}
  BY <1>3, L1Shape, CacheSets DEF IsNew, Valid
<1> QED  BY <1>4 DEF Separate, Apart

-----------------------------------------------------------------------------
(* The refinement of LRUCaches. *)

LEMMA L1NamesAre ==
    ASSUME NEW n \in L1Names
    PROVE  \E m \in L1s : \E k \in Cores : n = <<m, k>> /\ n[1] = m /\ n[2] = k
BY DEF L1Names, L1s

LEMMA EmptyTags ==
    ASSUME NEW set, Valid(set) = {}
    PROVE  Tags(set) = <<>>
<1>1. Cardinality(Valid(set)) = 0
  BY FS_EmptySet
<1> QED  BY <1>1 DEF Tags

LEMMA FirstLevelBegins == Init => FirstLevel!LRUInit
<1> SUFFICES ASSUME Init PROVE FirstLevel!LRUInit
  OBVIOUS
<1>1. PICK p \in L2CACHE_REPLS : sys = memsys_new(p)
  BY DEF Init
<1>2. SystemIsNew(sys)
  BY <1>1, NewSystem DEF Init
<1>3. ASSUME NEW n \in L1Names
      PROVE  LET c == sys[n[1]][n[2]]
             IN  /\ [s \in Sets(c) |-> Tags(c.sets[s])] =
                        [s \in 0 .. SizeOf(n) \div (AssocOf(n) * CACHE_LINESIZE) - 1 |-> <<>>]
                 /\ c.stat_read_access + c.stat_write_access = 0 /\ Misses(c) = 0
  <2>1. PICK m \in L1s, k \in Cores : n = <<m, k>> /\ n[1] = m /\ n[2] = k
    BY L1NamesAre
  <2>2. PICK c : c = sys[n[1]][n[2]]
    OBVIOUS
  <2>3. IsNew(SetCount(m), WayCount(m), REPL_POLICY, c)
    BY <1>2, <2>1, <2>2 DEF SystemIsNew
  <2>4. SetCount(m) = SizeOf(n) \div (AssocOf(n) * CACHE_LINESIZE)
    BY <2>1 DEF SetCount, SizeOf, AssocOf, DSets, ISets, L1s
  <2>5. Sets(c) = 0 .. SetCount(m) - 1
    BY <2>3, L1Shape, CacheSets DEF IsNew
  <2>6. ASSUME NEW s \in Sets(c) PROVE Tags(c.sets[s]) = <<>>
    <3>1. Valid(c.sets[s]) = {}
      BY <2>3, L1Shape, CacheSets DEF IsNew, Valid
    <3> QED  BY <3>1, EmptyTags
  <2>7. c.stat_read_access + c.stat_write_access = 0 /\ Misses(c) = 0
    BY <2>3 DEF IsNew
  <2> QED  BY <2>2, <2>4, <2>5, <2>6, <2>7
<1> QED  BY <1>3 DEF FirstLevel!LRUInit

LEMMA RestIs ==
    ASSUME NEW n \in L1Names, NEW c, NEW r, c = sys[n[1]][n[2]], r = sys'[n[1]][n[2]], Rests(c, r)
    PROVE  FirstLevel!Rest(n)
<1>1. [s \in Sets(r) |-> Tags(r.sets[s])] = [s \in Sets(c) |-> Tags(c.sets[s])]
  BY DEF Rests
<1>2. /\ r.stat_read_access + r.stat_write_access = c.stat_read_access + c.stat_write_access
      /\ Misses(r) = Misses(c)
  BY DEF Rests, Requested
<1> QED  BY <1>1, <1>2 DEF FirstLevel!Rest, Misses, Sets, Tags

LEMMA ServeIs ==
    ASSUME NEW n \in L1Names, Asks(n), NEW c, NEW r, c = sys[n[1]][n[2]], r = sys'[n[1]][n[2]],
           NEW h \in Nat \ {0}, NEW a \in Nat \ {0}, c \in CacheOf(h, a), a = AssocOf(n),
           AskedLine(n) \in Nat, Answers(c, r, AskedLine(n), a)
    PROVE  FirstLevel!Serve(n)
<1>1. PICK l \in Nat : l = AskedLine(n)
  OBVIOUS
<1>2. PICK j, t : j = IndexOf(c, l) /\ t = TagOf(c, l)
  OBVIOUS
<1>3. j \in Sets(c) /\ t \in Nat
  <2>1. Sets(c) = 0 .. h - 1
    BY CacheSets
  <2>2. IndexOf(c, l) \in 0 .. h - 1 /\ TagOf(c, l) \in Nat
    BY Address
  <2> QED  BY <1>2, <2>1, <2>2
<1>4. [set |-> j, tag |-> t] # [set |-> 0, tag |-> -1]
  BY <1>3
<1>5. [s \in Sets(r) |-> Tags(r.sets[s])] =
          [[s \in Sets(c) |-> Tags(c.sets[s])]
              EXCEPT ![j] = FirstLevel!Used(@, t, a)]
  BY <1>1, <1>2, <1>3 DEF Answers
<1>6. /\ r.stat_read_access + r.stat_write_access = c.stat_read_access + c.stat_write_access + 1
      /\ Misses(r) = Misses(c) + (IF FirstLevel!Holding(Tags(c.sets[j]), t) THEN 0 ELSE 1)
  BY <1>1, <1>2 DEF Answers, Requested, SetOf
<1> QED  BY <1>1, <1>2, <1>3, <1>4, <1>5, <1>6 DEF FirstLevel!Serve, FirstLevel!NoRequest

LEMMA FirstLevelGoesOn ==
    ASSUME MemInv, MemInv', LevelStep(sys')
    PROVE  FirstLevel!LRUNext
<1>1. sys \in MemType /\ sys' \in MemType
  BY DEF MemInv, CachesInv
<1> SUFFICES ASSUME NEW n \in L1Names PROVE FirstLevel!Rest(n) \/ FirstLevel!Serve(n)
  BY DEF FirstLevel!LRUNext
<1>2. PICK m \in L1s, j \in Cores : n = <<m, j>> /\ n[1] = m /\ n[2] = j
  BY L1NamesAre
<1>3. PICK c, r : c = sys[m][j] /\ r = sys'[m][j]
  OBVIOUS
<1>4. CASE Rests(c, r)
  BY <1>2, <1>3, <1>4, RestIs
<1>5. CASE /\ IsAsked(m, j) /\ AskedLine(n) \in Nat
           /\ Answers(c, r, AskedLine(n), WayCount(m))
  <2>1. Asks(n)
    BY <1>2, <1>5 DEF Asks, IsAsked, L1s
  <2>2. WayCount(m) = AssocOf(n)
    BY <1>2 DEF WayCount, AssocOf, L1s
  <2>3. PICK h \in Nat \ {0}, a \in Nat \ {0} : h = SetCount(m) /\ a = WayCount(m)
    BY L1Shape
  <2>4. c \in CacheOf(h, a)
    BY <1>1, <1>3, <2>3, L1Type DEF L1Cache
  <2> QED  BY <1>2, <1>3, <1>5, <2>1, <2>2, <2>3, <2>4, ServeIs
<1>6. CASE \A p \in L1s : \A k \in Cores : sys'[p][k] = sys[p][k]
  <2>1. r = c
    BY <1>3, <1>6
  <2> QED  BY <1>4, <2>1, StaysItself DEF Stays
<1>7. CASE \E k \in Cores : InstructionAnswered(k, sys')
  <2>1. PICK z : z = sys'
    OBVIOUS
  <2>2. PICK k \in Cores : InstructionAnswered(k, z)
    BY <1>7, <2>1
  <2>3. CASE j = k /\ IsAsked(m, j)
    BY <1>2, <1>3, <1>5, <2>1, <2>2, <2>3 DEF InstructionAnswered
  <2>4. CASE ~ (j = k /\ IsAsked(m, j))
    BY <1>3, <1>4, <2>1, <2>2, <2>4 DEF InstructionAnswered, Stays
  <2> QED  BY <2>3, <2>4
<1> QED  BY <1>6, <1>7 DEF LevelStep

\* Under LRU the first-level caches do what sequences of tags in the order of
\* last use would: each request of an instruction finds what such a sequence
\* holds, misses and replaces the same, although the code keeps no order, only
\* the cycle of each way's last use (cache_access, cache_find_victim).  A core
\* asks each of its caches at most once a cycle, so that no two ways tie.
THEOREM FirstLevelIsLRUHolds ==
    ASSUME REPL_POLICY = "LRU", QuotasFit PROVE Spec => FirstLevelIsLRU
<1>1. MemInv /\ VictimIsAWay /\ SettledInv /\ MemInv' /\ VictimIsAWay' /\ [Next]_vars
          => SettledInv' /\ FirstLevel!LRUNext
  BY LevelSteps, FirstLevelGoesOn DEF VictimIsAWay
<1>2. MemInv /\ VictimIsAWay /\ SettledInv /\ MemInv' /\ VictimIsAWay' /\ [Next]_vars
          => SettledInv' /\ [FirstLevel!LRUNext]_(FirstLevel!lru_vars)
  BY <1>1
<1> QED
  BY <1>2, SettledInit, FirstLevelBegins, Invariant, VictimIsAlwaysAWay, PTL
     DEF Spec, FirstLevelIsLRU, FirstLevel!LRUSpec
=============================================================================
