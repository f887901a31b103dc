-------------------------- MODULE RateLimitsProofs ---------------------------
(***************************************************************************)
(* Proofs about RateLimits for any limits, any window, any tokens and      *)
(* finitely many addresses, under any mix of faults.                       *)
(***************************************************************************)
EXTENDS RateLimits, FiniteSetTheorems, SequenceTheorems, TLAPS

USE BoundsPositive, StaleIsOld, InvalidIsNone, FaultsKnown

-----------------------------------------------------------------------------
(* Sequences of ages, counted from their end                               *)

Ages == 0 .. Stale + 1
Young == 0 .. Window - 1

\* The k-th youngest entry.
Back(s, k) == s[Len(s) + 1 - k]

\* The oldest first.
Sorted(s) == \A j, k \in 1 .. Len(s) : j < k => Back(s, j) <= Back(s, k)

\* The youngest entry is the last one.
LEMMA BackIsLast ==
    ASSUME NEW s \in Seq(Ages), s # <<>>
    PROVE  Last(s) = Back(s, 1) /\ 1 \in 1 .. Len(s) /\ Last(s) \in Ages
    BY DEF Last, Back

\* Counted from its end a sequence has the entries it has from its start.
LEMMA BackType ==
    ASSUME NEW T, NEW s \in Seq(T), NEW k \in 1 .. Len(s)
    PROVE  Back(s, k) \in T
    BY DEF Back

\* Ages below the window are ages.
LEMMA YoungAges ==
    /\ Young \subseteq Ages /\ Ages \subseteq Nat /\ 0 \in Young
    /\ \A s \in Seq(Young) : s \in Seq(Ages)
    BY DEF Young, Ages

\* What a request adds: the sequence shifted by one place, its oldest entry
\* dropped if it had more than n.
LEMMA NotedShifts ==
    ASSUME NEW s \in Seq(Young), Sorted(s), NEW n \in Nat, NEW z, z = Noted(s, n)
    PROVE  /\ z \in Seq(Young) /\ Sorted(z)
           /\ Len(z) = IF Len(s) > n THEN Len(s) ELSE Len(s) + 1
           /\ Len(z) > 0 /\ Back(z, 1) = 0
           /\ \A k \in 1 .. Len(z) - 1 : k \in 1 .. Len(s) /\ Back(z, k + 1) = Back(s, k)
    <1> DEFINE u == IF Len(s) > n THEN Tail(s) ELSE s
    <1>1. /\ u \in Seq(Young)
          /\ Len(u) = IF Len(s) > n THEN Len(s) - 1 ELSE Len(s)
          /\ \A k \in 1 .. Len(u) : k \in 1 .. Len(s) /\ Back(u, k) = Back(s, k)
        <2>1. CASE Len(s) > n
            <3>1. s # <<>> /\ u = Tail(s)
                BY <2>1
            <3>2. /\ u \in Seq(Young) /\ Len(u) = Len(s) - 1
                  /\ \A i \in 1 .. Len(u) : u[i] = s[i + 1]
                BY <3>1, HeadTailProperties
            <3>3. ASSUME NEW k \in 1 .. Len(u)
                  PROVE  k \in 1 .. Len(s) /\ Back(u, k) = Back(s, k)
                <4>1. /\ Len(u) + 1 - k \in 1 .. Len(u)
                      /\ (Len(u) + 1 - k) + 1 = Len(s) + 1 - k
                    BY <3>2, <3>3
                <4> HIDE DEF u
                <4> QED
                    BY <3>2, <4>1 DEF Back
            <3> QED
                BY <2>1, <3>2, <3>3
        <2>2. CASE ~(Len(s) > n)
            BY <2>2
        <2> QED
            BY <2>1, <2>2
    <1>2. z = Append(u, 0)
        BY DEF Noted
    <1> HIDE DEF u
    <1>3. /\ z \in Seq(Young) /\ Len(z) = Len(u) + 1 /\ z[Len(z)] = 0
          /\ \A i \in 1 .. Len(u) : z[i] = u[i]
        BY <1>1, <1>2, YoungAges, AppendProperties
    <1>4. Len(u) \in Nat
        BY <1>1
    <1>5. Back(z, 1) = 0
        BY <1>3, <1>4 DEF Back
    <1>6. ASSUME NEW k \in 1 .. Len(u)
          PROVE  Back(z, k + 1) = Back(u, k)
        <2>1. Len(z) + 1 - (k + 1) = Len(u) + 1 - k /\ Len(u) + 1 - k \in 1 .. Len(u)
            BY <1>3, <1>4
        <2> QED
            BY <1>3, <2>1 DEF Back
    <1>7. Sorted(z)
        <2> SUFFICES ASSUME NEW j \in 1 .. Len(z), NEW k \in 1 .. Len(z), j < k
                     PROVE  Back(z, j) <= Back(z, k)
            BY DEF Sorted
        <2>1. k - 1 \in 1 .. Len(u) /\ Back(z, k) = Back(u, k - 1)
              /\ Back(u, k - 1) = Back(s, k - 1) /\ k - 1 \in 1 .. Len(s)
            <3>1. k - 1 \in 1 .. Len(u) /\ (k - 1) + 1 = k
                BY <1>3, <1>4
            <3> QED
                BY <1>1, <1>6, <3>1
        <2>2. CASE j = 1
            <3>1. Back(s, k - 1) \in Nat
                BY <2>1, BackType, YoungAges
            <3> QED
                BY <1>5, <2>1, <2>2, <3>1
        <2>3. CASE j # 1
            <3>1. j - 1 \in 1 .. Len(u) /\ (j - 1) + 1 = j /\ j - 1 < k - 1
                BY <1>3, <1>4, <2>1, <2>3
            <3>2. Back(z, j) = Back(s, j - 1) /\ j - 1 \in 1 .. Len(s)
                BY <1>1, <1>6, <3>1
            <3> QED
                BY <2>1, <3>1, <3>2 DEF Sorted
        <2> QED
            BY <2>2, <2>3
    <1> QED
        BY <1>1, <1>3, <1>4, <1>5, <1>6, <1>7

\* The expired entries of a sorted sequence are a prefix, and InWindow drops
\* exactly those.
LEMMA InWindowDrops ==
    ASSUME NEW s \in Seq(Ages), Sorted(s), NEW w, w = InWindow(s)
    PROVE  /\ w \in Seq(Young) /\ Sorted(w) /\ Len(w) <= Len(s)
           /\ \A k \in 1 .. Len(s) : Back(s, k) < Window <=> k <= Len(w)
           /\ \A k \in 1 .. Len(w) : k \in 1 .. Len(s) /\ Back(w, k) = Back(s, k)
    <1> DEFINE n == Len(s)
               E == {i \in DOMAIN s : s[i] >= Window}
               c == Cardinality(E)
    <1>1. n \in Nat /\ DOMAIN s = 1 .. n /\ \A i \in 1 .. n : s[i] \in Nat
        BY DEF Ages
    <1>2. \A i, j \in 1 .. n : i < j => s[i] >= s[j]
        <2> SUFFICES ASSUME NEW i \in 1 .. n, NEW j \in 1 .. n, i < j
                     PROVE  s[i] >= s[j]
            OBVIOUS
        <2>1. /\ n + 1 - j \in 1 .. n /\ n + 1 - i \in 1 .. n /\ n + 1 - j < n + 1 - i
              /\ n + 1 - (n + 1 - j) = j /\ n + 1 - (n + 1 - i) = i
            BY <1>1
        <2>2. Back(s, n + 1 - j) <= Back(s, n + 1 - i)
            BY <2>1 DEF Sorted
        <2> QED
            BY <1>1, <2>1, <2>2 DEF Back
    <1>3. IsFiniteSet(E) /\ c \in Nat /\ c <= n
        <2>1. IsFiniteSet(1 .. n) /\ Cardinality(1 .. n) = n
            BY <1>1, FS_Interval
        <2>2. E \subseteq 1 .. n
            BY <1>1
        <2> QED
            BY <2>1, <2>2, FS_Subset, FS_CardinalityType
    <1>4. ASSUME NEW j \in 1 .. n PROVE j \in E <=> j <= c
        <2>1. ASSUME j \in E PROVE j <= c
            <3>1. 1 .. j \subseteq E
                BY <1>1, <1>2, <2>1
            <3>2. Cardinality(1 .. j) = j
                BY FS_Interval
            <3> QED
                BY <1>3, <3>1, <3>2, FS_Subset
        <2>2. ASSUME j \notin E PROVE c < j
            <3>1. E \subseteq 1 .. (j - 1)
                <4> SUFFICES ASSUME NEW e \in E, ~(e < j) PROVE FALSE
                    BY <1>1
                <4>1. e \in 1 .. n /\ s[e] >= Window /\ e # j
                    BY <1>1, <2>2
                <4>2. s[j] >= s[e] /\ s[j] \in Nat /\ s[e] \in Nat
                    BY <1>1, <1>2, <4>1
                <4> QED
                    BY <1>1, <2>2, <4>1, <4>2
            <3>2. IsFiniteSet(1 .. (j - 1)) /\ Cardinality(1 .. (j - 1)) = j - 1
                BY FS_Interval
            <3>3. c <= j - 1
                BY <3>1, <3>2, FS_Subset
            <3> QED
                BY <1>3, <3>3
        <2> QED
            BY <1>3, <2>1, <2>2
    <1>5. w = SubSeq(s, c + 1, n)
        BY DEF InWindow
    <1>6. \A i \in 1 .. n : s[i] < Window <=> i > c
        BY <1>1, <1>3, <1>4
    <1> HIDE DEF E, c
    <1>7. /\ w \in Seq(Young) /\ Len(w) = n - c
          /\ \A i \in 1 .. n - c : w[i] = s[c + i]
        <2>1. \A i \in c + 1 .. n : s[i] \in Young
            BY <1>1, <1>3, <1>6 DEF Young
        <2>2. /\ SubSeq(s, c + 1, n) \in Seq(Young)
              /\ Len(SubSeq(s, c + 1, n)) = IF c + 1 <= n THEN n - (c + 1) + 1 ELSE 0
              /\ \A i \in 1 .. n - (c + 1) + 1 :
                    SubSeq(s, c + 1, n)[i] = s[(c + 1) + i - 1]
            BY <1>1, <1>3, <2>1, SubSeqProperties
        <2>3. n - (c + 1) + 1 = n - c
            BY <1>1, <1>3
        <2>4. c = n \/ c + 1 <= n
            <3>1. n \in Nat /\ c \in Nat /\ c <= n
                BY <1>1, <1>3
            <3> HIDE DEF n
            <3> QED
                BY <3>1
        <2>5. \A i \in 1 .. n - c : (c + 1) + i - 1 = c + i
            BY <1>1, <1>3
        <2>6. Len(w) = n - c
            <3>1. CASE c = n
                <4>1. ~(c + 1 <= n) /\ n - c = 0
                    BY <1>1, <3>1
                <4> QED
                    BY <1>5, <2>2, <4>1
            <3>2. CASE c + 1 <= n
                BY <1>5, <2>2, <2>3, <3>2
            <3> QED
                BY <2>4, <3>1, <3>2
        <2> QED
            BY <1>5, <2>2, <2>3, <2>5, <2>6
    <1>8. ASSUME NEW k \in 1 .. n
          PROVE  Back(s, k) < Window <=> k <= Len(w)
        <2>1. n + 1 - k \in 1 .. n
            BY <1>1
        <2>2. n + 1 - k > c <=> k <= n - c
            BY <1>1, <1>3
        <2> QED
            BY <1>6, <1>7, <2>1, <2>2 DEF Back
    <1>9. ASSUME NEW k \in 1 .. Len(w)
          PROVE  k \in 1 .. n /\ Back(w, k) = Back(s, k)
        <2>1. /\ k \in 1 .. n /\ (n - c) + 1 - k \in 1 .. n - c
              /\ c + ((n - c) + 1 - k) = n + 1 - k
            BY <1>1, <1>3, <1>7
        <2> QED
            BY <1>7, <2>1 DEF Back
    <1>10. Sorted(w)
        BY <1>7, <1>9 DEF Sorted
    <1>11. Len(w) <= Len(s)
        BY <1>1, <1>3, <1>7
    <1> QED
        BY <1>7, <1>8, <1>9, <1>10, <1>11

\* A tick makes every entry older, up to the age beyond use.
LEMMA OlderAges ==
    ASSUME NEW s \in Seq(Ages), Sorted(s), NEW z, z = Older(s)
    PROVE  /\ z \in Seq(Ages) /\ Sorted(z) /\ Len(z) = Len(s)
           /\ \A k \in 1 .. Len(s) :
                Back(z, k) = IF Back(s, k) > Stale THEN Back(s, k) ELSE Back(s, k) + 1
    <1>1. /\ z \in Seq(Ages) /\ Len(z) = Len(s)
          /\ \A i \in 1 .. Len(s) : z[i] = IF s[i] > Stale THEN s[i] ELSE s[i] + 1
        BY DEF Older, Ages
    <1>2. ASSUME NEW k \in 1 .. Len(s)
          PROVE  Back(z, k) = IF Back(s, k) > Stale THEN Back(s, k) ELSE Back(s, k) + 1
        <2>1. Len(s) + 1 - k \in 1 .. Len(s)
            OBVIOUS
        <2> QED
            BY <1>1, <2>1 DEF Back
    <1>3. \A k \in 1 .. Len(s) : Back(s, k) \in Nat
        BY BackType, YoungAges
    <1>4. Sorted(z)
        BY <1>1, <1>2, <1>3 DEF Sorted
    <1> QED
        BY <1>1, <1>2, <1>4
-----------------------------------------------------------------------------
(* The inductive invariant                                                 *)

\* Every sequence of ages is in order, and no window exceeds the maximum.
InOrder ==
    /\ \A a \in DOMAIN store : Sorted(store[a]) /\ Len(store[a]) <= AddressMax
    /\ \A a \in Addresses : Sorted(admitted[a])
    /\ \A t \in Tokens : Sorted(asked[t]) /\ Sorted(passed[t])

\* The table knows the k-th youngest request of an address and counts it.
Held(table, a, k) ==
    /\ a \in DOMAIN table
    /\ k \in 1 .. Len(table[a])
    /\ Back(table[a], k) < Window

\* What the table counts was let through.
Matched(table) ==
    \A a \in DOMAIN table : \A k \in 1 .. Len(table[a]) :
        Held(table, a, k) => /\ k \in 1 .. Len(admitted[a])
                             /\ Back(admitted[a], k) = Back(table[a], k)

\* The other addresses that were let through since a request of age x.
Recent(a, x) ==
    {b \in Addresses \ {a} : admitted[b] # <<>> /\ Back(admitted[b], 1) <= x}

\* What the table has forgotten it has forgotten for a crowd of younger ones.
Crowded(table) ==
    \A a \in Addresses : \A k \in 1 .. Len(admitted[a]) :
        ~Held(table, a, k) => Cardinality(Recent(a, Back(admitted[a], k))) >= MaxTracked

\* A counter that stands has an expiry that is no further away than a window
\* from the last request it counted; as long as Redis keeps the counters, each
\* request that passed is counted until it leaves the window.
Counters ==
    \A t \in Tokens :
        /\ counter[t] > 0 => /\ ttl[t] > 0
                             /\ asked[t] # <<>>
                             /\ Back(asked[t], 1) + ttl[t] <= Window
        /\ "loss" \notin faults =>
             /\ Len(passed[t]) <= counter[t] /\ Len(passed[t]) <= TokenMax
             /\ \A k \in 1 .. Len(passed[t]) : Back(passed[t], k) + ttl[t] >= Window

IInv == TypeOK /\ InOrder /\ Matched(store) /\ Crowded(store) /\ Counters /\ PauseRestores

\* The invariant holds before the first request.
THEOREM InvariantStarts == Init => IInv
    <1> SUFFICES ASSUME Init PROVE IInv
        OBVIOUS
    <1>1. DOMAIN store = {} /\ Cardinality(DOMAIN store) = 0
        BY FS_EmptySet DEF Init
    <1>2. /\ <<>> \in Seq(Young) /\ Sorted(<<>>) /\ Len(<<>>) = 0
          /\ 1 .. 0 = {}
        BY DEF Sorted
    <1>3. TypeOK
        BY <1>1, <1>2 DEF Init, TypeOK, Young
    <1>4. InOrder
        BY <1>1, <1>2 DEF Init, InOrder
    <1>5. Matched(store)
        BY <1>1 DEF Matched
    <1>6. Crowded(store)
        BY <1>2 DEF Init, Crowded
    <1>7. Counters
        BY <1>2 DEF Init, Counters
    <1>8. PauseRestores
        BY DEF Init, PauseRestores
    <1> QED
        BY <1>3, <1>4, <1>5, <1>6, <1>7, <1>8 DEF IInv
-----------------------------------------------------------------------------
(* The housekeeping of the table                                           *)

\* Of a larger excess and nothing the larger.
LEMMA ExcessIs ==
    ASSUME NEW n \in Int
    PROVE  Max({0, n}) = IF n > 0 THEN n ELSE 0
    <1> DEFINE m == IF n > 0 THEN n ELSE 0
    <1>1. m \in {0, n} /\ \A y \in {0, n} : m >= y
        OBVIOUS
    <1>2. \A x \in {0, n} : (\A y \in {0, n} : x >= y) => x = m
        BY <1>1
    <1> QED
        BY <1>1, <1>2 DEF Max

\* A table within the addresses is finite, and so are its parts.
LEMMA PartsFinite ==
    ASSUME NEW S, S \subseteq Addresses
    PROVE  IsFiniteSet(S) /\ Cardinality(S) \in Nat
    BY AddressesFinite, FS_Subset, FS_CardinalityType

\* A smaller table has entries of the old one and at most MaxTracked; it has
\* dropped stale ones, and others only if MaxTracked are left that are no older.
LEMMA CutBackDrops ==
    ASSUME TypeOK, NEW table \in Tables
    PROVE  /\ DOMAIN table \subseteq DOMAIN store
           /\ Cardinality(DOMAIN table) <= MaxTracked
           /\ \A a \in DOMAIN table : table[a] = store[a]
           /\ \A a \in DOMAIN store \ DOMAIN table :
                Last(store[a]) <= Stale =>
                    /\ Cardinality(DOMAIN table) = MaxTracked
                    /\ \A b \in DOMAIN table : Last(store[b]) <= Last(store[a])
    <1>1. CASE Cardinality(DOMAIN store) > MaxTracked
        <2> DEFINE F == {a \in DOMAIN store : Last(store[a]) <= Stale}
                   fresh == Restrict(store, F)
                   excess == Max({0, Cardinality(DOMAIN fresh) - MaxTracked})
        <2>1. PICK D \in LeastRecent(fresh, excess) : table = Restrict(fresh, DOMAIN fresh \ D)
            BY <1>1 DEF Tables, CutBack
        <2>2. DOMAIN fresh = F /\ \A a \in F : fresh[a] = store[a]
            BY DEF Restrict
        <2>3. F \subseteq DOMAIN store /\ DOMAIN store \subseteq Addresses
            BY DEF TypeOK
        <2>4. /\ D \subseteq F /\ Cardinality(D) = excess
              /\ \A d \in D, k \in F \ D : Last(store[d]) >= Last(store[k])
            BY <2>1, <2>2 DEF LeastRecent
        <2>5. DOMAIN table = F \ D /\ \A a \in F \ D : table[a] = store[a]
            BY <2>1, <2>2 DEF Restrict
        <2>6. /\ IsFiniteSet(F) /\ Cardinality(F) \in Nat /\ IsFiniteSet(D)
              /\ Cardinality(F \ D) = Cardinality(F) - Cardinality(D)
            <3>1. IsFiniteSet(F) /\ Cardinality(F) \in Nat /\ IsFiniteSet(D)
                BY <2>3, <2>4, PartsFinite
            <3>2. F \cap D = D
                BY <2>4
            <3> QED
                BY <3>1, <3>2, FS_Difference
        <2>7. excess = IF Cardinality(F) - MaxTracked > 0 THEN Cardinality(F) - MaxTracked ELSE 0
            BY <2>2, <2>6, ExcessIs
        <2> HIDE DEF F, excess
        <2>8. Cardinality(F \ D) <= MaxTracked
            BY <2>4, <2>6, <2>7
        <2>9. ASSUME NEW a \in DOMAIN store \ DOMAIN table, Last(store[a]) <= Stale
              PROVE  /\ Cardinality(DOMAIN table) = MaxTracked
                     /\ \A b \in DOMAIN table : Last(store[b]) <= Last(store[a])
            <3>1. a \in D
                BY <2>5, <2>9 DEF F
            <3>2. Cardinality(D) # 0
                BY <2>6, <3>1, FS_EmptySet
            <3>3. Cardinality(DOMAIN table) = MaxTracked
                BY <2>4, <2>5, <2>6, <2>7, <3>2
            <3>4. \A b \in DOMAIN table : Last(store[a]) >= Last(store[b])
                BY <2>4, <2>5, <3>1
            <3>5. \A b \in DOMAIN table : Last(store[b]) \in Int /\ Last(store[a]) \in Int
                BY <2>3, <2>5, BackIsLast DEF TypeOK, Ages, F
            <3> QED
                BY <3>3, <3>4, <3>5
        <2> QED
            BY <2>3, <2>5, <2>8, <2>9
    <1>2. CASE ~(Cardinality(DOMAIN store) > MaxTracked)
        <2>1. table = store
            BY <1>2 DEF Tables
        <2>2. Cardinality(DOMAIN store) \in Nat
            BY PartsFinite DEF TypeOK
        <2> QED
            BY <1>2, <2>1, <2>2
    <1> QED
        BY <1>1, <1>2

\* The housekeeping keeps what holds of the table.
LEMMA CutBackKeeps ==
    ASSUME TypeOK, InOrder, Matched(store), Crowded(store), NEW table \in Tables
    PROVE  /\ Matched(table) /\ Crowded(table)
           /\ \A a \in DOMAIN table : /\ table[a] \in Seq(Ages) \ {<<>>}
                                      /\ Sorted(table[a]) /\ Len(table[a]) <= AddressMax
           /\ DOMAIN table \subseteq Addresses /\ Cardinality(DOMAIN table) <= MaxTracked
    <1>1. /\ DOMAIN table \subseteq DOMAIN store /\ DOMAIN store \subseteq Addresses
          /\ Cardinality(DOMAIN table) <= MaxTracked
          /\ \A a \in DOMAIN table : table[a] = store[a]
          /\ \A a \in DOMAIN store : store[a] \in Seq(Ages) \ {<<>>} /\ Sorted(store[a])
        BY CutBackDrops DEF TypeOK, InOrder, Ages
    <1>2. \A a \in DOMAIN table, k \in Nat : Held(table, a, k) <=> Held(store, a, k)
        BY <1>1 DEF Held
    <1>3. Matched(table)
        BY <1>1, <1>2 DEF Matched
    <1>4. ASSUME NEW a \in Addresses, NEW k \in 1 .. Len(admitted[a]), ~Held(table, a, k)
          PROVE  Cardinality(Recent(a, Back(admitted[a], k))) >= MaxTracked
        <2>1. CASE ~Held(store, a, k)
            BY <2>1 DEF Crowded
        <2>2. CASE Held(store, a, k)
            <3>1. /\ a \in DOMAIN store \ DOMAIN table /\ k \in 1 .. Len(store[a])
                  /\ Back(store[a], k) < Window /\ Back(admitted[a], k) = Back(store[a], k)
                BY <1>2, <1>4, <2>2 DEF Held, Matched
            <3>2. Last(store[a]) <= Back(store[a], k) /\ Last(store[a]) = Back(store[a], 1)
                  /\ Back(store[a], k) \in Nat /\ Last(store[a]) \in Nat
                <4>1. Last(store[a]) = Back(store[a], 1) /\ 1 \in 1 .. Len(store[a])
                    BY <1>1, <3>1, BackIsLast
                <4>2. Back(store[a], k) \in Nat /\ Back(store[a], 1) \in Nat
                    BY <1>1, <3>1, <4>1, BackType, YoungAges
                <4>3. Back(store[a], 1) <= Back(store[a], k)
                    BY <1>1, <3>1, <4>1, <4>2 DEF Sorted
                <4> QED
                    BY <4>1, <4>2, <4>3
            <3>3. Last(store[a]) <= Stale
                BY <3>1, <3>2
            <3>4. /\ Cardinality(DOMAIN table) = MaxTracked
                  /\ \A b \in DOMAIN table : Last(store[b]) <= Last(store[a])
                BY <3>1, <3>3, CutBackDrops
            <3>5. ASSUME NEW b \in DOMAIN table
                  PROVE  b \in Recent(a, Back(admitted[a], k))
                <4>1. /\ b \in DOMAIN store /\ b # a /\ b \in Addresses
                      /\ Last(store[b]) = Back(store[b], 1) /\ 1 \in 1 .. Len(store[b])
                      /\ Last(store[b]) \in Nat
                    BY <1>1, <3>1, BackIsLast, YoungAges
                <4>2. Last(store[b]) < Window /\ Last(store[b]) <= Back(admitted[a], k)
                    BY <3>1, <3>2, <3>4, <4>1
                <4>3. 1 \in 1 .. Len(admitted[b]) /\ Back(admitted[b], 1) = Last(store[b])
                    BY <4>1, <4>2 DEF Matched, Held
                <4>4. admitted[b] # <<>>
                    BY <4>3
                <4> QED
                    BY <4>1, <4>2, <4>3, <4>4 DEF Recent
            <3>6. DOMAIN table \subseteq Recent(a, Back(admitted[a], k))
                BY <3>5
            <3>7. /\ IsFiniteSet(Recent(a, Back(admitted[a], k)))
                  /\ Cardinality(Recent(a, Back(admitted[a], k))) \in Nat
                BY PartsFinite DEF Recent
            <3> QED
                BY <3>4, <3>6, <3>7, FS_Subset
        <2> QED
            BY <2>1, <2>2
    <1>5. Crowded(table)
        BY <1>4 DEF Crowded
    <1>6. \A a \in DOMAIN table : Len(table[a]) <= AddressMax
        BY <1>1 DEF InOrder
    <1> QED
        BY <1>1, <1>3, <1>5, <1>6
-----------------------------------------------------------------------------
(* A request at the table of addresses                                     *)

\* The window of an address is what the table counts of it.
LEMMA WindowHeld ==
    ASSUME NEW table, NEW a \in Addresses, NEW w, w = WindowOf(table, a),
           \A b \in DOMAIN table : /\ table[b] \in Seq(Ages) \ {<<>>}
                                   /\ Sorted(table[b]) /\ Len(table[b]) <= AddressMax
    PROVE  /\ w \in Seq(Young) /\ Sorted(w) /\ Len(w) <= AddressMax
           /\ \A k \in Nat : Held(table, a, k) <=> k \in 1 .. Len(w)
           /\ \A k \in 1 .. Len(w) : Back(w, k) = Back(table[a], k)
    <1>1. CASE a \in DOMAIN table
        <2>1. w = InWindow(table[a])
            BY <1>1 DEF WindowOf
        <2>2. /\ w \in Seq(Young) /\ Sorted(w) /\ Len(w) <= Len(table[a])
              /\ \A k \in 1 .. Len(table[a]) : Back(table[a], k) < Window <=> k <= Len(w)
              /\ \A k \in 1 .. Len(w) : k \in 1 .. Len(table[a]) /\ Back(w, k) = Back(table[a], k)
            BY <1>1, <2>1, InWindowDrops
        <2>3. Len(w) \in Nat /\ Len(table[a]) \in Nat /\ Len(table[a]) <= AddressMax
            BY <1>1, <2>2
        <2>4. ASSUME NEW k \in Nat
              PROVE  Held(table, a, k) <=> k \in 1 .. Len(w)
            <3>1. ASSUME Held(table, a, k) PROVE k \in 1 .. Len(w)
                BY <2>2, <2>3, <3>1 DEF Held
            <3>2. ASSUME k \in 1 .. Len(w) PROVE Held(table, a, k)
                BY <1>1, <2>2, <2>3, <3>2 DEF Held
            <3> QED
                BY <3>1, <3>2
        <2> QED
            BY <2>2, <2>3, <2>4
    <1>2. CASE a \notin DOMAIN table
        <2>1. w = <<>> /\ w \in Seq(Young) /\ Sorted(w) /\ Len(w) = 0
            BY <1>2 DEF WindowOf, Sorted
        <2> QED
            BY <1>2, <2>1 DEF Held
    <1> QED
        BY <1>1, <1>2

\* The window of an address replaces its entry: nothing is counted that was
\* not counted before.
LEMMA RefusedKeeps ==
    ASSUME NEW table, NEW a \in Addresses, NEW new,
           \A b \in DOMAIN table : /\ table[b] \in Seq(Ages) \ {<<>>}
                                   /\ Sorted(table[b]) /\ Len(table[b]) <= AddressMax,
           Matched(table), Crowded(table),
           DOMAIN new = DOMAIN table \cup {a},
           \A b \in DOMAIN new : new[b] = IF b = a THEN WindowOf(table, a) ELSE table[b],
           admitted' = admitted
    PROVE  Matched(new)' /\ Crowded(new)'
    <1> DEFINE w == WindowOf(table, a)
    <1>1. /\ w \in Seq(Young) /\ Sorted(w) /\ Len(w) <= AddressMax
          /\ \A k \in Nat : Held(table, a, k) <=> k \in 1 .. Len(w)
          /\ \A k \in 1 .. Len(w) : Back(w, k) = Back(table[a], k)
        BY WindowHeld
    <1> HIDE DEF w
    <1>2. ASSUME NEW b, NEW k \in Nat
          PROVE  Held(new, b, k) <=> Held(table, b, k)
        <2>1. CASE b # a
            BY <2>1 DEF Held
        <2>2. CASE b = a
            <3>1. a \in DOMAIN new /\ new[a] = w
                BY DEF w
            <3>2. \A j \in 1 .. Len(w) : Back(w, j) < Window
                BY <1>1, BackType DEF Young
            <3> QED
                BY <1>1, <2>2, <3>1, <3>2 DEF Held
        <2> QED
            BY <2>1, <2>2
    <1>3. ASSUME NEW b, NEW k \in Nat, Held(table, b, k)
          PROVE  Back(new[b], k) = Back(table[b], k)
        <2>1. CASE b # a
            BY <1>3, <2>1 DEF Held
        <2>2. CASE b = a
            BY <1>1, <1>3, <2>2 DEF w
        <2> QED
            BY <2>1, <2>2
    <1>4. Matched(new)'
        <2> SUFFICES ASSUME NEW b, NEW k \in Nat, Held(new, b, k)
                     PROVE  /\ k \in 1 .. Len(admitted[b])
                            /\ Back(admitted[b], k) = Back(new[b], k)
            BY DEF Matched, Held
        <2>1. Held(table, b, k)
            BY <1>2
        <2>2. k \in 1 .. Len(admitted[b]) /\ Back(admitted[b], k) = Back(table[b], k)
            BY <2>1 DEF Matched, Held
        <2> QED
            BY <1>3, <2>1, <2>2
    <1>5. Crowded(new)'
        BY <1>2 DEF Crowded, Recent
    <1> QED
        BY <1>4, <1>5

\* A request that is let through is the youngest of its address on both sides.
LEMMA AllowedKeeps ==
    ASSUME TypeOK, InOrder, NEW table, NEW a \in Addresses, NEW new,
           \A b \in DOMAIN table : /\ table[b] \in Seq(Ages) \ {<<>>}
                                   /\ Sorted(table[b]) /\ Len(table[b]) <= AddressMax,
           DOMAIN table \subseteq Addresses, Matched(table), Crowded(table),
           Len(WindowOf(table, a)) < AddressMax,
           DOMAIN new = DOMAIN table \cup {a},
           \A b \in DOMAIN new :
                new[b] = IF b = a THEN Append(WindowOf(table, a), 0) ELSE table[b],
           admitted' = [admitted EXCEPT ![a] = Noted(@, AddressMax)]
    PROVE  Matched(new)' /\ Crowded(new)' /\ Sorted(admitted'[a]) /\ Sorted(new[a])
    <1> DEFINE w == WindowOf(table, a)
               z == Noted(admitted[a], AddressMax)
    <1>1. /\ w \in Seq(Young) /\ Sorted(w) /\ Len(w) < AddressMax
          /\ \A k \in Nat : Held(table, a, k) <=> k \in 1 .. Len(w)
          /\ \A k \in 1 .. Len(w) : Back(w, k) = Back(table[a], k)
        BY WindowHeld
    <1>2. admitted[a] \in Seq(Young) /\ Sorted(admitted[a])
        BY DEF TypeOK, InOrder, Young
    <1>3. /\ z \in Seq(Young) /\ Sorted(z)
          /\ Len(z) = IF Len(admitted[a]) > AddressMax THEN Len(admitted[a]) ELSE Len(admitted[a]) + 1
          /\ Len(z) > 0 /\ Back(z, 1) = 0
          /\ \A k \in 1 .. Len(z) - 1 :
                k \in 1 .. Len(admitted[a]) /\ Back(z, k + 1) = Back(admitted[a], k)
        BY <1>2, NotedShifts
    <1>4. new[a] = Noted(w, AddressMax) /\ a \in DOMAIN new
        <2>1. ~(Len(w) > AddressMax)
            BY <1>1
        <2> QED
            BY <2>1 DEF Noted
    <1>5. /\ new[a] \in Seq(Young) /\ Sorted(new[a]) /\ Len(new[a]) = Len(w) + 1
          /\ Back(new[a], 1) = 0
          /\ \A k \in 1 .. Len(new[a]) - 1 : k \in 1 .. Len(w) /\ Back(new[a], k + 1) = Back(w, k)
        BY <1>1, <1>4, NotedShifts
    <1>6. admitted'[a] = z /\ \A b \in Addresses : b # a => admitted'[b] = admitted[b]
        BY DEF TypeOK
    <1> HIDE DEF w, z
    <1>7. \A b, k : b # a => (Held(new, b, k) <=> Held(table, b, k))
        BY DEF Held
    <1>8. ASSUME NEW k \in 1 .. Len(new[a])
          PROVE  k \in 1 .. Len(z) /\ Back(z, k) = Back(new[a], k)
        <2>1. CASE k = 1
            BY <1>3, <1>5, <2>1
        <2>2. CASE k # 1
            <3>1. /\ k - 1 \in 1 .. Len(w) /\ (k - 1) + 1 = k
                  /\ k - 1 \in 1 .. Len(new[a]) - 1 /\ k - 1 \in Nat
                BY <1>5, <2>2
            <3>2. /\ k - 1 \in 1 .. Len(admitted[a])
                  /\ Back(admitted[a], k - 1) = Back(w, k - 1)
                BY <1>1, <3>1 DEF Matched, Held
            <3>3. k - 1 \in 1 .. Len(z) - 1
                <4>1. k - 1 <= Len(w) /\ k - 1 < AddressMax
                    BY <1>1, <3>1
                <4>2. Len(admitted[a]) \in Nat /\ Len(z) \in Nat
                    BY <1>2, <1>3
                <4> QED
                    BY <1>3, <3>1, <3>2, <4>1, <4>2
            <3>4. Back(z, k) = Back(admitted[a], k - 1) /\ Back(new[a], k) = Back(w, k - 1)
                BY <1>3, <1>5, <3>1, <3>3
            <3> QED
                BY <3>1, <3>2, <3>3, <3>4
        <2> QED
            BY <2>1, <2>2
    <1>9. Matched(new)'
        <2> SUFFICES ASSUME NEW b \in DOMAIN new, NEW k \in 1 .. Len(new[b]), Held(new, b, k)
                     PROVE  /\ k \in 1 .. Len(admitted'[b])
                            /\ Back(admitted'[b], k) = Back(new[b], k)
            BY DEF Matched
        <2>1. CASE b = a
            BY <1>6, <1>8, <2>1
        <2>2. CASE b # a
            <3>1. b \in DOMAIN table /\ new[b] = table[b] /\ Held(table, b, k)
                BY <1>7, <2>2
            <3>2. b \in Addresses
                BY <3>1
            <3> QED
                BY <1>6, <2>2, <3>1, <3>2 DEF Matched
        <2> QED
            BY <2>1, <2>2
    <1>10. ASSUME NEW b \in Addresses, NEW x \in Nat
           PROVE  Cardinality(Recent(b, x)) <= Cardinality(Recent(b, x)')
        <2>1. Recent(b, x) \subseteq Recent(b, x)'
            <3> SUFFICES ASSUME NEW d \in Recent(b, x) PROVE d \in Recent(b, x)'
                OBVIOUS
            <3>1. CASE d = a
                <4>1. admitted'[a] # <<>> /\ Back(admitted'[a], 1) <= x
                    BY <1>3, <1>6
                <4> QED
                    BY <3>1, <4>1 DEF Recent
            <3>2. CASE d # a
                BY <1>6, <3>2 DEF Recent
            <3> QED
                BY <3>1, <3>2
        <2>2. IsFiniteSet(Recent(b, x)')
            BY PartsFinite DEF Recent
        <2> QED
            BY <2>1, <2>2, FS_Subset
    <1>11. ASSUME NEW b \in Addresses, NEW k \in 1 .. Len(admitted[b]), ~Held(table, b, k),
                  NEW x, x = Back(admitted[b], k)
           PROVE  Cardinality(Recent(b, x)') >= MaxTracked
        <2>1. x \in Nat
            <3>1. admitted[b] \in Seq(Young)
                BY DEF TypeOK, Young
            <3> QED
                BY <1>11, <3>1, BackType, YoungAges
        <2>2. Cardinality(Recent(b, x)) >= MaxTracked
            BY <1>11 DEF Crowded
        <2>3. Cardinality(Recent(b, x)) \in Nat /\ Cardinality(Recent(b, x)') \in Nat
            BY PartsFinite DEF Recent
        <2> QED
            BY <1>10, <2>1, <2>2, <2>3
    <1>12. Crowded(new)'
        <2> SUFFICES ASSUME NEW b \in Addresses, NEW k \in 1 .. Len(admitted'[b]),
                            ~Held(new, b, k), NEW x, x = Back(admitted'[b], k)
                     PROVE  Cardinality(Recent(b, x)') >= MaxTracked
            BY DEF Crowded, Recent
        <2>1. CASE b # a
            BY <1>6, <1>7, <1>11, <2>1
        <2>2. CASE b = a
            <3>1. k # 1
                BY <1>4, <1>5, <2>2 DEF Held
            <3>2. /\ k - 1 \in 1 .. Len(z) - 1 /\ (k - 1) + 1 = k
                  /\ k - 1 \in 1 .. Len(admitted[a]) /\ Back(admitted[a], k - 1) = x
                BY <1>3, <1>6, <2>2, <3>1
            <3>3. ~Held(table, a, k - 1)
                <4> SUFFICES ASSUME Held(table, a, k - 1) PROVE FALSE
                    OBVIOUS
                <4>1. k - 1 \in 1 .. Len(w) /\ k - 1 \in 1 .. Len(new[a]) - 1
                      /\ k \in 1 .. Len(new[a]) /\ Back(new[a], k) = Back(w, k - 1)
                    BY <1>1, <1>5, <3>2
                <4>2. Back(w, k - 1) < Window
                    BY <1>1, <4>1, BackType DEF Young
                <4> QED
                    BY <1>4, <2>2, <4>1, <4>2 DEF Held
            <3> QED
                BY <1>11, <2>2, <3>2, <3>3
        <2> QED
            BY <2>1, <2>2
    <1> QED
        BY <1>3, <1>5, <1>6, <1>9, <1>12
\* A request with a token arrives.
LEMMA ArriveStep ==
    ASSUME IInv, faults' = faults, NEW r \in Requests, NEW a \in Addresses, NEW t \in Tokens \cup {Invalid},
           Arrive(r, a, t)
    PROVE  IInv'
    <1>1. TypeOK /\ InOrder /\ Matched(store) /\ Crowded(store) /\ Counters
        BY DEF IInv
    <1>2. PICK table \in Tables :
            LET window == WindowOf(table, a)
                allow == Len(window) < AddressMax
                now == IF allow THEN Append(window, 0) ELSE window
            IN  /\ store' = Put(table, a, now)
                /\ IF allow
                   THEN /\ stage' = [stage EXCEPT ![r] = "validate"]
                        /\ bearer' = [bearer EXCEPT ![r] = t]
                        /\ admitted' = [admitted EXCEPT ![a] = Noted(@, AddressMax)]
                   ELSE UNCHANGED <<stage, bearer, admitted>>
        BY DEF Arrive
    <1>3. /\ Matched(table) /\ Crowded(table)
          /\ \A b \in DOMAIN table : /\ table[b] \in Seq(Ages) \ {<<>>}
                                     /\ Sorted(table[b]) /\ Len(table[b]) <= AddressMax
          /\ DOMAIN table \subseteq Addresses
        BY <1>1, CutBackKeeps
    <1> DEFINE w == WindowOf(table, a)
    <1>4. w \in Seq(Young) /\ Sorted(w) /\ Len(w) <= AddressMax /\ Len(w) \in Nat
        BY <1>3, WindowHeld
    <1>5. refusal' = Invalid /\ UNCHANGED <<counter, ttl, asked, passed>>
        BY DEF Arrive
    <1> HIDE DEF w
    <1>6. PICK new : new = store'
        OBVIOUS
    <1>7. DOMAIN new = DOMAIN table \cup {a}
        BY <1>2, <1>6 DEF Put
    <1>8. DOMAIN new \subseteq Addresses /\ Cardinality(DOMAIN new) <= MaxTracked + 1
        <2>1. IsFiniteSet(DOMAIN table) /\ Cardinality(DOMAIN table) \in Nat
            BY <1>3, PartsFinite
        <2>2. Cardinality(DOMAIN table) <= MaxTracked
            BY <1>1, CutBackKeeps
        <2> QED
            <3>1. \/ Cardinality(DOMAIN table \cup {a}) = Cardinality(DOMAIN table)
                  \/ Cardinality(DOMAIN table \cup {a}) = Cardinality(DOMAIN table) + 1
                BY <2>1, FS_AddElement
            <3> QED
                BY <1>3, <1>7, <2>1, <2>2, <3>1
    <1>9. Counters' /\ PauseRestores'
        BY <1>1, <1>5 DEF Counters, PauseRestores
    <1>10. CASE Len(w) < AddressMax
        <2>1. \A b \in DOMAIN new : new[b] = IF b = a THEN Append(w, 0) ELSE table[b]
            BY <1>2, <1>6, <1>10 DEF w, Put
        <2>2. /\ stage' = [stage EXCEPT ![r] = "validate"] /\ bearer' = [bearer EXCEPT ![r] = t]
              /\ admitted' = [admitted EXCEPT ![a] = Noted(@, AddressMax)]
            BY <1>2, <1>10 DEF w
        <2>3. Matched(new)' /\ Crowded(new)' /\ Sorted(admitted'[a]) /\ Sorted(new[a])
            BY <1>1, <1>3, <1>7, <1>10, <2>1, <2>2, AllowedKeeps DEF w
        <2>4. Append(w, 0) \in Seq(Young) /\ Append(w, 0) # <<>> /\ Len(Append(w, 0)) <= AddressMax
            BY <1>4, <1>10, YoungAges, AppendProperties
        <2>5. Noted(admitted[a], AddressMax) \in Seq(Young)
            BY <1>1, NotedShifts DEF TypeOK, InOrder, Young
        <2>6. admitted' \in [Addresses -> Seq(Young)]
            BY <1>1, <2>2, <2>5 DEF TypeOK, Young
        <2>7. InOrder'
            BY <1>1, <1>3, <1>5, <1>6, <1>7, <2>1, <2>2, <2>3, <2>4 DEF InOrder, TypeOK
        <2>8. \A b \in DOMAIN new : new[b] \in Seq(Ages) \ {<<>>}
            BY <1>3, <1>7, <2>1, <2>4, YoungAges
        <2>9. /\ stage' \in [Requests -> {"idle", "validate", "count"}]
              /\ bearer' \in [Requests -> Tokens \cup {Invalid}]
              /\ \A q \in Requests : stage'[q] = "count" => bearer'[q] \in Tokens
            BY <1>1, <2>2 DEF TypeOK
        <2>10. TypeOK'
            BY <1>1, <1>5, <1>6, <1>8, <2>6, <2>8, <2>9 DEF TypeOK, Young, Ages
        <2> QED
            BY <1>6, <1>9, <2>3, <2>7, <2>10 DEF IInv
    <1>11. CASE ~(Len(w) < AddressMax)
        <2>1. \A b \in DOMAIN new : new[b] = IF b = a THEN w ELSE table[b]
            BY <1>2, <1>6, <1>11 DEF w, Put
        <2>2. UNCHANGED <<stage, bearer, admitted>>
            BY <1>2, <1>11 DEF w
        <2>3. Matched(new)' /\ Crowded(new)'
            BY <1>1, <1>3, <1>7, <2>1, <2>2, RefusedKeeps DEF w
        <2>4. w # <<>>
            BY <1>4, <1>11
        <2>5. InOrder'
            BY <1>1, <1>3, <1>4, <1>5, <1>6, <1>7, <2>1, <2>2 DEF InOrder
        <2>6. \A b \in DOMAIN new : new[b] \in Seq(Ages) \ {<<>>}
            BY <1>3, <1>4, <1>7, <2>1, <2>4, YoungAges
        <2>7. TypeOK'
            BY <1>1, <1>5, <1>6, <1>8, <2>2, <2>6 DEF TypeOK, Ages
        <2> QED
            BY <1>6, <1>9, <2>3, <2>5, <2>7 DEF IInv
    <1> QED
        BY <1>10, <1>11
-----------------------------------------------------------------------------
(* A request at the counter of its token                                   *)

\* The table and what was let through to it are left alone.
TableKept == UNCHANGED <<store, admitted>>

\* What a request does after it passed the table changes nothing there.
LEMMA TableStep ==
    ASSUME Matched(store), Crowded(store), TableKept
    PROVE  Matched(store)' /\ Crowded(store)'
    BY DEF Matched, Crowded, Held, Recent, TableKept

\* A request is counted: it is the youngest that was, and the expiry is a
\* full window away.
LEMMA IncrementStep ==
    ASSUME TypeOK, InOrder, Counters, NEW t \in Tokens, Increment(t),
           asked' = [asked EXCEPT ![t] = Noted(@, TokenMax)]
    PROVE  /\ counter' \in [Tokens -> 0 .. TokenMax + 1] /\ ttl' \in [Tokens -> 0 .. Window]
           /\ asked' \in [Tokens -> Seq(Young)]
           /\ \A u \in Tokens :
                /\ Sorted(asked'[u])
                /\ counter'[u] > 0 => /\ ttl'[u] > 0 /\ asked'[u] # <<>>
                                      /\ Back(asked'[u], 1) + ttl'[u] <= Window
                /\ u # t => counter'[u] = counter[u] /\ ttl'[u] = ttl[u]
           /\ counter'[t] = IF counter[t] > TokenMax THEN counter[t] ELSE counter[t] + 1
           /\ ttl'[t] = Window
           /\ counter[t] > 0 => Len(asked'[t]) > 1
    <1> DEFINE z == Noted(asked[t], TokenMax)
    <1>1. asked[t] \in Seq(Young) /\ Sorted(asked[t]) /\ Len(asked[t]) \in Nat
        BY DEF TypeOK, InOrder, Young
    <1>2. /\ z \in Seq(Young) /\ Sorted(z) /\ Len(z) > 0 /\ Back(z, 1) = 0
          /\ Len(z) = IF Len(asked[t]) > TokenMax THEN Len(asked[t]) ELSE Len(asked[t]) + 1
        BY <1>1, NotedShifts
    <1> HIDE DEF z
    <1>3. asked'[t] = z /\ \A u \in Tokens : u # t => asked'[u] = asked[u]
        BY DEF TypeOK, z
    <1>4. /\ counter' \in [Tokens -> 0 .. TokenMax + 1] /\ ttl' \in [Tokens -> 0 .. Window]
          /\ counter'[t] = IF counter[t] > TokenMax THEN counter[t] ELSE counter[t] + 1
          /\ ttl'[t] = Window
          /\ \A u \in Tokens : u # t => counter'[u] = counter[u] /\ ttl'[u] = ttl[u]
        <2> DEFINE c == IF counter[t] > TokenMax THEN counter[t] ELSE counter[t] + 1
        <2>1. counter \in [Tokens -> 0 .. TokenMax + 1] /\ ttl \in [Tokens -> 0 .. Window]
            BY DEF TypeOK
        <2>2. c \in 0 .. TokenMax + 1 /\ Window \in 0 .. Window
            <3>1. counter[t] \in 0 .. TokenMax + 1
                BY <2>1
            <3> QED
                BY <3>1
        <2>3. counter' = [counter EXCEPT ![t] = c] /\ ttl' = [ttl EXCEPT ![t] = Window]
            BY DEF Increment
        <2>4. counter'[t] = c /\ ttl'[t] = Window
            BY <2>1, <2>3
        <2> HIDE DEF c
        <2>5. counter' \in [Tokens -> 0 .. TokenMax + 1] /\ ttl' \in [Tokens -> 0 .. Window]
            BY <2>1, <2>2, <2>3
        <2>6. \A u \in Tokens : u # t => counter'[u] = counter[u] /\ ttl'[u] = ttl[u]
            BY <2>1, <2>3
        <2> QED
            BY <2>4, <2>5, <2>6 DEF c
    <1>5. asked' \in [Tokens -> Seq(Young)]
        BY <1>2 DEF TypeOK, Young, z
    <1>6. counter[t] > 0 => Len(z) > 1
        <2> SUFFICES ASSUME counter[t] > 0 PROVE Len(z) > 1
            OBVIOUS
        <2>1. Len(asked[t]) > 0
            BY <1>1 DEF Counters
        <2> QED
            BY <1>1, <1>2, <2>1
    <1>7. ASSUME NEW u \in Tokens
          PROVE  /\ Sorted(asked'[u])
                 /\ counter'[u] > 0 => /\ ttl'[u] > 0 /\ asked'[u] # <<>>
                                       /\ Back(asked'[u], 1) + ttl'[u] <= Window
        <2>1. CASE u = t
            <3>1. z # <<>>
                BY <1>2
            <3> QED
                BY <1>2, <1>3, <1>4, <2>1, <3>1
        <2>2. CASE u # t
            BY <1>3, <1>4, <2>2 DEF Counters, InOrder
        <2> QED
            BY <2>1, <2>2
    <1> QED
        BY <1>3, <1>4, <1>5, <1>6, <1>7

\* What rearming the expiry of a token does to the requests that passed: they
\* are further from it than they were.
LEMMA PassedStand ==
    ASSUME TypeOK, Counters, "loss" \notin faults, NEW t \in Tokens, Increment(t),
           NEW u \in Tokens
    PROVE  /\ Len(passed[u]) <= counter'[u] /\ Len(passed[u]) <= TokenMax
           /\ \A k \in 1 .. Len(passed[u]) : Back(passed[u], k) + ttl'[u] >= Window
    <1>1. /\ passed[u] \in Seq(Young) /\ counter[u] \in Nat /\ ttl[u] \in Nat
          /\ Len(passed[u]) \in Nat
        BY DEF TypeOK, Young
    <1>2. /\ Len(passed[u]) <= counter[u] /\ Len(passed[u]) <= TokenMax
          /\ \A k \in 1 .. Len(passed[u]) : Back(passed[u], k) + ttl[u] >= Window
        BY DEF Counters
    <1>3. counter[u] <= counter'[u] /\ counter'[u] \in Nat
        BY <1>1 DEF Increment, TypeOK
    <1>4. \A k \in 1 .. Len(passed[u]) : Back(passed[u], k) \in Nat
        BY <1>1, BackType, YoungAges
    <1>5. ttl'[u] = ttl[u] \/ ttl'[u] = Window
        BY DEF Increment, TypeOK
    <1> QED
        BY <1>1, <1>2, <1>3, <1>4, <1>5

\* The counter lets a request through or refuses it.
LEMMA CountStep ==
    ASSUME IInv, faults' = faults, NEW r \in Requests, Count(r)
    PROVE  IInv'
    <1> DEFINE t == bearer[r]
    <1>1. TypeOK /\ InOrder /\ Counters /\ Matched(store)' /\ Crowded(store)'
        BY TableStep DEF IInv, Count, TableKept
    <1>2. t \in Tokens /\ stage[r] = "count"
        BY <1>1 DEF Count, TypeOK
    <1>3. /\ Increment(t) /\ asked' = [asked EXCEPT ![t] = Noted(@, TokenMax)]
          /\ stage' = [stage EXCEPT ![r] = "idle"] /\ bearer' = [bearer EXCEPT ![r] = Invalid]
          /\ UNCHANGED <<store, admitted>>
          /\ \/ /\ counter'[t] <= TokenMax /\ refusal' = Invalid
                /\ passed' = [passed EXCEPT ![t] = Noted(@, TokenMax)]
             \/ ~(counter'[t] <= TokenMax) /\ passed' = passed /\ refusal' = t
        BY DEF Count, Finish
    <1> HIDE DEF t
    <1>4. /\ counter' \in [Tokens -> 0 .. TokenMax + 1] /\ ttl' \in [Tokens -> 0 .. Window]
          /\ asked' \in [Tokens -> Seq(Young)]
          /\ \A u \in Tokens :
               /\ Sorted(asked'[u])
               /\ counter'[u] > 0 => /\ ttl'[u] > 0 /\ asked'[u] # <<>>
                                     /\ Back(asked'[u], 1) + ttl'[u] <= Window
               /\ u # t => counter'[u] = counter[u] /\ ttl'[u] = ttl[u]
          /\ counter'[t] = IF counter[t] > TokenMax THEN counter[t] ELSE counter[t] + 1
          /\ ttl'[t] = Window
          /\ counter[t] > 0 => Len(asked'[t]) > 1
        BY <1>1, <1>2, <1>3, IncrementStep
    <1> DEFINE z == Noted(passed[t], TokenMax)
    <1>5. passed[t] \in Seq(Young) /\ Sorted(passed[t]) /\ Len(passed[t]) \in Nat
        BY <1>1, <1>2 DEF TypeOK, InOrder, Young
    <1>6. /\ z \in Seq(Young) /\ Sorted(z) /\ Len(z) > 0 /\ Back(z, 1) = 0
          /\ Len(z) = IF Len(passed[t]) > TokenMax THEN Len(passed[t]) ELSE Len(passed[t]) + 1
          /\ \A k \in 1 .. Len(z) - 1 : k \in 1 .. Len(passed[t]) /\ Back(z, k + 1) = Back(passed[t], k)
        BY <1>5, NotedShifts
    <1> HIDE DEF z
    <1>7. counter[t] \in Nat /\ counter'[t] \in Nat
        BY <1>1, <1>2, <1>4 DEF TypeOK
    <1>8. /\ passed' \in [Tokens -> Seq(Young)] /\ \A u \in Tokens : Sorted(passed'[u])
          /\ \A u \in Tokens : u # t => passed'[u] = passed[u]
          /\ passed'[t] = IF counter'[t] <= TokenMax THEN z ELSE passed[t]
        BY <1>1, <1>2, <1>3, <1>5, <1>6 DEF TypeOK, InOrder, Young, z
    <1>9. TypeOK' /\ InOrder'
        <2>1. InOrder'
            BY <1>1, <1>3, <1>4, <1>8 DEF InOrder
        <2>2. /\ stage' \in [Requests -> {"idle", "validate", "count"}]
              /\ bearer' \in [Requests -> Tokens \cup {Invalid}]
              /\ \A q \in Requests : stage'[q] = "count" => bearer'[q] \in Tokens
              /\ refusal' \in Tokens \cup {Invalid}
            BY <1>1, <1>2, <1>3 DEF TypeOK
        <2> QED
            BY <1>1, <1>3, <1>4, <1>8, <2>1, <2>2 DEF TypeOK, Young
    <1>10. ASSUME "loss" \notin faults, NEW u \in Tokens
           PROVE  /\ Len(passed'[u]) <= counter'[u] /\ Len(passed'[u]) <= TokenMax
                  /\ \A k \in 1 .. Len(passed'[u]) : Back(passed'[u], k) + ttl'[u] >= Window
        <2>1. \A v \in Tokens :
                 /\ Len(passed[v]) <= counter'[v] /\ Len(passed[v]) <= TokenMax
                 /\ \A k \in 1 .. Len(passed[v]) : Back(passed[v], k) + ttl'[v] >= Window
            BY <1>1, <1>2, <1>3, <1>10, PassedStand
        <2>2. CASE u # t \/ ~(counter'[t] <= TokenMax)
            BY <1>8, <2>1, <2>2
        <2>3. CASE u = t /\ counter'[t] <= TokenMax
            <3>1. passed'[u] = z /\ counter'[t] = counter[t] + 1
                BY <1>4, <1>7, <1>8, <2>3
            <3>2. Len(passed[t]) <= counter[t]
                BY <1>1, <1>2, <1>10 DEF Counters
            <3>3. Len(z) <= counter'[t] /\ Len(z) <= TokenMax /\ Len(z) \in Nat
                BY <1>5, <1>6, <1>7, <2>3, <3>1, <3>2
            <3>4. ASSUME NEW k \in 1 .. Len(z) PROVE Back(z, k) + ttl'[t] >= Window
                <4>1. Back(z, k) \in Nat
                    BY <1>6, BackType, YoungAges
                <4> QED
                    BY <1>4, <4>1
            <3> QED
                BY <2>3, <3>1, <3>3, <3>4
        <2> QED
            BY <2>2, <2>3
    <1>11. Counters'
        BY <1>4, <1>10 DEF Counters
    <1>12. PauseRestores'
        <2> SUFFICES ASSUME refusal' \in Tokens PROVE Len(asked'[refusal']) > 1
            BY DEF PauseRestores
        <2>1. refusal' = t /\ ~(counter'[t] <= TokenMax)
            BY <1>3
        <2>2. counter[t] > 0
            BY <1>4, <1>7, <2>1
        <2> QED
            BY <1>4, <2>1, <2>2
    <1> QED
        BY <1>1, <1>9, <1>11, <1>12 DEF IInv

\* The counter fails, and the transaction may have been executed.
LEMMA CountFailsStep ==
    ASSUME IInv, faults' = faults, NEW r \in Requests, CountFails(r)
    PROVE  IInv'
    <1> DEFINE t == bearer[r]
    <1>1. TypeOK /\ InOrder /\ Counters /\ Matched(store)' /\ Crowded(store)'
        BY TableStep DEF IInv, CountFails, TableKept
    <1>2. t \in Tokens /\ stage[r] = "count"
        BY <1>1 DEF CountFails, TypeOK
    <1>3. /\ stage' = [stage EXCEPT ![r] = "idle"] /\ bearer' = [bearer EXCEPT ![r] = Invalid]
          /\ refusal' = Invalid /\ UNCHANGED <<store, admitted, passed>>
        BY DEF CountFails, Finish
    <1> HIDE DEF t
    <1>4. PauseRestores'
        BY <1>3 DEF PauseRestores
    <1>5. CASE Increment(t) /\ asked' = [asked EXCEPT ![t] = Noted(@, TokenMax)]
        <2>1. /\ counter' \in [Tokens -> 0 .. TokenMax + 1] /\ ttl' \in [Tokens -> 0 .. Window]
              /\ asked' \in [Tokens -> Seq(Young)]
              /\ \A u \in Tokens :
                   /\ Sorted(asked'[u])
                   /\ counter'[u] > 0 => /\ ttl'[u] > 0 /\ asked'[u] # <<>>
                                         /\ Back(asked'[u], 1) + ttl'[u] <= Window
            BY <1>1, <1>2, <1>5, IncrementStep
        <2>2. TypeOK' /\ InOrder'
            BY <1>1, <1>2, <1>3, <2>1 DEF TypeOK, InOrder, Young
        <2>3. Counters'
            BY <1>1, <1>2, <1>3, <1>5, <2>1, PassedStand DEF Counters
        <2> QED
            BY <1>1, <1>4, <2>2, <2>3 DEF IInv
    <1>6. CASE UNCHANGED <<counter, ttl, asked>>
        <2>1. TypeOK' /\ InOrder' /\ Counters'
            BY <1>1, <1>3, <1>6 DEF TypeOK, InOrder, Counters
        <2> QED
            BY <1>1, <1>4, <2>1 DEF IInv
    <1> QED
        BY <1>5, <1>6 DEF CountFails, t

\* A token validates or does not.
LEMMA ValidatedStep ==
    ASSUME IInv, faults' = faults, NEW r \in Requests, Validated(r)
    PROVE  IInv'
    <1>1. TypeOK /\ InOrder /\ Counters /\ Matched(store)' /\ Crowded(store)'
        BY TableStep DEF IInv, Validated, TableKept
    <1>2. TypeOK'
        BY <1>1 DEF Validated, Finish, TypeOK
    <1>3. InOrder' /\ Counters' /\ PauseRestores'
        BY <1>1 DEF Validated, InOrder, Counters, PauseRestores
    <1> QED
        BY <1>1, <1>2, <1>3 DEF IInv

\* Redis loses a counter: no request is held against its token, and none is
\* promised to be.
LEMMA DropStep ==
    ASSUME IInv, faults' = faults, NEW t \in Tokens, Drop(t)
    PROVE  IInv'
    <1>1. TypeOK /\ InOrder /\ Counters /\ Matched(store)' /\ Crowded(store)'
        BY TableStep DEF IInv, Drop, TableKept
    <1>2. TypeOK'
        BY <1>1 DEF Drop, TypeOK
    <1>3. InOrder' /\ PauseRestores'
        BY <1>1 DEF Drop, InOrder, PauseRestores
    <1>4. Counters'
        BY <1>1 DEF Drop, TypeOK, Counters
    <1> QED
        BY <1>1, <1>2, <1>3, <1>4 DEF IInv
-----------------------------------------------------------------------------
(* Time passes                                                             *)

\* What a tick leaves of the requests of a window: those that stay in it, each
\* a tick older.
LEMMA WindowAges ==
    ASSUME NEW s \in Seq(Young), Sorted(s), NEW z, z = InWindow(Older(s))
    PROVE  /\ z \in Seq(Young) /\ Sorted(z) /\ Len(z) <= Len(s) /\ Len(z) \in Nat
           /\ \A k \in 1 .. Len(s) : Back(s, k) + 1 < Window <=> k <= Len(z)
           /\ \A k \in 1 .. Len(z) : k \in 1 .. Len(s) /\ Back(z, k) = Back(s, k) + 1
    <1> DEFINE o == Older(s)
    <1>1. s \in Seq(Ages) /\ Len(s) \in Nat
        BY YoungAges
    <1>2. \A k \in 1 .. Len(s) : Back(s, k) \in Nat /\ Back(s, k) < Window
        <2> SUFFICES ASSUME NEW k \in 1 .. Len(s)
                     PROVE  Back(s, k) \in Nat /\ Back(s, k) < Window
            OBVIOUS
        <2>1. Back(s, k) \in Young
            BY BackType
        <2> QED
            BY <2>1 DEF Young
    <1>3. /\ o \in Seq(Ages) /\ Sorted(o) /\ Len(o) = Len(s)
          /\ \A k \in 1 .. Len(s) :
               Back(o, k) = IF Back(s, k) > Stale THEN Back(s, k) ELSE Back(s, k) + 1
        BY <1>1, OlderAges
    <1>4. \A k \in 1 .. Len(s) : Back(o, k) = Back(s, k) + 1
        BY <1>2, <1>3
    <1> HIDE DEF o
    <1>5. /\ z \in Seq(Young) /\ Sorted(z) /\ Len(z) <= Len(o)
          /\ \A k \in 1 .. Len(o) : Back(o, k) < Window <=> k <= Len(z)
          /\ \A k \in 1 .. Len(z) : k \in 1 .. Len(o) /\ Back(z, k) = Back(o, k)
        BY <1>3, InWindowDrops DEF o
    <1> QED
        BY <1>3, <1>4, <1>5

\* The table counts a request until it leaves the window.
LEMMA TickTable ==
    ASSUME TypeOK, InOrder, Matched(store), Crowded(store), Tick
    PROVE  /\ \A a \in DOMAIN store' : /\ store'[a] \in Seq(Ages) \ {<<>>}
                                       /\ Sorted(store'[a]) /\ Len(store'[a]) <= AddressMax
           /\ DOMAIN store' = DOMAIN store
           /\ admitted' \in [Addresses -> Seq(Young)]
           /\ \A a \in Addresses : Sorted(admitted'[a])
           /\ Matched(store)' /\ Crowded(store)'
    <1>1. /\ DOMAIN store' = DOMAIN store
          /\ \A a \in DOMAIN store : store'[a] = Older(store[a])
          /\ admitted' = [a \in Addresses |-> InWindow(Older(admitted[a]))]
        BY DEF Tick
    <1>2. ASSUME NEW a \in DOMAIN store
          PROVE  /\ store[a] \in Seq(Ages) /\ store[a] # <<>> /\ Len(store[a]) \in Nat
                 /\ store'[a] \in Seq(Ages) /\ Sorted(store'[a])
                 /\ Len(store'[a]) = Len(store[a]) /\ Len(store[a]) <= AddressMax
                 /\ \A k \in 1 .. Len(store[a]) : Back(store'[a], k) =
                      IF Back(store[a], k) > Stale THEN Back(store[a], k) ELSE Back(store[a], k) + 1
        <2>1. store[a] \in Seq(Ages) /\ store[a] # <<>> /\ Sorted(store[a])
              /\ Len(store[a]) <= AddressMax
            BY DEF TypeOK, InOrder, Ages
        <2> QED
            BY <1>1, <2>1, OlderAges
    <1>3. ASSUME NEW a \in Addresses
          PROVE  /\ admitted[a] \in Seq(Young) /\ Len(admitted[a]) \in Nat
                 /\ admitted'[a] \in Seq(Young) /\ Sorted(admitted'[a])
                 /\ Len(admitted'[a]) \in Nat /\ Len(admitted'[a]) <= Len(admitted[a])
                 /\ \A k \in 1 .. Len(admitted[a]) :
                      Back(admitted[a], k) + 1 < Window <=> k <= Len(admitted'[a])
                 /\ \A k \in 1 .. Len(admitted'[a]) :
                      /\ k \in 1 .. Len(admitted[a])
                      /\ Back(admitted'[a], k) = Back(admitted[a], k) + 1
        <2>1. admitted[a] \in Seq(Young) /\ Sorted(admitted[a])
            BY DEF TypeOK, InOrder, Young
        <2>2. admitted'[a] = InWindow(Older(admitted[a]))
            BY <1>1
        <2> QED
            BY <2>1, <2>2, WindowAges
    <1>4. ASSUME NEW a \in DOMAIN store PROVE store'[a] # <<>>
        BY <1>2
    <1>5. admitted' \in [Addresses -> Seq(Young)]
        BY <1>1, <1>3
    <1>6. DOMAIN store \subseteq Addresses
        BY DEF TypeOK
    \* A request the table counts now it counted a tick ago, a tick younger.
    <1>7. ASSUME NEW a \in DOMAIN store, NEW k \in 1 .. Len(store[a])
          PROVE  /\ Back(store[a], k) \in Nat /\ Back(store'[a], k) \in Nat
                 /\ Back(store'[a], k) < Window <=> Back(store[a], k) + 1 < Window
                 /\ Back(store[a], k) < Window => Back(store'[a], k) = Back(store[a], k) + 1
        <2>1. Back(store[a], k) \in Nat
            BY <1>2, BackType, YoungAges
        <2>2. Back(store'[a], k) =
                IF Back(store[a], k) > Stale THEN Back(store[a], k) ELSE Back(store[a], k) + 1
            BY <1>2
        <2> QED
            BY <2>1, <2>2
    <1>8. Matched(store)'
        <2> SUFFICES ASSUME NEW a \in DOMAIN store, NEW k \in 1 .. Len(store[a]),
                            Back(store'[a], k) < Window
                     PROVE  /\ k \in 1 .. Len(admitted'[a])
                            /\ Back(admitted'[a], k) = Back(store'[a], k)
            BY <1>1, <1>2 DEF Matched, Held
        <2>1. Back(store[a], k) + 1 < Window /\ Back(store[a], k) < Window
              /\ Back(store'[a], k) = Back(store[a], k) + 1
            BY <1>7
        <2>2. k \in 1 .. Len(admitted[a]) /\ Back(admitted[a], k) = Back(store[a], k)
            BY <2>1 DEF Matched, Held
        <2>3. a \in Addresses
            BY <1>6
        <2>4. k <= Len(admitted'[a]) /\ k \in 1 .. Len(admitted'[a])
            BY <1>3, <2>1, <2>2, <2>3
        <2> QED
            BY <1>3, <2>1, <2>2, <2>3, <2>4
    <1>9. Crowded(store)'
        <2> SUFFICES ASSUME NEW a \in Addresses, NEW k \in 1 .. Len(admitted'[a]),
                            ~Held(store', a, k)
                     PROVE  Cardinality(Recent(a, Back(admitted[a], k))') >= MaxTracked
            BY DEF Crowded, Held
        <2> DEFINE x == Back(admitted[a], k)
                   R == Recent(a, x)
                   N == Recent(a, Back(admitted[a], k))'
        <2>1. /\ k \in 1 .. Len(admitted[a]) /\ Back(admitted'[a], k) = x + 1
              /\ x \in Nat /\ x + 1 < Window
            <3>1. k \in 1 .. Len(admitted[a]) /\ Back(admitted'[a], k) = x + 1
                BY <1>3
            <3>2. x \in Nat
                BY <1>3, <3>1, BackType, YoungAges
            <3>3. x + 1 < Window
                BY <1>3, <3>1
            <3> QED
                BY <3>1, <3>2, <3>3
        <2>2. ~Held(store, a, k)
            <3> SUFFICES ASSUME Held(store, a, k) PROVE FALSE
                OBVIOUS
            <3>1. a \in DOMAIN store /\ k \in 1 .. Len(store[a]) /\ Back(store[a], k) < Window
                BY DEF Held
            <3>2. Back(store[a], k) = x
                BY <3>1 DEF Matched, Held
            <3>3. Back(store'[a], k) < Window
                BY <1>7, <2>1, <3>1, <3>2
            <3>4. k \in 1 .. Len(store'[a])
                BY <1>2, <3>1
            <3> QED
                BY <1>1, <3>1, <3>3, <3>4 DEF Held
        <2>3. Cardinality(R) >= MaxTracked
            BY <2>1, <2>2 DEF Crowded
        <2>4. R \subseteq N
            <3> SUFFICES ASSUME NEW b \in Addresses \ {a}, admitted[b] # <<>>,
                                Back(admitted[b], 1) <= x
                         PROVE  admitted'[b] # <<>> /\ Back(admitted'[b], 1) <= x + 1
                BY <2>1 DEF Recent
            <3>1. 1 \in 1 .. Len(admitted[b]) /\ Back(admitted[b], 1) \in Nat
                <4>1. admitted[b] \in Seq(Young) /\ Len(admitted[b]) \in Nat
                    BY <1>3
                <4>2. 1 \in 1 .. Len(admitted[b])
                    BY <4>1
                <4> QED
                    BY <4>1, <4>2, BackType, YoungAges
            <3>2. 1 <= Len(admitted'[b])
                BY <1>3, <2>1, <3>1
            <3>3. Len(admitted'[b]) \in Nat /\ admitted'[b] \in Seq(Young)
                BY <1>3
            <3>4. 1 \in 1 .. Len(admitted'[b])
                BY <3>2, <3>3
            <3> QED
                BY <1>3, <2>1, <3>1, <3>3, <3>4
        <2>5. N \subseteq Addresses
            BY DEF Recent
        <2> HIDE DEF R, N
        <2>6. IsFiniteSet(N) /\ Cardinality(N) \in Nat /\ Cardinality(R) \in Nat
            BY <2>4, <2>5, PartsFinite
        <2>7. Cardinality(R) <= Cardinality(N)
            BY <2>4, <2>6, FS_Subset
        <2> QED
            BY <2>3, <2>6, <2>7 DEF N
    <1> QED
        BY <1>1, <1>2, <1>3, <1>4, <1>5, <1>8, <1>9

\* A counter is dropped with the last request that is held against its token.
LEMMA TickCounters ==
    ASSUME TypeOK, InOrder, Counters, faults' = faults, Tick
    PROVE  /\ counter' \in [Tokens -> 0 .. TokenMax + 1] /\ ttl' \in [Tokens -> 0 .. Window]
           /\ asked' \in [Tokens -> Seq(Young)] /\ passed' \in [Tokens -> Seq(Young)]
           /\ \A t \in Tokens : Sorted(asked'[t]) /\ Sorted(passed'[t])
           /\ Counters'
    <1>1. /\ asked' = [t \in Tokens |-> InWindow(Older(asked[t]))]
          /\ passed' = [t \in Tokens |-> InWindow(Older(passed[t]))]
          /\ ttl' = [t \in Tokens |-> IF ttl[t] > 0 THEN ttl[t] - 1 ELSE 0]
          /\ counter' = [t \in Tokens |-> IF ttl[t] = 1 THEN 0 ELSE counter[t]]
        BY DEF Tick
    <1>2. ASSUME NEW t \in Tokens
          PROVE  /\ counter[t] \in 0 .. TokenMax + 1 /\ counter'[t] \in 0 .. TokenMax + 1
                 /\ ttl[t] \in 0 .. Window /\ ttl'[t] \in 0 .. Window
                 /\ ttl'[t] = IF ttl[t] > 0 THEN ttl[t] - 1 ELSE 0
                 /\ counter'[t] = IF ttl[t] = 1 THEN 0 ELSE counter[t]
        <2>1. counter[t] \in 0 .. TokenMax + 1 /\ ttl[t] \in 0 .. Window
            BY DEF TypeOK
        <2>2. /\ ttl'[t] = IF ttl[t] > 0 THEN ttl[t] - 1 ELSE 0
              /\ counter'[t] = IF ttl[t] = 1 THEN 0 ELSE counter[t]
            BY <1>1
        <2> QED
            BY <2>1, <2>2
    <1>3. ASSUME NEW t \in Tokens
          PROVE  /\ asked[t] \in Seq(Young) /\ Len(asked[t]) \in Nat
                 /\ asked'[t] \in Seq(Young) /\ Sorted(asked'[t])
                 /\ \A k \in 1 .. Len(asked[t]) :
                      Back(asked[t], k) + 1 < Window <=> k <= Len(asked'[t])
                 /\ \A k \in 1 .. Len(asked'[t]) :
                      k \in 1 .. Len(asked[t]) /\ Back(asked'[t], k) = Back(asked[t], k) + 1
        <2>1. asked[t] \in Seq(Young) /\ Sorted(asked[t])
            BY DEF TypeOK, InOrder, Young
        <2>2. asked'[t] = InWindow(Older(asked[t]))
            BY <1>1
        <2> QED
            BY <2>1, <2>2, WindowAges
    <1>4. ASSUME NEW t \in Tokens
          PROVE  /\ passed[t] \in Seq(Young) /\ Len(passed[t]) \in Nat
                 /\ passed'[t] \in Seq(Young) /\ Sorted(passed'[t])
                 /\ Len(passed'[t]) \in Nat /\ Len(passed'[t]) <= Len(passed[t])
                 /\ \A k \in 1 .. Len(passed[t]) :
                      Back(passed[t], k) + 1 < Window <=> k <= Len(passed'[t])
                 /\ \A k \in 1 .. Len(passed'[t]) :
                      k \in 1 .. Len(passed[t]) /\ Back(passed'[t], k) = Back(passed[t], k) + 1
        <2>1. passed[t] \in Seq(Young) /\ Sorted(passed[t])
            BY DEF TypeOK, InOrder, Young
        <2>2. passed'[t] = InWindow(Older(passed[t]))
            BY <1>1
        <2> QED
            BY <2>1, <2>2, WindowAges
    <1>5. ASSUME NEW t \in Tokens, counter'[t] > 0
          PROVE  /\ ttl'[t] > 0 /\ asked'[t] # <<>>
                 /\ Back(asked'[t], 1) + ttl'[t] <= Window
        <2>1. ttl[t] # 1 /\ counter[t] > 0
            BY <1>2, <1>5
        <2>2. ttl[t] > 0 /\ asked[t] # <<>> /\ Back(asked[t], 1) + ttl[t] <= Window
            BY <2>1 DEF Counters
        <2>3. ttl'[t] = ttl[t] - 1 /\ ttl[t] \in Nat /\ ttl[t] > 1
            BY <1>2, <2>1, <2>2
        <2>4. 1 \in 1 .. Len(asked[t])
            BY <1>3, <2>2
        <2>5. Back(asked[t], 1) \in Nat
            BY <1>3, <2>4, BackType, YoungAges
        <2>6. Back(asked[t], 1) + 1 < Window
            BY <2>2, <2>3, <2>5
        <2>7. 1 <= Len(asked'[t]) /\ Len(asked'[t]) \in Nat
            BY <1>3, <2>4, <2>6
        <2>8. 1 \in 1 .. Len(asked'[t])
            BY <2>7
        <2>9. Back(asked'[t], 1) = Back(asked[t], 1) + 1
            BY <1>3, <2>8
        <2>10. asked'[t] # <<>>
            BY <2>7
        <2> QED
            BY <2>2, <2>3, <2>5, <2>9, <2>10
    <1>6. ASSUME "loss" \notin faults, NEW t \in Tokens
          PROVE  /\ Len(passed'[t]) <= counter'[t] /\ Len(passed'[t]) <= TokenMax
                 /\ \A k \in 1 .. Len(passed'[t]) : Back(passed'[t], k) + ttl'[t] >= Window
        <2>1. /\ Len(passed[t]) <= counter[t] /\ Len(passed[t]) <= TokenMax
              /\ \A k \in 1 .. Len(passed[t]) : Back(passed[t], k) + ttl[t] >= Window
            BY <1>6 DEF Counters
        <2>2. ASSUME NEW k \in 1 .. Len(passed'[t])
              PROVE  Back(passed'[t], k) + ttl'[t] >= Window /\ ttl[t] > 1
            <3>1. /\ k \in 1 .. Len(passed[t]) /\ Back(passed'[t], k) = Back(passed[t], k) + 1
                  /\ k <= Len(passed'[t])
                BY <1>4
            <3>2. Back(passed[t], k) \in Nat /\ Back(passed[t], k) + 1 < Window
                BY <1>4, <3>1, BackType, YoungAges
            <3>3. Back(passed[t], k) + ttl[t] >= Window
                BY <2>1, <3>1
            <3>4. ttl[t] > 1 /\ ttl'[t] = ttl[t] - 1 /\ ttl[t] \in Nat
                BY <1>2, <3>2, <3>3
            <3> QED
                BY <3>1, <3>2, <3>3, <3>4
        <2>3. CASE Len(passed'[t]) = 0
            BY <1>2, <2>2, <2>3
        <2>4. CASE Len(passed'[t]) # 0
            <3>1. 1 \in 1 .. Len(passed'[t])
                BY <1>4, <2>4
            <3>2. counter'[t] = counter[t]
                BY <1>2, <2>2, <3>1
            <3> QED
                BY <1>2, <1>4, <2>1, <2>2, <3>2
        <2> QED
            BY <2>3, <2>4
    <1>7. Counters'
        BY <1>5, <1>6 DEF Counters
    <1>8. counter' \in [Tokens -> 0 .. TokenMax + 1] /\ ttl' \in [Tokens -> 0 .. Window]
        BY <1>1, <1>2
    <1>9. asked' \in [Tokens -> Seq(Young)] /\ passed' \in [Tokens -> Seq(Young)]
        BY <1>1, <1>3, <1>4
    <1> QED
        BY <1>3, <1>4, <1>7, <1>8, <1>9

\* A tick keeps the invariant.
LEMMA TickStep ==
    ASSUME IInv, faults' = faults, Tick
    PROVE  IInv'
    <1>1. TypeOK /\ InOrder /\ Counters /\ Matched(store) /\ Crowded(store)
        BY DEF IInv
    <1>2. /\ \A a \in DOMAIN store' : /\ store'[a] \in Seq(Ages) \ {<<>>}
                                      /\ Sorted(store'[a]) /\ Len(store'[a]) <= AddressMax
          /\ DOMAIN store' = DOMAIN store
          /\ admitted' \in [Addresses -> Seq(Young)]
          /\ \A a \in Addresses : Sorted(admitted'[a])
          /\ Matched(store)' /\ Crowded(store)'
        BY <1>1, TickTable
    <1>3. /\ counter' \in [Tokens -> 0 .. TokenMax + 1] /\ ttl' \in [Tokens -> 0 .. Window]
          /\ asked' \in [Tokens -> Seq(Young)] /\ passed' \in [Tokens -> Seq(Young)]
          /\ \A t \in Tokens : Sorted(asked'[t]) /\ Sorted(passed'[t])
          /\ Counters'
        BY <1>1, TickCounters
    <1>4. refusal' = Invalid /\ UNCHANGED <<stage, bearer>>
        BY DEF Tick
    <1>5. TypeOK'
        BY <1>1, <1>2, <1>3, <1>4 DEF TypeOK, Young, Ages
    <1>6. InOrder' /\ PauseRestores'
        BY <1>2, <1>3, <1>4 DEF InOrder, PauseRestores
    <1> QED
        BY <1>2, <1>3, <1>5, <1>6 DEF IInv
-----------------------------------------------------------------------------
(* The theorems                                                            *)

\* The invariant holds in every state the server reaches.
THEOREM InvariantHolds == Spec => []IInv
    <1>1. IInv /\ [Next]_vars => IInv'
        <2> SUFFICES ASSUME IInv, [Next]_vars PROVE IInv'
            OBVIOUS
        <2>1. ASSUME NEW r \in Requests, NEW a \in Addresses, NEW t \in Tokens \cup {Invalid},
                     Arrive(r, a, t), faults' = faults
              PROVE  IInv'
            BY <2>1, ArriveStep
        <2>2. ASSUME NEW r \in Requests, Validated(r), faults' = faults PROVE IInv'
            BY <2>2, ValidatedStep
        <2>3. ASSUME NEW r \in Requests, Count(r), faults' = faults PROVE IInv'
            BY <2>3, CountStep
        <2>4. ASSUME NEW r \in Requests, CountFails(r), faults' = faults PROVE IInv'
            BY <2>4, CountFailsStep
        <2>5. ASSUME NEW t \in Tokens, Drop(t), faults' = faults PROVE IInv'
            BY <2>5, DropStep
        <2>6. ASSUME Tick, faults' = faults PROVE IInv'
            BY <2>6, TickStep
        <2>7. CASE UNCHANGED vars
            <3>1. TypeOK' /\ InOrder' /\ Counters' /\ PauseRestores'
                BY <2>7 DEF IInv, vars, TypeOK, InOrder, Counters, PauseRestores
            <3>2. Matched(store)' /\ Crowded(store)'
                BY <2>7, TableStep DEF IInv, vars, TableKept
            <3> QED
                BY <3>1, <3>2 DEF IInv
        <2> QED
            BY <2>1, <2>2, <2>3, <2>4, <2>5, <2>6, <2>7 DEF Next
    <1> QED
        BY <1>1, InvariantStarts, PTL DEF Spec

\* Every variable is of its type; in particular the table of addresses never
\* outgrows its bound by more than the one entry a request adds to it, and it
\* never holds the empty window whose last entry the cut would read.
THEOREM TypeCorrect == Spec => []TypeOK
    <1>1. IInv => TypeOK
        BY DEF IInv
    <1> QED
        BY <1>1, InvariantHolds, PTL

\* The counter lets at most TokenMax requests of a token through in a window,
\* however its requests overlap and fail, as long as Redis keeps the counter.
THEOREM TokenIsLimited == Spec => []TokenLimit
    <1>1. IInv => TokenLimit
        BY DEF IInv, Counters, TokenLimit
    <1> QED
        BY <1>1, InvariantHolds, PTL

\* A request is refused only if its token made another one in the last window:
\* no failure and no loss leaves a counter that refuses after a pause.
THEOREM PauseAlwaysRestores == Spec => []PauseRestores
    <1>1. IInv => PauseRestores
        BY DEF IInv
    <1> QED
        BY <1>1, InvariantHolds, PTL

\* An address gets more than its maximum through in a window only when the
\* table could not hold all the addresses that were let through in it.
THEOREM AddressIsLimited == Spec => []AddressLimit
    <1>1. IInv => AddressLimit
        <2> SUFFICES ASSUME IInv, NEW a \in Addresses, Len(admitted[a]) > AddressMax
                     PROVE  Cardinality({b \in Addresses \ {a} : admitted[b] # <<>>}) >= MaxTracked
            BY DEF AddressLimit
        <2> DEFINE k == AddressMax + 1
                   R == Recent(a, Back(admitted[a], k))
                   B == {b \in Addresses \ {a} : admitted[b] # <<>>}
        <2>1. admitted[a] \in Seq(Young) /\ k \in 1 .. Len(admitted[a])
            BY DEF IInv, TypeOK, Young
        <2>2. ~Held(store, a, k)
            <3> SUFFICES ASSUME a \in DOMAIN store PROVE ~(k <= Len(store[a]))
                BY DEF Held
            <3>1. store[a] \in Seq(Ages) /\ Len(store[a]) <= AddressMax
                BY DEF IInv, TypeOK, InOrder, Ages
            <3> QED
                BY <3>1
        <2>3. Cardinality(R) >= MaxTracked
            BY <2>1, <2>2 DEF IInv, Crowded
        <2>4. R \subseteq B /\ B \subseteq Addresses
            BY DEF Recent
        <2> HIDE DEF R, B
        <2>5. IsFiniteSet(B) /\ Cardinality(B) \in Nat /\ Cardinality(R) \in Nat
            BY <2>4, PartsFinite
        <2>6. Cardinality(R) <= Cardinality(B)
            BY <2>4, <2>5, FS_Subset
        <2> QED
            BY <2>3, <2>5, <2>6 DEF B
    <1> QED
        BY <1>1, InvariantHolds, PTL
=============================================================================
