-------------------------- MODULE LogConsumerProofs --------------------------
(***************************************************************************)
(* Proofs about LogConsumer for any number of marked entries, any batch    *)
(* size, any intervals and any mix of faults.                              *)
(***************************************************************************)
EXTENDS LogConsumer, SequenceTheorems, TLAPS

USE BoundsPositive, FaultsKnown

-----------------------------------------------------------------------------
(* Entries in line                                                         *)

\* Each marked entry of a sequence is later than everything before it.
Ordered(s) == \A i, j \in DOMAIN s : i < j /\ s[j] # 0 => s[i] < s[j]

\* Every element of A is earlier than every element of B.
Before(A, B) == \A m \in A, n \in B : m < n

\* Nothing is in order.
LEMMA MarksOfEmpty ==
    Marks(<<>>) = {} /\ Ordered(<<>>) /\ <<>> \in Seq(Entries) /\ Len(<<>>) = 0
    BY DEF Marks, ToSet, Ordered

\* The entries of two pieces are those of the whole.
LEMMA MarksOfPieces ==
    ASSUME NEW a \in Seq(Entries), NEW b \in Seq(Entries)
    PROVE  Marks(a \o b) = Marks(a) \cup Marks(b)
    <1> DEFINE c == a \o b
    <1>1. /\ Len(c) = Len(a) + Len(b)
          /\ \A i \in 1 .. Len(a) : c[i] = a[i]
          /\ \A i \in 1 .. Len(b) : c[Len(a) + i] = b[i]
        OBVIOUS
    <1>2. Marks(c) \subseteq Marks(a) \cup Marks(b)
        <2> SUFFICES ASSUME NEW i \in 1 .. Len(c), c[i] # 0
                     PROVE  c[i] \in Marks(a) \cup Marks(b)
            BY <1>1 DEF Marks, ToSet
        <2>1. CASE i <= Len(a)
            BY <1>1, <2>1 DEF Marks, ToSet
        <2>2. CASE i > Len(a)
            <3>1. i - Len(a) \in 1 .. Len(b) /\ c[i] = b[i - Len(a)]
                BY <1>1, <2>2
            <3> QED
                BY <3>1 DEF Marks, ToSet
        <2> QED
            BY <2>1, <2>2
    <1>3. Marks(a) \subseteq Marks(c)
        BY <1>1 DEF Marks, ToSet
    <1>4. Marks(b) \subseteq Marks(c)
        <2> SUFFICES ASSUME NEW i \in 1 .. Len(b), b[i] # 0
                     PROVE  b[i] \in Marks(c)
            BY DEF Marks, ToSet
        <2>1. Len(a) + i \in DOMAIN c /\ c[Len(a) + i] = b[i]
            BY <1>1
        <2> QED
            BY <2>1 DEF Marks, ToSet
    <1> QED
        BY <1>2, <1>3, <1>4

\* A sequence is in order exactly if two pieces of it are, and the first is
\* before the second.
LEMMA OrderedPieces ==
    ASSUME NEW a \in Seq(Entries), NEW b \in Seq(Entries)
    PROVE  Ordered(a \o b) <=> Ordered(a) /\ Ordered(b) /\ Before(Marks(a), Marks(b))
    <1> DEFINE c == a \o b
    <1>1. /\ Len(c) = Len(a) + Len(b)
          /\ \A i \in 1 .. Len(a) : c[i] = a[i]
          /\ \A i \in 1 .. Len(b) : c[Len(a) + i] = b[i]
          /\ DOMAIN c = 1 .. Len(c) /\ DOMAIN a = 1 .. Len(a) /\ DOMAIN b = 1 .. Len(b)
          /\ Len(a) \in Nat /\ Len(b) \in Nat
        OBVIOUS
    <1>2. ASSUME Ordered(c) PROVE Ordered(a)
        BY <1>1, <1>2 DEF Ordered
    <1>3. ASSUME Ordered(c) PROVE Ordered(b)
        <2> SUFFICES ASSUME NEW i \in 1 .. Len(b), NEW j \in 1 .. Len(b),
                            i < j, b[j] # 0
                     PROVE  b[i] < b[j]
            BY DEF Ordered
        <2>1. /\ Len(a) + i \in DOMAIN c /\ Len(a) + j \in DOMAIN c
              /\ Len(a) + i < Len(a) + j
            BY <1>1
        <2> QED
            BY <1>1, <1>3, <2>1 DEF Ordered
    <1>4. ASSUME Ordered(c) PROVE Before(Marks(a), Marks(b))
        <2> SUFFICES ASSUME NEW i \in 1 .. Len(a), NEW j \in 1 .. Len(b), b[j] # 0
                     PROVE  a[i] < b[j]
            BY <1>1 DEF Before, Marks, ToSet
        <2>1. i \in DOMAIN c /\ Len(a) + j \in DOMAIN c /\ i < Len(a) + j
            BY <1>1
        <2> QED
            BY <1>1, <1>4, <2>1 DEF Ordered
    <1>5. ASSUME Ordered(a), Ordered(b), Before(Marks(a), Marks(b))
          PROVE  Ordered(c)
        <2> SUFFICES ASSUME NEW i \in 1 .. Len(c), NEW j \in 1 .. Len(c),
                            i < j, c[j] # 0
                     PROVE  c[i] < c[j]
            BY <1>1 DEF Ordered
        <2>1. CASE j <= Len(a)
            BY <1>1, <1>5, <2>1 DEF Ordered
        <2>2. CASE i > Len(a)
            <3>1. /\ i - Len(a) \in 1 .. Len(b) /\ c[i] = b[i - Len(a)]
                  /\ j - Len(a) \in 1 .. Len(b) /\ c[j] = b[j - Len(a)]
                  /\ i - Len(a) < j - Len(a)
                BY <1>1, <2>2
            <3> QED
                BY <1>1, <1>5, <3>1 DEF Ordered
        <2>3. CASE i <= Len(a) /\ j > Len(a)
            <3>1. /\ c[i] = a[i]
                  /\ j - Len(a) \in 1 .. Len(b) /\ c[j] = b[j - Len(a)]
                BY <1>1, <2>3
            <3>2. a[i] \in Nat /\ b[j - Len(a)] \in Nat
                BY <2>3, <3>1 DEF Entries
            <3>3. CASE a[i] = 0
                BY <3>1, <3>2, <3>3
            <3>4. CASE a[i] # 0
                <4>1. i \in DOMAIN a /\ j - Len(a) \in DOMAIN b /\ b[j - Len(a)] # 0
                    BY <1>1, <2>3, <3>1
                <4>2. a[i] \in Marks(a) /\ b[j - Len(a)] \in Marks(b)
                    BY <3>4, <4>1 DEF Marks, ToSet
                <4> QED
                    BY <1>5, <3>1, <4>2 DEF Before
            <3> QED
                BY <3>3, <3>4
        <2> QED
            BY <2>1, <2>2, <2>3
    <1> QED
        BY <1>2, <1>3, <1>4, <1>5

\* One entry alone.
LEMMA SingleEntry ==
    ASSUME NEW m \in Entries
    PROVE  /\ <<m>> \in Seq(Entries)
           /\ Marks(<<m>>) = {m} \ {0}
           /\ Ordered(<<m>>)
    BY DEF Marks, ToSet, Ordered

\* An entry appended to the last piece is appended to the whole.
LEMMA AppendToEnd ==
    ASSUME NEW a \in Seq(Entries), NEW b \in Seq(Entries), NEW m \in Entries
    PROVE  a \o Append(b, m) = (a \o b) \o <<m>>
    <1>1. Append(b, m) = b \o <<m>> /\ <<m>> \in Seq(Entries)
        OBVIOUS
    <1> QED
        BY <1>1, ConcatAssociative

\* Reading moves the head of one sequence to the end of another.
LEMMA MoveHead ==
    ASSUME NEW a \in Seq(Entries), NEW b \in Seq(Entries), b # <<>>
    PROVE  /\ Append(a, Head(b)) \o Tail(b) = a \o b
           /\ Append(a, Head(b)) \in Seq(Entries) /\ Tail(b) \in Seq(Entries)
           /\ Head(b) \in Entries
           /\ Len(Append(a, Head(b))) = Len(a) + 1
    OBVIOUS

\* What _flush takes and what it leaves are the whole buffer; of at most one
\* batch it leaves nothing.
LEMMA SliceWhole ==
    ASSUME NEW b \in Seq(Entries), Len(b) <= BatchSize, TakeBatch(b)
    PROVE  batch' = b /\ buffer' = <<>>
    <1>1. (IF Len(b) < BatchSize THEN Len(b) ELSE BatchSize) = Len(b)
        OBVIOUS
    <1>2. batch' = SubSeq(b, 1, Len(b)) /\ buffer' = SubSeq(b, BatchSize + 1, Len(b))
        BY <1>1 DEF TakeBatch
    <1> QED
        BY <1>2

\* Dropping a piece at either end, or at both, leaves the rest in order.
LEMMA OrderedMiddle ==
    ASSUME NEW a \in Seq(Entries), NEW b \in Seq(Entries), NEW c \in Seq(Entries),
           Ordered(a \o b \o c)
    PROVE  /\ Ordered(b) /\ Ordered(b \o c) /\ Ordered(a \o b)
           /\ Before(Marks(a), Marks(b) \cup Marks(c))
    <1>1. a \o b \in Seq(Entries) /\ b \o c \in Seq(Entries)
        OBVIOUS
    <1>2. Ordered(a \o b) /\ Before(Marks(a \o b), Marks(c)) /\ Ordered(c)
        BY <1>1, OrderedPieces
    <1>3. Ordered(a) /\ Ordered(b) /\ Before(Marks(a), Marks(b))
        BY <1>2, OrderedPieces
    <1>4. Before(Marks(a), Marks(c)) /\ Before(Marks(b), Marks(c))
        BY <1>2, MarksOfPieces DEF Before
    <1>5. Ordered(b \o c)
        BY <1>2, <1>3, <1>4, OrderedPieces
    <1> QED
        BY <1>2, <1>3, <1>4, <1>5 DEF Before
-----------------------------------------------------------------------------
(* The inductive invariant                                                 *)

\* Where the task may hold entries: a batch exists only during a flush, the
\* flush leaves the buffer empty, the buffer never fills a batch, and a task
\* that is leaving has no subscription.  Only a shutdown or a crash ends it.
Places ==
    /\ batch # <<>> => pc \in {"flush", "final", "stopped"}
    /\ pc \in {"flush", "final"} => buffer = <<>>
    /\ Len(buffer) < BatchSize
    /\ pc \in {"final", "stopped"} => pending = <<>> /\ ~linked
    /\ pc = "final" => "stop" \in faults
    /\ pc = "stopped" => {"stop", "crash"} \cap faults # {}

\* Only a failure of Redis breaks the subscription or makes the task wait.
Subscribed ==
    "redis" \notin faults => /\ pc \in {"listen", "flush"} => linked
                             /\ pc # "sleep"

\* Nothing is in line or in the table that was not published.
Published == \A m \in Marks(InLine) \cup rows : m <= sent

IInv == TypeOK /\ Places /\ Subscribed /\ Published /\ InOrder /\ ReadIsKept

\* The invariant holds before the first subscription.
THEOREM Start == Init => IInv
    <1> SUFFICES ASSUME Init PROVE IInv
        OBVIOUS
    <1>1. InLine = <<>>
        BY DEF Init, InLine
    <1>2. TypeOK
        <2>1. sent \in Entries /\ since \in 0 .. Interval /\ wait \in 0 .. Delay
            BY DEF Init, Entries
        <2>2. /\ pending \in Seq(Entries) /\ Len(pending) <= MaxPending
              /\ buffer \in Seq(Entries) /\ batch \in Seq(Entries)
            BY MarksOfEmpty DEF Init
        <2> QED
            BY <2>1, <2>2 DEF Init, TypeOK, Points
    <1>3. Places /\ Subscribed
        BY DEF Init, Places, Subscribed
    <1>4. Published /\ InOrder
        BY <1>1, MarksOfEmpty DEF Init, Published, InOrder, Ordered
    <1>5. ReadIsKept
        BY DEF Init, ReadIsKept
    <1> QED
        BY <1>2, <1>3, <1>4, <1>5 DEF IInv

\* The slices of _flush are sequences of entries again.
LEMMA SliceType ==
    ASSUME NEW b \in Seq(Entries), TakeBatch(b)
    PROVE  batch' \in Seq(Entries) /\ buffer' \in Seq(Entries)
    BY DEF TakeBatch

\* A set of marks of well-typed entries.
LEMMA MarksType ==
    ASSUME NEW s \in Seq(Entries)
    PROVE  Marks(s) \subseteq 1 .. Marked
    BY DEF Marks, ToSet, Entries

\* A flush writes the batch or nothing, and the batch is gone.
LEMMA FlushEffect ==
    ASSUME NEW written \in BOOLEAN, FlushDone(written)
    PROVE  /\ rows' = IF written THEN rows \cup Marks(batch) ELSE rows
           /\ rows' \in {rows, rows \cup Marks(batch)}
           /\ owed' = IF written THEN owed ELSE owed \ Marks(batch)
           /\ batch' = <<>> /\ since' = 0
           /\ UNCHANGED <<linked, pending, buffer, wait, sent>>
    BY DEF FlushDone

\* Types, per action.
LEMMA TypeStep == TypeOK /\ Places /\ [Next]_vars => TypeOK'
    <1> SUFFICES ASSUME TypeOK, Places, [Next]_vars PROVE TypeOK'
        OBVIOUS
    <1>0. /\ faults' = faults /\ Marks(batch) \subseteq 1 .. Marked
          /\ <<>> \in Seq(Entries) /\ Len(<<>>) <= MaxPending
        BY MarksType, MarksOfEmpty DEF Next, vars, TypeOK
    <1> USE <1>0 DEF TypeOK, Points
    <1>1. CASE Publish
        <2>1. PICK m \in {0, sent + 1} \cap Entries :
                    /\ sent' = IF m = 0 THEN sent ELSE m
                    /\ pending' = IF linked THEN Append(pending, m) ELSE pending
            BY <1>1 DEF Publish
        <2>2. pending' \in Seq(Entries) /\ Len(pending') <= MaxPending
            BY <1>1, <2>1 DEF Publish
        <2> QED
            BY <1>1, <2>1, <2>2 DEF Publish
    <1>2. CASE Subscribe
        BY <1>2 DEF Subscribe
    <1>3. CASE Receive
        <2> DEFINE b == Append(buffer, Head(pending))
        <2>1. Head(pending) \in Entries /\ Tail(pending) \in Seq(Entries)
              /\ b \in Seq(Entries) /\ Len(Tail(pending)) <= MaxPending
            BY <1>3, MoveHead DEF Receive
        <2>2. batch' \in Seq(Entries) /\ buffer' \in Seq(Entries)
            BY <1>3, <2>1, SliceType DEF Receive
        <2>3. owed' \subseteq 1 .. Marked
            <3>1. {Head(pending)} \ {0} \subseteq 1 .. Marked
                BY <2>1 DEF Entries
            <3> QED
                BY <1>3, <3>1 DEF Receive
        <2>4. pending' \in Seq(Entries) /\ Len(pending') <= MaxPending
            BY <1>3, <2>1 DEF Receive
        <2>5. pc' \in Points
            BY <1>3 DEF Receive
        <2> QED
            BY <1>3, <2>2, <2>3, <2>4, <2>5 DEF Receive
    <1>4. CASE Flushed
        <2>1. PICK written \in BOOLEAN : FlushDone(written)
            BY <1>4 DEF Flushed
        <2>2. /\ batch' = <<>> /\ since' = 0 /\ since' \in 0 .. Interval
              /\ UNCHANGED <<linked, pending, buffer, wait, sent>>
            BY <2>1, FlushEffect
        <2>3. rows' \subseteq 1 .. Marked /\ owed' \subseteq 1 .. Marked
            BY <2>1, FlushEffect
        <2> QED
            BY <1>4, <2>2, <2>3 DEF Flushed
    <1>5. CASE NoticeBreak
        BY <1>5 DEF NoticeBreak
    <1>6. CASE WakeUp
        BY <1>6 DEF WakeUp
    <1>7. CASE FinalFlushed
        <2>1. PICK written \in BOOLEAN : FlushDone(written)
            BY <1>7 DEF FinalFlushed
        <2>2. /\ batch' = <<>> /\ since' = 0 /\ since' \in 0 .. Interval
              /\ UNCHANGED <<linked, pending, buffer, wait, sent>>
            BY <2>1, FlushEffect
        <2>3. rows' \subseteq 1 .. Marked /\ owed' \subseteq 1 .. Marked
            BY <2>1, FlushEffect
        <2> QED
            BY <1>7, <2>2, <2>3 DEF FinalFlushed
    <1>8. CASE SubscribeFails
        BY <1>8 DEF SubscribeFails
    <1>9. CASE StopListening
        BY <1>9, SliceType DEF StopListening, Leave
    <1>10. CASE StopFlushing
        BY <1>10, SliceType DEF StopFlushing, Leave
    <1>11. CASE StopSleeping
        BY <1>11 DEF StopSleeping, Leave
    <1>12. CASE Break
        BY <1>12 DEF Break
    <1>13. CASE Crash
        BY <1>13 DEF Crash, Leave
    <1>14. CASE Restart
        BY <1>14 DEF Restart
    <1>15. CASE Tick
        BY <1>15 DEF Tick
    <1>16. CASE UNCHANGED vars
        BY <1>16 DEF vars
    <1> QED
        BY <1>1, <1>2, <1>3, <1>4, <1>5, <1>6, <1>7, <1>8, <1>9, <1>10, <1>11,
           <1>12, <1>13, <1>14, <1>15, <1>16 DEF Next, Consumer

\* What Receive does: it moves the head of the channel to the end of the
\* buffer, or to the end of the batch it opens.
LEMMA ReceiveMoves ==
    ASSUME TypeOK, Places, Receive
    PROVE  /\ batch = <<>>
           /\ batch' \o buffer' = Append(buffer, Head(pending))
           /\ \/ pc' = "flush" /\ buffer' = <<>>
              \/ pc' = "listen" /\ batch' = <<>> /\ Len(buffer') < BatchSize
    <1> DEFINE b == Append(buffer, Head(pending))
    <1>1. batch = <<>>
        BY DEF Receive, Places
    <1>2. b \in Seq(Entries) /\ Len(b) = Len(buffer) + 1 /\ Len(b) <= BatchSize
        BY MoveHead DEF Receive, TypeOK, Places
    <1>3. CASE FlushDue(b)
        <2>1. TakeBatch(b) /\ pc' = "flush"
            BY <1>3 DEF Receive
        <2>2. batch' = b /\ buffer' = <<>>
            BY <1>2, <2>1, SliceWhole
        <2> QED
            BY <1>1, <1>2, <2>1, <2>2
    <1>4. CASE ~FlushDue(b)
        <2>1. buffer' = b /\ pc' = "listen" /\ batch' = <<>>
            BY <1>1, <1>4 DEF Receive
        <2> QED
            BY <1>1, <1>2, <1>4, <2>1 DEF FlushDue
    <1> QED
        BY <1>3, <1>4

\* A shutdown of an idle consumer hands the whole buffer to the last flush.
LEMMA StopTakesAll ==
    ASSUME TypeOK, Places, TakeBatch(buffer)
    PROVE  batch' = buffer /\ buffer' = <<>>
    BY SliceWhole DEF TypeOK, Places

\* Where entries are and whether the channel is subscribed, per action.
LEMMA PlacesStep == TypeOK /\ Places /\ Subscribed /\ [Next]_vars => Places' /\ Subscribed'
    <1> SUFFICES ASSUME TypeOK, Places, Subscribed, [Next]_vars
                 PROVE  Places' /\ Subscribed'
        OBVIOUS
    <1>0. faults' = faults /\ Len(<<>>) < BatchSize
        BY DEF Next, vars
    <1> USE <1>0 DEF Places, Subscribed
    <1>1. CASE Publish
        BY <1>1 DEF Publish
    <1>2. CASE Subscribe
        BY <1>2 DEF Subscribe
    <1>3. CASE Receive
        <2>1. pc = "listen" /\ linked' = linked
            BY <1>3 DEF Receive
        <2>2. \/ pc' = "flush" /\ buffer' = <<>>
              \/ pc' = "listen" /\ batch' = <<>> /\ Len(buffer') < BatchSize
            BY <1>3, ReceiveMoves
        <2> QED
            BY <2>1, <2>2
    <1>4. CASE Flushed
        <2>1. PICK written \in BOOLEAN : FlushDone(written)
            BY <1>4 DEF Flushed
        <2> QED
            BY <1>4, <2>1, FlushEffect DEF Flushed
    <1>5. CASE NoticeBreak
        BY <1>5 DEF NoticeBreak
    <1>6. CASE WakeUp
        BY <1>6 DEF WakeUp
    <1>7. CASE FinalFlushed
        <2>1. PICK written \in BOOLEAN : FlushDone(written)
            BY <1>7 DEF FinalFlushed
        <2> QED
            BY <1>7, <2>1, FlushEffect DEF FinalFlushed
    <1>8. CASE SubscribeFails
        BY <1>8 DEF SubscribeFails
    <1>9. CASE StopListening
        BY <1>9, StopTakesAll DEF StopListening, Leave
    <1>10. CASE StopFlushing
        BY <1>10, StopTakesAll DEF StopFlushing, Leave
    <1>11. CASE StopSleeping
        BY <1>11 DEF StopSleeping, Leave
    <1>12. CASE Break
        BY <1>12 DEF Break
    <1>13. CASE Crash
        BY <1>13 DEF Crash, Leave
    <1>14. CASE Restart
        BY <1>14 DEF Restart
    <1>15. CASE Tick
        BY <1>15 DEF Tick
    <1>16. CASE UNCHANGED vars
        BY <1>16 DEF vars
    <1> QED
        BY <1>1, <1>2, <1>3, <1>4, <1>5, <1>6, <1>7, <1>8, <1>9, <1>10, <1>11,
           <1>12, <1>13, <1>14, <1>15, <1>16 DEF Next, Consumer

-----------------------------------------------------------------------------
(* The entries in line, step by step                                       *)

\* In a step the line stays as it is, gets a new entry at its end that is later
\* than all others, loses its end, loses its batch to the table or to nobody,
\* or is given up.  First: it stays.
LEMMA LineKept ==
    ASSUME Published, InOrder, InLine' = InLine, UNCHANGED <<rows, sent>>
    PROVE  Published' /\ InOrder'
    BY DEF Published, InOrder

\* The line is given up, its batch perhaps written.
LEMMA LineGivenUp ==
    ASSUME TypeOK, Published, InLine' = <<>>,
           rows' \in {rows, rows \cup Marks(batch)},
           \A m \in Marks(batch) : m <= sent,
           sent' = sent
    PROVE  Published' /\ InOrder'
    BY MarksOfEmpty DEF Published, InOrder, Ordered

\* The parts of the line while the task lives.
LEMMA LineParts ==
    ASSUME TypeOK, Published, InOrder, pc # "stopped"
    PROVE  /\ InLine = batch \o buffer \o pending
           /\ batch \o buffer \in Seq(Entries) /\ InLine \in Seq(Entries)
           /\ Marks(InLine) = Marks(batch) \cup Marks(buffer) \cup Marks(pending)
           /\ Ordered(InLine) /\ Before(rows, Marks(InLine))
    <1>1. InLine = batch \o buffer \o pending
        BY DEF InLine
    <1>2. batch \o buffer \in Seq(Entries) /\ InLine \in Seq(Entries)
        BY <1>1 DEF TypeOK
    <1>3. Marks(InLine) = Marks(batch) \cup Marks(buffer) \cup Marks(pending)
        <2>1. Marks(batch \o buffer) = Marks(batch) \cup Marks(buffer)
            BY MarksOfPieces DEF TypeOK
        <2>2. Marks(InLine) = Marks(batch \o buffer) \cup Marks(pending)
            BY <1>1, <1>2, MarksOfPieces DEF TypeOK
        <2> QED
            BY <2>1, <2>2
    <1>4. Ordered(InLine) /\ Before(rows, Marks(InLine))
        BY DEF InOrder, Ordered, Before
    <1> QED
        BY <1>1, <1>2, <1>3, <1>4

\* The line loses its batch to the table or to nobody, and its end or not.
LEMMA LineShrinks ==
    ASSUME TypeOK, Published, InOrder, pc # "stopped", pc' # "stopped",
           rows' \in {rows, rows \cup Marks(batch)},
           batch' \o buffer' = buffer, pending' \in {pending, <<>>},
           sent' = sent
    PROVE  Published' /\ InOrder'
    <1>1. /\ InLine = batch \o buffer \o pending
          /\ Marks(InLine) = Marks(batch) \cup Marks(buffer) \cup Marks(pending)
          /\ Ordered(InLine) /\ Before(rows, Marks(InLine))
        BY LineParts
    <1>2. InLine' = buffer \o pending'
        BY DEF InLine
    <1>3. /\ Ordered(buffer) /\ Ordered(buffer \o pending)
          /\ Before(Marks(batch), Marks(buffer) \cup Marks(pending))
        BY <1>1, OrderedMiddle DEF TypeOK
    <1>4. CASE pending' = pending
        <2>1. Marks(InLine') = Marks(buffer) \cup Marks(pending)
            BY <1>2, <1>4, MarksOfPieces DEF TypeOK
        <2>2. Ordered(InLine')
            BY <1>2, <1>3, <1>4
        <2>3. Before(rows', Marks(InLine'))
            BY <1>1, <1>3, <2>1 DEF Before
        <2> QED
            BY <1>1, <2>1, <2>2, <2>3 DEF Published, InOrder, Ordered, Before, Marks
    <1>5. CASE pending' = <<>>
        <2>1. InLine' = buffer
            BY <1>2, <1>5 DEF TypeOK
        <2>2. Before(rows', Marks(buffer))
            BY <1>1, <1>3 DEF Before
        <2> QED
            BY <1>1, <1>3, <2>1, <2>2 DEF Published, InOrder, Ordered, Before, Marks
    <1> QED
        BY <1>4, <1>5

\* The line only loses what the subscriber has not read.
LEMMA LineCut ==
    ASSUME TypeOK, Published, InOrder, pc # "stopped", pc' # "stopped",
           batch' \o buffer' = batch \o buffer, pending' \in {pending, <<>>},
           UNCHANGED <<rows, sent>>
    PROVE  Published' /\ InOrder'
    <1>1. /\ InLine = batch \o buffer \o pending
          /\ batch \o buffer \in Seq(Entries)
          /\ Marks(InLine) = Marks(batch) \cup Marks(buffer) \cup Marks(pending)
          /\ Ordered(InLine) /\ Before(rows, Marks(InLine))
        BY LineParts
    <1>2. InLine' = batch \o buffer \o pending'
        BY DEF InLine
    <1>3. CASE pending' = pending
        BY <1>1, <1>2, <1>3, LineKept
    <1>4. CASE pending' = <<>>
        <2>1. InLine' = batch \o buffer
            BY <1>1, <1>2, <1>4
        <2>2. Ordered(batch \o buffer)
            BY <1>1, OrderedMiddle DEF TypeOK
        <2>3. Marks(batch \o buffer) = Marks(batch) \cup Marks(buffer)
            BY MarksOfPieces DEF TypeOK
        <2> QED
            BY <1>1, <2>1, <2>2, <2>3 DEF Published, InOrder, Ordered, Before
    <1> QED
        BY <1>3, <1>4

\* Every action keeps the line in order.
LEMMA OrderStep ==
    TypeOK /\ Places /\ Published /\ InOrder /\ [Next]_vars => Published' /\ InOrder'
    <1> SUFFICES ASSUME TypeOK, Places, Published, InOrder, [Next]_vars
                 PROVE  Published' /\ InOrder'
        OBVIOUS
    <1>1. CASE Publish
        <2>1. PICK m \in {0, sent + 1} \cap Entries :
                    /\ sent' = IF m = 0 THEN sent ELSE m
                    /\ pending' = IF linked THEN Append(pending, m) ELSE pending
            BY <1>1 DEF Publish
        <2>2. /\ pc' = pc /\ batch' = batch /\ buffer' = buffer /\ rows' = rows
              /\ sent <= sent' /\ {sent, sent'} \subseteq Nat
            BY <1>1, <2>1 DEF Publish, TypeOK, Entries
        <2>3. \A n \in Marks(InLine) \cup rows : n <= sent /\ n \in Nat
            <3>1. InLine \in Seq(Entries)
                BY DEF InLine, TypeOK
            <3>2. Marks(InLine) \subseteq 1 .. Marked /\ rows \subseteq 1 .. Marked
                BY <3>1, MarksType DEF TypeOK
            <3>3. 1 .. Marked \subseteq Nat
                OBVIOUS
            <3>4. Marks(InLine) \cup rows \subseteq Nat
                BY <3>2, <3>3, Zenon
            <3> QED
                BY <3>4 DEF Published
        <2>4. CASE InLine' = InLine
            BY <2>2, <2>3, <2>4 DEF Published, InOrder
        <2>5. CASE InLine' # InLine
            <3>1. pc # "stopped" /\ linked /\ pending' = Append(pending, m)
                BY <2>1, <2>2, <2>5 DEF InLine, Places
            <3>2. /\ InLine = batch \o buffer \o pending
                  /\ InLine \in Seq(Entries) /\ Ordered(InLine)
                  /\ Before(rows, Marks(InLine))
                BY <3>1, LineParts
            <3>3. InLine' = InLine \o <<m>>
                <4>1. InLine' = batch \o buffer \o Append(pending, m)
                    BY <2>2, <3>1 DEF InLine
                <4>2. batch \o buffer \in Seq(Entries) /\ pending \in Seq(Entries)
                    BY DEF TypeOK
                <4>3. (batch \o buffer) \o Append(pending, m)
                            = ((batch \o buffer) \o pending) \o <<m>>
                    BY <2>1, <4>2, AppendToEnd
                <4> QED
                    BY <3>2, <4>1, <4>3
            <3>4. /\ <<m>> \in Seq(Entries) /\ Marks(<<m>>) = {m} \ {0}
                  /\ Ordered(<<m>>)
                BY <2>1, SingleEntry
            <3>5. m # 0 => \A n \in Marks(InLine) \cup rows : n < m
                BY <2>1, <2>2, <2>3
            <3>6. Ordered(InLine')
                BY <3>2, <3>3, <3>4, <3>5, OrderedPieces DEF Before
            <3>7. Marks(InLine') = Marks(InLine) \cup ({m} \ {0})
                BY <3>2, <3>3, <3>4, MarksOfPieces
            <3>8. Before(rows', Marks(InLine'))
                BY <2>2, <3>2, <3>5, <3>7 DEF Before
            <3>9. m # 0 => sent' = m
                BY <2>1
            <3> QED
                BY <2>2, <2>3, <3>6, <3>7, <3>8, <3>9
                   DEF Published, InOrder, Ordered, Before
        <2> QED
            BY <2>4, <2>5
    <1>2. CASE Receive
        <2>1. /\ batch = <<>>
              /\ batch' \o buffer' = Append(buffer, Head(pending))
              /\ pc' \in {"flush", "listen"} /\ pc = "listen"
            BY <1>2, ReceiveMoves DEF Receive
        <2>2. pending' = Tail(pending) /\ pending # <<>> /\ rows' = rows /\ sent' = sent
            BY <1>2 DEF Receive
        <2>3. Append(buffer, Head(pending)) \o Tail(pending) = buffer \o pending
            BY <2>2, MoveHead DEF TypeOK
        <2>4. InLine = buffer \o pending
            BY <2>1 DEF InLine, TypeOK
        <2>5. InLine' = InLine
            BY <2>1, <2>2, <2>3, <2>4 DEF InLine
        <2> QED
            BY <2>2, <2>5, LineKept
    <1>3. ASSUME pc \in {"flush", "final"}, pc' # "stopped",
                 batch' \o buffer' = buffer, pending' \in {pending, <<>>},
                 rows' \in {rows, rows \cup Marks(batch)}, sent' = sent
          PROVE  Published' /\ InOrder'
        BY <1>3, LineShrinks
    <1>4. CASE Flushed
        <2>1. PICK written \in BOOLEAN : FlushDone(written)
            BY <1>4 DEF Flushed
        <2> QED
            BY <1>3, <1>4, <2>1, FlushEffect DEF Flushed, TypeOK
    <1>5. CASE StopFlushing
        <2>1. batch' \o buffer' = buffer
            BY <1>5, StopTakesAll DEF StopFlushing, TypeOK
        <2> QED
            BY <1>3, <1>5, <2>1 DEF StopFlushing, Leave
    <1>6. CASE StopListening
        <2>1. batch = <<>>
            BY <1>6 DEF StopListening, Places
        <2>2. batch' \o buffer' = batch \o buffer
            BY <1>6, <2>1, StopTakesAll DEF StopListening, TypeOK
        <2> QED
            BY <1>6, <2>2, LineCut DEF StopListening, Leave
    <1>7. ASSUME pc # "stopped", pc' # "stopped", UNCHANGED <<batch, buffer, rows, sent>>,
                 pending' \in {pending, <<>>}
          PROVE  Published' /\ InOrder'
        BY <1>7, LineCut
    <1>8. CASE Subscribe \/ NoticeBreak \/ WakeUp \/ SubscribeFails
        BY <1>7, <1>8 DEF Subscribe, NoticeBreak, WakeUp, SubscribeFails
    <1>9. CASE Break
        <2>1. pc # "stopped"
            BY <1>9 DEF Break, Places
        <2> QED
            BY <1>7, <1>9, <2>1 DEF Break
    <1>10. ASSUME pc # "stopped", pc' = "stopped",
                  rows' \in {rows, rows \cup Marks(batch)}, sent' = sent
           PROVE  Published' /\ InOrder'
        <2>1. \A m \in Marks(batch) : m <= sent
            BY <1>10, LineParts DEF Published
        <2>2. InLine' = <<>>
            BY <1>10 DEF InLine
        <2> QED
            BY <1>10, <2>1, <2>2, LineGivenUp
    <1>11. CASE FinalFlushed
        <2>1. PICK written \in BOOLEAN : FlushDone(written)
            BY <1>11 DEF FinalFlushed
        <2> QED
            BY <1>10, <1>11, <2>1, FlushEffect DEF FinalFlushed
    <1>12. CASE StopSleeping \/ Crash
        BY <1>10, <1>12 DEF StopSleeping, Crash, Leave
    <1>13. CASE Restart
        <2>1. InLine = <<>> /\ InLine' = <<>> /\ rows' = rows /\ sent' = sent
            BY <1>13 DEF Restart, InLine, Places
        <2> QED
            BY <2>1, LineKept
    <1>14. CASE Tick \/ UNCHANGED vars
        <2>1. InLine' = InLine /\ rows' = rows /\ sent' = sent
            BY <1>14 DEF Tick, vars, InLine
        <2> QED
            BY <2>1, LineKept
    <1> QED
        BY <1>1, <1>2, <1>4, <1>5, <1>6, <1>8, <1>9, <1>11, <1>12, <1>13, <1>14
           DEF Next, Consumer
-----------------------------------------------------------------------------
(* What has been read is kept                                              *)

\* The marks of a batch and the buffer, piece by piece.
LEMMA MarksHeld ==
    TypeOK => Marks(batch \o buffer) = Marks(batch) \cup Marks(buffer)
    BY MarksOfPieces DEF TypeOK

\* Reading moves an entry to the end of the buffer, a flush or a shutdown
\* moves it on, and what a step drops it no longer owes.
LEMMA KeptStep ==
    ASSUME TypeOK, Places, ReadIsKept, [Next]_vars
    PROVE  ReadIsKept'
    <1>1. /\ owed \subseteq rows \cup Marks(batch) \cup Marks(buffer)
          /\ pc = "stopped" => owed \subseteq rows
        BY MarksHeld DEF ReadIsKept
    <1>2. ASSUME UNCHANGED <<pc, batch, buffer, owed>>, rows' = rows
          PROVE  ReadIsKept'
        BY <1>2 DEF ReadIsKept, Marks
    <1>3. ASSUME batch' \o buffer' = buffer, rows \subseteq rows', pc' # "stopped",
                 \/ owed' \subseteq owed \ Marks(batch)
                 \/ owed' \subseteq owed /\ Marks(batch) \subseteq rows'
          PROVE  ReadIsKept'
        BY <1>1, <1>3 DEF ReadIsKept, Marks
    <1>4. CASE Receive
        <2> DEFINE m == Head(pending)
        <2>1. /\ batch = <<>> /\ batch' \o buffer' = Append(buffer, m)
              /\ rows' = rows /\ owed' = owed \cup ({m} \ {0})
            BY <1>4, ReceiveMoves DEF Receive
        <2>2. m \in Entries /\ buffer \in Seq(Entries)
            BY <1>4, MoveHead DEF Receive, TypeOK
        <2> HIDE DEF m
        <2>3. Marks(Append(buffer, m)) = Marks(buffer) \cup ({m} \ {0})
            <3>1. Append(buffer, m) = buffer \o <<m>>
                BY <2>2
            <3> QED
                BY <2>2, <3>1, SingleEntry, MarksOfPieces
        <2>4. Marks(batch) = {}
            BY <2>1, MarksOfEmpty
        <2>5. owed' \subseteq rows' \cup Marks(batch' \o buffer') /\ pc' # "stopped"
            BY <1>1, <1>4, <2>1, <2>3, <2>4 DEF Receive
        <2> QED
            BY <2>5 DEF ReadIsKept, Marks
    <1>5. CASE Flushed \/ FinalFlushed
        <2>1. PICK written \in BOOLEAN : FlushDone(written)
            BY <1>5 DEF Flushed, FinalFlushed
        <2>2. /\ rows' = IF written THEN rows \cup Marks(batch) ELSE rows
              /\ owed' = IF written THEN owed ELSE owed \ Marks(batch)
              /\ batch' = <<>> /\ buffer' = buffer
            BY <2>1, FlushEffect
        <2>3. CASE Flushed
            <3>1. batch' \o buffer' = buffer /\ pc' # "stopped"
                BY <2>2, <2>3 DEF TypeOK, Flushed
            <3> QED
                BY <1>3, <2>2, <3>1
        <2>4. CASE FinalFlushed
            <3>1. pc' = "stopped" /\ Marks(buffer) = {}
                BY <2>4, MarksOfEmpty DEF FinalFlushed, Places
            <3>2. owed' \subseteq rows'
                BY <1>1, <2>2, <3>1
            <3> QED
                BY <3>1, <3>2 DEF ReadIsKept
        <2> QED
            BY <1>5, <2>3, <2>4
    <1>6. CASE StopListening
        <2>1. batch = <<>> /\ batch' = buffer /\ buffer' = <<>>
            BY <1>6, StopTakesAll DEF StopListening, Places
        <2>2. batch' \o buffer' = buffer /\ Marks(batch) = {}
            BY <2>1, MarksOfEmpty DEF TypeOK
        <2> QED
            BY <1>3, <1>6, <2>2 DEF StopListening, Leave
    <1>7. CASE StopFlushing
        <2>1. batch' = buffer /\ buffer' = <<>>
            BY <1>7, StopTakesAll DEF StopFlushing
        <2>2. batch' \o buffer' = buffer
            BY <2>1 DEF TypeOK
        <2> QED
            BY <1>3, <1>7, <2>2 DEF StopFlushing, Leave
    <1>8. CASE StopSleeping \/ Crash
        <2>1. /\ pc' = "stopped" /\ rows \subseteq rows'
              /\ \/ owed' = owed \ Marks(buffer) /\ batch = <<>>
                 \/ owed' = owed \ Marks(batch \o buffer)
            BY <1>8 DEF StopSleeping, Crash, Leave, Places
        <2>2. owed' \subseteq rows'
            BY <1>1, <2>1, MarksHeld, MarksOfEmpty
        <2> QED
            BY <2>1, <2>2 DEF ReadIsKept
    <1>9. CASE Restart
        <2>1. rows' = rows /\ owed' = owed /\ owed \subseteq rows
            BY <1>1, <1>9 DEF Restart
        <2> QED
            BY <2>1 DEF ReadIsKept
    <1>10. CASE Publish \/ Break \/ Tick \/ UNCHANGED vars
        BY <1>2, <1>10 DEF Publish, Break, Tick, vars
    <1>11. CASE Subscribe \/ NoticeBreak \/ WakeUp \/ SubscribeFails
        <2>1. UNCHANGED <<batch, buffer, owed, rows>> /\ pc # "stopped" /\ pc' # "stopped"
            BY <1>11 DEF Subscribe, NoticeBreak, WakeUp, SubscribeFails
        <2> QED
            BY <2>1 DEF ReadIsKept, Marks
    <1> QED
        BY <1>4, <1>5, <1>6, <1>7, <1>8, <1>9, <1>10, <1>11 DEF Next, Consumer

\* The invariant is inductive.
THEOREM InvariantHolds == Spec => []IInv
    <1>1. IInv /\ [Next]_vars => IInv'
        BY TypeStep, PlacesStep, OrderStep, KeptStep DEF IInv
    <1> QED
        BY <1>1, Start, PTL DEF Spec
-----------------------------------------------------------------------------
(* The properties                                                          *)

\* Every variable keeps its type, for any sizes and any mix of faults.
THEOREM TypeCorrect == Spec => []TypeOK
    <1>1. IInv => TypeOK
        BY DEF IInv
    <1> QED
        BY <1>1, InvariantHolds, PTL

\* No entry is written twice and none overtakes another, whatever breaks.
THEOREM NeverReordered == Spec => []InOrder
    <1>1. IInv => InOrder
        BY DEF IInv
    <1> QED
        BY <1>1, InvariantHolds, PTL

\* An entry that was read is in the table or with a living task, but for the
\* failed commits, interrupted batches and crashes that ReadIsKept names.
THEOREM NothingReadIsLost == Spec => []ReadIsKept
    <1>1. IInv => ReadIsKept
        BY DEF IInv
    <1> QED
        BY <1>1, InvariantHolds, PTL

\* Without a Redis failure a shutdown ends the task only after a flush of all
\* that it had read, but for the batch whose commit it interrupted.
THEOREM ShutdownFlushes == Spec => StopLosesOneBatch
    <1> DEFINE Ends == /\ pc # "stopped" /\ "redis" \notin faults
                       /\ {"database", "crash"} \cap faults = {}
                       /\ pc' = "stopped"
               Saved == Marks(batch \o buffer) \subseteq rows'
    <1>1. IInv /\ [Next]_vars => [Ends => Saved]_vars
        <2> SUFFICES ASSUME IInv, Next, Ends PROVE Saved
            BY DEF vars
        <2>1. FinalFlushed
            BY DEF Next, Consumer, Publish, Subscribe, Receive, Flushed,
                   NoticeBreak, WakeUp, SubscribeFails, StopListening,
                   StopFlushing, StopSleeping, Break, Crash, Restart, Tick,
                   Leave, IInv, Subscribed, FinalFlushed
        <2>2. buffer = <<>>
            BY <2>1 DEF FinalFlushed, IInv, Places
        <2>3. batch \o buffer = batch
            BY <2>2 DEF IInv, TypeOK
        <2>4. FlushDone(TRUE)
            BY <2>1 DEF FinalFlushed
        <2> QED
            BY <2>3, <2>4, FlushEffect
    <1> QED
        BY <1>1, InvariantHolds, PTL DEF Spec, StopLosesOneBatch
=============================================================================
