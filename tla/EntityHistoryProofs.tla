------------------------- MODULE EntityHistoryProofs -------------------------
(***************************************************************************)
(* Proofs about EntityHistory for any editors, columns and values, and     *)
(* any retention limit and number of commits.                              *)
(***************************************************************************)
EXTENDS EntityHistory, TLAPS

\* No entry is from the future.
EntriesPast == \A h \in history : h.at <= second

\* Versions only grow under commits that are neither a rollback nor overtook
\* another one, so that a current copy is never ahead of the row.
CopiesBehind ==
    \A e \in Editors :
        current[e] /\ copy[e] # Nothing /\ row # Nothing => copy[e].ver <= row.ver

\* A request that passed the version check loaded its client's copy.
CheckedSawLoaded ==
    \A e \in Editors :
        op[e] # Nothing /\ op[e].checked /\ current[e] => op[e].loaded = copy[e]

\* What each kind of request sets out to write.
RequestsSound ==
    \A e \in Editors : op[e] # Nothing =>
        /\ op[e].kind = "update" =>
              /\ op[e].loaded # Nothing
              /\ op[e].target # Nothing
              /\ op[e].target.ver = op[e].loaded.ver + 1
        /\ op[e].kind = "rollback" => op[e].target # Nothing

IInv ==
    /\ TypeOK
    /\ EntriesPast
    /\ CopiesBehind
    /\ VersionNamesContent
    /\ CheckedSawLoaded
    /\ RequestsSound

USE HistoryAssumption, NothingAssumption

-----------------------------------------------------------------------------
\* The initial states satisfy the invariant.
LEMMA InitHolds == Init => IInv
    <1> SUFFICES ASSUME Init PROVE IInv
        OBVIOUS
    <1>1. TypeOK
        BY DEF Init, TypeOK, Row, Content, Entry
    <1> QED
        BY <1>1 DEF Init, IInv, EntriesPast, CopiesBehind, VersionNamesContent,
                    CheckedSawLoaded, RequestsSound

\* What an UPDATE leaves is a row.
LEMMA WrittenType ==
    ASSUME TypeOK, NEW e \in Editors, op[e] # Nothing, op[e].loaded # Nothing,
           op[e].target # Nothing, row # Nothing
    PROVE  Written(op[e]) \in Row
    <1>1. /\ op[e] \in Request
          /\ op[e].loaded \in Row
          /\ op[e].target \in Row
          /\ row \in Row
        BY DEF TypeOK, Request
    <1>2. \A f \in Fields : op[e].target.val[f] \in Values /\ row.val[f] \in Values
        BY <1>1 DEF Row, Content
    <1>3. op[e].target.ver \in Nat \ {0} /\ row.ver \in Nat \ {0}
        BY <1>1 DEF Row
    <1> QED
        BY <1>2, <1>3 DEF Written, Row, Content

\* record_change keeps entries only, of the past or the present, and drops
\* the new one only if all it keeps are of the same second.
LEMMA RecordLemma ==
    ASSUME TypeOK, EntriesPast, NEW snap \in Row \cup {Nothing},
           second' \in {second, second + 1}, RecordChange(snap)
    PROVE  /\ history' \subseteq Entry
           /\ \A h \in history' : h.at <= second'
           /\ \/ \E h \in history' : h.snap = snap
              \/ \A h \in history' : h.at = second'
    <1> DEFINE new == [id |-> changes + 1, at |-> second', snap |-> snap]
               all == history \cup {new}
    <1>1. second' \in Nat /\ second <= second'
        BY DEF TypeOK
    <1>2. new \in Entry /\ new.at = second' /\ new.snap = snap
        BY <1>1 DEF Entry, TypeOK
    <1>3. \A h \in all : h \in Entry /\ h.at \in Nat /\ h.at <= second'
        BY <1>1, <1>2 DEF TypeOK, Entry, EntriesPast
    <1>4. CASE history' = all
        BY <1>2, <1>3, <1>4
    <1>5. CASE \E oldest \in all : (\A h \in all : oldest.at <= h.at) /\ history' = all \ {oldest}
        <2>1. PICK oldest \in all : (\A h \in all : oldest.at <= h.at) /\ history' = all \ {oldest}
            BY <1>5
        <2>2. CASE oldest = new
            <3>1. \A h \in all : h.at = second'
                BY <2>1, <2>2, <1>1, <1>2, <1>3
            <3> QED
                BY <3>1, <2>1, <1>3
        <2>3. CASE oldest # new
            BY <2>1, <2>3, <1>2, <1>3
        <2> QED
            BY <2>2, <2>3
    <1> QED
        BY <1>4, <1>5 DEF RecordChange

\* Every commit keeps the parts that do not depend on the row it writes.
LEMMA CommitKeeps ==
    ASSUME IInv, NEW e \in Editors, op[e] # Nothing, NEW snap \in Row \cup {Nothing},
           NEW orderly \in BOOLEAN, row' \in Row \cup {Nothing}, Commit(e, snap, orderly)
    PROVE  TypeOK' /\ EntriesPast' /\ CheckedSawLoaded' /\ RequestsSound'
    <1>1. /\ history' \subseteq Entry
          /\ EntriesPast'
        BY RecordLemma DEF IInv, Commit, EntriesPast
    <1>2. TypeOK'
        BY <1>1 DEF IInv, TypeOK, Commit
    <1>3. \A d \in Editors : /\ current'[d] => current[d]
                             /\ op'[d] # Nothing => op'[d] = op[d]
        BY DEF Commit, IInv, TypeOK
    <1>4. CheckedSawLoaded' /\ RequestsSound'
        BY <1>3 DEF IInv, CheckedSawLoaded, RequestsSound, Commit
    <1> QED
        BY <1>1, <1>2, <1>4

-----------------------------------------------------------------------------
\* Every step preserves the invariant.
LEMMA StepHolds == IInv /\ [Next]_vars => IInv'
    <1> SUFFICES ASSUME IInv, [Next]_vars PROVE IInv'
        OBVIOUS
    <1>1. CASE UNCHANGED vars
        BY <1>1 DEF vars, IInv, TypeOK, EntriesPast, CopiesBehind, VersionNamesContent,
                    CheckedSawLoaded, RequestsSound
    <1>0. CASE DeleteConnection
        <2>1. TypeOK'
            BY <1>0 DEF DeleteConnection, IInv, TypeOK
        <2> QED
            BY <1>0, <2>1
               DEF DeleteConnection, IInv, EntriesPast, CopiesBehind,
                   VersionNamesContent, CheckedSawLoaded, RequestsSound
    <1> SUFFICES ASSUME NEW e \in Editors, Step(e) PROVE IInv'
        BY <1>0, <1>1 DEF Next
    <1>2. CASE Fetch(e)
        <2>1. TypeOK'
            BY <1>2 DEF IInv, TypeOK, Fetch
        <2>2. row \in Row /\ row.ver \in Nat
            BY <1>2 DEF IInv, TypeOK, Fetch, Row
        <2>3. \A d \in Editors : d # e => copy'[d] = copy[d] /\ current'[d] = current[d]
            BY <1>2 DEF IInv, TypeOK, Fetch
        <2>4. copy'[e] = row
            BY <1>2 DEF IInv, TypeOK, Fetch
        <2> QED
            BY <1>2, <2>1, <2>2, <2>3, <2>4
               DEF IInv, Fetch, EntriesPast, CopiesBehind, VersionNamesContent,
                   CheckedSawLoaded, RequestsSound
    <1>3. ASSUME NEW kind \in {"update", "delete", "rollback"}, NEW checked \in BOOLEAN,
                 NEW target \in Row \cup {Nothing}, Begin(e, kind, checked, target),
                 checked /\ current[e] => row = copy[e],
                 kind = "update" => row # Nothing /\ target # Nothing /\ target.ver = row.ver + 1,
                 kind = "rollback" => target # Nothing
          PROVE  IInv'
        <2> DEFINE r == [kind |-> kind, checked |-> checked, loaded |-> row, target |-> target]
        <2>1. r \in Request /\ r # Nothing
            BY DEF IInv, TypeOK, Request
        <2>2. TypeOK'
            BY <1>3, <2>1 DEF IInv, TypeOK, Begin
        <2>3. op'[e] = r /\ \A d \in Editors : d # e => op'[d] = op[d]
            BY <1>3 DEF IInv, TypeOK, Begin
        <2>4. CheckedSawLoaded' /\ RequestsSound'
            BY <1>3, <2>3 DEF IInv, CheckedSawLoaded, RequestsSound, Begin
        <2> QED
            BY <1>3, <2>2, <2>4
               DEF IInv, Begin, EntriesPast, CopiesBehind, VersionNamesContent
    <1>4. CASE StartUpdate(e)
        <2>1. PICK checked \in BOOLEAN, f \in Fields, v \in Values :
                 /\ checked => copy[e] # Nothing /\ copy[e].ver = row.ver
                 /\ Begin(e, "update", checked,
                          [ver |-> row.ver + 1, val |-> [row.val EXCEPT ![f] = v]])
            BY <1>4 DEF StartUpdate
        <2>2. row \in Row /\ row # Nothing
            BY <1>4 DEF StartUpdate, IInv, TypeOK
        <2>3. [ver |-> row.ver + 1, val |-> [row.val EXCEPT ![f] = v]] \in Row
            BY <2>2 DEF Row, Content
        <2>4. checked /\ current[e] => row = copy[e]
            BY <2>1, <2>2 DEF IInv, VersionNamesContent
        <2> QED
            BY <1>3, <2>1, <2>2, <2>3, <2>4
    <1>5. CASE StartDelete(e)
        BY <1>3, <1>5 DEF StartDelete
    <1>6. CASE StartRollback(e)
        <2>1. PICK h \in history :
                 /\ h.snap # Nothing
                 /\ Begin(e, "rollback", FALSE,
                          [ver |-> IF row = Nothing THEN 1 ELSE h.snap.ver + 1,
                           val |-> h.snap.val])
            BY <1>6 DEF StartRollback
        <2>2. h.snap \in Row
            BY <2>1 DEF IInv, TypeOK, Entry
        <2>3. [ver |-> IF row = Nothing THEN 1 ELSE h.snap.ver + 1, val |-> h.snap.val] \in Row
            BY <2>2 DEF Row
        <2> QED
            BY <1>3, <2>1, <2>3
    <1>7. CASE CommitUpdate(e)
        <2>1. /\ op[e] # Nothing /\ op[e].loaded # Nothing /\ op[e].target # Nothing
              /\ op[e].target.ver = op[e].loaded.ver + 1
              /\ op[e] \in Request
            BY <1>7 DEF CommitUpdate, IInv, RequestsSound, TypeOK
        <2>2. op[e].loaded \in Row /\ row \in Row /\ row # Nothing
            BY <1>7, <2>1 DEF CommitUpdate, IInv, TypeOK, Request
        <2>3. row' \in Row
            BY <1>7, <2>1, WrittenType DEF CommitUpdate, IInv
        <2>4. Commit(e, op[e].loaded, NotOvertaken(e))
            BY <1>7 DEF CommitUpdate
        <2>5. TypeOK' /\ EntriesPast' /\ CheckedSawLoaded' /\ RequestsSound'
            BY <2>1, <2>2, <2>3, <2>4, CommitKeeps DEF NotOvertaken
        <2>6. NotOvertaken(e) => row'.ver = row.ver + 1
            BY <1>7, <2>1, <2>2 DEF CommitUpdate, Written, NotOvertaken, Row
        <2>7. \A d \in Editors : current'[d] => current[d] /\ NotOvertaken(e) /\ copy'[d] = copy[d]
            BY <2>4 DEF Commit, IInv, TypeOK
        <2>8. \A d \in Editors : copy[d] # Nothing => copy[d].ver \in Nat
            BY DEF IInv, TypeOK, Row
        <2>9. CopiesBehind' /\ VersionNamesContent'
            <3> SUFFICES ASSUME NEW d \in Editors, current'[d], copy'[d] # Nothing
                         PROVE  copy'[d].ver < row'.ver
                BY <2>8, <2>7, <2>3 DEF CopiesBehind, VersionNamesContent, Row
            <3>1. copy[d].ver <= row.ver
                BY <2>7, <2>2 DEF IInv, CopiesBehind
            <3> QED
                BY <3>1, <2>2, <2>6, <2>7, <2>8 DEF Row
        <2> QED
            BY <2>5, <2>9 DEF IInv
    <1>8. CASE CommitDelete(e)
        <2>1. op[e] # Nothing /\ op[e].loaded \in Row \cup {Nothing}
            BY <1>8 DEF CommitDelete, IInv, TypeOK, Request
        <2>2. TypeOK' /\ EntriesPast' /\ CheckedSawLoaded' /\ RequestsSound'
            BY <1>8, <2>1, CommitKeeps DEF CommitDelete
        <2> QED
            BY <1>8, <2>2 DEF CommitDelete, IInv, CopiesBehind, VersionNamesContent
    <1>9. ASSUME NEW snap \in Row \cup {Nothing}, op[e] # Nothing,
                 row' \in Row \cup {Nothing}, Commit(e, snap, FALSE)
          PROVE  IInv'
        <2>1. TypeOK' /\ EntriesPast' /\ CheckedSawLoaded' /\ RequestsSound'
            BY <1>9, CommitKeeps
        <2>2. \A d \in Editors : ~current'[d]
            BY <1>9 DEF Commit
        <2> QED
            BY <2>1, <2>2 DEF IInv, CopiesBehind, VersionNamesContent
    <1>10. CASE CommitRestore(e)
        <2>1. /\ op[e] # Nothing /\ op[e].loaded \in Row /\ op[e].target # Nothing
              /\ op[e].loaded # Nothing
            BY <1>10 DEF CommitRestore, IInv, TypeOK, Request, RequestsSound
        <2>2. row' \in Row \cup {Nothing}
            BY <1>10, <2>1, WrittenType DEF CommitRestore, IInv, TypeOK
        <2> QED
            BY <1>9, <1>10, <2>1, <2>2 DEF CommitRestore
    <1>11. CASE CommitRecreate(e)
        <2>1. op[e] # Nothing /\ op[e].target \in Row \cup {Nothing}
            BY <1>11 DEF CommitRecreate, IInv, TypeOK, Request
        <2> QED
            BY <1>9, <1>11, <2>1 DEF CommitRecreate
    <1>12. CASE Abort(e)
        <2>1. \A d \in Editors : op'[d] # Nothing => op'[d] = op[d]
            BY <1>12 DEF Abort, IInv, TypeOK
        <2>2. TypeOK'
            BY <1>12 DEF Abort, IInv, TypeOK
        <2> QED
            BY <1>12, <2>1, <2>2
               DEF Abort, IInv, EntriesPast, CopiesBehind, VersionNamesContent,
                   CheckedSawLoaded, RequestsSound
    <1> QED
        BY <1>2, <1>4, <1>5, <1>6, <1>7, <1>8, <1>10, <1>11, <1>12 DEF Step

\* The inductive invariant of the entity, its history and its editors.
THEOREM Invariant == Spec => []IInv
    <1> QED
        BY InitHolds, StepHolds, PTL DEF Spec

\* All values stay within their types (models/resource.py,
\* models/change_history.py).
THEOREM TypeCorrect == Spec => []TypeOK
    BY Invariant, PTL DEF IInv

\* OL-1: a current copy with the row's version is the row
\* (routers/resources.py, update_resource).
THEOREM VersionsIdentify == Spec => []VersionNamesContent
    BY Invariant, PTL DEF IInv

\* OL-1: a checked update overwrites what its client changed and had seen, or
\* what was committed while it was under way (routers/resources.py,
\* update_resource).
THEOREM SeenIsOverwritten == Spec => OverwritesSeen
    <1> DEFINE Committed(e) == /\ op[e] # Nothing /\ op[e].kind = "update" /\ op[e].checked
                               /\ op'[e] = Nothing /\ changes' # changes /\ current[e]
               Seen(e, f) == /\ op[e].target.val[f] # op[e].loaded.val[f]
                             /\ \/ row.val[f] = copy[e].val[f]
                                \/ row.val[f] # op[e].loaded.val[f]
               A == \A e \in Editors : Committed(e) =>
                        \A f \in Fields : row'.val[f] # row.val[f] => Seen(e, f)
    <1>1. IInv /\ [Next]_vars => [A]_vars
        <2> SUFFICES ASSUME IInv, Next, NEW e \in Editors, Committed(e),
                            NEW f \in Fields, row'.val[f] # row.val[f]
                     PROVE  Seen(e, f)
            BY DEF vars
        <2>1. PICK d \in Editors : Step(d)
            BY DEF Next, DeleteConnection
        <2>2. \E snap \in Row \cup {Nothing}, orderly \in BOOLEAN : Commit(d, snap, orderly)
            BY <2>1 DEF Step, Fetch, StartUpdate, StartDelete, StartRollback, Begin, Abort,
                        CommitUpdate, CommitDelete, CommitRestore, CommitRecreate,
                        NotOvertaken, IInv, TypeOK, Request
        <2>3. d = e
            BY <2>2 DEF Commit, IInv, TypeOK
        <2>4. row' = Written(op[e])
            BY <2>1, <2>2, <2>3
               DEF Step, Fetch, StartUpdate, StartDelete, StartRollback, Begin, Abort,
                   CommitUpdate, CommitDelete, CommitRestore, CommitRecreate
        <2>5. op[e].target.val[f] # op[e].loaded.val[f]
            BY <2>4 DEF Written
        <2>6. op[e].loaded = copy[e]
            BY DEF IInv, CheckedSawLoaded
        <2> QED
            BY <2>5, <2>6
    <1> QED
        BY <1>1, Invariant, PTL DEF Spec, OverwritesSeen

\* The state a handler's commit replaced, without overtaking another one, is
\* in the history unless all it keeps is of one second (services/history.py,
\* record_change).
THEOREM Recorded == Spec => ReplacedIsRecorded
    <1> DEFINE A == \A e \in Editors :
                      ( /\ op[e] # Nothing /\ op'[e] = Nothing /\ changes' # changes
                        /\ NotOvertaken(e) /\ row # Nothing )
                      => \/ \E h \in history' : h.snap = row
                         \/ \A h \in history' : h.at = second'
    <1>1. IInv /\ [Next]_vars => [A]_vars
        <2> SUFFICES ASSUME IInv, Next, NEW e \in Editors,
                            op[e] # Nothing, op'[e] = Nothing, changes' # changes,
                            NotOvertaken(e), row # Nothing
                     PROVE  \/ \E h \in history' : h.snap = row
                            \/ \A h \in history' : h.at = second'
            BY DEF vars
        <2>1. PICK d \in Editors : Step(d)
            BY DEF Next, DeleteConnection
        <2>2. \/ \E orderly \in BOOLEAN : Commit(d, op[d].loaded, orderly)
              \/ row = Nothing
            BY <2>1 DEF Step, Fetch, StartUpdate, StartDelete, StartRollback, Begin, Abort,
                        CommitUpdate, CommitDelete, CommitRestore, CommitRecreate, NotOvertaken
        <2>3. PICK orderly \in BOOLEAN : Commit(d, op[d].loaded, orderly)
            BY <2>2
        <2>4. d = e
            BY <2>3 DEF Commit, IInv, TypeOK
        <2> QED
            BY <2>3, <2>4, RecordLemma DEF Commit, IInv, TypeOK, NotOvertaken
    <1> QED
        BY <1>1, Invariant, PTL DEF Spec, ReplacedIsRecorded
=============================================================================
