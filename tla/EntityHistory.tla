---------------------------- MODULE EntityHistory ----------------------------
(***************************************************************************)
(* One entity of the Studio (a resource or a prompt) under concurrent      *)
(* editors: the PATCH, DELETE and rollback handlers, the optimistic        *)
(* version check (OL-1) and the change history with its retention limit.   *)
(*                                                                         *)
(* A handler SELECTs the row outside any transaction, awaits (the prompt   *)
(* guard, the database), and then flushes, prunes and commits under        *)
(* SQLite's write lock: each handler is a Start step and a Commit step.    *)
(* SQLAlchemy's UPDATE names only the columns that differ from what the    *)
(* handler loaded.  Tools add parameter rows and connections mask their    *)
(* secrets around the same steps; both are left out.  A resource also goes *)
(* with its connection.                                                    *)
(***************************************************************************)
EXTENDS Naturals, FiniteSets

CONSTANTS
    Editors,        \* clients of the API: browser tabs, agents
    Fields, Values, \* the entity's columns besides id, version and timestamps
    MaxHistory,     \* _MAX_HISTORY_PER_ENTITY
    MaxChanges,     \* bound on the number of recorded commits
    Nothing         \* no row, no copy, no snapshot, no request

ASSUME HistoryAssumption == MaxHistory \in Nat \ {0} /\ MaxChanges \in Nat

Content == [Fields -> Values]
Row == [ver : Nat \ {0}, val : Content]
Entry == [id : Nat, at : Nat, snap : Row \cup {Nothing}]
Request == [kind : {"update", "delete", "rollback"}, checked : BOOLEAN,
            loaded : Row \cup {Nothing}, target : Row \cup {Nothing}]

ASSUME NothingAssumption == Nothing \notin Row \cup Request

VARIABLES
    row,      \* the entity's row in the database, or Nothing
    history,  \* its change_history entries
    second,   \* the database's clock, as func.now() reads it
    changes,  \* commits so far; numbers the history entries
    copy,     \* copy[e]: the entity as e last fetched it
    op,       \* op[e]: the request e has under way
    current   \* current[e]: since e fetched its copy, no commit was a rollback
              \* or overtook another one (history variable)

vars == <<row, history, second, changes, copy, op, current>>

\* create_resource has committed.
Init ==
    /\ row \in [ver : {1}, val : Content]
    /\ history = {[id |-> 0, at |-> 0, snap |-> Nothing]}
    /\ second = 0
    /\ changes = 0
    /\ copy = [e \in Editors |-> Nothing]
    /\ op = [e \in Editors |-> Nothing]
    /\ current = [e \in Editors |-> FALSE]

-----------------------------------------------------------------------------
\* GET of the entity; a client has one request under way at a time.
Fetch(e) ==
    /\ op[e] = Nothing
    /\ row # Nothing
    /\ copy' = [copy EXCEPT ![e] = row]
    /\ current' = [current EXCEPT ![e] = TRUE]
    /\ UNCHANGED <<row, history, second, changes, op>>

Begin(e, kind, checked, target) ==
    /\ op' = [op EXCEPT ![e] = [kind |-> kind, checked |-> checked,
                                loaded |-> row, target |-> target]]
    /\ UNCHANGED <<row, history, second, changes, copy, current>>

\* Mutant: only a copy from the future is refused.
StartUpdate_Outdated(e) ==
    /\ op[e] = Nothing
    /\ row # Nothing
    /\ \E checked \in BOOLEAN, f \in Fields, v \in Values :
          /\ checked => copy[e] # Nothing /\ copy[e].ver <= row.ver
          /\ Begin(e, "update", checked,
                   [ver |-> row.ver + 1, val |-> [row.val EXCEPT ![f] = v]])

\* PATCH up to the await of the prompt guard.  The version is optional; if
\* the client sends the one of its copy it must be the row's (else 409).
StartUpdate(e) ==
    /\ op[e] = Nothing
    /\ row # Nothing
    /\ \E checked \in BOOLEAN, f \in Fields, v \in Values :
          /\ checked => copy[e] # Nothing /\ copy[e].ver = row.ver
          /\ Begin(e, "update", checked,
                   [ver |-> row.ver + 1, val |-> [row.val EXCEPT ![f] = v]])

StartDelete(e) ==
    /\ op[e] = Nothing
    /\ row # Nothing
    /\ Begin(e, "delete", FALSE, Nothing)

\* The entry is read, then the entity.  The snapshot includes the version,
\* which is written and then incremented; a recreated entity starts at 1.
StartRollback(e) ==
    /\ op[e] = Nothing
    /\ \E h \in history :
          /\ h.snap # Nothing
          /\ Begin(e, "rollback", FALSE,
                   [ver |-> IF row = Nothing THEN 1 ELSE h.snap.ver + 1,
                    val |-> h.snap.val])

\* Mutant: the version is not incremented.
Written_SameVersion(r) ==
    [ver |-> row.ver,
     val |-> [f \in Fields |-> IF r.target.val[f] # r.loaded.val[f]
                               THEN r.target.val[f] ELSE row.val[f]]]

\* The UPDATE of a request: its changed columns over the row of that moment.
Written(r) ==
    [ver |-> IF r.target.ver # r.loaded.ver THEN r.target.ver ELSE row.ver,
     val |-> [f \in Fields |-> IF r.target.val[f] # r.loaded.val[f]
                               THEN r.target.val[f] ELSE row.val[f]]]

\* Mutant: the entries are ordered by created_at, the oldest first.
RecordChange_Ascending(snap) ==
    LET all == history \cup {[id |-> changes + 1, at |-> second', snap |-> snap]}
    IN  IF Cardinality(all) <= MaxHistory
        THEN history' = all
        ELSE \E newest \in all :
                /\ \A h \in all : h.at <= newest.at
                /\ history' = all \ {newest}

\* record_change: insert the entry, then keep the MaxHistory newest ones.
\* created_at counts seconds, and among equal ones the database may choose.
RecordChange(snap) ==
    LET all == history \cup {[id |-> changes + 1, at |-> second', snap |-> snap]}
    IN  IF Cardinality(all) <= MaxHistory
        THEN history' = all
        ELSE \E oldest \in all :
                /\ \A h \in all : oldest.at <= h.at
                /\ history' = all \ {oldest}

\* What every commit does besides writing the row.
Commit(e, snap, orderly) ==
    /\ changes < MaxChanges
    /\ changes' = changes + 1
    /\ second' \in {second, second + 1}
    /\ RecordChange(snap)
    /\ current' = [d \in Editors |-> current[d] /\ orderly]
    /\ op' = [op EXCEPT ![e] = Nothing]
    /\ UNCHANGED copy

\* The row is as the request loaded it: nobody committed in between.
NotOvertaken(e) == row = op[e].loaded

\* A vanished row raises StaleDataError: Abort.
CommitUpdate(e) ==
    /\ op[e] # Nothing /\ op[e].kind = "update"
    /\ row # Nothing
    /\ row' = Written(op[e])
    /\ Commit(e, op[e].loaded, NotOvertaken(e))

\* The DELETE of a row that is gone already only logs a warning.
CommitDelete(e) ==
    /\ op[e] # Nothing /\ op[e].kind = "delete"
    /\ row' = Nothing
    /\ Commit(e, op[e].loaded, TRUE)

\* Without a changed column there is no UPDATE, which could find no row.
CommitRestore(e) ==
    /\ op[e] # Nothing /\ op[e].kind = "rollback"
    /\ op[e].loaded # Nothing
    /\ \/ op[e].target = op[e].loaded /\ row' = row
       \/ op[e].target # op[e].loaded /\ row # Nothing /\ row' = Written(op[e])
    /\ Commit(e, op[e].loaded, FALSE)

\* Mutant: the recreated entity has no version yet.
CommitRecreate_Unversioned(e) ==
    /\ op[e] # Nothing /\ op[e].kind = "rollback"
    /\ op[e].loaded = Nothing
    /\ row = Nothing
    /\ row' = [op[e].target EXCEPT !.ver = 0]
    /\ Commit(e, Nothing, FALSE)

\* An entity recreated by someone else meanwhile is an IntegrityError: Abort.
CommitRecreate(e) ==
    /\ op[e] # Nothing /\ op[e].kind = "rollback"
    /\ op[e].loaded = Nothing
    /\ row = Nothing
    /\ row' = op[e].target
    /\ Commit(e, Nothing, FALSE)

\* The prompt guard blocks the text, the database raises, the client leaves.
Abort(e) ==
    /\ op[e] # Nothing
    /\ op' = [op EXCEPT ![e] = Nothing]
    /\ UNCHANGED <<row, history, second, changes, copy, current>>

\* delete_connection: the ORM deletes the connection's tools and resources
\* with it (cascade "all, delete-orphan").  Only the connection's own deletion
\* is recorded.  (A prompt has no connection.)
DeleteConnection ==
    /\ changes < MaxChanges
    /\ row # Nothing
    /\ row' = Nothing
    /\ UNCHANGED <<history, second, changes, copy, op, current>>

Step(e) ==
    \/ Fetch(e)
    \/ StartUpdate(e) \/ StartDelete(e) \/ StartRollback(e)
    \/ CommitUpdate(e) \/ CommitDelete(e) \/ CommitRestore(e) \/ CommitRecreate(e)
    \/ Abort(e)

Next == (\E e \in Editors : Step(e)) \/ DeleteConnection

Spec == Init /\ [][Next]_vars
-----------------------------------------------------------------------------
(* Properties                                                              *)

\* The state of one entity: rows, entries, copies and requests are of their
\* types (models/resource.py, models/change_history.py).
TypeOK ==
    /\ row \in Row \cup {Nothing}
    /\ history \subseteq Entry
    /\ second \in Nat
    /\ changes \in Nat
    /\ copy \in [Editors -> Row \cup {Nothing}]
    /\ op \in [Editors -> Request \cup {Nothing}]
    /\ current \in [Editors -> BOOLEAN]

\* OL-1 rests on this: a version stands for one content.  As long as no
\* rollback and no commit that overtook another one came in between, a copy
\* whose version is the row's is the row.
VersionNamesContent ==
    \A e \in Editors :
        current[e] /\ copy[e] # Nothing /\ row # Nothing /\ copy[e].ver = row.ver
            => copy[e] = row

\* What a PATCH that passed the version check overwrites: only columns its
\* client changed, so that what another editor did to the others survives, and
\* in those only values the client had seen, or values committed while the
\* request was under way (same proviso).  Against the latter there is no guard:
\* the version is compared before the await and not again at the commit.
OverwritesSeen ==
    [][\A e \in Editors :
          ( /\ op[e] # Nothing /\ op[e].kind = "update" /\ op[e].checked
            /\ op'[e] = Nothing /\ changes' # changes /\ current[e] )
          => \A f \in Fields :
                row'.val[f] # row.val[f] =>
                    /\ op[e].target.val[f] # op[e].loaded.val[f]
                    /\ \/ row.val[f] = copy[e].val[f]
                       \/ row.val[f] # op[e].loaded.val[f]]_vars

\* What a handler's commit replaces stays in the history for a later rollback,
\* unless the commit overtook another one, or all the entries kept are of one
\* second and the database may drop any of them.  It holds for the commits of
\* this entity's own handlers: DeleteConnection removes the row unrecorded.
ReplacedIsRecorded ==
    [][\A e \in Editors :
          ( /\ op[e] # Nothing /\ op'[e] = Nothing /\ changes' # changes
            /\ NotOvertaken(e) /\ row # Nothing )
          => \/ \E h \in history' : h.snap = row
             \/ \A h \in history' : h.at = second']_vars

=============================================================================
