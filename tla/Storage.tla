------------------------------ MODULE Storage ------------------------------
(***************************************************************************)
(* The storage adapters (packages/server/src/adapters/data): every entity  *)
(* has a SQLite repository and an in-memory one behind the same interface, *)
(* "behavioral parity is enforced by the shared contract test suite".  The *)
(* module runs both side by side: each call goes to the SQLite table and   *)
(* to its in-memory twin, and the two are compared.                        *)
(*                                                                         *)
(* A behaviour is about one entity.  A row is reduced to its id, the       *)
(* column other rows are found by (key: a task's date, a project's tag, a  *)
(* day note's and a holiday's date), a reference (ref: a task's list, a    *)
(* list's tab, the stored streak of a series), its contents (val), the     *)
(* time it was last stamped and whether it is in the trash.  A table is a  *)
(* sequence in the order rows were inserted, which is how both adapters    *)
(* scan it.  Id 0 stands for the seeded 'default' row, whose id is no      *)
(* number.                                                                 *)
(***************************************************************************)
EXTENDS Naturals, Sequences, FiniteSets

CONSTANTS
    Kinds,   \* the entities to run
    MaxOps   \* bound: calls

VARIABLES
    kind,    \* the entity of this behaviour
    sql,     \* the SQLite table
    mem,     \* the Map of the in-memory repository
    counter, \* its idCounter
    saved,   \* the rows of a snapshot taken earlier
    answers, \* what the two answered to the last call
    clock,   \* calls made
    apart    \* ways in which the two are known to part, met so far

vars == <<kind, sql, mem, counter, saved, answers, clock, apart>>

AllKinds == {"task", "tab", "list", "project", "note", "holiday", "series", "prefs"}
Fields   == {"key", "ref", "val"}
Values   == {0, 1}
Patches  == UNION { [F -> Values] : F \in { G \in SUBSET Fields : Cardinality(G) <= 1 } }

Rows == [id: 0 .. 2 * MaxOps, key: Values, ref: Values, val: Values,
         stamp: 0 .. MaxOps, gone: BOOLEAN]

TypeOK ==
    /\ kind \in AllKinds
    /\ sql \in Seq(Rows) /\ mem \in Seq(Rows) /\ saved \in Seq(Rows)
    /\ counter \in 0 .. 2 * MaxOps
    /\ answers \in [sql: {"row", "none", "error"}, mem: {"row", "none", "error"}]
    /\ clock \in 0 .. MaxOps
    /\ apart \subseteq {"moved", "reused", "same tag", "empty patch"}

----------------------------------------------------------------------------
(* Statements.  A result is the table afterwards and the answer.           *)

MaxOf(S)      == CHOOSE n \in S \union {0} : \A k \in S : k <= n
Ids(t)        == { t[i].id : i \in DOMAIN t }
At(t, id)     == CHOOSE i \in DOMAIN t : t[i].id = id
Has(t, id)    == id \in Ids(t)
Live(t, id)   == Has(t, id) /\ ~t[At(t, id)].gone
Trashed(t, id) == Has(t, id) /\ t[At(t, id)].gone
NewRow(id, r) == [id |-> id, key |-> r.key, ref |-> r.ref, val |-> r.val,
                  stamp |-> clock, gone |-> FALSE]
Default       == [id |-> 0, key |-> 0, ref |-> 0, val |-> 0, stamp |-> 0, gone |-> FALSE]

Done(t)   == [rows |-> t, answer |-> "row"]
NotFound(t) == [rows |-> t, answer |-> "none"]
Thrown(t) == [rows |-> t, answer |-> "error"]

(* SqlUpdate collects the columns of a patch; the spread of an object does *)
(* the same for every key it has.                                          *)
Patched(row, patch, columns) ==
    [f \in DOMAIN row |-> IF f \in DOMAIN patch \intersect columns THEN patch[f] ELSE row[f]]

Change(t, id, row) == [t EXCEPT ![At(t, id)] = row]
Without(t, S) ==
    LET f[i \in 0 .. Len(t)] ==
            IF i = 0 THEN <<>> ELSE IF t[i].id \in S THEN f[i - 1] ELSE Append(f[i - 1], t[i])
    IN  f[Len(t)]
Insert(t, id, r)   == Done(Append(t, NewRow(id, r)))
Drop(t, id)        == IF Has(t, id) THEN Done(Without(t, {id})) ELSE NotFound(t)
Stamped(row)       == [row EXCEPT !.stamp = clock]

(* SELECT COALESCE(MAX(CAST(id AS INTEGER)), 0) + 1                        *)
NextId(t) == MaxOf(Ids(t)) + 1

Trash(t, id) ==
    IF Live(t, id) THEN Done(Change(t, id, [Stamped(t[At(t, id)]) EXCEPT !.gone = TRUE]))
    ELSE NotFound(t)

Untrash(t, id) ==
    IF Trashed(t, id) THEN Done(Change(t, id, [Stamped(t[At(t, id)]) EXCEPT !.gone = FALSE]))
    ELSE NotFound(t)

(* Rows whose trash stamp is before the cutoff.                            *)
PurgeBefore(t, cutoff) ==
    Done(Without(t, { t[i].id : i \in { j \in DOMAIN t : t[j].gone /\ t[j].stamp < cutoff } }))

(* An UPDATE of the given columns: nothing found, nothing to do, or a row. *)
Edit(t, id, patch, columns) ==
    IF Has(t, id) THEN Done(Change(t, id, Patched(t[At(t, id)], patch, columns))) ELSE NotFound(t)

EditLive(t, id, patch, columns) ==
    IF Live(t, id) THEN Done(Change(t, id, Stamped(Patched(t[At(t, id)], patch, columns))))
    ELSE NotFound(t)

EnsureDefault(rows) == IF Has(rows, 0) THEN rows ELSE Append(rows, Default)

----------------------------------------------------------------------------
(* A call: c.op, c.id, c.rows (inputs or rows), c.patch.                   *)

(* createMany inserts one row after the other, in one transaction.         *)
InsertAll(t, inputs) ==
    LET f[i \in 0 .. Len(inputs)] ==
            IF i = 0 THEN t ELSE Insert(f[i - 1], NextId(f[i - 1]), inputs[i]).rows
    IN  Done(f[Len(inputs)])

(* update() names its columns one by one; the list is not among them.      *)
SqliteTaskUpdate(t, c) == EditLive(t, c.id, c.patch, {"key", "val"})

SqliteTask(t, c) ==
    CASE c.op = "create"      -> InsertAll(t, c.rows)
      [] c.op = "update"      -> SqliteTaskUpdate(t, c)
      [] c.op = "delete"      -> Trash(t, c.id)
      [] c.op = "forceDelete" -> Drop(t, c.id)
      [] c.op = "restore"     -> Untrash(t, c.id)
      [] c.op = "purge"       -> PurgeBefore(t, c.id)
      [] c.op = "replaceAll"  -> Done(c.rows)

(* Slip: the default tab is not put back.                                  *)
SqliteTabAsGiven(t, c) ==
    CASE c.op = "create"     -> Insert(t, NextId(t), c.rows[1])
      [] c.op = "update"     -> Edit(t, c.id, c.patch, Fields)
      [] c.op = "delete"     -> Drop(t, c.id)
      [] c.op = "replaceAll" -> Done(c.rows)

SqliteTab(t, c) ==
    CASE c.op = "create"     -> Insert(t, NextId(t), c.rows[1])
      [] c.op = "update"     -> Edit(t, c.id, c.patch, Fields)
      [] c.op = "delete"     -> Drop(t, c.id)
      [] c.op = "replaceAll" -> Done(EnsureDefault(c.rows))

SqliteList(t, c) ==
    CASE c.op = "create"     -> Insert(t, NextId(t), c.rows[1])
      [] c.op = "update"     -> Edit(t, c.id, c.patch, Fields)
      [] c.op = "delete"     -> Drop(t, c.id)
      [] c.op = "replaceAll" -> Done(c.rows)

(* projects.tag is UNIQUE: a second row with it makes the statement throw. *)
TagTaken(t, id, tag) == \E i \in DOMAIN t : t[i].id # id /\ t[i].key = tag

SqliteProject(t, c) ==
    CASE c.op = "create" ->
            IF TagTaken(t, 0, c.rows[1].key) THEN Thrown(t)
            ELSE Insert(t, NextId(t), c.rows[1])
      [] c.op = "update" ->
            IF Has(t, c.id) /\ "key" \in DOMAIN c.patch /\ TagTaken(t, c.id, c.patch["key"])
            THEN Thrown(t) ELSE Edit(t, c.id, c.patch, Fields)
      [] c.op = "delete"     -> Drop(t, c.id)
      [] c.op = "replaceAll" -> Done(c.rows)

(* Day notes are found by their date; c.id is the date.                    *)
NoteOf(t, date) == { t[i].id : i \in { j \in DOMAIN t : t[j].key = date } }

SqliteNote(t, c) ==
    CASE c.op = "create" ->
            IF NoteOf(t, c.rows[1].key) = {} THEN Insert(t, NextId(t), c.rows[1])
            ELSE LET id == CHOOSE n \in NoteOf(t, c.rows[1].key) : TRUE
                 IN  EditLive(t, id, [val |-> c.rows[1].val], Fields)
      [] c.op = "delete" ->
            IF NoteOf(t, c.id) = {} THEN NotFound(t) ELSE Done(Without(t, NoteOf(t, c.id)))
      [] c.op = "replaceAll" -> Done(c.rows)

SqliteHoliday(t, c) ==
    CASE c.op = "create"     -> Insert(t, NextId(t), c.rows[1])
      [] c.op = "update"     -> Edit(t, c.id, c.patch, Fields)
      [] c.op = "delete"     -> Drop(t, c.id)
      [] c.op = "replaceAll" -> Done(c.rows)

(* A series and its row of statistics (ref): an empty patch only reads the *)
(* row back, statistics are not part of a snapshot.                        *)
SeriesColumns == {"key", "val"}
WithoutStats(rows) == [i \in DOMAIN rows |-> [rows[i] EXCEPT !.ref = 0]]

SqliteSeries(t, c) ==
    CASE c.op = "create"     -> Insert(t, NextId(t), [c.rows[1] EXCEPT !.ref = 0])
      [] c.op = "update"     ->
            IF DOMAIN c.patch \intersect SeriesColumns = {} THEN Edit(t, c.id, c.patch, {})
            ELSE EditLive(t, c.id, c.patch, SeriesColumns)
      [] c.op = "stats"      -> Edit(t, c.id, c.patch, {"ref"})
      [] c.op = "delete"     -> Drop(t, c.id)
      [] c.op = "replaceAll" -> Done(WithoutStats(c.rows))

(* One row, served from the defaults until it is written.                  *)
SqlitePrefs(t, c) ==
    CASE c.op = "update" ->
            Done(<<Stamped(Patched(IF t = <<>> THEN Default ELSE t[1], c.patch, Fields))>>)
      [] c.op = "delete"     -> Done(<<>>)
      [] c.op = "replaceAll" -> Done(c.rows)

SqliteCall(k, t, c) ==
    CASE k = "task"    -> SqliteTask(t, c)    [] k = "tab"     -> SqliteTab(t, c)
      [] k = "list"    -> SqliteList(t, c)    [] k = "project" -> SqliteProject(t, c)
      [] k = "note"    -> SqliteNote(t, c)    [] k = "holiday" -> SqliteHoliday(t, c)
      [] k = "series"  -> SqliteSeries(t, c)  [] k = "prefs"   -> SqlitePrefs(t, c)

----------------------------------------------------------------------------
(* The in-memory twins.  n is the idCounter before the call.               *)

MemInsertAll(t, n, inputs) ==
    Done(t \o [i \in DOMAIN inputs |-> NewRow(n + i, inputs[i])])

InMemoryTask(t, n, c) ==
    CASE c.op = "create"      -> MemInsertAll(t, n, c.rows)
      [] c.op = "update"      -> EditLive(t, c.id, c.patch, Fields)
      [] c.op = "delete"      -> Trash(t, c.id)
      [] c.op = "forceDelete" -> Drop(t, c.id)
      [] c.op = "restore"     -> Untrash(t, c.id)
      [] c.op = "purge"       -> PurgeBefore(t, c.id)
      [] c.op = "replaceAll"  -> Done(c.rows)

InMemoryTab(t, n, c) ==
    CASE c.op = "create"     -> Insert(t, n + 1, c.rows[1])
      [] c.op = "update"     -> Edit(t, c.id, c.patch, Fields)
      [] c.op = "delete"     -> Drop(t, c.id)
      [] c.op = "replaceAll" -> Done(EnsureDefault(c.rows))

InMemoryList(t, n, c) ==
    CASE c.op = "create"     -> Insert(t, n + 1, c.rows[1])
      [] c.op = "update"     -> Edit(t, c.id, c.patch, Fields)
      [] c.op = "delete"     -> Drop(t, c.id)
      [] c.op = "replaceAll" -> Done(c.rows)

InMemoryProject(t, n, c) ==
    CASE c.op = "create"     -> Insert(t, n + 1, c.rows[1])
      [] c.op = "update"     -> Edit(t, c.id, c.patch, Fields)
      [] c.op = "delete"     -> Drop(t, c.id)
      [] c.op = "replaceAll" -> Done(c.rows)

(* A Map from dates to notes.                                              *)
InMemoryNote(t, n, c) ==
    CASE c.op = "create" ->
            IF NoteOf(t, c.rows[1].key) = {} THEN Insert(t, n + 1, c.rows[1])
            ELSE Done([i \in DOMAIN t |-> IF t[i].key = c.rows[1].key
                                          THEN Stamped([t[i] EXCEPT !.val = c.rows[1].val])
                                          ELSE t[i]])
      [] c.op = "delete" ->
            IF NoteOf(t, c.id) = {} THEN NotFound(t) ELSE Done(Without(t, NoteOf(t, c.id)))
      [] c.op = "replaceAll" -> Done(c.rows)

InMemoryHoliday(t, n, c) ==
    CASE c.op = "create"     -> Insert(t, n + 1, c.rows[1])
      [] c.op = "update"     -> Edit(t, c.id, c.patch, Fields)
      [] c.op = "delete"     -> Drop(t, c.id)
      [] c.op = "replaceAll" -> Done(c.rows)

InMemorySeries(t, n, c) ==
    CASE c.op = "create"     -> Insert(t, n + 1, [c.rows[1] EXCEPT !.ref = 0])
      [] c.op = "update"     -> EditLive(t, c.id, c.patch, SeriesColumns)
      [] c.op = "stats"      -> Edit(t, c.id, c.patch, {"ref"})
      [] c.op = "delete"     -> Drop(t, c.id)
      [] c.op = "replaceAll" -> Done(WithoutStats(c.rows))

InMemoryPrefs(t, n, c) ==
    CASE c.op = "update" ->
            Done(<<Stamped(Patched(IF t = <<>> THEN Default ELSE t[1], c.patch, Fields))>>)
      [] c.op = "delete"     -> Done(<<>>)
      [] c.op = "replaceAll" -> Done(c.rows)

InMemoryCall(k, t, n, c) ==
    CASE k = "task"    -> InMemoryTask(t, n, c)    [] k = "tab"     -> InMemoryTab(t, n, c)
      [] k = "list"    -> InMemoryList(t, n, c)    [] k = "project" -> InMemoryProject(t, n, c)
      [] k = "note"    -> InMemoryNote(t, n, c)    [] k = "holiday" -> InMemoryHoliday(t, n, c)
      [] k = "series"  -> InMemorySeries(t, n, c)  [] k = "prefs"   -> InMemoryPrefs(t, n, c)

(* Ids count up from the counter; a replaced table sets it to its largest  *)
(* id.                                                                     *)
CounterAfter(k, n, before, c) ==
    IF k = "prefs" THEN 0
    ELSE IF c.op = "replaceAll" THEN MaxOf(Ids(c.rows))
    ELSE IF c.op # "create" \/ (k = "note" /\ NoteOf(before, c.rows[1].key) # {}) THEN n
    ELSE n + Len(c.rows)

----------------------------------------------------------------------------
(* The calls the routes and services make.                                 *)

Seeded == kind \in {"tab", "list"}

Init ==
    /\ kind \in Kinds
    /\ sql = (IF Seeded THEN <<Default>> ELSE <<>>) /\ mem = sql
    /\ counter = 0 /\ saved = sql /\ clock = 0 /\ apart = {}
    /\ answers = [sql |-> "none", mem |-> "none"]

(* What is known to set the two apart (see the README), after which there  *)
(* is nothing more to compare.                                             *)
Parting(c, s, m) ==
    { p \in {"moved", "reused", "same tag", "empty patch"} :
        CASE p = "moved"  -> kind = "task" /\ c.op = "update" /\ "ref" \in DOMAIN c.patch
          [] p = "reused" -> c.op = "create" /\ kind # "prefs" /\ NextId(sql) # counter + 1
          [] p = "same tag" -> kind = "project" /\ s.answer = "error"
          [] p = "empty patch" -> kind = "series" /\ c.op = "update"
                                  /\ DOMAIN c.patch \intersect SeriesColumns = {} }

Call(c) ==
    LET s == SqliteCall(kind, sql, c)
        m == InMemoryCall(kind, mem, counter, c)
    IN  /\ clock < MaxOps /\ apart = {}
        /\ clock' = clock + 1
        /\ sql' = s.rows /\ mem' = m.rows
        /\ answers' = [sql |-> s.answer, mem |-> m.answer]
        /\ counter' = CounterAfter(kind, counter, mem, c)
        /\ apart' = apart \union Parting(c, s, m)
        /\ UNCHANGED <<kind, saved>>

Input == [key: Values, ref: {0}, val: {1}]
Nothing == [f \in {} |-> 0]
Ask(op, id, rows, patch) == [op |-> op, id |-> id, rows |-> rows, patch |-> patch]

Create ==
    /\ kind # "prefs"
    /\ \E r \in Input : Call(Ask("create", 0, <<r>>, Nothing))

CreateMany == kind = "task" /\ \E r \in Input : Call(Ask("create", 0, <<r, r>>, Nothing))

Update ==
    /\ kind # "note"
    /\ \E id \in Ids(sql) \union {1}, p \in Patches : Call(Ask("update", id, <<>>, p))

(* The default tab cannot be deleted: the route refuses.                   *)
Delete ==
    \E id \in Ids(sql) \union Values :
        /\ ~(kind = "tab" /\ id = 0)
        /\ Call(Ask("delete", id, <<>>, Nothing))

ForceDelete == kind = "task" /\ \E id \in Ids(sql) : Call(Ask("forceDelete", id, <<>>, Nothing))
Restore     == kind = "task" /\ \E id \in Ids(sql) : Call(Ask("restore", id, <<>>, Nothing))
PurgeOld    == kind = "task" /\ \E cutoff \in 1 .. clock : Call(Ask("purge", cutoff, <<>>, Nothing))
UpsertStats == kind = "series" /\ \E id \in Ids(sql) : Call(Ask("stats", id, <<>>, [ref |-> 1]))

(* An export keeps the rows, a restore writes them back.                   *)
Snapshot ==
    /\ saved # sql
    /\ saved' = sql
    /\ UNCHANGED <<kind, sql, mem, counter, answers, clock, apart>>

(* (a snapshot older than the default tab does not have it).               *)
ReplaceAll ==
    /\ kind = "prefs" => saved # <<>>
    /\ \E rows \in {saved} \union (IF kind = "tab" THEN {Without(saved, {0})} ELSE {}) :
          Call(Ask("replaceAll", 0, rows, Nothing))

Next ==
    \/ Create \/ CreateMany \/ Update \/ Delete \/ ForceDelete \/ Restore
    \/ PurgeOld \/ UpsertStats \/ Snapshot \/ ReplaceAll

Spec == Init /\ [][Next]_vars

----------------------------------------------------------------------------
(* "Behavioral parity" (SqliteUserPreferencesRepository.ts:7): after any   *)
(* calls the two hold the same rows in the same order and gave the same    *)
(* answer, as long as none of the known differences came up.               *)
AdaptersAgree == apart = {} => sql = mem /\ answers.sql = answers.mem

(* "Behavioral parity with InMemoryTaskRepository" (SqliteTaskRepository.ts *)
(* :5) also for an update that moves a task to another list: the row holds *)
(* what the patch says, as its twin's does.                                *)
UpdateIsKept ==
    apart \subseteq {"moved"} => sql = mem
=============================================================================
