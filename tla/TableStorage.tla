---------------------------- MODULE TableStorage ----------------------------
(***************************************************************************)
(* One SQL table on disk: the .index, .data and .delete files, the         *)
(* statements that change them (insertRow in utility.hpp, handleUpdate and *)
(* handleDelete in generator.hpp), the vacuum of utility.hpp, the B+ trees *)
(* that are built from the files at start, and the statement log of        *)
(* logging.hpp, as the shell of main_db_class.hpp runs them: statements    *)
(* one after the other, in one thread, each under its table's lock.        *)
(*                                                                         *)
(* The table has the columns id, INT PRIMARY KEY AUTO_INCREMENT, and v, a  *)
(* UNIQUE string, with id the first in the order of names, as the code     *)
(* assumes.  The program is built on Linux, where int64_t is long.         *)
(* A row of .index is its id and at, the place of its value in .data; an   *)
(* offset in bytes is kept as the number of the value.  The program can be *)
(* killed between any two writes to a file; what was written stays, what   *)
(* was in a stream's buffer is lost.  How the program goes on from files   *)
(* of two generations (wrecked) is not followed.                           *)
(***************************************************************************)
EXTENDS Integers, Sequences, FiniteSets

CONSTANTS
  Values,         \* what column v holds
  NoStatement,    \* the empty log
  MaxStatements,  \* bound on the statements submitted
  MaxCrashes      \* bound on the times the program is killed

ASSUME StorageConstants == MaxStatements \in Nat /\ MaxCrashes \in Nat

VARIABLES
  files,       \* contents of the three files
  present,     \* those that exist
  fresh,       \* contents of the .new files
  moved,       \* removes and renames that the vacuum has done
  log,         \* logging.txt
  ids, keys,   \* the B+ trees on id and v
  built,       \* are they those that were built from the files
  phase,       \* where the one thread is
  stmt,        \* the statement last submitted
  scan,        \* its loop over the rows: position and row count
  pending,     \* position of the tombstone in the stream's buffer, or 0
  replaying,   \* is stmt run from the log of the last session
  before,      \* the table when stmt was submitted
  kills,       \* how often the program was killed while stmt was run,
  cut,         \* and whether also while it was replayed
  submitted, crashes

disk == <<files, present, fresh, moved>>
trees == <<ids, keys, built>>
history == <<before, kills, cut, submitted, crashes>>
vars == <<disk, log, trees, phase, stmt, scan, pending, replaying, history>>

FileNames == <<"index", "data", "delete">>

Insert(v) == [op |-> "insert", v |-> v]
Delete(col, x) == [op |-> "delete", col |-> col, x |-> x]
Update(col, x, v) == [op |-> "update", col |-> col, x |-> x, v |-> v]
Use == [op |-> "use"]                \* USE of the table's database
Refused == [op |-> "refused"]        \* parse() catches what it throws,
Unreadable == [op |-> "unreadable"]  \* and does not: no statement at all

Statements ==
  {Insert(v) : v \in Values} \cup {Use, Refused, Unreadable}
  \cup {Delete("v", x) : x \in Values} \cup {Delete("id", x) : x \in 1..2}
  \cup {Update("v", x, v) : x, v \in Values} \cup {Update("id", x, v) : x \in 1..2, v \in Values}

\* An empty log is no statement.
ASSUME EmptyLog == NoStatement \notin Statements

-----------------------------------------------------------------------------
(* Reading the files *)

Positions(f) == DOMAIN f.index
Dead(f, p) == f.delete[p] = 1
LivePositions(f) == {p \in Positions(f) : ~Dead(f, p)}
RowAt(f, p) == [id |-> f.index[p].id, v |-> f.data[f.index[p].at]]

\* What SELECT reads.
Live(f) == {RowAt(f, p) : p \in LivePositions(f)}

\* evaluateWhere
Matches(row) == stmt.op \in {"delete", "update"} /\ row[stmt.col] = stmt.x

\* The bytes written behind the end leave zeros in between.
Alive(tombstones, p) ==
  [q \in 1 .. (IF p > Len(tombstones) THEN p ELSE Len(tombstones)) |->
     IF q = p \/ q > Len(tombstones) THEN 0 ELSE tombstones[q]]

Flushed(tombstones) == IF pending = 0 THEN tombstones ELSE [tombstones EXCEPT ![pending] = 1]

-----------------------------------------------------------------------------
EmptyTable == [index |-> << >>, data |-> << >>, delete |-> << >>]
Present == {"index", "data", "delete"}

Init ==
  /\ files = EmptyTable /\ present = Present /\ fresh = EmptyTable /\ moved = 0
  /\ log = NoStatement /\ ids = {} /\ keys = {} /\ built = FALSE
  /\ phase = "down" /\ stmt = Refused /\ scan = [row |-> 0, count |-> 0]
  /\ pending = 0 /\ replaying = FALSE
  /\ before = {} /\ kills = 0 /\ cut = FALSE /\ submitted = 0 /\ crashes = 0

-----------------------------------------------------------------------------
(* The start of the program: vacuum, B+ trees, log. *)

\* Mutant of Start: the vacuum is left out, as in main.cpp:102.
StartWithoutVacuum ==
  /\ phase = "down"
  /\ phase' = "load"
  /\ UNCHANGED <<disk, log, trees, stmt, scan, pending, replaying, history>>

Start ==
  /\ phase = "down"
  /\ phase' = "copy"
  /\ UNCHANGED <<disk, log, trees, stmt, scan, pending, replaying, history>>

\* The positions of the live rows, in the order in which they are visited.
Kept(f) ==
  [j \in 1 .. Cardinality(LivePositions(f)) |->
     CHOOSE p \in LivePositions(f) : Cardinality({q \in LivePositions(f) : q <= p}) = j]

\* Mutant of Compacted: the rows are numbered anew.
CompactedAnew(f) ==
  LET kept == Kept(f)
  IN  [index  |-> [j \in DOMAIN kept |-> [id |-> j, at |-> j]],
       data   |-> [j \in DOMAIN kept |-> RowAt(f, kept[j]).v],
       delete |-> [j \in DOMAIN kept |-> 0]]

\* The live rows with their ids, and their values one behind the other.
Compacted(f) ==
  LET kept == Kept(f)
  IN  [index  |-> [j \in DOMAIN kept |-> [id |-> f.index[kept[j]].id, at |-> j]],
       data   |-> [j \in DOMAIN kept |-> RowAt(f, kept[j]).v],
       delete |-> [j \in DOMAIN kept |-> 0]]

CopyRows ==
  /\ phase = "copy"
  /\ fresh' = Compacted(files)
  /\ moved' = 0
  /\ phase' = "replace"
  /\ UNCHANGED <<files, present, log, trees, stmt, scan, pending, replaying, history>>

\* replaceFile, for one file after the other: remove the old, rename the new.
RemoveOld(name) ==
  /\ phase = "replace" /\ moved \in {0, 2, 4} /\ name = FileNames[moved \div 2 + 1]
  /\ present' = present \ {name}
  /\ moved' = moved + 1
  /\ UNCHANGED <<files, fresh, log, trees, phase, stmt, scan, pending, replaying, history>>

RenameNew(name) ==
  /\ phase = "replace" /\ moved \in {1, 3, 5} /\ name = FileNames[moved \div 2 + 1]
  /\ files' = [files EXCEPT ![name] = fresh[name]]
  /\ present' = present \cup {name}
  /\ moved' = (moved + 1) % 6
  /\ phase' = IF moved = 5 THEN "load" ELSE phase
  /\ UNCHANGED <<fresh, log, trees, stmt, scan, pending, replaying, history>>

\* Every row of .index is loaded; .delete is not read.
LoadTrees ==
  /\ phase = "load"
  /\ built' = TRUE
  /\ ids' = {files.index[p].id : p \in Positions(files)}
  /\ keys' = {RowAt(files, p).v : p \in Positions(files)}
  /\ phase' = "recover"
  /\ UNCHANGED <<disk, log, stmt, scan, pending, replaying, history>>

\* exec_rem_sqls() empties the log before the statement is run.
ReadLog ==
  /\ phase = "recover"
  /\ log' = NoStatement
  /\ replaying' = (log # NoStatement)
  /\ phase' = IF log = NoStatement THEN "ready" ELSE "begin"
  /\ UNCHANGED <<disk, trees, stmt, scan, pending, history>>

-----------------------------------------------------------------------------
(* The statements *)

\* Mutant of Submit: the statement is not logged, as in main.cpp:260.
SubmitUnlogged(s) ==
  /\ phase = "ready" /\ submitted < MaxStatements
  /\ phase' = "begin" /\ stmt' = s /\ replaying' = FALSE
  /\ before' = Live(files) /\ kills' = 0 /\ cut' = FALSE /\ submitted' = submitted + 1
  /\ UNCHANGED <<disk, log, trees, scan, pending, crashes>>

\* logging(): the log holds the last statement only.
Submit(s) ==
  /\ phase = "ready" /\ submitted < MaxStatements
  /\ log' = s
  /\ phase' = "begin" /\ stmt' = s /\ replaying' = FALSE
  /\ before' = Live(files) /\ kills' = 0 /\ cut' = FALSE /\ submitted' = submitted + 1
  /\ UNCHANGED <<disk, trees, scan, pending, crashes>>

\* The log is not cleared after an exception that leaves parse().
Refuse ==
  /\ phase = "begin"
  /\ \/ stmt.op = "refused" /\ phase' = "clear"
     \/ stmt.op = "unreadable" /\ phase' = "ready"
  /\ UNCHANGED <<disk, log, trees, stmt, scan, pending, replaying, history>>

\* parseUseStatement() loads the tables, with an empty tree on int64_t for each
\* of the two columns.
NewTrees ==
  /\ phase = "begin" /\ stmt.op = "use"
  /\ ids' = {} /\ keys' = {} /\ built' = FALSE
  /\ phase' = "clear"
  /\ UNCHANGED <<disk, log, stmt, scan, pending, replaying, history>>

BeginInsert ==
  /\ phase = "begin" /\ stmt.op = "insert"
  /\ phase' = "tombstone"
  /\ UNCHANGED <<disk, log, trees, stmt, scan, pending, replaying, history>>

\* The row count is taken once: rows appended by the update are not visited.
BeginScan ==
  /\ phase = "begin" /\ stmt.op \in {"delete", "update"}
  /\ scan' = [row |-> 1, count |-> Len(files.index)]
  /\ phase' = "scan"
  /\ UNCHANGED <<disk, log, trees, stmt, pending, replaying, history>>

\* Moving in .delete writes out the tombstone that is still in the buffer.
SkipRow ==
  /\ phase = "scan" /\ scan.row <= scan.count
  /\ Dead(files, scan.row) \/ ~Matches(RowAt(files, scan.row))
  /\ files' = [files EXCEPT !.delete = Flushed(@)]
  /\ pending' = 0
  /\ scan' = [scan EXCEPT !.row = @ + 1]
  /\ UNCHANGED <<present, fresh, moved, log, trees, phase, stmt, replaying, history>>

NoNumber == 0    \* the key for a string that std::stoll refuses, as all of Values

ASSUME NoNumbers == NoNumber \notin Values

\* Only trees on strings are told: the branch for int64_t asks that std::stoll
\* returns one, and it returns long long, which is another type on Linux.
Unindexed(row) == keys' = (IF built THEN keys \ {row.v} ELSE keys) /\ UNCHANGED <<ids, built>>

\* The tombstone goes into the buffer; an update then appends the new row.
KillRow ==
  /\ phase = "scan" /\ scan.row <= scan.count
  /\ ~Dead(files, scan.row) /\ Matches(RowAt(files, scan.row))
  /\ files' = [files EXCEPT !.delete = Flushed(@)]
  /\ pending' = scan.row
  /\ Unindexed(RowAt(files, scan.row))
  /\ IF stmt.op = "update"
     THEN phase' = "tombstone" /\ UNCHANGED scan
     ELSE scan' = [scan EXCEPT !.row = @ + 1] /\ UNCHANGED phase
  /\ UNCHANGED <<present, fresh, moved, log, stmt, replaying, history>>

EndScan ==
  /\ phase = "scan" /\ scan.row > scan.count
  /\ files' = [files EXCEPT !.delete = Flushed(@)]
  /\ pending' = 0
  /\ phase' = "clear"
  /\ UNCHANGED <<present, fresh, moved, log, trees, stmt, scan, replaying, history>>

\* Mutant of NewRowId: one more than there are rows.
NewRowIdByCount(index) == Len(index) + 1

NewRowId(index) == IF index = << >> THEN 1 ELSE index[Len(index)].id + 1

\* insertRow: a zero for the new row into .delete, at the place of its id.
WriteTombstone ==
  /\ phase = "tombstone"
  /\ files' = [files EXCEPT !.delete = Alive(@, NewRowId(files.index))]
  /\ phase' = "data"
  /\ UNCHANGED <<present, fresh, moved, log, trees, stmt, scan, pending, replaying, history>>

\* The trees have been told when the value is flushed, before the row is.
WriteData ==
  /\ phase = "data"
  /\ ids' = ids \cup {NewRowId(files.index)}
  /\ keys' = keys \cup {IF built THEN stmt.v ELSE NoNumber}
  /\ files' = [files EXCEPT !.data = Append(@, stmt.v)]
  /\ phase' = "index"
  /\ UNCHANGED <<present, fresh, moved, log, built, stmt, scan, pending, replaying, history>>

\* Mutant of WriteIndex: the update steps over the row behind.
WriteIndexSkips ==
  /\ phase = "index"
  /\ files' = [files EXCEPT !.index =
                 Append(@, [id |-> NewRowId(@), at |-> Len(files.data)])]
  /\ IF stmt.op = "update"
     THEN phase' = "scan" /\ scan' = [scan EXCEPT !.row = @ + 2]
     ELSE phase' = "clear" /\ UNCHANGED scan
  /\ UNCHANGED <<present, fresh, moved, log, trees, stmt, pending, replaying, history>>

WriteIndex ==
  /\ phase = "index"
  /\ files' = [files EXCEPT !.index =
                 Append(@, [id |-> NewRowId(@), at |-> Len(files.data)])]
  /\ IF stmt.op = "update"
     THEN phase' = "scan" /\ scan' = [scan EXCEPT !.row = @ + 1]
     ELSE phase' = "clear" /\ UNCHANGED scan
  /\ UNCHANGED <<present, fresh, moved, log, trees, stmt, pending, replaying, history>>

\* clear_log(); a replayed statement has none to clear.
ClearLog ==
  /\ phase = "clear"
  /\ log' = NoStatement
  /\ phase' = "ready"
  /\ UNCHANGED <<disk, trees, stmt, scan, pending, replaying, history>>

-----------------------------------------------------------------------------
\* The program is killed, or leaves the shell.
Running == phase \in {"begin", "scan", "tombstone", "data", "index", "clear"}

Crash ==
  /\ phase \notin {"down", "wrecked"} /\ crashes < MaxCrashes
  /\ crashes' = crashes + 1
  /\ phase' = IF phase = "replace" /\ moved > 0 THEN "wrecked" ELSE "down"
  /\ kills' = IF Running THEN kills + 1 ELSE kills
  /\ cut' = (cut \/ (Running /\ replaying))
  /\ ids' = {} /\ keys' = {} /\ built' = FALSE
  /\ pending' = 0 /\ replaying' = FALSE
  /\ UNCHANGED <<disk, log, stmt, scan, before, submitted>>

Ended ==
  /\ phase = "wrecked" \/ (phase = "ready" /\ submitted = MaxStatements)
  /\ UNCHANGED vars

Next ==
  \/ Start \/ CopyRows \/ LoadTrees \/ ReadLog
  \/ \E name \in Present : RemoveOld(name) \/ RenameNew(name)
  \/ \E s \in Statements : Submit(s)
  \/ Refuse \/ NewTrees \/ BeginInsert \/ BeginScan \/ SkipRow \/ KillRow \/ EndScan
  \/ WriteTombstone \/ WriteData \/ WriteIndex \/ ClearLog
  \/ Crash \/ Ended

Spec == Init /\ [][Next]_vars

-----------------------------------------------------------------------------
(* Properties *)

\* Types of the state.
TypeOK ==
  /\ files.index \in Seq([id : Nat \ {0}, at : Nat \ {0}])
  /\ files.data \in Seq(Values) /\ files.delete \in Seq({0, 1})
  /\ present \subseteq Present /\ moved \in 0..5
  /\ log \in Statements \cup {NoStatement} /\ stmt \in Statements
  /\ ids \subseteq Nat \ {0} /\ keys \subseteq Values \cup {NoNumber}
  /\ built \in BOOLEAN /\ (built => NoNumber \notin keys)
  /\ pending \in 0 .. Len(files.delete) /\ scan.row \in 0 .. scan.count + 1
  /\ replaying \in BOOLEAN /\ cut \in BOOLEAN
  /\ submitted \in 0..MaxStatements /\ kills \in 0..MaxCrashes /\ crashes \in 0..MaxCrashes

\* Whenever the program is killed, a row that .index holds can be read: its
\* value and its tombstone are there, ids increase from row to row (so no two
\* rows share one), and the byte for the next row, written at the place of
\* its id, is neither before the row's position nor a leftover tombstone.
RowsReadable ==
  phase \notin {"replace", "wrecked"} =>
    /\ Len(files.delete) >= Len(files.index)
    /\ \A p \in Positions(files) :
         /\ files.index[p].at \in DOMAIN files.data
         /\ files.index[p].id >= p
         /\ \A q \in Positions(files) : q < p => files.index[q].id < files.index[p].id
    /\ \A q \in DOMAIN files.delete \ Positions(files) : files.delete[q] = 0

Matched == {row \in before : Matches(row)}
Fresh == Live(files) \ before

\* At rest, whatever was killed and restarted since, a row that the last
\* statement did not name is there with its id and value, no row that it
\* removed has come back unless its replay was cut short, and new rows hold
\* the value that it gave.
OthersUntouched ==
  phase = "ready" =>
    /\ before \ Matched \subseteq Live(files)
    /\ \A row \in Fresh : stmt.op \in {"insert", "update"} /\ row.v = stmt.v
    /\ \A row, other \in Live(files) : row.id = other.id => row = other

\* A statement that was not interrupted takes effect once.  One that was killed
\* is replayed and takes effect at least once: each kill may leave one row
\* more than it should, none less.  Only a replay that is killed itself may
\* remain undone, in part or altogether: the log was emptied before it.
AtLeastOnce ==
  phase = "ready" =>
    LET wanted == CASE stmt.op = "insert" -> 1
                    [] stmt.op = "update" -> Cardinality(Matched)
                    [] OTHER -> 0
        remaining == Matched \cap Live(files)
    IN  /\ Cardinality(Fresh) <= wanted + kills
        /\ ~cut => remaining = {} /\ Cardinality(Fresh) >= wanted
        /\ stmt.op = "update" => Cardinality(Fresh) + Cardinality(remaining) >= wanted

\* When a session starts the trees hold exactly the live rows, although they are
\* built from a file that goes on listing deleted rows.  From then on, until USE
\* replaces the trees, no live row is missing in the primary key's tree, and what
\* else it holds are ids of rows removed in this session, which nothing takes out.  The tree of the
\* unique column has no key that no row holds, but it may lack one: nothing refuses
\* a second row with a value, and removing one of the two removes the key of both.
TreesMatchTable ==
  /\ phase = "recover" => /\ ids = {row.id : row \in Live(files)}
                          /\ keys = {row.v : row \in Live(files)}
  /\ phase = "ready" /\ built =>
       /\ {row.id : row \in Live(files)} \subseteq ids
       /\ ids \subseteq {files.index[p].id : p \in Positions(files)}
       /\ keys \subseteq {row.v : row \in Live(files)}

\* At every moment of a vacuum the files hold the table, should the program be
\* killed: all three are there, and of one generation.
VacuumCrashConsistent ==
  phase = "replace" => present = Present /\ Live(files) = Live(fresh)

=============================================================================
