------------------------------- MODULE AdoNet -------------------------------
(***************************************************************************)
(* Microsoft.Data.Sqlite over database/sql (bcl/system_data_sqlite.go):    *)
(* one connection, its transactions, one command with its parameters and   *)
(* one data reader, used by a program in any order.  The statements are    *)
(* "insert a value" and "select every row".  SQLite and Go's database/sql  *)
(* are external: one writer at a time, and any statement, commit or fetch  *)
(* may fail.                                                               *)
(***************************************************************************)
EXTENDS Integers, Sequences, FiniteSets, SequencesExt

CONSTANTS Txs,      \* transaction objects
          Words,    \* size of the Int32 range: Words values around zero
          MaxRows,  \* bound on the rows ever inserted
          MaxOpens  \* bound on the calls of Open that open a database

ASSUME AdoNetAssumption ==
    /\ Words \in Nat \ {0} /\ MaxRows \in Nat \ {0} /\ MaxOpens \in Nat \ {0}
    /\ {"auto", "none"} \intersect Txs = {}

VARIABLES conn,   \* nativeSqliteConnection: db (0: nil) and open
          closed, \* handles whose sql.DB has been closed
          tx,     \* nativeSqliteTransaction, and what database/sql holds of it
          cmd,    \* nativeSqliteCommand: Transaction and Parameters
          table,  \* external: the committed rows, as numbers of log
          log,    \* history: each row's parameter, stored value and owner
          reader, \* nativeSqliteDataReader; all and got are history
          reply   \* the last answer the program got

avars == <<conn, closed, tx, cmd, table, log, reader, reply>>

NoTx == [st |-> "none", db |-> 0, done |-> FALSE, pending |-> <<>>, committed |-> FALSE]
NoReader == [st |-> "none", all |-> <<>>, got |-> <<>>, current |-> 0, closed |-> FALSE,
             cut |-> FALSE, owner |-> "auto"]
NoCommand == [tx |-> "auto", params |-> <<>>]
Val(k, n) == [k |-> k, n |-> n]
Nothing == Val("null", 0)

AdoInit ==
    /\ conn = [db |-> 0, open |-> FALSE] /\ closed = {}
    /\ tx = [t \in Txs |-> NoTx] /\ cmd = NoCommand
    /\ table = <<>> /\ log = <<>> /\ reader = NoReader
    /\ reply = [op |-> "none", out |-> Nothing]

\* "plain" is a Go error the program cannot catch, "raised" an exception.
\* The answer of Read is kept.
Getters == {"GetValue", "GetInt64", "GetInt32", "GetBoolean", "GetString", "IsDBNull"}
Reply(op, out) ==
    reply' = IF op = "Read" THEN [op |-> op, out |-> out]
             ELSE [op |-> "none", out |-> Nothing]
Done == Val("done", 0)
Plain == Val("plain", 0)
Raised == Val("raised", 0)
Bool(b) == Val("bool", IF b THEN 1 ELSE 0)

-----------------------------------------------------------------------------
\* Values: what a parameter is stored as, and what a column reads as.

Arguments == {Val("null", 0), Val("dbnull", 0), Val("i4", 1), Val("i8", Words),
              Val("string", 1), Val("object", 0)}

sqliteGoValue(v) ==
    CASE v.k \in {"null", "dbnull"} -> Val("nil", 0)
      [] v.k \in {"i4", "i8"} -> Val("int64", v.n)
      [] v.k = "string" -> v
      [] OTHER -> Plain

sqliteValueFromGo(g) ==
    CASE g.k = "nil" -> Val("dbnull", 0)
      [] g.k = "int64" -> Val("i8", g.n)
      [] OTHER -> g

sqliteAsInt64(g) == IF g.k \in {"int64", "string"} THEN Val("i8", g.n) ELSE Plain
Narrow(n) == ((n + Words \div 2) % Words) - Words \div 2
sqliteReaderGetInt32(g) ==
    LET v == sqliteAsInt64(g) IN IF v = Plain THEN v ELSE Val("i4", Narrow(v.n))
sqliteReaderGetBoolean(g) ==
    LET v == sqliteAsInt64(g) IN IF v = Plain THEN v ELSE Bool(v.n # 0)
sqliteReaderGetString(g) == IF g.k = "nil" THEN Val("string", -1) ELSE Val("string", g.n)
sqliteReaderIsDBNull(g) == Bool(g.k = "nil")

Column(getter, g) ==
    CASE getter = "GetValue" -> sqliteValueFromGo(g)
      [] getter = "GetInt64" -> sqliteAsInt64(g)
      [] getter = "GetInt32" -> sqliteReaderGetInt32(g)
      [] getter = "GetBoolean" -> sqliteReaderGetBoolean(g)
      [] getter = "GetString" -> sqliteReaderGetString(g)
      [] OTHER -> sqliteReaderIsDBNull(g)

-----------------------------------------------------------------------------
\* database/sql and SQLite.

Live(t) == tx[t].st = "live"
MayWrite(owner) == \A t \in Txs : Live(t) /\ tx[t].pending # <<>> => owner = t
\* What a statement run for this owner sees.
Visible(owner) == IF owner \in Txs THEN table \o tx[owner].pending ELSE table
\* A transaction that ends closes the rows read inside it.
RowsAfter(t) == IF reader.st = "open" /\ reader.owner = t
                THEN [reader EXCEPT !.cut = TRUE] ELSE reader
Ended(t, ok) == [tx[t] EXCEPT !.st = "ended", !.pending = <<>>, !.committed = ok]

-----------------------------------------------------------------------------
\* The connection.

\* An open connection is left as it is; Ping is where a bad path fails.
ConnectionOpen ==
    IF conn.open /\ conn.db # 0
    THEN Reply("Open", Done) /\ UNCHANGED <<conn, closed, tx, cmd, table, log, reader>>
    ELSE /\ conn.db < MaxOpens
         /\ \/ Reply("Open", Done) /\ conn' = [db |-> conn.db + 1, open |-> TRUE]
            \/ Reply("Open", Raised) /\ UNCHANGED conn
         /\ UNCHANGED <<closed, tx, cmd, table, log, reader>>

\* The handle stays in the field; database/sql lets what is under way finish.
ConnectionClose ==
    /\ closed' = closed \union ({conn.db} \ {0})
    /\ conn' = [conn EXCEPT !.open = FALSE]
    /\ Reply("Close", Done) /\ UNCHANGED <<tx, cmd, table, log, reader>>

BeginTransaction(t) ==
    /\ tx[t].st = "none"
    /\ \/ conn.db = 0 /\ Reply("BeginTransaction", Plain) /\ UNCHANGED tx
       \/ conn.db # 0 /\ Reply("BeginTransaction", Raised) /\ UNCHANGED tx
       \/ /\ conn.db # 0 /\ conn.db \notin closed
          /\ tx' = [tx EXCEPT ![t] = [NoTx EXCEPT !.st = "live", !.db = conn.db]]
          /\ Reply("BeginTransaction", Done)
    /\ UNCHANGED <<conn, closed, cmd, table, log, reader>>

-----------------------------------------------------------------------------
\* Transactions.

End(t, ok) ==
    /\ tx' = [tx EXCEPT ![t] = [Ended(t, ok) EXCEPT !.done = TRUE]]
    /\ reader' = RowsAfter(t)
\* database/sql gives the transaction up before it asks the driver, so one
\* whose commit failed cannot be used again; the object does not know.
Breaks(t) == tx' = [tx EXCEPT ![t] = Ended(t, FALSE)] /\ reader' = RowsAfter(t)
Refuses == UNCHANGED <<tx, table, reader>>

TransactionCommit(t) ==
    /\ tx[t].st # "none"
    /\ IF tx[t].done THEN Refuses /\ Reply("Commit", Done)
       ELSE IF ~ Live(t) THEN Refuses /\ Reply("Commit", Raised)
       ELSE \/ /\ table' = table \o tx[t].pending
               /\ End(t, TRUE) /\ Reply("Commit", Done)
            \/ Breaks(t) /\ Reply("Commit", Raised) /\ UNCHANGED table
    /\ UNCHANGED <<conn, closed, cmd, log>>

TransactionRollback(t) ==
    /\ tx[t].st # "none"
    /\ IF tx[t].done THEN Refuses /\ Reply("Rollback", Done)
       ELSE IF ~ Live(t) THEN Refuses /\ Reply("Rollback", Raised)
       ELSE /\ \/ End(t, FALSE) /\ Reply("Rollback", Done)
               \/ Breaks(t) /\ Reply("Rollback", Raised)
            /\ UNCHANGED table
    /\ UNCHANGED <<conn, closed, cmd, log>>

\* Mutant: Dispose marks the object and rolls nothing back.
TransactionDisposeMarks(t) ==
    /\ tx[t].st # "none" /\ tx' = [tx EXCEPT ![t].done = TRUE]
    /\ Reply("Dispose", Done) /\ UNCHANGED <<conn, closed, cmd, table, log, reader>>
\* What Rollback answers is dropped.
TransactionDispose(t) ==
    /\ tx[t].st # "none"
    /\ IF tx[t].done THEN Refuses
       ELSE IF Live(t) THEN End(t, FALSE) /\ UNCHANGED table
       ELSE tx' = [tx EXCEPT ![t].done = TRUE] /\ UNCHANGED <<table, reader>>
    /\ Reply("Dispose", Done) /\ UNCHANGED <<conn, closed, cmd, log>>

-----------------------------------------------------------------------------
\* The command and its parameters.

NewCommand ==
    /\ cmd # NoCommand
    /\ cmd' = NoCommand /\ Reply("CreateCommand", Done)
    /\ UNCHANGED <<conn, closed, tx, table, log, reader>>

CommandSetTransaction(t) ==
    /\ tx[t].st # "none" /\ cmd.tx # t
    /\ cmd' = [cmd EXCEPT !.tx = t] /\ Reply("set_Transaction", Done)
    /\ UNCHANGED <<conn, closed, tx, table, log, reader>>

Names == {"", "@p", "q"}
ParamsAddWithValue(name, v) ==
    /\ cmd.params = <<>> \/ (Len(cmd.params) = 1 /\ log = <<>>)
    /\ cmd.params # <<>> \/ log # <<>> => v = Val("i4", 1)
    /\ cmd' = [cmd EXCEPT !.params = Append(@, [name |-> name, v |-> v])]
    /\ Reply("AddWithValue", Done)
    /\ UNCHANGED <<conn, closed, tx, table, log, reader>>

ParamsClear ==
    /\ cmd.params # <<>>
    /\ cmd' = [cmd EXCEPT !.params = <<>>] /\ Reply("Clear", Done)
    /\ UNCHANGED <<conn, closed, tx, table, log, reader>>

stripParamSigil(name) == IF name = "@p" THEN "p" ELSE name

\* One name makes every parameter a named one.
bindParams ==
    LET named == \E i \in DOMAIN cmd.params : cmd.params[i].name # ""
    IN [i \in DOMAIN cmd.params |->
          [name |-> IF named THEN stripParamSigil(cmd.params[i].name) ELSE "",
           go |-> sqliteGoValue(cmd.params[i].v), at |-> i]]

\* A transaction that is done is passed over, and the command runs on its
\* own.  "none": there is nothing to run it on.
target ==
    IF cmd.tx \in Txs /\ ~ tx[cmd.tx].done THEN cmd.tx
    ELSE IF conn.db = 0 THEN "none" ELSE "auto"

\* database/sql: whether the target still takes statements.
Accepts == IF target \in Txs THEN Live(target) ELSE conn.db \notin closed
Unbindable == \E i \in DOMAIN bindParams : bindParams[i].go = Plain

-----------------------------------------------------------------------------
\* Execution.

Fails ==
    /\ \/ (Unbindable \/ target = "none") /\ Reply("Execute", Plain)
       \/ ~ Unbindable /\ target # "none" /\ Reply("Execute", Raised)
    /\ UNCHANGED <<conn, closed, tx, cmd, table, log, reader>>
Runs == ~ Unbindable /\ target # "none" /\ Accepts

\* The parameters the driver may take for "@p" and for "?".
Bound(byName) ==
    LET called(n) == {i \in DOMAIN bindParams : bindParams[i].name = n}
    IN IF byName /\ called("p") # {} THEN called("p")
       ELSE IF byName THEN called("") \intersect {1} ELSE DOMAIN bindParams \intersect {1}

\* The transaction the program means: the command's, until it has ended.
Meant == IF cmd.tx \in Txs /\ Live(cmd.tx) THEN cmd.tx ELSE "auto"

ExecuteNonQuery(byName, i) ==
    /\ Runs /\ MayWrite(target) /\ Len(log) < MaxRows /\ i \in Bound(byName)
    /\ log' = Append(log, [v |-> cmd.params[i].v, go |-> bindParams[i].go, owner |-> Meant,
                          named |-> byName => cmd.params[i].name \in {"", "@p"}])
    /\ IF target = "auto"
       THEN table' = Append(table, Len(log) + 1) /\ UNCHANGED tx
       ELSE /\ tx' = [tx EXCEPT ![target].pending = Append(@, Len(log) + 1)]
            /\ UNCHANGED table
    /\ Reply("ExecuteNonQuery", Val("i4", 1))
    /\ UNCHANGED <<conn, closed, cmd, reader>>

ExecuteReader ==
    /\ Runs /\ (reader.st = "none" \/ reader.closed)
    /\ reader' = [NoReader EXCEPT !.st = "open", !.all = Visible(target), !.owner = target]
    /\ Reply("ExecuteReader", Done) /\ UNCHANGED <<conn, closed, tx, cmd, table, log>>

\* No row, and a fetch that fails, are both null; SQL NULL is DBNull.
ExecuteScalar ==
    /\ Runs
    /\ \/ Reply("ExecuteScalar", Nothing)
       \/ /\ Visible(target) # <<>>
          /\ Reply("ExecuteScalar", sqliteValueFromGo(log[Head(Visible(target))].go))
    /\ UNCHANGED <<conn, closed, tx, cmd, table, log, reader>>

-----------------------------------------------------------------------------
\* The reader.  Nobody asks rows.Err(): a fetch that fails reads as the end,
\* and the last row stays the current one.

\* Mutant: the row after the current one is asked for, and the last is lost.
ReaderReadAhead ==
    /\ reader.st = "open"
    /\ IF reader.closed \/ reader.cut \/ Len(reader.got) + 1 >= Len(reader.all)
       THEN Reply("Read", Bool(FALSE)) /\ UNCHANGED reader
       ELSE LET row == reader.all[Len(reader.got) + 1]
            IN /\ reader' = [reader EXCEPT !.got = Append(@, row), !.current = row]
               /\ Reply("Read", Bool(TRUE))
    /\ UNCHANGED <<conn, closed, tx, cmd, table, log>>

ReaderRead ==
    /\ reader.st = "open"
    /\ IF reader.closed \/ reader.cut \/ Len(reader.got) = Len(reader.all)
       THEN Reply("Read", Bool(FALSE)) /\ UNCHANGED reader
       ELSE \/ LET row == reader.all[Len(reader.got) + 1]
               IN /\ reader' = [reader EXCEPT !.got = Append(@, row), !.current = row]
                  /\ Reply("Read", Bool(TRUE))
            \/ reader' = [reader EXCEPT !.cut = TRUE] /\ Reply("Read", Bool(FALSE))
    /\ UNCHANGED <<conn, closed, tx, cmd, table, log>>

ReaderGet(getter) ==
    /\ reader.st = "open"
    /\ Reply(getter, IF reader.current = 0 THEN Plain
                     ELSE Column(getter, log[reader.current].go))
    /\ UNCHANGED <<conn, closed, tx, cmd, table, log, reader>>

\* HasRows tells whether a row has been read.
ReaderHasRows ==
    /\ reader.st = "open" /\ Reply("HasRows", Bool(reader.current # 0))
    /\ UNCHANGED <<conn, closed, tx, cmd, table, log, reader>>

ReaderDispose ==
    /\ reader.st = "open" /\ ~ reader.closed
    /\ reader' = [reader EXCEPT !.closed = TRUE] /\ Reply("Close", Done)
    /\ UNCHANGED <<conn, closed, tx, cmd, table, log>>

AdoNext ==
    \/ ConnectionOpen \/ ConnectionClose \/ NewCommand \/ ParamsClear
    \/ \E t \in Txs : \/ BeginTransaction(t) \/ TransactionCommit(t)
                      \/ TransactionRollback(t) \/ TransactionDispose(t)
                      \/ CommandSetTransaction(t)
    \/ \E name \in Names, v \in Arguments : ParamsAddWithValue(name, v)
    \/ Fails \/ ExecuteReader \/ ExecuteScalar
    \/ \E byName \in BOOLEAN, i \in 1..2 : ExecuteNonQuery(byName, i)
    \/ ReaderRead \/ ReaderHasRows \/ ReaderDispose
    \/ \E getter \in Getters : ReaderGet(getter)

AdoSpec == AdoInit /\ [][AdoNext]_avars

-----------------------------------------------------------------------------
\* A row is in the database exactly when no transaction was meant for it or
\* its transaction was committed, whatever becomes of the transaction object
\* and of the connection meanwhile; and a transaction that has been disposed
\* of, committed or rolled back holds nothing any more, so that the next
\* writer is not locked out (target, sqliteTransactionCommit, ...Dispose).
AllOrNothing ==
    /\ \A r \in DOMAIN log :
         Contains(table, r) <=> \/ log[r].owner = "auto"
                               \/ /\ log[r].owner \in Txs
                                  /\ tx[log[r].owner].committed
    /\ \A t \in Txs : tx[t].done => ~ Live(t)

\* A reader hands out the rows of its query once each and in order, and its
\* Read says "no more" only at the end, after Close, or when the fetch was
\* cut short; the value a column reads as is the value the program stored
\* under the name (or the place) of the statement's parameter.
Suits(getter, v, out) ==
    LET null == v.k \in {"null", "dbnull"}
        int == v.k \in {"i4", "i8"}
    IN CASE getter = "GetValue" -> IF null THEN out.k = "dbnull"
                                   ELSE out = IF int THEN Val("i8", v.n) ELSE v
         [] getter = "IsDBNull" -> out = Bool(null)
         [] getter = "GetInt64" -> int => out = Val("i8", v.n)
         [] getter = "GetInt32" -> int /\ 2 * v.n < Words => out = Val("i4", v.n)
         [] getter = "GetBoolean" -> int => out = Bool(v.n # 0)
         [] OTHER -> v.k = "string" => out = v

ReadersTellTheTable ==
    /\ IsPrefix(reader.got, reader.all)
    /\ reply = [op |-> "Read", out |-> Bool(FALSE)] =>
         reader.got = reader.all \/ reader.cut \/ reader.closed
    /\ reader.current # 0 =>
         \A getter \in Getters :
            Suits(getter, log[reader.current].v, Column(getter, log[reader.current].go))
    /\ \A r \in DOMAIN log : log[r].named

-----------------------------------------------------------------------------
(* Why they hold: the strengthening the proofs carry along.                *)

Rows == 1..Len(log)
Owners == Txs \union {"auto"}
TxStates == [st : {"none", "live", "ended"}, db : Nat, done : BOOLEAN, pending : Seq(Nat), committed : BOOLEAN]
ReaderStates == [st : {"none", "open"}, all : Seq(Nat), got : Seq(Nat), current : Nat, closed : BOOLEAN,
                 cut : BOOLEAN, owner : Owners]

AdoTypeOK ==
    /\ conn \in [db : Nat, open : BOOLEAN]
    /\ tx \in [Txs -> TxStates]
    /\ cmd \in [tx : Owners, params : Seq([name : Names, v : Arguments])]
    /\ log \in Seq([v : Arguments, go : {sqliteGoValue(v) : v \in Arguments} \ {Plain},
                    owner : Owners, named : {TRUE}])
    /\ table \in Seq(Nat) /\ \A i \in 1..Len(table) : table[i] \in Rows
    /\ reader \in ReaderStates /\ reader.current \in Rows \union {0}
    /\ \A i \in 1..Len(reader.all) : reader.all[i] \in Rows

\* A transaction holds the rows inserted for it for as long as it lives.
Held ==
    /\ \A t \in Txs :
          /\ ~ Live(t) => tx[t].pending = <<>>
          /\ tx[t].committed \/ tx[t].done => tx[t].st = "ended"
          /\ \A i \in 1..Len(tx[t].pending) :
                tx[t].pending[i] \in Rows /\ log[tx[t].pending[i]].owner = t
    /\ \A r \in Rows : log[r].owner \in Txs =>
          /\ tx[log[r].owner].st # "none"
          /\ Live(log[r].owner) => Contains(tx[log[r].owner].pending, r)

\* What was stored is what the parameter was; what was read are the first rows of the query.
Told ==
    /\ \A r \in Rows : log[r].go = sqliteGoValue(log[r].v)
    /\ Len(reader.got) <= Len(reader.all)
    /\ \A i \in 1..Len(reader.got) : reader.got[i] = reader.all[i]
    /\ reply = [op |-> "Read", out |-> Bool(FALSE)] =>
         reader.got = reader.all \/ reader.cut \/ reader.closed

AdoInv == AdoTypeOK /\ Held /\ Told /\ AllOrNothing
=============================================================================
