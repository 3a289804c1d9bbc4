------------------------------ MODULE Replication ------------------------------
(***************************************************************************)
(* persistence/dbReplicator.mjs and restore.mjs: SQLite is what the desk    *)
(* works on, Postgres what survives a redeploy.  A timer of the server      *)
(* starts a pass every five seconds whether or not the last one is over; a  *)
(* pass takes the durable tables in turn, reads the rows past a cursor,     *)
(* awaits their upsert, and then moves the cursor, which is kept in SQLite. *)
(* After an authentication error no pass starts for a while, which a timer  *)
(* without a phase includes.  One table stands for each mode:               *)
(*   trades           cursor mode, on COALESCE(closed_at, opened_at)        *)
(*   capital_history  rowid mode, append-only                               *)
(*   org_state        full mode, sent whole by every pass                   *)
(*                                                                          *)
(* Timestamps are compared as text.  Within one day every stamp written by  *)
(* datetime('now'), which has a blank before the hour, sorts below every    *)
(* ISO stamp, which has a T there.                                          *)
(***************************************************************************)
EXTENDS Integers, FiniteSets, FiniteSetsExt

CONSTANTS
  Trade,      \* the trades that may ever be opened
  Pass,       \* the passes that may be under way at a time
  Limit,      \* LIMIT 1000: the rows a pass takes of a table
  Noon,       \* bound on the clock: the stamps of a kind that a day has
  MaxRows,    \* bound on the rows of the ledger
  MaxFlips,   \* bound on the changes of the row of org_state
  MaxWipes,   \* bound on the redeploys that lose the disk
  MaxRestarts \* bound on the restarts that keep it

ASSUME ReplicationAssumption ==
  /\ Limit \in Nat \ {0}
  /\ Noon \in Nat \ {0}
  /\ MaxRows \in Nat /\ MaxFlips \in Nat
  /\ MaxWipes \in Nat /\ MaxRestarts \in Nat

VARIABLES
  trades, ledger, flips,         \* SQLite: trades, capital_history, a counter in org_state
  cursor,                        \* SQLite: _repl_cursors
  pgTrades, pgLedger, pgFlips,   \* Postgres: the same tables
  pass,                          \* the passes under way
  now,                           \* the time of the day
  up,                            \* the processes run; otherwise a deploy has begun
  wipes, restarts,               \* how often the disk was lost, or kept
  slipped,                       \* trades a pass has gone past, or put back (see Slips)
  lost,                          \* the ledger at the last wipe
  forked                         \* a life began without the ledger Postgres had

sqlite == <<trades, ledger, flips>>
postgres == <<pgTrades, pgLedger, pgFlips>>
boots == <<up, wipes, restarts, lost, forked>>
vars == <<sqlite, cursor, postgres, pass, now, slipped, boots>>

Absent == [status |-> "absent", stamp |-> 0]
Rows == [status : {"open", "closed"}, stamp : 1 .. 2 * Noon]
Life == 0..MaxWipes
NoRows == [i \in {} |-> i]

Idle == [at |-> "idle", batch |-> {}, cursor |-> 0]

TypeOK ==
  /\ trades \in [Trade -> Rows \cup {Absent}]
  /\ pgTrades \in [Trade -> Rows \cup {Absent}]
  /\ \A l \in {ledger, pgLedger, lost} :
       l \in [DOMAIN l -> Life] /\ DOMAIN l \subseteq Nat \ {0}
  /\ flips \in 0..MaxFlips /\ pgFlips \in 0..MaxFlips
  /\ cursor \in [{"trades", "ledger"} -> Nat]
  /\ \A p \in Pass :
       /\ pass[p].at \in {"idle", "trades", "readLedger", "ledger", "readFlips", "flips"}
       /\ pass[p].cursor \in Nat
       /\ pass[p].at = "trades" => pass[p].batch \subseteq Trade \X Rows
       /\ pass[p].at = "ledger" => pass[p].batch \subseteq Nat \X Life
       /\ pass[p].at = "flips" => pass[p].batch \subseteq {0} \X (0..MaxFlips)
  /\ up \in BOOLEAN /\ forked \in BOOLEAN
  /\ now \in 1..Noon
  /\ wipes \in 0..MaxWipes /\ restarts \in 0..MaxRestarts
  /\ slipped \subseteq Trade

Init ==
  /\ trades = [t \in Trade |-> Absent] /\ pgTrades = [t \in Trade |-> Absent]
  /\ ledger = NoRows /\ pgLedger = NoRows /\ lost = NoRows
  /\ flips = 0 /\ pgFlips = 0
  /\ cursor = [table \in {"trades", "ledger"} |-> 0]
  /\ pass = [p \in Pass |-> Idle]
  /\ up = TRUE /\ forked = FALSE
  /\ now = 1 /\ wipes = 0 /\ restarts = 0
  /\ slipped = {}

-------------------------------------------------------------------------------
(***************************************************************************)
(* The desk, as far as it writes the three tables.                          *)
(***************************************************************************)
Iso(time) == Noon + time      \* new Date().toISOString()
Blank(time) == time           \* datetime('now')

\* Mutant: ids that begin at 0.
NewestFromZero(l) == IF DOMAIN l = {} THEN 0 - 1 ELSE Max(DOMAIN l)

Newest(l) == IF DOMAIN l = {} THEN 0 ELSE Max(DOMAIN l)

\* The cursors up to which trades have been read and are, or may become, past.
Seen == {cursor["trades"]} \cup {pass[p].cursor : p \in {q \in Pass : pass[q].at = "trades"}}

\* A row stamped at or below a cursor will not be read by a later pass.
Slips(stamp) == \E c \in Seen : stamp <= c

WriteTrade(t, row) ==
  /\ trades' = [trades EXCEPT ![t] = row]
  /\ slipped' = IF Slips(row.stamp) THEN slipped \cup {t} ELSE slipped \ {t}

DeskUnchanged == UNCHANGED <<flips, cursor, postgres, pass, now, boots>>

\* A row of capital_history: a reservation, a settlement.  It is told apart by its
\* id and by the life of the disk it was written in.
Books ==
  /\ up /\ Newest(ledger) < MaxRows
  /\ ledger' = [i \in DOMAIN ledger \cup {Newest(ledger) + 1} |->
                  IF i \in DOMAIN ledger THEN ledger[i] ELSE wipes]
  /\ UNCHANGED <<trades, slipped>> /\ DeskUnchanged

\* saveTrade; the id is a new one.
Opens(t) ==
  /\ up /\ trades[t] = Absent /\ pgTrades[t] = Absent
  /\ WriteTrade(t, [status |-> "open", stamp |-> Iso(now)])
  /\ UNCHANGED ledger /\ DeskUnchanged

Closes(t) ==
  /\ up /\ trades[t].status = "open"
  /\ \E stamp \in {Iso(now), Blank(now)} :
       WriteTrade(t, [status |-> "closed", stamp |-> stamp])
  /\ UNCHANGED ledger /\ DeskUnchanged

\* Something of org_state changes: the peak, a status, a heartbeat.
Flips ==
  /\ up /\ flips < MaxFlips
  /\ flips' = flips + 1
  /\ UNCHANGED <<trades, ledger, cursor, postgres, pass, now, slipped, boots>>

Tick ==
  /\ now < Noon
  /\ now' = now + 1
  /\ UNCHANGED <<sqlite, cursor, postgres, pass, slipped, boots>>

-------------------------------------------------------------------------------
(***************************************************************************)
(* A pass: replicateOnce, with replicateTable for each table.               *)
(***************************************************************************)
\* Mutant: a page without ORDER BY.
IsPageUnordered(page, due, key) ==
  /\ page \subseteq due
  /\ Cardinality(page) = IF Cardinality(due) < Limit THEN Cardinality(due) ELSE Limit

\* ORDER BY key ASC LIMIT: rows of equal key come in any order.
IsPage(page, due, key) ==
  /\ page \subseteq due
  /\ Cardinality(page) = IF Cardinality(due) < Limit THEN Cardinality(due) ELSE Limit
  /\ \A r \in page, s \in due \ page : key[r] <= key[s]

\* Read the rows of a table, and await their upsert; a table with no rows to
\* send is left at once.
Send(p, table, next, rows, upTo) ==
  pass' = [pass EXCEPT ![p] =
             IF rows = {} THEN [@ EXCEPT !.at = next]
             ELSE [@ EXCEPT !.at = table, !.batch = rows, !.cursor = upTo]]

PassUnchanged == UNCHANGED <<sqlite, postgres, now, boots>>

\* The timer starts a pass, which begins with the trades.  A page cut between
\* rows of one stamp leaves the others to slip.
ReadTrades(p) ==
  /\ up /\ pass[p].at = "idle"
  /\ LET due == {t \in Trade : trades[t] # Absent /\ trades[t].stamp > cursor["trades"]}
         key == [t \in due |-> trades[t].stamp]
     IN  \E page \in SUBSET due :
           LET upTo == IF page = {} THEN 0 ELSE Max({key[t] : t \in page})
           IN  /\ IsPage(page, due, key)
               /\ Send(p, "trades", "readLedger", {<<t, trades[t]>> : t \in page}, upTo)
               /\ slipped' = slipped \cup {t \in due \ page : key[t] <= upTo}
  /\ UNCHANGED cursor /\ PassUnchanged

ReadLedger(p) ==
  /\ pass[p].at = "readLedger"
  /\ LET due == {i \in DOMAIN ledger : i > cursor["ledger"]}
     IN  \E page \in SUBSET due :
           /\ IsPage(page, due, [i \in due |-> i])
           /\ Send(p, "ledger", "readFlips", {<<i, ledger[i]>> : i \in page},
                   IF page = {} THEN 0 ELSE Max(page))
  /\ UNCHANGED <<cursor, slipped>> /\ PassUnchanged

ReadFlips(p) ==
  /\ pass[p].at = "readFlips"
  /\ Send(p, "flips", "idle", {<<0, flips>>}, 0)
  /\ UNCHANGED <<cursor, slipped>> /\ PassUnchanged

-------------------------------------------------------------------------------
(***************************************************************************)
(* The upsert lands a row at a time, oldest first: a row of the model is a  *)
(* batch of 200.                                                            *)
(***************************************************************************)
Key(p, r) == IF pass[p].at = "trades" THEN r[2].stamp ELSE r[1]

IsNext(p, r) == r \in pass[p].batch /\ \A s \in pass[p].batch : Key(p, r) <= Key(p, s)

\* INSERT ... ON CONFLICT DO UPDATE.  A row that undoes a later version of its
\* trade, read by a pass that has overtaken this one, makes the trade slip.
LandTrade(t, row) ==
  /\ pgTrades' = [pgTrades EXCEPT ![t] = row]
  /\ slipped' = IF row = trades[t] THEN slipped \ {t}
                ELSE IF pgTrades[t] = trades[t] THEN slipped \cup {t} ELSE slipped
  /\ UNCHANGED <<pgLedger, pgFlips>>

LandRow(i, life) ==
  /\ pgLedger' = [j \in DOMAIN pgLedger \cup {i} |-> IF j = i THEN life ELSE pgLedger[j]]
  /\ UNCHANGED <<pgTrades, pgFlips, slipped>>

\* Mutant: ON CONFLICT DO NOTHING.
LandFlipsOnce(n) == UNCHANGED postgres /\ UNCHANGED slipped

LandFlips(n) ==
  /\ pgFlips' = n
  /\ UNCHANGED <<pgTrades, pgLedger, slipped>>

Lands(p) ==
  \E r \in pass[p].batch :
    /\ IsNext(p, r)
    /\ pass' = [pass EXCEPT ![p].batch = @ \ {r}]
    /\ \/ pass[p].at = "trades" /\ LandTrade(r[1], r[2])
       \/ pass[p].at = "ledger" /\ LandRow(r[1], r[2])
       \/ pass[p].at = "flips" /\ LandFlips(r[2])
    /\ UNCHANGED <<sqlite, cursor, now, boots>>

NextRead(at) ==
  CASE at = "trades" -> "readLedger"
    [] at = "ledger" -> "readFlips"
    [] at = "flips" -> "idle"

Sending(p) == pass[p].at \in {"trades", "ledger", "flips"}

\* The table is over: its cursor is forgotten, and the next one is read.
Moved(p) == [pass EXCEPT ![p] = [Idle EXCEPT !.at = NextRead(pass[p].at)]]

\* Mutant: setCursor has no table to write to, and says nothing.
AnsweredUnsaved(p) ==
  /\ Sending(p) /\ pass[p].batch = {}
  /\ pass' = Moved(p)
  /\ UNCHANGED <<cursor, slipped>> /\ PassUnchanged

\* The last answer arrives: setCursor.
Answered(p) ==
  /\ Sending(p) /\ pass[p].batch = {}
  /\ cursor' = [table \in DOMAIN cursor |->
                  IF pass[p].at = table THEN pass[p].cursor ELSE cursor[table]]
  /\ pass' = Moved(p)
  /\ UNCHANGED <<slipped>> /\ PassUnchanged

\* Mutant: the cursor is saved before the upsert is known to have worked.
FailsPastCursor(p) ==
  /\ Sending(p)
  /\ pass' = Moved(p)
  /\ cursor' = [table \in DOMAIN cursor |->
                  IF pass[p].at = table THEN pass[p].cursor ELSE cursor[table]]
  /\ UNCHANGED <<slipped>> /\ PassUnchanged

\* Postgres refuses, or its answer is lost: rows may have landed, and the cursor
\* stays.  The pass goes on to the next table.
Fails(p) ==
  /\ Sending(p)
  /\ pass' = Moved(p)
  /\ UNCHANGED <<cursor, slipped>> /\ PassUnchanged

-------------------------------------------------------------------------------
(***************************************************************************)
(* Deploys and restarts.                                                    *)
(***************************************************************************)
NoPasses == pass' = [p \in Pass |-> Idle]

\* The server process restarts; SQLite and its cursors are still there.
Restarts ==
  /\ up /\ restarts < MaxRestarts
  /\ restarts' = restarts + 1
  /\ NoPasses
  /\ UNCHANGED <<sqlite, cursor, postgres, now, slipped, up, wipes, lost, forked>>

\* A deploy on an ephemeral disk: SQLite is gone, cursors included.
Wipe ==
  /\ up /\ wipes < MaxWipes
  /\ wipes' = wipes + 1 /\ up' = FALSE
  /\ trades' = [t \in Trade |-> Absent] /\ ledger' = NoRows /\ flips' = 0
  /\ cursor' = [table \in DOMAIN cursor |-> 0]
  /\ slipped' = {} /\ lost' = ledger
  /\ NoPasses
  /\ UNCHANGED <<postgres, now, restarts, forked>>

\* restoreFromPg reads each table by itself and skips one it cannot read.  It
\* does nothing unless Postgres has a trade and SQLite has none.  (DB_MODE=postgres
\* forces it on a database that has trades: not modelled.)
restoreFromPg(tables) ==
  /\ trades' = IF "trades" \in tables THEN pgTrades ELSE trades
  /\ ledger' = IF "ledger" \in tables THEN pgLedger ELSE ledger
  /\ flips' = IF "flips" \in tables THEN pgFlips ELSE flips
  /\ forked' = (forked \/ ("ledger" \notin tables /\ pgLedger # NoRows))

\* restore.mjs ends the deploy, whatever came of the restore.
Boots ==
  /\ ~up /\ up' = TRUE
  /\ \E tables \in SUBSET {"trades", "ledger", "flips"} :
       /\ tables # {} => \E t \in Trade : pgTrades[t] # Absent
       /\ restoreFromPg(tables)
  /\ UNCHANGED <<cursor, postgres, pass, now, wipes, restarts, slipped, lost>>

-------------------------------------------------------------------------------
Step(p) ==
  \/ ReadTrades(p) \/ ReadLedger(p) \/ ReadFlips(p)
  \/ Lands(p) \/ Answered(p) \/ Fails(p)

Next ==
  \/ \E t \in Trade : Opens(t) \/ Closes(t)
  \/ Books
  \/ Flips
  \/ Tick
  \/ \E p \in Pass : Step(p)
  \/ Restarts \/ Wipe \/ Boots

Spec == Init /\ [][Next]_vars

\* The timer goes on and requests end, one way or the other; and what a pass asks
\* of Postgres again and again does not fail for ever, at any batch of an upsert.
Fairness ==
  /\ \A p \in Pass : WF_vars(Step(p))
  /\ \A left \in 1..Limit :
       SF_vars(\E p \in Pass : pass[p].at = "ledger" /\ Cardinality(pass[p].batch) = left /\ Lands(p))
  /\ SF_vars(\E p \in Pass : pass[p].at = "ledger" /\ Answered(p))
  /\ SF_vars(\E p \in Pass : pass[p].at = "flips" /\ Lands(p))
  /\ WF_vars(Boots)

FairSpec == Spec /\ Fairness

-------------------------------------------------------------------------------
(***************************************************************************)
(* Properties                                                               *)
(***************************************************************************)
\* Every ledger row up to the cursor is in Postgres as it is in SQLite, however
\* many passes overlap, fail halfway, lose their answer, or die in a restart
\* (replicateTable: the cursor moves only when all batches have been upserted).
LedgerCopiedToCursor ==
  \A i \in DOMAIN ledger :
    i <= cursor["ledger"] => i \in DOMAIN pgLedger /\ pgLedger[i] = ledger[i]

\* A restored ledger is the beginning of the one that was lost: a wipe may cost
\* the newest rows, and never one in the middle (restoreFromPg), as long as
\* every earlier deploy restored the ledger too.
RestoresABeginning ==
  [][ ~up /\ up' /\ ~forked' =>
        /\ DOMAIN ledger' = 1 .. Cardinality(DOMAIN ledger')
        /\ \A i \in DOMAIN ledger' : i \in DOMAIN lost /\ lost[i] = ledger'[i] ]_vars

\* A trade behind the cursor is missing from Postgres, or stale there, only if it
\* has slipped: written with a stamp a pass had gone past, cut from a page
\* between equal stamps, or put back by a pass that was overtaken.  Nothing else
\* - failures, lost answers, cursors that move back, restarts - loses a trade.
OnlySlippedTradesAreStale ==
  \A t \in Trade :
    trades[t] # Absent /\ trades[t].stamp <= cursor["trades"] /\ pgTrades[t] # trades[t]
      => t \in slipped

\* Each ledger row gets to Postgres, unless its disk is lost first.
LedgerGetsThere ==
  \A i \in 1..MaxRows :
    i \in DOMAIN ledger ~>
      (up => i \in DOMAIN ledger \cap DOMAIN pgLedger /\ pgLedger[i] = ledger[i])

\* What is sent whole by every pass is right in Postgres again and again, also
\* when an overtaken pass has put an old value back.
StateConverges == []<>(~up \/ pgFlips = flips)

\* "watermark on a timestamp expr - catches inserts AND updates" (dbReplicator.mjs:15):
\* with no pass sending trades, a trade behind the cursor is in Postgres.
CatchesInsertsAndUpdates ==
  (\A p \in Pass : pass[p].at # "trades") =>
    \A t \in Trade :
      trades[t] # Absent /\ trades[t].stamp <= cursor["trades"] => pgTrades[t] = trades[t]
===============================================================================
