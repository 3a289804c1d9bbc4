--------------------------- MODULE ReplicationProofs ---------------------------
(***************************************************************************)
(* Replication, for any trades, any number of passes under way at a time,   *)
(* any size of a page, and any number of redeploys and restarts.            *)
(***************************************************************************)
EXTENDS Replication, FiniteSetTheorems, WellFoundedInduction, TLAPS

-------------------------------------------------------------------------------
(***************************************************************************)
(* Pages and their last key.                                                *)
(***************************************************************************)
\* A set of numbers below a bound has a maximum: the least distance to the bound.
LEMMA MaxIs ==
  ASSUME NEW n \in Nat, NEW S \in SUBSET (0..n), S # {}
  PROVE  Max(S) \in S /\ \A x \in S : x <= Max(S)
<1>. DEFINE Distance == {n - x : x \in S}
<1>1. Distance \subseteq Nat
  OBVIOUS
<1>2. Distance # {}
  OBVIOUS
<1>3. PICK d \in Distance : \A e \in Distance : ~ (<<e, d>> \in OpToRel(<, Nat))
  BY <1>1, <1>2, NatLessThanWellFounded, WFMin, Zenon
<1>4. \A e \in Distance : ~(e < d)
  BY <1>1, <1>3 DEF OpToRel
<1>5. PICK x \in S : d = n - x
  OBVIOUS
<1>6. \A y \in S : x >= y
  BY <1>4, <1>5
<1>. QED
  BY <1>6 DEF Max

\* The newest row of a ledger is one of its rows, or there is none.
LEMMA NewestIs ==
  ASSUME NEW l, DOMAIN l \subseteq 1..MaxRows
  PROVE  /\ Newest(l) \in 0..MaxRows
         /\ \A i \in DOMAIN l : i <= Newest(l)
<1>. USE ReplicationAssumption
<1>1. CASE DOMAIN l = {}
  BY <1>1 DEF Newest
<1>2. CASE DOMAIN l # {}
  <2>1. DOMAIN l \in SUBSET (0..MaxRows)
    OBVIOUS
  <2>2. Max(DOMAIN l) \in DOMAIN l /\ \A i \in DOMAIN l : i <= Max(DOMAIN l)
    BY <1>2, <2>1, MaxIs
  <2>. QED
    BY <1>2, <2>2 DEF Newest
<1>. QED
  BY <1>1, <1>2

-------------------------------------------------------------------------------
(***************************************************************************)
(* Types.                                                                   *)
(***************************************************************************)
Batch == (Trade \X Rows) \cup (Nat \X Life) \cup ({0} \X (0..MaxFlips))

At == {"idle", "trades", "readLedger", "ledger", "readFlips", "flips"}
PassOf == [at : At, batch : SUBSET Batch, cursor : Nat]
PassType == pass \in [Pass -> PassOf]

Bounded == DOMAIN ledger \subseteq 1..MaxRows /\ DOMAIN pgLedger \subseteq 1..MaxRows

\* During a deploy nothing is under way, and no cursor is left.
Quiet ==
  ~up => /\ \A p \in Pass : pass[p].at = "idle"
         /\ cursor["ledger"] = 0 /\ cursor["trades"] = 0
         /\ trades = [t \in Trade |-> Absent] /\ ledger = NoRows

\* The type invariant by parts.
DeskTypes ==
  /\ trades \in [Trade -> Rows \cup {Absent}]
  /\ pgTrades \in [Trade -> Rows \cup {Absent}]
  /\ flips \in 0..MaxFlips /\ pgFlips \in 0..MaxFlips
  /\ cursor \in [{"trades", "ledger"} -> Nat]
  /\ up \in BOOLEAN /\ forked \in BOOLEAN
  /\ now \in 1..Noon
  /\ wipes \in 0..MaxWipes /\ restarts \in 0..MaxRestarts
  /\ slipped \subseteq Trade

IsLedger(l) == l \in [DOMAIN l -> Life] /\ DOMAIN l \subseteq Nat \ {0}
LedgerTypes == IsLedger(ledger) /\ IsLedger(pgLedger) /\ IsLedger(lost)

BatchType(p) ==
  /\ pass[p].at = "trades" => pass[p].batch \subseteq Trade \X Rows
  /\ pass[p].at = "ledger" => pass[p].batch \subseteq Nat \X Life
  /\ pass[p].at = "flips" => pass[p].batch \subseteq {0} \X (0..MaxFlips)

Types ==
  DeskTypes /\ LedgerTypes /\ PassType /\ (\A p \in Pass : BatchType(p)) /\ Bounded /\ Quiet

LEMMA TypesOK == Types => TypeOK
<1>1. ASSUME PassType, NEW p \in Pass
      PROVE  pass[p].at \in At /\ pass[p].cursor \in Nat
  BY <1>1 DEF PassType, PassOf
<1>. QED
  BY <1>1 DEF Types, TypeOK, DeskTypes, LedgerTypes, IsLedger, BatchType, At

\* One pass changes.
LEMMA PassIs ==
  ASSUME PassType, NEW p \in Pass, NEW new, new \in PassOf, pass' = [pass EXCEPT ![p] = new]
  PROVE  /\ PassType'
         /\ \A q \in Pass : q # p => pass'[q] = pass[q]
         /\ pass'[p] = new
BY DEF PassType

\* What Send leaves of the passes.
LEMMA SendIs ==
  ASSUME PassType, NEW p \in Pass, NEW rows \in SUBSET Batch, NEW upTo \in Nat,
         NEW table \in {"trades", "ledger", "flips"},
         NEW next \in {"readLedger", "readFlips", "idle"},
         Send(p, table, next, rows, upTo)
  PROVE  /\ PassType'
         /\ \A q \in Pass : q # p => pass'[q] = pass[q]
         /\ rows = {} => pass'[p].at = next
         /\ rows # {} => pass'[p].at = table /\ pass'[p].batch = rows /\ pass'[p].cursor = upTo
<1>. DEFINE new == IF rows = {} THEN [pass[p] EXCEPT !.at = next]
                   ELSE [pass[p] EXCEPT !.at = table, !.batch = rows, !.cursor = upTo]
<1>1. pass' = [pass EXCEPT ![p] = new]
  BY DEF Send
<1>2. pass[p] \in [at : At, batch : SUBSET Batch, cursor : Nat]
  BY DEF PassType, PassOf
<1>3. table \in At /\ next \in At
  BY DEF At
<1>4. /\ new \in PassOf
      /\ rows = {} => new.at = next
      /\ rows # {} => new.at = table /\ new.batch = rows /\ new.cursor = upTo
  BY <1>2, <1>3 DEF PassOf
<1>. HIDE DEF new
<1>5. PassType' /\ (\A q \in Pass : q # p => pass'[q] = pass[q]) /\ pass'[p] = new
  BY <1>1, <1>4, PassIs
<1>. QED
  BY <1>4, <1>5

\* What the end of a table leaves of them.
LEMMA MovedIs ==
  ASSUME PassType, NEW p \in Pass, Sending(p), pass' = Moved(p)
  PROVE  /\ PassType'
         /\ \A q \in Pass : q # p => pass'[q] = pass[q]
         /\ pass'[p].at \in {"readLedger", "readFlips", "idle"}
<1>. DEFINE new == [Idle EXCEPT !.at = NextRead(pass[p].at)]
<1>1. NextRead(pass[p].at) \in {"readLedger", "readFlips", "idle"}
  BY DEF Sending, NextRead
<1>2. pass' = [pass EXCEPT ![p] = new]
  BY DEF Moved
<1>3. NextRead(pass[p].at) \in At
  BY <1>1 DEF At
<1>4. new \in PassOf /\ new.at = NextRead(pass[p].at)
  BY <1>3 DEF PassOf, Idle
<1>. HIDE DEF new
<1>5. PassType' /\ (\A q \in Pass : q # p => pass'[q] = pass[q]) /\ pass'[p] = new
  BY <1>2, <1>4, PassIs
<1>. QED
  BY <1>1, <1>4, <1>5

\* And what the landing of a row.
LEMMA LandIs ==
  ASSUME PassType, NEW p \in Pass, NEW r, pass' = [pass EXCEPT ![p].batch = @ \ {r}]
  PROVE  /\ PassType'
         /\ \A q \in Pass : q # p => pass'[q] = pass[q]
         /\ pass'[p].at = pass[p].at /\ pass'[p].cursor = pass[p].cursor
         /\ pass'[p].batch = pass[p].batch \ {r}
<1>. DEFINE new == [pass[p] EXCEPT !.batch = @ \ {r}]
<1>1. pass' = [pass EXCEPT ![p] = new]
  OBVIOUS
<1>2. pass[p] \in [at : At, batch : SUBSET Batch, cursor : Nat]
  BY DEF PassType, PassOf
<1>3. /\ new \in PassOf
      /\ new.at = pass[p].at /\ new.cursor = pass[p].cursor /\ new.batch = pass[p].batch \ {r}
  BY <1>2 DEF PassOf
<1>. HIDE DEF new
<1>4. PassType' /\ (\A q \in Pass : q # p => pass'[q] = pass[q]) /\ pass'[p] = new
  BY <1>1, <1>3, PassIs
<1>. QED
  BY <1>3, <1>4

\* A function with a new place, or another value at one.
LEMMA LedgerIs ==
  ASSUME NEW l, l \in [DOMAIN l -> Life], DOMAIN l \subseteq Nat \ {0},
         NEW i \in Nat \ {0}, NEW life \in Life, NEW k,
         k = [j \in DOMAIN l \cup {i} |-> IF j = i THEN life ELSE l[j]]
  PROVE  /\ k \in [DOMAIN k -> Life] /\ DOMAIN k \subseteq Nat \ {0}
         /\ DOMAIN k = DOMAIN l \cup {i}
OBVIOUS

LEMMA TypesInit == Init => Types
<1>. SUFFICES ASSUME Init PROVE Types
  OBVIOUS
<1>. USE ReplicationAssumption
<1>0. up \in BOOLEAN /\ forked \in BOOLEAN
  BY Zenon DEF Init
<1>1. DeskTypes
  BY <1>0 DEF Init, DeskTypes, Absent
<1>2. IsLedger(NoRows) /\ DOMAIN NoRows = {}
  BY DEF IsLedger, NoRows
<1>3. LedgerTypes /\ Bounded
  BY <1>2 DEF Init, LedgerTypes, Bounded
<1>4. Idle \in PassOf /\ Idle.at = "idle"
  BY DEF Idle, PassOf, At
<1>5. PassType /\ \A p \in Pass : pass[p].at = "idle"
  BY <1>4 DEF Init, PassType
<1>. QED
  BY <1>1, <1>3, <1>5 DEF Types, BatchType, Quiet, Init

\* No pass is under way after NoPasses.
LEMMA NoPassesIs ==
  ASSUME NoPasses
  PROVE  PassType' /\ (\A p \in Pass : pass'[p].at = "idle") /\ (\A p \in Pass : BatchType(p)')
<1>1. Idle \in PassOf /\ Idle.at = "idle"
  BY DEF Idle, PassOf, At
<1>. QED
  BY <1>1 DEF NoPasses, PassType, BatchType

-------------------------------------------------------------------------------
(***************************************************************************)
(* The desk keeps the types.                                                *)
(***************************************************************************)
LEMMA StampsAre ==
  ASSUME Types
  PROVE  Iso(now) \in 1 .. 2 * Noon /\ Blank(now) \in 1 .. 2 * Noon
BY ReplicationAssumption DEF Types, DeskTypes, Iso, Blank

LEMMA WriteTypes ==
  ASSUME Types, up, NEW t \in Trade, NEW row \in Rows, WriteTrade(t, row),
         UNCHANGED ledger, DeskUnchanged
  PROVE  Types'
<1>. USE DEF Types, DeskUnchanged, postgres, boots
<1>1. trades' \in [Trade -> Rows \cup {Absent}] /\ slipped' \subseteq Trade
  BY DEF WriteTrade, DeskTypes
<1>2. DeskTypes'
  BY <1>1 DEF DeskTypes
<1>3. LedgerTypes' /\ Bounded'
  BY DEF LedgerTypes, IsLedger, Bounded
<1>4. PassType' /\ \A p \in Pass : BatchType(p)'
  BY DEF PassType, BatchType
<1>5. Quiet'
  BY DEF Quiet
<1>. QED
  BY <1>2, <1>3, <1>4, <1>5

LEMMA OpensTypes == ASSUME Types, NEW t \in Trade, Opens(t) PROVE Types'
<1>1. [status |-> "open", stamp |-> Iso(now)] \in Rows
  BY StampsAre DEF Rows
<1>. QED
  BY <1>1, WriteTypes DEF Opens

LEMMA ClosesTypes == ASSUME Types, NEW t \in Trade, Closes(t) PROVE Types'
<1>1. PICK stamp \in {Iso(now), Blank(now)} :
        WriteTrade(t, [status |-> "closed", stamp |-> stamp])
  BY DEF Closes
<1>2. [status |-> "closed", stamp |-> stamp] \in Rows
  BY StampsAre DEF Rows
<1>. QED
  BY <1>1, <1>2, WriteTypes DEF Closes

\* A new row of the ledger comes after all the others.
LEMMA BooksIs ==
  ASSUME Types, Books
  PROVE  /\ Newest(ledger) + 1 \in 1..MaxRows
         /\ \A i \in DOMAIN ledger : i < Newest(ledger) + 1
         /\ DOMAIN ledger' = DOMAIN ledger \cup {Newest(ledger) + 1}
         /\ \A i \in DOMAIN ledger : ledger'[i] = ledger[i]
         /\ IsLedger(ledger')
<1>. USE ReplicationAssumption
<1>1. Newest(ledger) \in 0..MaxRows /\ \A i \in DOMAIN ledger : i \in 1..MaxRows /\ i <= Newest(ledger)
  BY NewestIs DEF Types, Bounded
<1>. DEFINE new == Newest(ledger) + 1
<1>2. new \in 1..MaxRows
  BY <1>1 DEF Books
<1>3. ledger' = [i \in DOMAIN ledger \cup {new} |-> IF i \in DOMAIN ledger THEN ledger[i] ELSE wipes]
  BY DEF Books
<1>4. wipes \in Life /\ IsLedger(ledger)
  BY DEF Types, DeskTypes, LedgerTypes, Life
<1>5. IsLedger(ledger')
  <2>. HIDE DEF new
  <2>. QED
    BY <1>2, <1>3, <1>4 DEF IsLedger
<1>. QED
  BY <1>1, <1>2, <1>3, <1>5

LEMMA BooksTypes == ASSUME Types, Books PROVE Types'
<1>. USE DEF Types, Books, DeskUnchanged, postgres, boots
<1>1. DeskTypes'
  BY DEF DeskTypes
<1>2. LedgerTypes'
  BY BooksIs DEF LedgerTypes, IsLedger
<1>3. Bounded'
  BY BooksIs DEF Bounded
<1>4. PassType' /\ \A p \in Pass : BatchType(p)'
  BY DEF PassType, BatchType
<1>5. Quiet'
  BY DEF Quiet
<1>. QED
  BY <1>1, <1>2, <1>3, <1>4, <1>5

LEMMA FlipsTypes == ASSUME Types, Flips PROVE Types'
<1>. USE ReplicationAssumption DEF Types, Flips, postgres, boots
<1>1. DeskTypes'
  BY DEF DeskTypes
<1>2. LedgerTypes' /\ Bounded'
  BY DEF LedgerTypes, IsLedger, Bounded
<1>3. PassType' /\ \A p \in Pass : BatchType(p)'
  BY DEF PassType, BatchType
<1>4. Quiet'
  BY DEF Quiet
<1>. QED
  BY <1>1, <1>2, <1>3, <1>4

LEMMA TickTypes == ASSUME Types, Tick PROVE Types'
<1>. USE ReplicationAssumption DEF Types, Tick, sqlite, postgres, boots
<1>1. DeskTypes'
  BY DEF DeskTypes
<1>2. LedgerTypes' /\ Bounded'
  BY DEF LedgerTypes, IsLedger, Bounded
<1>3. PassType' /\ \A p \in Pass : BatchType(p)'
  BY DEF PassType, BatchType
<1>4. Quiet'
  BY DEF Quiet
<1>. QED
  BY <1>1, <1>2, <1>3, <1>4

-------------------------------------------------------------------------------
(***************************************************************************)
(* The passes keep them.                                                    *)
(***************************************************************************)
LEMMA StampIs ==
  ASSUME Types, NEW t \in Trade, trades[t] # Absent
  PROVE  trades[t] \in Rows /\ trades[t].stamp \in 1 .. 2 * Noon
BY DEF Types, DeskTypes, Rows

\* The rows past the cursors.
DueTrades == {t \in Trade : trades[t] # Absent /\ trades[t].stamp > cursor["trades"]}
DueLedger == {i \in DOMAIN ledger : i > cursor["ledger"]}

LEMMA ReadTradesIs ==
  ASSUME Types, NEW p \in Pass, ReadTrades(p)
  PROVE  \E page \in SUBSET DueTrades, upTo \in Nat :
           LET rows == {<<t, trades[t]>> : t \in page}
           IN  /\ rows \subseteq Trade \X Rows
               /\ Send(p, "trades", "readLedger", rows, upTo)
               /\ slipped' = slipped \cup {t \in DueTrades \ page : trades[t].stamp <= upTo}
<1>. USE ReplicationAssumption
<1>. DEFINE due == DueTrades
            key == [t \in due |-> trades[t].stamp]
            Last(page) == IF page = {} THEN 0 ELSE Max({key[t] : t \in page})
            rows(page) == {<<t, trades[t]>> : t \in page}
<1>1. PICK page \in SUBSET due :
        /\ Send(p, "trades", "readLedger", rows(page), Last(page))
        /\ slipped' = slipped \cup {t \in due \ page : key[t] <= Last(page)}
  BY DEF ReadTrades, DueTrades
<1>2. \A t \in due : t \in Trade /\ trades[t] # Absent
  BY DEF DueTrades
<1>3. \A t \in due : trades[t] \in Rows /\ key[t] \in 0 .. 2 * Noon
  BY <1>2, StampIs
<1>4. rows(page) \subseteq Trade \X Rows
  BY <1>2, <1>3
<1>5. Last(page) \in Nat
  <2>1. CASE page = {}
    BY <2>1
  <2>2. CASE page # {}
    <3>. DEFINE keys == {key[t] : t \in page}
    <3>1. keys \in SUBSET (0 .. 2 * Noon) /\ keys # {}
      BY <1>3, <2>2
    <3>2. Max(keys) \in keys
      <4>. HIDE DEF keys
      <4>1. 2 * Noon \in Nat
        BY ReplicationAssumption
      <4>. QED
        BY <3>1, <4>1, MaxIs
    <3>3. keys \subseteq Nat
      <4>. SUFFICES ASSUME NEW t \in page PROVE key[t] \in Nat
        OBVIOUS
      <4>1. key[t] \in 0 .. 2 * Noon
        BY <1>3
      <4>. HIDE DEF key
      <4>. QED
        BY <4>1
    <3>4. Max(keys) \in Nat
      <4>. HIDE DEF keys
      <4>. QED
        BY <3>2, <3>3
    <3>. QED
      BY <2>2, <3>4
  <2>. QED
    BY <2>1, <2>2
<1>6. {t \in due \ page : key[t] <= Last(page)} = {t \in due \ page : trades[t].stamp <= Last(page)}
  OBVIOUS
<1>. HIDE DEF Last, key, due
<1>. QED
  BY <1>1, <1>4, <1>5, <1>6 DEF due

LEMMA ReadLedgerIs ==
  ASSUME Types, NEW p \in Pass, ReadLedger(p)
  PROVE  \E page \in SUBSET DueLedger, upTo \in Nat :
           LET rows == {<<i, ledger[i]>> : i \in page}
           IN  /\ rows \subseteq Nat \X Life
               /\ Send(p, "ledger", "readFlips", rows, upTo)
               /\ page # {} => /\ upTo \in page
                               /\ \A i \in page : i <= upTo
                               /\ \A i \in DueLedger \ page : upTo < i
<1>. USE ReplicationAssumption
<1>. DEFINE due == DueLedger
            Last(page) == IF page = {} THEN 0 ELSE Max(page)
            rows(page) == {<<i, ledger[i]>> : i \in page}
<1>1. PICK page \in SUBSET due :
        /\ IsPage(page, due, [i \in due |-> i])
        /\ Send(p, "ledger", "readFlips", rows(page), Last(page))
  BY DEF ReadLedger, DueLedger
<1>2. \A i \in due : i \in DOMAIN ledger /\ i \in 1..MaxRows
  BY DEF DueLedger, Types, Bounded
<1>3. \A i \in due : ledger[i] \in Life
  BY <1>2 DEF Types, LedgerTypes, IsLedger
<1>4. rows(page) \subseteq Nat \X Life
  BY <1>2, <1>3
<1>5. page # {} => Max(page) \in page /\ \A i \in page : i <= Max(page)
  <2>1. page \in SUBSET (0..MaxRows)
    BY <1>2
  <2>. HIDE DEF due
  <2>. QED
    BY <2>1, MaxIs
<1>6. page # {} => \A i \in due \ page : Max(page) < i
  <2>. SUFFICES ASSUME page # {}, NEW i \in due \ page
                PROVE  Max(page) < i
    OBVIOUS
  <2>1. Max(page) \in page
    BY <1>5
  <2>2. [j \in due |-> j][Max(page)] <= [j \in due |-> j][i]
    BY <1>1, <2>1 DEF IsPage
  <2>3. Max(page) \in due /\ i \in due /\ Max(page) # i
    BY <2>1
  <2>. HIDE DEF due
  <2>4. Max(page) <= i
    BY <2>2, <2>3
  <2>. QED
    BY <1>2, <2>3, <2>4
<1>7. Last(page) \in Nat
  BY <1>2, <1>5
<1>. QED
  BY <1>1, <1>4, <1>5, <1>6, <1>7

LEMMA ReadTradesSends ==
  ASSUME Types, NEW p \in Pass, ReadTrades(p)
  PROVE  \E page \in SUBSET DueTrades, upTo \in Nat :
           LET rows == {<<t, trades[t]>> : t \in page}
           IN  /\ rows \subseteq Trade \X Rows
               /\ slipped' = slipped \cup {t \in DueTrades \ page : trades[t].stamp <= upTo}
               /\ PassType'
               /\ \A q \in Pass : q # p => pass'[q] = pass[q]
               /\ page = {} => pass'[p].at = "readLedger"
               /\ page # {} => /\ pass'[p].at = "trades" /\ pass'[p].batch = rows
                               /\ pass'[p].cursor = upTo
<1>1. PICK page \in SUBSET DueTrades, upTo \in Nat :
        LET rows == {<<t, trades[t]>> : t \in page}
        IN  /\ rows \subseteq Trade \X Rows
            /\ Send(p, "trades", "readLedger", rows, upTo)
            /\ slipped' = slipped \cup {t \in DueTrades \ page : trades[t].stamp <= upTo}
  BY ReadTradesIs, Zenon
<1>. DEFINE rows == {<<t, trades[t]>> : t \in page}
<1>2. rows \in SUBSET Batch /\ rows \subseteq Trade \X Rows /\ (rows = {} <=> page = {})
  BY <1>1 DEF Batch
<1>3. /\ PassType'
      /\ \A q \in Pass : q # p => pass'[q] = pass[q]
      /\ rows = {} => pass'[p].at = "readLedger"
      /\ rows # {} => pass'[p].at = "trades" /\ pass'[p].batch = rows /\ pass'[p].cursor = upTo
  <2>. HIDE DEF rows
  <2>. QED
    BY <1>1, <1>2, SendIs DEF rows, Types
<1>. QED
  BY <1>1, <1>2, <1>3

LEMMA ReadTradesTypes == ASSUME Types, NEW p \in Pass, ReadTrades(p) PROVE Types'
<1>. USE DEF Types, ReadTrades, PassUnchanged, sqlite, postgres, boots
<1>1. PICK page \in SUBSET DueTrades, upTo \in Nat :
        LET rows == {<<t, trades[t]>> : t \in page}
        IN  /\ rows \subseteq Trade \X Rows
            /\ slipped' = slipped \cup {t \in DueTrades \ page : trades[t].stamp <= upTo}
            /\ PassType'
            /\ \A q \in Pass : q # p => pass'[q] = pass[q]
            /\ page = {} => pass'[p].at = "readLedger"
            /\ page # {} => pass'[p].at = "trades" /\ pass'[p].batch = rows
  BY ReadTradesSends, Zenon
<1>2. \A q \in Pass : BatchType(q)'
  BY <1>1 DEF BatchType
<1>3. slipped' \subseteq Trade
  BY <1>1 DEF DeskTypes, DueTrades
<1>4. DeskTypes'
  BY <1>3 DEF DeskTypes
<1>5. LedgerTypes' /\ Bounded'
  BY DEF LedgerTypes, IsLedger, Bounded
<1>6. Quiet'
  BY DEF Quiet
<1>. QED
  BY <1>1, <1>2, <1>4, <1>5, <1>6

LEMMA ReadLedgerSends ==
  ASSUME Types, NEW p \in Pass, ReadLedger(p)
  PROVE  \E page \in SUBSET DueLedger, upTo \in Nat :
           LET rows == {<<i, ledger[i]>> : i \in page}
           IN  /\ rows \subseteq Nat \X Life
               /\ PassType'
               /\ \A q \in Pass : q # p => pass'[q] = pass[q]
               /\ page = {} => pass'[p].at = "readFlips"
               /\ page # {} => /\ pass'[p].at = "ledger" /\ pass'[p].batch = rows
                               /\ pass'[p].cursor = upTo
                               /\ upTo \in page
                               /\ \A i \in page : i <= upTo
                               /\ \A i \in DueLedger \ page : upTo < i
<1>1. PICK page \in SUBSET DueLedger, upTo \in Nat :
        LET rows == {<<i, ledger[i]>> : i \in page}
        IN  /\ rows \subseteq Nat \X Life
            /\ Send(p, "ledger", "readFlips", rows, upTo)
            /\ page # {} => /\ upTo \in page
                            /\ \A i \in page : i <= upTo
                            /\ \A i \in DueLedger \ page : upTo < i
  BY ReadLedgerIs, Zenon
<1>. DEFINE rows == {<<i, ledger[i]>> : i \in page}
<1>2. rows \in SUBSET Batch /\ rows \subseteq Nat \X Life /\ (rows = {} <=> page = {})
  BY <1>1 DEF Batch
<1>3. /\ PassType'
      /\ \A q \in Pass : q # p => pass'[q] = pass[q]
      /\ rows = {} => pass'[p].at = "readFlips"
      /\ rows # {} => pass'[p].at = "ledger" /\ pass'[p].batch = rows /\ pass'[p].cursor = upTo
  <2>. HIDE DEF rows
  <2>. QED
    BY <1>1, <1>2, SendIs DEF rows, Types
<1>. QED
  BY <1>1, <1>2, <1>3

LEMMA ReadLedgerTypes == ASSUME Types, NEW p \in Pass, ReadLedger(p) PROVE Types'
<1>. USE DEF Types, ReadLedger, PassUnchanged, sqlite, postgres, boots
<1>1. PICK page \in SUBSET DueLedger, upTo \in Nat :
        LET rows == {<<i, ledger[i]>> : i \in page}
        IN  /\ rows \subseteq Nat \X Life
            /\ PassType'
            /\ \A q \in Pass : q # p => pass'[q] = pass[q]
            /\ page = {} => pass'[p].at = "readFlips"
            /\ page # {} => pass'[p].at = "ledger" /\ pass'[p].batch = rows
  BY ReadLedgerSends, Zenon
<1>2. \A q \in Pass : BatchType(q)'
  BY <1>1 DEF BatchType
<1>3. DeskTypes'
  BY DEF DeskTypes
<1>4. LedgerTypes' /\ Bounded'
  BY DEF LedgerTypes, IsLedger, Bounded
<1>5. Quiet'
  BY DEF Quiet
<1>. QED
  BY <1>1, <1>2, <1>3, <1>4, <1>5

LEMMA ReadFlipsIs ==
  ASSUME Types, NEW p \in Pass, ReadFlips(p)
  PROVE  /\ PassType'
         /\ \A q \in Pass : q # p => pass'[q] = pass[q]
         /\ pass'[p].at = "flips" /\ pass'[p].batch = {<<0, flips>>}
<1>. DEFINE rows == {<<0, flips>>}
<1>1. rows \in SUBSET Batch /\ rows # {}
  BY DEF Batch, Types, DeskTypes
<1>2. Send(p, "flips", "idle", rows, 0)
  BY DEF ReadFlips
<1>3. PassType
  BY DEF Types
<1>. HIDE DEF rows
<1>4. /\ PassType'
      /\ \A q \in Pass : q # p => pass'[q] = pass[q]
      /\ pass'[p].at = "flips" /\ pass'[p].batch = rows
  BY <1>1, <1>2, <1>3, SendIs
<1>. QED
  BY <1>4 DEF rows

LEMMA ReadFlipsTypes == ASSUME Types, NEW p \in Pass, ReadFlips(p) PROVE Types'
<1>1. /\ PassType'
      /\ \A q \in Pass : q # p => pass'[q] = pass[q]
      /\ pass'[p].at = "flips" /\ pass'[p].batch = {<<0, flips>>}
  BY ReadFlipsIs
<1>2. {<<0, flips>>} \subseteq {0} \X (0..MaxFlips)
  BY DEF Types, DeskTypes
<1>3. BatchType(p)'
  BY <1>1, <1>2 DEF BatchType
<1>4. \A q \in Pass : BatchType(q)'
  BY <1>1, <1>3 DEF BatchType, Types
<1>. USE DEF Types, ReadFlips, PassUnchanged, sqlite, postgres, boots
<1>5. DeskTypes'
  BY DEF DeskTypes
<1>6. LedgerTypes' /\ Bounded'
  BY DEF LedgerTypes, IsLedger, Bounded
<1>7. Quiet'
  BY DEF Quiet
<1>. QED
  BY <1>1, <1>4, <1>5, <1>6, <1>7

\* A row lands.
LEMMA LandsIs ==
  ASSUME Types, NEW p \in Pass, Lands(p)
  PROVE  \E r \in pass[p].batch :
           /\ IsNext(p, r)
           /\ \/ pass[p].at = "trades" /\ LandTrade(r[1], r[2])
              \/ pass[p].at = "ledger" /\ LandRow(r[1], r[2])
              \/ pass[p].at = "flips" /\ LandFlips(r[2])
           /\ PassType'
           /\ \A q \in Pass : q # p => pass'[q] = pass[q]
           /\ pass'[p].at = pass[p].at /\ pass'[p].cursor = pass[p].cursor
           /\ pass'[p].batch = pass[p].batch \ {r}
<1>1. PassType
  BY DEF Types
<1>2. PICK r \in pass[p].batch :
        /\ IsNext(p, r)
        /\ pass' = [pass EXCEPT ![p].batch = @ \ {r}]
        /\ \/ pass[p].at = "trades" /\ LandTrade(r[1], r[2])
           \/ pass[p].at = "ledger" /\ LandRow(r[1], r[2])
           \/ pass[p].at = "flips" /\ LandFlips(r[2])
  BY Zenon DEF Lands
<1>. QED
  BY <1>1, <1>2, LandIs

LEMMA LandsTypes ==
  ASSUME Types, NEW p \in Pass, Lands(p),
         \A r \in pass[p].batch : pass[p].at = "ledger" => r[1] \in DOMAIN ledger
  PROVE  Types'
<1>. USE DEF Types
<1>1. PICK r \in pass[p].batch :
        /\ \/ pass[p].at = "trades" /\ LandTrade(r[1], r[2])
           \/ pass[p].at = "ledger" /\ LandRow(r[1], r[2])
           \/ pass[p].at = "flips" /\ LandFlips(r[2])
        /\ PassType'
        /\ \A q \in Pass : q # p => pass'[q] = pass[q]
        /\ pass'[p].at = pass[p].at /\ pass'[p].batch = pass[p].batch \ {r}
  BY LandsIs, Zenon
<1>2. UNCHANGED <<trades, ledger, flips, cursor, now, up, wipes, restarts, lost, forked>>
  BY DEF Lands, sqlite, boots
<1>3. \A q \in Pass : BatchType(q)'
  BY <1>1 DEF BatchType
<1>4. Quiet'
  BY <1>1, <1>2 DEF Quiet
<1>5. CASE pass[p].at = "trades"
  <2>1. r[1] \in Trade /\ r[2] \in Rows
    BY <1>5 DEF BatchType
  <2>2. LandTrade(r[1], r[2])
    BY <1>1, <1>5
  <2>3. pgTrades' \in [Trade -> Rows \cup {Absent}] /\ slipped' \subseteq Trade
    BY <2>1, <2>2 DEF LandTrade, DeskTypes
  <2>4. DeskTypes'
    BY <1>2, <2>2, <2>3 DEF LandTrade, DeskTypes
  <2>5. LedgerTypes' /\ Bounded'
    BY <1>2, <2>2 DEF LandTrade, LedgerTypes, IsLedger, Bounded
  <2>. QED
    BY <1>1, <1>3, <1>4, <2>4, <2>5
<1>6. CASE pass[p].at = "ledger"
  <2>1. r[1] \in DOMAIN ledger /\ r[2] \in Life
    BY <1>6 DEF BatchType
  <2>2. LandRow(r[1], r[2])
    BY <1>1, <1>6
  <2>3. DeskTypes'
    BY <1>2, <2>2 DEF LandRow, DeskTypes
  <2>4. IsLedger(pgLedger') /\ DOMAIN pgLedger' = DOMAIN pgLedger \cup {r[1]}
    BY <2>1, <2>2, LedgerIs DEF LandRow, LedgerTypes, IsLedger
  <2>5. LedgerTypes' /\ Bounded'
    BY <1>2, <2>1, <2>4 DEF LedgerTypes, IsLedger, Bounded
  <2>. QED
    BY <1>1, <1>3, <1>4, <2>3, <2>5
<1>7. CASE pass[p].at = "flips"
  <2>1. r[2] \in 0..MaxFlips
    BY <1>7 DEF BatchType
  <2>2. LandFlips(r[2])
    BY <1>1, <1>7
  <2>3. DeskTypes'
    BY <1>2, <2>1, <2>2 DEF LandFlips, DeskTypes
  <2>4. LedgerTypes' /\ Bounded'
    BY <1>2, <2>2 DEF LandFlips, LedgerTypes, IsLedger, Bounded
  <2>. QED
    BY <1>1, <1>3, <1>4, <2>3, <2>4
<1>. QED
  BY <1>1, <1>5, <1>6, <1>7

\* The end of a table, well or badly.
LEMMA EndTypes ==
  ASSUME Types, NEW p \in Pass, Sending(p), pass' = Moved(p), PassUnchanged, UNCHANGED slipped,
         cursor' \in [{"trades", "ledger"} -> Nat]
  PROVE  Types'
<1>. USE DEF Types, PassUnchanged, sqlite, postgres, boots
<1>1. /\ PassType'
      /\ \A q \in Pass : q # p => pass'[q] = pass[q]
      /\ pass'[p].at \in {"readLedger", "readFlips", "idle"}
  BY MovedIs
<1>2. \A q \in Pass : BatchType(q)'
  BY <1>1 DEF BatchType
<1>3. DeskTypes'
  BY DEF DeskTypes
<1>4. LedgerTypes' /\ Bounded'
  BY DEF LedgerTypes, IsLedger, Bounded
<1>5. Quiet'
  BY DEF Quiet, Sending
<1>. QED
  BY <1>1, <1>2, <1>3, <1>4, <1>5

LEMMA AnsweredTypes == ASSUME Types, NEW p \in Pass, Answered(p) PROVE Types'
<1>1. pass[p].cursor \in Nat
  BY DEF Types, PassType, PassOf
<1>2. cursor' \in [{"trades", "ledger"} -> Nat]
  BY <1>1 DEF Answered, Types, DeskTypes
<1>. QED
  BY <1>2, EndTypes DEF Answered

LEMMA FailsTypes == ASSUME Types, NEW p \in Pass, Fails(p) PROVE Types'
BY EndTypes DEF Fails, Types, DeskTypes

-------------------------------------------------------------------------------
(***************************************************************************)
(* Deploys and restarts keep them.                                          *)
(***************************************************************************)
LEMMA RestartsTypes == ASSUME Types, Restarts PROVE Types'
<1>. USE ReplicationAssumption DEF Types, Restarts, sqlite, postgres
<1>1. DeskTypes'
  BY DEF DeskTypes
<1>2. LedgerTypes' /\ Bounded'
  BY DEF LedgerTypes, IsLedger, Bounded
<1>3. Quiet'
  BY DEF Quiet
<1>. QED
  BY <1>1, <1>2, <1>3, NoPassesIs

LEMMA NoRowsIs == IsLedger(NoRows) /\ DOMAIN NoRows = {}
BY DEF IsLedger, NoRows

LEMMA WipeTypes == ASSUME Types, Wipe PROVE Types'
<1>. USE ReplicationAssumption DEF Types, Wipe, postgres
<1>0. up' \in BOOLEAN
  BY Zenon
<1>1. /\ cursor' \in [{"trades", "ledger"} -> Nat]
      /\ cursor'["trades"] = 0 /\ cursor'["ledger"] = 0
  BY DEF DeskTypes
<1>2. DeskTypes'
  BY <1>0, <1>1 DEF DeskTypes
<1>3. LedgerTypes' /\ Bounded'
  BY NoRowsIs DEF LedgerTypes, Bounded
<1>4. Quiet'
  BY <1>1, NoPassesIs DEF Quiet
<1>. QED
  BY <1>2, <1>3, <1>4, NoPassesIs

LEMMA BootsTypes == ASSUME Types, Boots PROVE Types'
<1>. USE DEF Types, Boots, postgres
<1>1. PICK tables \in SUBSET {"trades", "ledger", "flips"} : restoreFromPg(tables)
  OBVIOUS
<1>2. up' \in BOOLEAN /\ forked' \in BOOLEAN
  BY <1>1, Zenon DEF restoreFromPg, DeskTypes
<1>3. DeskTypes'
  BY <1>1, <1>2 DEF restoreFromPg, DeskTypes
<1>4. LedgerTypes' /\ Bounded'
  BY <1>1 DEF restoreFromPg, LedgerTypes, IsLedger, Bounded
<1>5. PassType' /\ \A p \in Pass : BatchType(p)'
  BY DEF PassType, BatchType
<1>. QED
  BY <1>3, <1>4, <1>5 DEF Quiet

-------------------------------------------------------------------------------
(***************************************************************************)
(* The ledger.  What a pass has read is copied or still in its batch, and   *)
(* neither cursor goes past the newest row, so that a row is never written  *)
(* behind one.                                                              *)
(***************************************************************************)
Copied(i) == i \in DOMAIN pgLedger /\ pgLedger[i] = ledger[i]

\* c is the number of a row, and those up to it have been read.
IsRead(c) == c \in DOMAIN ledger

LedgerPass(p) ==
  pass[p].at = "ledger" =>
    /\ IsRead(pass[p].cursor)
    /\ \A r \in pass[p].batch :
         /\ r[1] \in DOMAIN ledger /\ r[2] = ledger[r[1]] /\ r[1] <= pass[p].cursor
         /\ r = <<r[1], r[2]>>
    /\ \A i \in DOMAIN ledger :
         i <= pass[p].cursor => Copied(i) \/ <<i, ledger[i]>> \in pass[p].batch

Copying ==
  /\ cursor["ledger"] = 0 \/ IsRead(cursor["ledger"])
  /\ LedgerCopiedToCursor
  /\ \A p \in Pass : LedgerPass(p)

LEMMA CopyingInit == Init => Copying
BY NoRowsIs DEF Init, Copying, LedgerCopiedToCursor, LedgerPass, Idle

\* Steps that leave the ledgers and their cursor alone.
LEMMA CopyingKept ==
  ASSUME Types, Copying, UNCHANGED <<ledger, pgLedger>>, cursor'["ledger"] = cursor["ledger"],
         \A q \in Pass : pass'[q] = pass[q] \/ pass'[q].at # "ledger"
  PROVE  Copying'
BY DEF Copying, LedgerCopiedToCursor, LedgerPass, Copied, IsRead

LEMMA CopyingBooks ==
  ASSUME Types, Copying, Books
  PROVE  Copying'
<1>. USE DEF Copying, Books, DeskUnchanged, postgres
<1>. DEFINE new == Newest(ledger) + 1
<1>1. /\ \A i \in DOMAIN ledger : i < new /\ i \in Nat
      /\ new \in Nat /\ new > 0
      /\ DOMAIN ledger' = DOMAIN ledger \cup {new}
      /\ \A i \in DOMAIN ledger : ledger'[i] = ledger[i]
  BY BooksIs DEF Types, Bounded
<1>. HIDE DEF new
<1>2. \A i \in DOMAIN ledger' : i \in DOMAIN ledger \/ i = new
  BY <1>1
<1>3. LedgerCopiedToCursor'
  BY <1>1, <1>2 DEF LedgerCopiedToCursor, IsRead
<1>4. ASSUME NEW p \in Pass PROVE LedgerPass(p)'
  BY <1>1, <1>2 DEF LedgerPass, Copied, IsRead
<1>5. cursor'["ledger"] = 0 \/ IsRead(cursor["ledger"])'
  BY <1>1 DEF IsRead
<1>. QED
  BY <1>3, <1>4, <1>5

LEMMA CopyingReadLedger ==
  ASSUME Types, Copying, NEW p \in Pass, ReadLedger(p)
  PROVE  Copying'
<1>. USE DEF Copying, ReadLedger, PassUnchanged, sqlite, postgres
<1>1. PICK page \in SUBSET DueLedger, upTo \in Nat :
        LET rows == {<<i, ledger[i]>> : i \in page}
        IN  /\ \A q \in Pass : q # p => pass'[q] = pass[q]
            /\ page = {} => pass'[p].at = "readFlips"
            /\ page # {} => /\ pass'[p].at = "ledger" /\ pass'[p].batch = rows
                            /\ pass'[p].cursor = upTo
                            /\ upTo \in page
                            /\ \A i \in page : i <= upTo
                            /\ \A i \in DueLedger \ page : upTo < i
  BY ReadLedgerSends, Zenon
<1>. DEFINE rows == {<<i, ledger[i]>> : i \in page}
<1>4. CASE page = {}
  BY <1>1, <1>4, CopyingKept
<1>5. CASE page # {}
  <2>1. upTo \in DOMAIN ledger /\ \A i \in page : i \in DOMAIN ledger /\ i <= upTo
    BY <1>1, <1>5 DEF DueLedger
  <2>2. ASSUME NEW i \in DOMAIN ledger, i <= upTo
        PROVE  Copied(i) \/ <<i, ledger[i]>> \in rows
    <3>1. CASE i \in page
      BY <3>1
    <3>2. CASE i \in DueLedger \ page
      <4>1. upTo < i
        BY <1>1, <1>5, <3>2
      <4>. QED
        BY <2>2, <4>1 DEF Types, Bounded
    <3>3. CASE i \notin DueLedger
      <4>1. i <= cursor["ledger"]
        BY <3>3 DEF DueLedger, Types, Bounded, DeskTypes
      <4>. QED
        BY <4>1 DEF LedgerCopiedToCursor, Copied
    <3>. QED
      BY <3>1, <3>2, <3>3
  <2>3. pass'[p].at = "ledger" /\ pass'[p].batch = rows /\ pass'[p].cursor = upTo
    BY <1>1, <1>5
  <2>4. \A r \in rows : /\ r[1] \in DOMAIN ledger /\ r[2] = ledger[r[1]] /\ r[1] <= upTo
                        /\ r = <<r[1], r[2]>>
    BY <2>1
  <2>. HIDE DEF rows
  <2>5. LedgerPass(p)'
    BY <2>1, <2>2, <2>3, <2>4 DEF LedgerPass, IsRead, Copied
  <2>6. \A q \in Pass : q # p => LedgerPass(q)'
    BY <1>1 DEF LedgerPass, IsRead, Copied
  <2>. QED
    BY <2>5, <2>6 DEF IsRead, LedgerCopiedToCursor
<1>. QED
  BY <1>4, <1>5

LEMMA CopyingLands ==
  ASSUME Types, Copying, NEW p \in Pass, Lands(p)
  PROVE  Copying'
<1>. USE DEF Copying
<1>1. PICK r \in pass[p].batch :
        /\ \/ pass[p].at = "trades" /\ LandTrade(r[1], r[2])
           \/ pass[p].at = "ledger" /\ LandRow(r[1], r[2])
           \/ pass[p].at = "flips" /\ LandFlips(r[2])
        /\ \A q \in Pass : q # p => pass'[q] = pass[q]
        /\ pass'[p].at = pass[p].at /\ pass'[p].cursor = pass[p].cursor
        /\ pass'[p].batch = pass[p].batch \ {r}
  BY LandsIs, Zenon
<1>2. UNCHANGED <<ledger, cursor>>
  BY DEF Lands, sqlite
<1>3. CASE pass[p].at # "ledger"
  <2>1. pgLedger' = pgLedger
    BY <1>1, <1>3 DEF LandTrade, LandFlips
  <2>. QED
    BY <1>1, <1>2, <1>3, <2>1, CopyingKept
<1>4. CASE pass[p].at = "ledger"
  <2>1. /\ r[1] \in DOMAIN ledger /\ r[2] = ledger[r[1]] /\ r = <<r[1], r[2]>>
        /\ LandRow(r[1], r[2])
    BY <1>1, <1>4 DEF LedgerPass
  <2>2. DOMAIN pgLedger' = DOMAIN pgLedger \cup {r[1]}
        /\ \A j \in DOMAIN pgLedger' : pgLedger'[j] = IF j = r[1] THEN r[2] ELSE pgLedger[j]
    BY <2>1 DEF LandRow
  <2>3. Copied(r[1])' /\ \A i \in DOMAIN ledger : Copied(i) => Copied(i)'
    BY <1>2, <2>1, <2>2 DEF Copied
  <2>4. LedgerCopiedToCursor'
    BY <1>2, <2>3 DEF LedgerCopiedToCursor, Copied
  <2>5. ASSUME NEW q \in Pass, q # p PROVE LedgerPass(q)'
    BY <1>1, <1>2, <2>3, <2>5 DEF LedgerPass, IsRead
  <2>6. LedgerPass(p)'
    <3>1. ASSUME NEW i \in DOMAIN ledger, i <= pass[p].cursor
          PROVE  Copied(i)' \/ <<i, ledger[i]>> \in pass[p].batch \ {r}
      BY <1>4, <2>1, <2>3, <3>1 DEF LedgerPass
    <3>. QED
      BY <1>1, <1>2, <1>4, <3>1 DEF LedgerPass, IsRead
  <2>. QED
    BY <1>2, <2>4, <2>5, <2>6 DEF IsRead
<1>. QED
  BY <1>3, <1>4

LEMMA CopyingAnswered ==
  ASSUME Types, Copying, NEW p \in Pass, Answered(p)
  PROVE  Copying'
<1>. USE DEF Copying, Answered, PassUnchanged, sqlite, postgres
<1>1. /\ \A q \in Pass : q # p => pass'[q] = pass[q]
      /\ pass'[p].at \in {"readLedger", "readFlips", "idle"}
  BY MovedIs DEF Types
<1>2. CASE pass[p].at # "ledger"
  <2>1. cursor'["ledger"] = cursor["ledger"]
    BY <1>2 DEF Types, DeskTypes
  <2>. QED
    BY <1>1, <2>1, CopyingKept
<1>3. CASE pass[p].at = "ledger"
  <2>1. cursor'["ledger"] = pass[p].cursor
    BY <1>3 DEF Types, DeskTypes
  <2>2. LedgerCopiedToCursor' /\ IsRead(cursor["ledger"])'
    BY <1>3, <2>1 DEF LedgerPass, LedgerCopiedToCursor, Copied, IsRead
  <2>3. ASSUME NEW q \in Pass PROVE LedgerPass(q)'
    BY <1>1 DEF LedgerPass, Copied, IsRead
  <2>. QED
    BY <2>2, <2>3
<1>. QED
  BY <1>2, <1>3

\* No cursor is left, and nothing is under way.
LEMMA CopyingAnew ==
  ASSUME Types', \A p \in Pass : pass'[p].at = "idle", cursor'["ledger"] = 0
  PROVE  Copying'
<1>1. LedgerCopiedToCursor'
  BY DEF LedgerCopiedToCursor, Types, Bounded
<1>. QED
  BY <1>1 DEF Copying, LedgerPass

LEMMA CopyingStep == ASSUME Types, Types', Copying, [Next]_vars PROVE Copying'
<1>. USE DEF DeskUnchanged, postgres, sqlite, boots, PassUnchanged
<1>1. ASSUME NEW t \in Trade, Opens(t) \/ Closes(t) PROVE Copying'
  BY <1>1, CopyingKept DEF Opens, Closes
<1>2. CASE Books
  BY <1>2, CopyingBooks
<1>3. CASE Flips \/ Tick
  BY <1>3, CopyingKept DEF Flips, Tick
<1>4. ASSUME NEW p \in Pass, Step(p) PROVE Copying'
  <2>1. CASE ReadTrades(p)
    <3>1. \A q \in Pass : pass'[q] = pass[q] \/ pass'[q].at # "ledger"
      BY <2>1, ReadTradesSends
    <3>. QED
      BY <2>1, <3>1, CopyingKept DEF ReadTrades
  <2>2. CASE ReadLedger(p)
    BY <2>2, CopyingReadLedger
  <2>3. CASE ReadFlips(p)
    <3>1. \A q \in Pass : pass'[q] = pass[q] \/ pass'[q].at # "ledger"
      BY <2>3, ReadFlipsIs
    <3>. QED
      BY <2>3, <3>1, CopyingKept DEF ReadFlips
  <2>4. CASE Lands(p)
    BY <2>4, CopyingLands
  <2>5. CASE Answered(p)
    BY <2>5, CopyingAnswered
  <2>6. CASE Fails(p)
    <3>1. \A q \in Pass : pass'[q] = pass[q] \/ pass'[q].at # "ledger"
      BY <2>6, MovedIs DEF Fails, Types
    <3>. QED
      BY <2>6, <3>1, CopyingKept DEF Fails
  <2>. QED
    BY <1>4, <2>1, <2>2, <2>3, <2>4, <2>5, <2>6 DEF Step
<1>5. CASE Restarts
  <2>1. \A q \in Pass : pass'[q].at # "ledger"
    BY <1>5, NoPassesIs DEF Restarts
  <2>. QED
    BY <1>5, <2>1, CopyingKept DEF Restarts
<1>6. CASE Wipe
  <2>1. cursor'["ledger"] = 0
    BY <1>6 DEF Wipe, Types, DeskTypes
  <2>. QED
    BY <1>6, <2>1, NoPassesIs, CopyingAnew DEF Wipe
<1>7. CASE Boots
  BY <1>7, CopyingAnew DEF Boots, Types, Quiet
<1>8. CASE UNCHANGED vars
  BY <1>8, CopyingKept DEF vars
<1>. QED
  BY <1>1, <1>2, <1>3, <1>4, <1>5, <1>6, <1>7, <1>8 DEF Next

\* Types and Copying hold together: a row lands at a place the ledger has.
CopyInv == Types /\ Copying

LEMMA TypesStep == ASSUME Types, Copying, [Next]_vars PROVE Types'
<1>1. ASSUME NEW p \in Pass, Step(p) PROVE Types'
  <2>1. \A r \in pass[p].batch : pass[p].at = "ledger" => r[1] \in DOMAIN ledger
    BY DEF Copying, LedgerPass
  <2>. QED
    BY <1>1, <2>1, ReadTradesTypes, ReadLedgerTypes, ReadFlipsTypes, LandsTypes, AnsweredTypes,
       FailsTypes DEF Step
<1>2. CASE UNCHANGED vars
  <2>. USE <1>2 DEF vars, sqlite, postgres, boots, Types
  <2>1. DeskTypes' /\ LedgerTypes' /\ Bounded' /\ Quiet'
    BY DEF DeskTypes, LedgerTypes, IsLedger, Bounded, Quiet
  <2>2. PassType' /\ \A p \in Pass : BatchType(p)'
    BY DEF PassType, BatchType
  <2>. QED
    BY <2>1, <2>2
<1>. QED
  BY <1>1, <1>2, OpensTypes, ClosesTypes, BooksTypes, FlipsTypes, TickTypes, RestartsTypes,
     WipeTypes, BootsTypes DEF Next

\* The tables, the cursors and the passes have their types, and the bounds hold
\* (dbReplicator.mjs, restore.mjs).
THEOREM Typing == Spec => []TypeOK
<1>1. Init => CopyInv
  BY TypesInit, CopyingInit DEF CopyInv
<1>2. CopyInv /\ [Next]_vars => CopyInv'
  BY TypesStep, CopyingStep DEF CopyInv
<1>3. CopyInv => TypeOK
  BY TypesOK DEF CopyInv
<1>. QED
  BY <1>1, <1>2, <1>3, PTL DEF Spec

\* A ledger row the cursor has passed is in Postgres as it is in SQLite, whatever
\* passes overlap, fail or die (replicateTable, setCursor).
THEOREM Copies == Spec => []LedgerCopiedToCursor
<1>1. Init => CopyInv
  BY TypesInit, CopyingInit DEF CopyInv
<1>2. CopyInv /\ [Next]_vars => CopyInv'
  BY TypesStep, CopyingStep DEF CopyInv
<1>3. CopyInv => LedgerCopiedToCursor
  BY DEF CopyInv, Copying
<1>. QED
  BY <1>1, <1>2, <1>3, PTL DEF Spec

-------------------------------------------------------------------------------
(***************************************************************************)
(* The trades.  Below the cursor of a pass a trade is copied, or in its     *)
(* batch, or has slipped.                                                   *)
(***************************************************************************)
IsBehind(t, c) == trades[t] # Absent /\ trades[t].stamp <= c

TradesPass(p) ==
  pass[p].at = "trades" =>
    \A t \in Trade :
      IsBehind(t, pass[p].cursor) =>
        pgTrades[t] = trades[t] \/ <<t, trades[t]>> \in pass[p].batch \/ t \in slipped

Tracing == OnlySlippedTradesAreStale /\ \A p \in Pass : TradesPass(p)

LEMMA TracingInit == Init => Tracing
BY DEF Init, Tracing, OnlySlippedTradesAreStale, TradesPass, Idle

LEMMA TracingKept ==
  ASSUME Types, Tracing, UNCHANGED <<trades, pgTrades>>, cursor'["trades"] = cursor["trades"],
         slipped \subseteq slipped',
         \A q \in Pass : pass'[q] = pass[q] \/ pass'[q].at # "trades"
  PROVE  Tracing'
BY DEF Tracing, OnlySlippedTradesAreStale, TradesPass, IsBehind

\* A row with a new stamp is ahead of every cursor, or its trade slips.
LEMMA TracingWrites ==
  ASSUME Types, Tracing, NEW t \in Trade, NEW row \in Rows, WriteTrade(t, row), DeskUnchanged
  PROVE  Tracing'
<1>. USE DEF Tracing, DeskUnchanged, postgres
<1>1. trades'[t] = row /\ \A u \in Trade : u # t => trades'[u] = trades[u]
  BY DEF WriteTrade, Types, DeskTypes
<1>2. \A u \in Trade : u # t => (u \in slipped <=> u \in slipped')
  BY DEF WriteTrade
<1>3. row.stamp <= cursor["trades"] => t \in slipped'
  BY DEF WriteTrade, Slips, Seen
<1>4. ASSUME NEW p \in Pass, pass[p].at = "trades", row.stamp <= pass[p].cursor
      PROVE  t \in slipped'
  <2>1. pass[p].cursor \in Seen
    BY <1>4 DEF Seen
  <2>. QED
    BY <1>4, <2>1 DEF WriteTrade, Slips
<1>5. OnlySlippedTradesAreStale'
  BY <1>1, <1>2, <1>3 DEF OnlySlippedTradesAreStale
<1>6. ASSUME NEW p \in Pass PROVE TradesPass(p)'
  BY <1>1, <1>2, <1>4 DEF TradesPass, IsBehind
<1>. QED
  BY <1>5, <1>6

LEMMA TracingReads ==
  ASSUME Types, Tracing, NEW p \in Pass, ReadTrades(p)
  PROVE  Tracing'
<1>. USE DEF Tracing, ReadTrades, PassUnchanged, sqlite, postgres
<1>1. PICK page \in SUBSET DueTrades, upTo \in Nat :
        LET rows == {<<t, trades[t]>> : t \in page}
        IN  /\ slipped' = slipped \cup {t \in DueTrades \ page : trades[t].stamp <= upTo}
            /\ \A q \in Pass : q # p => pass'[q] = pass[q]
            /\ page = {} => pass'[p].at = "readLedger"
            /\ page # {} => /\ pass'[p].at = "trades" /\ pass'[p].batch = rows
                            /\ pass'[p].cursor = upTo
  BY ReadTradesSends, Zenon
<1>2. OnlySlippedTradesAreStale'
  BY <1>1 DEF OnlySlippedTradesAreStale
<1>3. ASSUME NEW q \in Pass, q # p PROVE TradesPass(q)'
  BY <1>1, <1>3 DEF TradesPass, IsBehind
<1>4. TradesPass(p)'
  <2>1. SUFFICES ASSUME page # {}, NEW t \in Trade, trades[t] # Absent, trades[t].stamp <= upTo
                 PROVE  \/ pgTrades[t] = trades[t]
                        \/ <<t, trades[t]>> \in {<<u, trades[u]>> : u \in page}
                        \/ t \in slipped'
    BY <1>1 DEF TradesPass, IsBehind
  <2>2. CASE t \in page
    BY <2>2
  <2>3. CASE t \in DueTrades \ page
    BY <1>1, <2>1, <2>3
  <2>4. CASE t \notin DueTrades
    <3>1. trades[t].stamp <= cursor["trades"]
      BY <2>1, <2>4, StampIs DEF DueTrades, Types, DeskTypes
    <3>. QED
      BY <1>1, <2>1, <3>1 DEF OnlySlippedTradesAreStale
  <2>. QED
    BY <2>2, <2>3, <2>4
<1>. QED
  BY <1>2, <1>3, <1>4

LEMMA TracingLands ==
  ASSUME Types, Tracing, NEW p \in Pass, Lands(p)
  PROVE  Tracing'
<1>. USE DEF Tracing
<1>1. PICK r \in pass[p].batch :
        /\ \/ pass[p].at = "trades" /\ LandTrade(r[1], r[2])
           \/ pass[p].at = "ledger" /\ LandRow(r[1], r[2])
           \/ pass[p].at = "flips" /\ LandFlips(r[2])
        /\ \A q \in Pass : q # p => pass'[q] = pass[q]
        /\ pass'[p].at = pass[p].at /\ pass'[p].cursor = pass[p].cursor
        /\ pass'[p].batch = pass[p].batch \ {r}
  BY LandsIs, Zenon
<1>2. UNCHANGED <<trades, cursor>>
  BY DEF Lands, sqlite
<1>3. CASE pass[p].at # "trades"
  <2>1. UNCHANGED <<pgTrades, slipped>>
    BY <1>1, <1>3 DEF LandRow, LandFlips
  <2>. QED
    BY <1>1, <1>2, <1>3, <2>1, TracingKept
<1>4. CASE pass[p].at = "trades"
  <2>. DEFINE t == r[1]
              row == r[2]
  <2>1. t \in Trade /\ r = <<t, row>> /\ LandTrade(t, row)
    BY <1>1, <1>4 DEF Types, BatchType
  <2>. HIDE DEF t, row
  <2>2. pgTrades'[t] = row /\ \A u \in Trade : u # t => pgTrades'[u] = pgTrades[u]
    BY <2>1 DEF LandTrade, Types, DeskTypes
  <2>3. \A u \in Trade : u # t => (u \in slipped <=> u \in slipped')
    BY <2>1 DEF LandTrade
  <2>4. row # trades[t] => /\ t \in slipped => t \in slipped'
                           /\ pgTrades[t] = trades[t] => t \in slipped'
    BY <2>1 DEF LandTrade
  <2>5. OnlySlippedTradesAreStale'
    BY <1>2, <2>2, <2>3, <2>4 DEF OnlySlippedTradesAreStale
  <2>6. ASSUME NEW q \in Pass, q # p PROVE TradesPass(q)'
    BY <1>1, <1>2, <2>2, <2>3, <2>4, <2>6 DEF TradesPass, IsBehind
  <2>7. \A u \in Trade : <<u, trades[u]>> \in pass[p].batch /\ <<u, trades[u]>> # r
                           => <<u, trades[u]>> \in pass'[p].batch
    BY <1>1
  <2>8. \A u \in Trade : <<u, trades[u]>> = r => u = t /\ trades[t] = row
    BY <2>1
  <2>9. TradesPass(p)'
    BY <1>1, <1>2, <1>4, <2>2, <2>3, <2>4, <2>7, <2>8 DEF TradesPass, IsBehind
  <2>. QED
    BY <2>5, <2>6, <2>9
<1>. QED
  BY <1>3, <1>4

LEMMA TracingAnswered ==
  ASSUME Types, Tracing, NEW p \in Pass, Answered(p)
  PROVE  Tracing'
<1>. USE DEF Tracing, Answered, PassUnchanged, sqlite, postgres
<1>1. /\ \A q \in Pass : q # p => pass'[q] = pass[q]
      /\ pass'[p].at \in {"readLedger", "readFlips", "idle"}
  BY MovedIs DEF Types
<1>2. CASE pass[p].at # "trades"
  <2>1. cursor'["trades"] = cursor["trades"]
    BY <1>2 DEF Types, DeskTypes
  <2>. QED
    BY <1>1, <2>1, TracingKept
<1>3. CASE pass[p].at = "trades"
  <2>1. cursor'["trades"] = pass[p].cursor
    BY <1>3 DEF Types, DeskTypes
  <2>2. OnlySlippedTradesAreStale'
    BY <1>3, <2>1 DEF TradesPass, IsBehind, OnlySlippedTradesAreStale
  <2>3. ASSUME NEW q \in Pass PROVE TradesPass(q)'
    BY <1>1 DEF TradesPass, IsBehind
  <2>. QED
    BY <2>2, <2>3
<1>. QED
  BY <1>2, <1>3

\* No cursor is left, and nothing is under way.
LEMMA TracingAnew ==
  ASSUME Types', \A p \in Pass : pass'[p].at = "idle", cursor'["trades"] = 0
  PROVE  Tracing'
<1>1. ASSUME NEW t \in Trade, trades'[t] # Absent PROVE ~ (trades'[t].stamp <= 0)
  BY <1>1 DEF Types, DeskTypes, Rows
<1>. QED
  BY <1>1 DEF Tracing, OnlySlippedTradesAreStale, TradesPass

LEMMA TracingStep == ASSUME Types, Types', Tracing, [Next]_vars PROVE Tracing'
<1>. USE DEF DeskUnchanged, postgres, sqlite, boots, PassUnchanged
<1>1. ASSUME NEW t \in Trade, Opens(t) \/ Closes(t) PROVE Tracing'
  <2>1. CASE Opens(t)
    <3>1. [status |-> "open", stamp |-> Iso(now)] \in Rows
      BY StampsAre DEF Rows
    <3>. QED
      BY <2>1, <3>1, TracingWrites DEF Opens
  <2>2. CASE Closes(t)
    <3>1. PICK stamp \in {Iso(now), Blank(now)} :
            WriteTrade(t, [status |-> "closed", stamp |-> stamp])
      BY <2>2 DEF Closes
    <3>2. [status |-> "closed", stamp |-> stamp] \in Rows
      BY StampsAre DEF Rows
    <3>. QED
      BY <2>2, <3>1, <3>2, TracingWrites DEF Closes
  <2>. QED
    BY <1>1, <2>1, <2>2
<1>2. CASE Books \/ Flips \/ Tick
  BY <1>2, TracingKept DEF Books, Flips, Tick
<1>3. ASSUME NEW p \in Pass, Step(p) PROVE Tracing'
  <2>1. CASE ReadTrades(p)
    BY <2>1, TracingReads
  <2>2. CASE ReadLedger(p)
    <3>1. \A q \in Pass : pass'[q] = pass[q] \/ pass'[q].at # "trades"
      BY <2>2, ReadLedgerSends
    <3>. QED
      BY <2>2, <3>1, TracingKept DEF ReadLedger
  <2>3. CASE ReadFlips(p)
    <3>1. \A q \in Pass : pass'[q] = pass[q] \/ pass'[q].at # "trades"
      BY <2>3, ReadFlipsIs
    <3>. QED
      BY <2>3, <3>1, TracingKept DEF ReadFlips
  <2>4. CASE Lands(p)
    BY <2>4, TracingLands
  <2>5. CASE Answered(p)
    BY <2>5, TracingAnswered
  <2>6. CASE Fails(p)
    <3>1. \A q \in Pass : pass'[q] = pass[q] \/ pass'[q].at # "trades"
      BY <2>6, MovedIs DEF Fails, Types
    <3>. QED
      BY <2>6, <3>1, TracingKept DEF Fails
  <2>. QED
    BY <1>3, <2>1, <2>2, <2>3, <2>4, <2>5, <2>6 DEF Step
<1>4. CASE Restarts
  <2>1. \A q \in Pass : pass'[q].at # "trades"
    BY <1>4, NoPassesIs DEF Restarts
  <2>. QED
    BY <1>4, <2>1, TracingKept DEF Restarts
<1>5. CASE Wipe
  <2>1. cursor'["trades"] = 0
    BY <1>5 DEF Wipe, Types, DeskTypes
  <2>. QED
    BY <1>5, <2>1, NoPassesIs, TracingAnew DEF Wipe
<1>6. CASE Boots
  BY <1>6, TracingAnew DEF Boots, Types, Quiet
<1>7. CASE UNCHANGED vars
  BY <1>7, TracingKept DEF vars
<1>. QED
  BY <1>1, <1>2, <1>3, <1>4, <1>5, <1>6, <1>7 DEF Next

\* A trade behind the cursor that Postgres does not have as it is has slipped: no
\* failure, lost answer, overlap or restart loses one otherwise (replicateTable).
THEOREM OnlySlips == Spec => []OnlySlippedTradesAreStale
<1>1. Init => CopyInv /\ Tracing
  BY TypesInit, CopyingInit, TracingInit DEF CopyInv
<1>2. CopyInv /\ Tracing /\ [Next]_vars => (CopyInv /\ Tracing)'
  BY TypesStep, CopyingStep, TracingStep DEF CopyInv
<1>3. CopyInv /\ Tracing => OnlySlippedTradesAreStale
  BY DEF Tracing
<1>. QED
  BY <1>1, <1>2, <1>3, PTL DEF Spec

-------------------------------------------------------------------------------
(***************************************************************************)
(* Deploys.  While every deploy has restored the ledger, the ledger has no  *)
(* gaps, and Postgres has a beginning of it: rows land oldest first, and    *)
(* those before the first row of a batch are copied.                        *)
(***************************************************************************)
HasNoGaps(l) == \E n \in Nat : DOMAIN l = 1..n

Begins(l, m) == \A i \in DOMAIN l : i \in DOMAIN m /\ m[i] = l[i]

Beginning ==
  ~forked => /\ HasNoGaps(ledger) /\ HasNoGaps(pgLedger)
             /\ up => Begins(pgLedger, ledger)
             /\ ~up => Begins(pgLedger, lost)

LEMMA BeginningInit == Init => Beginning
<1>. SUFFICES ASSUME Init PROVE Beginning
  OBVIOUS
<1>1. DOMAIN NoRows = 1..0
  BY NoRowsIs
<1>2. HasNoGaps(NoRows)
  BY <1>1 DEF HasNoGaps
<1>. QED
  BY <1>2, NoRowsIs DEF Init, Beginning, Begins

LEMMA BeginningKept ==
  ASSUME Beginning, UNCHANGED <<ledger, pgLedger, up, lost, forked>>
  PROVE  Beginning'
BY DEF Beginning, Begins, HasNoGaps

LEMMA BeginningBooks ==
  ASSUME Types, Beginning, Books
  PROVE  Beginning'
<1>. SUFFICES ASSUME ~forked PROVE Beginning'
  BY DEF Beginning, Books, DeskUnchanged, boots
<1>1. PICK n \in Nat : DOMAIN ledger = 1..n
  BY DEF Beginning, HasNoGaps
<1>. DEFINE new == Newest(ledger) + 1
<1>2. /\ new \in 1..MaxRows /\ \A i \in DOMAIN ledger : i < new /\ ledger'[i] = ledger[i]
      /\ DOMAIN ledger' = DOMAIN ledger \cup {new}
  BY BooksIs
<1>3. new = n + 1
  <2>1. CASE n = 0
    <3>1. DOMAIN ledger = {}
      BY <1>1, <2>1
    <3>. QED
      BY <2>1, <3>1 DEF Newest
  <2>2. CASE n # 0
    <3>1. DOMAIN ledger \in SUBSET (0..n) /\ DOMAIN ledger # {}
      BY <1>1, <2>2
    <3>2. Max(DOMAIN ledger) \in DOMAIN ledger /\ \A i \in DOMAIN ledger : i <= Max(DOMAIN ledger)
      BY <3>1, MaxIs
    <3>3. Max(DOMAIN ledger) = n
      BY <1>1, <2>2, <3>2
    <3>. QED
      BY <3>1, <3>3 DEF Newest
  <2>. QED
    BY <2>1, <2>2
<1>. HIDE DEF new
<1>4. DOMAIN ledger' = 1 .. (n + 1)
  BY <1>1, <1>2, <1>3
<1>5. HasNoGaps(ledger')
  BY <1>4 DEF HasNoGaps
<1>6. up /\ UNCHANGED <<pgLedger, up, lost, forked>>
  BY DEF Books, DeskUnchanged, postgres, boots
<1>7. Begins(pgLedger', ledger')
  BY <1>2, <1>6 DEF Begins, Beginning
<1>. QED
  BY <1>5, <1>6, <1>7 DEF Beginning, HasNoGaps

LEMMA BeginningLands ==
  ASSUME Types, Copying, Beginning, NEW p \in Pass, Lands(p)
  PROVE  Beginning'
<1>1. PICK r \in pass[p].batch :
        /\ IsNext(p, r)
        /\ \/ pass[p].at = "trades" /\ LandTrade(r[1], r[2])
           \/ pass[p].at = "ledger" /\ LandRow(r[1], r[2])
           \/ pass[p].at = "flips" /\ LandFlips(r[2])
  BY LandsIs, Zenon
<1>2. UNCHANGED <<ledger, up, lost, forked>>
  BY DEF Lands, sqlite, boots
<1>3. CASE pass[p].at # "ledger"
  <2>1. pgLedger' = pgLedger
    BY <1>1, <1>3 DEF LandTrade, LandFlips
  <2>. QED
    BY <1>2, <2>1, BeginningKept
<1>4. CASE pass[p].at = "ledger"
  <2>. SUFFICES ASSUME ~forked PROVE Beginning'
    BY <1>2 DEF Beginning
  <2>1. up
    BY <1>4 DEF Types, Quiet
  <2>2. /\ r[1] \in DOMAIN ledger /\ r[2] = ledger[r[1]] /\ r[1] <= pass[p].cursor
        /\ LandRow(r[1], r[2]) /\ pass[p].cursor \in DOMAIN ledger
        /\ \A i \in DOMAIN ledger :
             i <= pass[p].cursor => Copied(i) \/ <<i, ledger[i]>> \in pass[p].batch
    BY <1>1, <1>4 DEF Copying, LedgerPass, IsRead
  <2>3. DOMAIN pgLedger' = DOMAIN pgLedger \cup {r[1]}
        /\ \A j \in DOMAIN pgLedger' : pgLedger'[j] = IF j = r[1] THEN r[2] ELSE pgLedger[j]
    BY <2>2 DEF LandRow
  <2>4. Begins(pgLedger', ledger')
    BY <1>2, <2>1, <2>2, <2>3 DEF Beginning, Begins
  <2>5. PICK n \in Nat : DOMAIN ledger = 1..n
    BY DEF Beginning, HasNoGaps
  <2>6. PICK m \in Nat : DOMAIN pgLedger = 1..m
    BY DEF Beginning, HasNoGaps
  <2>7. ASSUME NEW j \in 1..n, j < r[1] PROVE j \in 1..m
    <3>1. j <= pass[p].cursor
      BY <2>2, <2>5, <2>7
    <3>2. <<j, ledger[j]>> \notin pass[p].batch
      BY <1>1, <1>4, <2>2, <2>5, <2>7 DEF IsNext, Key
    <3>. QED
      BY <2>2, <2>5, <2>6, <2>7, <3>1, <3>2 DEF Copied
  <2>8. r[1] \in 1..n
    BY <2>2, <2>5
  <2>9. r[1] <= m + 1
    <3>1. CASE r[1] = 1
      BY <2>6, <3>1
    <3>2. CASE r[1] # 1
      <4>1. r[1] - 1 \in 1..n /\ r[1] - 1 < r[1]
        BY <2>8, <3>2
      <4>2. r[1] - 1 \in 1..m
        BY <2>7, <4>1
      <4>. QED
        BY <2>8, <4>2
    <3>. QED
      BY <3>1, <3>2
  <2>10. DOMAIN pgLedger' = 1 .. m \/ DOMAIN pgLedger' = 1 .. (m + 1)
    BY <2>3, <2>6, <2>8, <2>9
  <2>11. HasNoGaps(pgLedger')
    <3>1. m + 1 \in Nat
      BY <2>6
    <3>. QED
      BY <2>6, <2>10, <3>1 DEF HasNoGaps
  <2>. QED
    BY <1>2, <2>1, <2>4, <2>11 DEF Beginning, HasNoGaps
<1>. QED
  BY <1>3, <1>4

LEMMA BeginningWipe ==
  ASSUME Types, Beginning, Wipe
  PROVE  Beginning'
<1>1. DOMAIN NoRows = 1..0
  BY NoRowsIs
<1>2. HasNoGaps(NoRows)
  BY <1>1 DEF HasNoGaps
<1>. QED
  BY <1>2 DEF Beginning, Wipe, postgres, HasNoGaps

\* What a deploy restores.
LEMMA BootsRestores ==
  ASSUME Types, Beginning, Boots, ~forked'
  PROVE  ledger' = pgLedger /\ HasNoGaps(pgLedger) /\ Begins(pgLedger, lost)
<1>1. PICK tables \in SUBSET {"trades", "ledger", "flips"} : restoreFromPg(tables)
  BY DEF Boots
<1>2. ~forked /\ ("ledger" \in tables \/ pgLedger = NoRows)
  BY <1>1 DEF restoreFromPg
<1>3. ledger' = pgLedger
  BY <1>1, <1>2 DEF restoreFromPg, Types, Quiet, Boots
<1>. QED
  BY <1>2, <1>3 DEF Beginning, Boots

LEMMA BeginningBoots ==
  ASSUME Types, Beginning, Boots
  PROVE  Beginning'
BY BootsRestores DEF Beginning, Begins, HasNoGaps, Boots, postgres

LEMMA BeginningStep == ASSUME Types, Copying, Beginning, [Next]_vars PROVE Beginning'
<1>. USE DEF DeskUnchanged, postgres, sqlite, boots, PassUnchanged
<1>1. ASSUME NEW t \in Trade, Opens(t) \/ Closes(t) PROVE Beginning'
  BY <1>1, BeginningKept DEF Opens, Closes
<1>2. CASE Flips \/ Tick
  BY <1>2, BeginningKept DEF Flips, Tick
<1>3. ASSUME NEW p \in Pass, Step(p) PROVE Beginning'
  BY <1>3, BeginningKept, BeginningLands
     DEF Step, ReadTrades, ReadLedger, ReadFlips, Answered, Fails
<1>4. CASE Restarts
  BY <1>4, BeginningKept DEF Restarts
<1>5. CASE UNCHANGED vars
  BY <1>5, BeginningKept DEF vars
<1>. QED
  BY <1>1, <1>2, <1>3, <1>4, <1>5, BeginningBooks, BeginningWipe, BeginningBoots DEF Next

\* Only a deploy brings the processes up.
LEMMA UpIs ==
  ASSUME Types, [Next]_vars, ~up, up'
  PROVE  Boots
<1>. USE DEF DeskUnchanged, postgres, sqlite, boots, PassUnchanged
<1>1. ASSUME NEW p \in Pass PROVE ~ Step(p)
  BY <1>1 DEF Step, ReadTrades, ReadLedger, ReadFlips, Lands, Answered, Fails
<1>. QED
  BY <1>1 DEF Next, Opens, Closes, Books, Flips, Tick, Restarts, Wipe, vars

\* A restored ledger is a beginning of the lost one, as long as every deploy has
\* restored the ledger (restoreFromPg, upsert in rowid order).
THEOREM Restores == Spec => RestoresABeginning
<1>. DEFINE Restored ==
       ~up /\ up' /\ ~forked' =>
         /\ DOMAIN ledger' = 1 .. Cardinality(DOMAIN ledger')
         /\ \A i \in DOMAIN ledger' : i \in DOMAIN lost /\ lost[i] = ledger'[i]
            Inv == CopyInv /\ Beginning
<1>1. Init => Inv
  BY TypesInit, CopyingInit, BeginningInit DEF CopyInv
<1>2. Inv /\ [Next]_vars => Inv'
  BY TypesStep, CopyingStep, BeginningStep DEF CopyInv
<1>3. Inv /\ [Next]_vars => Restored
  <2>. SUFFICES ASSUME Inv, [Next]_vars, ~up, up', ~forked' PROVE Restored
    OBVIOUS
  <2>1. ledger' = pgLedger /\ HasNoGaps(pgLedger) /\ Begins(pgLedger, lost)
    BY UpIs, BootsRestores DEF CopyInv
  <2>2. PICK n \in Nat : DOMAIN ledger' = 1..n
    BY <2>1 DEF HasNoGaps
  <2>3. Cardinality(1..n) = n
    BY FS_Interval
  <2>. QED
    BY <2>1, <2>2, <2>3 DEF Begins
<1>4. Inv /\ [Next]_vars => [Restored]_vars
  BY <1>3
<1>. HIDE DEF Restored, Inv
<1>5. Spec => [][Restored]_vars
  BY <1>1, <1>2, <1>4, PTL DEF Spec
<1>. QED
  BY <1>5 DEF Restored, RestoresABeginning
===============================================================================
