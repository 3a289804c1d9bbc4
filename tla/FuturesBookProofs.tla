--------------------------- MODULE FuturesBookProofs ---------------------------
(***************************************************************************)
(* The futures book for any number of runners, processes, slots, bars and   *)
(* positions.                                                               *)
(***************************************************************************)
EXTENDS FuturesBook, FiniteSetTheorems, TLAPS

-------------------------------------------------------------------------------
(***************************************************************************)
(* Types.                                                                   *)
(***************************************************************************)
\* An index of Scan names a slot, and the slot a profile.
LEMMA SlotOf ==
  ASSUME NEW i \in 1..Len(Scan)
  PROVE  Scan[i] \in Slot /\ Scan[i].profile \in Profile
BY DEF Slot, Profile

\* The variables of the cycles keep their types in a step.
CycleTyped ==
  /\ stage' \in [Runner -> {"idle", "fetching", "entering", "reserved"}]
  /\ at' \in [Runner -> 0..Len(Scan)]
  /\ \A q \in Runner : stage'[q] # "idle" => at'[q] # 0
  /\ barTime' \in [Runner -> 0..MaxBar]
  /\ blocked' \in [Runner -> SUBSET Profile]
  /\ began' \in [Runner -> SUBSET Profile]

\* A cycle that ends keeps its types.
LEMMA EndsType ==
  ASSUME TypeOK, NEW r \in Runner, Ends(r)
  PROVE  CycleTyped
<1>1. Len(Scan) \in Nat
  BY BookAssumption
<1>. QED
  BY <1>1, BookAssumption DEF Ends, CycleTyped, TypeOK

\* Ending or going on, a cycle stays within its scan and its types.
LEMMA GoesType ==
  ASSUME TypeOK, NEW r \in Runner, NEW i \in 0..Len(Scan),
         NEW snapshot \in SUBSET Profile, NEW cooling \in SUBSET Profile,
         Goes(r, i, snapshot, cooling)
  PROVE  CycleTyped
<1>. Len(Scan) \in Nat
  BY BookAssumption
<1>. USE DEF TypeOK, CycleTyped
<1>1. CASE Ends(r)
  BY <1>1, EndsType
<1>2. ASSUME NEW j \in (i + 1)..Len(Scan),
             stage' = [stage EXCEPT ![r] = "fetching"],
             at' = [at EXCEPT ![r] = j],
             barTime' = [barTime EXCEPT ![r] = 0],
             blocked' = [blocked EXCEPT ![r] = snapshot],
             began' = [began EXCEPT ![r] = cooling]
      PROVE  CycleTyped
  <2>1. j \in 1..Len(Scan) /\ 0 \in 0..MaxBar
    BY BookAssumption
  <2>. QED
    BY <1>2, <2>1
<1>. QED
  BY <1>1, <1>2 DEF Goes

\* The book begins with its types.
LEMMA InitTyping == Init => TypeOK
BY BookAssumption DEF Init, TypeOK

\* A step keeps the types.
LEMMA StepTyping ==
  ASSUME TypeOK, [Next]_vars
  PROVE  TypeOK'
<1>. USE BookAssumption
<1>0. Len(Scan) \in Nat /\ CoolingNow \in SUBSET Profile
  BY DEF CoolingNow
<1>1. ASSUME NEW r \in Runner, Begins(r) PROVE TypeOK'
  <2>1. Goes(r, 0, CoolingNow, CoolingNow) /\ 0 \in 0..Len(Scan)
    BY <1>0, <1>1 DEF Begins
  <2>2. CycleTyped
    BY <1>0, <2>1, GoesType
  <2>. QED
    BY <1>1, <2>2 DEF CycleTyped, Begins, TypeOK, trades, governor, bounds
<1>2. ASSUME NEW r \in Runner, Skips(r) PROVE TypeOK'
  <2>1. at[r] \in 0..Len(Scan) /\ blocked[r] \in SUBSET Profile /\ began[r] \in SUBSET Profile
    BY DEF TypeOK
  <2>2. CycleTyped
    BY <1>0, <1>2, <2>1, GoesType DEF Skips
  <2>. QED
    BY <1>2, <2>2 DEF CycleTyped, Skips, TypeOK, trades, governor, bounds
<1>3. ASSUME NEW r \in Runner, Scans(r) PROVE TypeOK'
  <2>1. PICK b \in 1..MaxBar : barTime' = [barTime EXCEPT ![r] = b]
    BY <1>3 DEF Scans
  <2>2. b \in 0..MaxBar
    OBVIOUS
  <2>3. at[r] # 0
    BY <1>3 DEF Scans, TypeOK
  <2>. QED
    BY <1>3, <2>1, <2>2, <2>3 DEF Scans, TypeOK, trades, governor, bounds, history
<1>4. ASSUME NEW r \in Runner, Reserves(r) PROVE TypeOK'
  <2>1. PICK m \in 1..MaxMargin : margin' = [margin EXCEPT ![r] = m]
    BY <1>4 DEF Reserves
  <2>2. m \in 0..MaxMargin /\ at[r] # 0
    BY <1>4 DEF Reserves, TypeOK
  <2>. QED
    BY <1>4, <2>1, <2>2 DEF Reserves, TypeOK, trades, governor, bounds
<1>5. ASSUME NEW r \in Runner, Inserts(r) PROVE TypeOK'
  <2>1. /\ at[r] \in 0..Len(Scan) /\ at[r] # 0
        /\ blocked[r] \in SUBSET Profile /\ began[r] \in SUBSET Profile
        /\ barTime[r] \in 0..MaxBar /\ margin[r] \in 0..MaxMargin
        /\ Home[r] \in Process
    BY <1>5 DEF Inserts, TypeOK
  <2>2. slot(r) \in Slot
    BY <1>0, <2>1, SlotOf DEF slot
  <2>3. CycleTyped
    BY <1>0, <1>5, <2>1, GoesType, EndsType DEF Inserts
  <2>4. open' \subseteq Position /\ opened' \in 0..MaxTrades
    <3>1. opened + 1 \in 1..MaxTrades
      BY <1>5 DEF Inserts, TypeOK
    <3>2. [id |-> opened + 1, slot |-> slot(r), by |-> r, margin |-> margin[r]] \in Position
      BY <2>1, <2>2, <3>1 DEF Position
    <3>. QED
      BY <1>5, <3>1, <3>2 DEF Inserts, TypeOK
  <2>5. lastEntryBar' \in [Process -> [Slot -> 0..MaxBar]]
    <3>1. lastEntryBar' = Notes(r) \/ lastEntryBar' = lastEntryBar
      BY <1>5 DEF Inserts
    <3>2. CASE lastEntryBar' = Notes(r)
      BY <2>1, <2>2, <3>2 DEF Notes, TypeOK
    <3>3. CASE lastEntryBar' = lastEntryBar
      BY <3>3 DEF TypeOK
    <3>. QED
      BY <3>1, <3>2, <3>3
  <2>6. /\ entered' \in [Process -> SUBSET (Slot \X (0..MaxBar))]
        /\ lapsed' \in [Process -> SUBSET Slot]
    <3>1. CASE Remembers(r)
      BY <3>1, <2>1, <2>2 DEF Remembers, TypeOK
    <3>2. CASE Lapses(r)
      BY <3>2, <2>1, <2>2 DEF Lapses, TypeOK
    <3>. QED
      BY <1>5, <3>1, <3>2 DEF Inserts
  <2>7. disturbed' \in [Runner -> BOOLEAN] /\ margin' \in [Runner -> 0..MaxMargin]
    BY <1>5 DEF Inserts, Disturbs, TypeOK
  <2>. QED
    BY <1>5, <2>3, <2>4, <2>5, <2>6, <2>7 DEF CycleTyped, Inserts, TypeOK, governor
<1>12. ASSUME NEW r \in Runner, InsertThrows(r) PROVE TypeOK'
  <2>1. CycleTyped
    BY <1>12, EndsType DEF InsertThrows
  <2>2. margin' \in [Runner -> 0..MaxMargin] /\ disturbed' \in [Runner -> BOOLEAN]
    BY <1>12 DEF InsertThrows, TypeOK
  <2>. QED
    BY <1>12, <2>1, <2>2 DEF CycleTyped, InsertThrows, TypeOK, trades, governor, bounds
<1>6. ASSUME NEW h \in Process, Restarts(h) PROVE TypeOK'
  <2>1. [s \in Slot |-> 0] \in [Slot -> 0..MaxBar]
    OBVIOUS
  <2>2. lastEntryBar' \in [Process -> [Slot -> 0..MaxBar]]
    BY <1>6, <2>1 DEF Restarts, TypeOK
  <2>3. /\ entered' \in [Process -> SUBSET (Slot \X (0..MaxBar))]
        /\ lapsed' \in [Process -> SUBSET Slot]
    BY <1>6 DEF Restarts, TypeOK
  <2>4. /\ stage' \in [Runner -> {"idle", "fetching", "entering", "reserved"}]
        /\ at' \in [Runner -> 0..Len(Scan)]
        /\ \A q \in Runner : stage'[q] # "idle" => at'[q] # 0
    <3>1. /\ stage \in [Runner -> {"idle", "fetching", "entering", "reserved"}]
          /\ at \in [Runner -> 0..Len(Scan)] /\ 0 \in 0..Len(Scan)
          /\ \A q \in Runner : stage[q] # "idle" => at[q] # 0
      BY <1>0 DEF TypeOK
    <3>2. /\ stage' = [q \in Runner |-> IF Home[q] = h THEN "idle" ELSE stage[q]]
          /\ at' = [q \in Runner |-> IF Home[q] = h THEN 0 ELSE at[q]]
      BY <1>6 DEF Restarts
    <3>. QED
      BY <3>1, <3>2
  <2>5. /\ barTime' \in [Runner -> 0..MaxBar]
        /\ margin' \in [Runner -> 0..MaxMargin]
        /\ disturbed' \in [Runner -> BOOLEAN]
    <3>1. /\ barTime \in [Runner -> 0..MaxBar] /\ margin \in [Runner -> 0..MaxMargin]
          /\ disturbed \in [Runner -> BOOLEAN] /\ 0 \in 0..MaxBar /\ 0 \in 0..MaxMargin
      BY DEF TypeOK
    <3>2. /\ barTime' = [q \in Runner |-> IF Home[q] = h THEN 0 ELSE barTime[q]]
          /\ margin' = [q \in Runner |-> IF Home[q] = h THEN 0 ELSE margin[q]]
          /\ disturbed' = [q \in Runner |-> IF Home[q] = h THEN FALSE ELSE disturbed[q]]
      BY <1>6 DEF Restarts
    <3>. QED
      BY <3>1, <3>2
  <2>6. /\ blocked' \in [Runner -> SUBSET Profile]
        /\ began' \in [Runner -> SUBSET Profile]
    <3>1. /\ blocked \in [Runner -> SUBSET Profile]
          /\ began \in [Runner -> SUBSET Profile]
      BY DEF TypeOK
    <3>2. /\ blocked' = [q \in Runner |-> IF Home[q] = h THEN {} ELSE blocked[q]]
          /\ began' = [q \in Runner |-> IF Home[q] = h THEN {} ELSE began[q]]
      BY <1>6 DEF Restarts
    <3>3. ASSUME NEW f \in [Runner -> SUBSET Profile]
          PROVE  [q \in Runner |-> IF Home[q] = h THEN {} ELSE f[q]] \in [Runner -> SUBSET Profile]
      <4>1. ASSUME NEW q \in Runner
            PROVE  (IF Home[q] = h THEN {} ELSE f[q]) \in SUBSET Profile
        <5>1. f[q] \in SUBSET Profile
          OBVIOUS
        <5>. QED
          BY <5>1
      <4>. QED
        BY <4>1, Zenon
    <3>4. blocked' \in [Runner -> SUBSET Profile]
      BY <3>1, <3>2, <3>3, Zenon
    <3>5. began' \in [Runner -> SUBSET Profile]
      BY <3>1, <3>2, <3>3, Zenon
    <3>. QED
      BY <3>4, <3>5
  <2>7. /\ UNCHANGED <<open, realized, streak, daily, cooled, opened>>
        /\ restarts' \in 0..MaxRestarts
    BY <1>6 DEF Restarts, TypeOK, trades, governor
  <2>. QED
    BY <2>2, <2>3, <2>4, <2>5, <2>6, <2>7 DEF TypeOK
<1>7. ASSUME NEW o \in open, NEW pnl \in Pnls, Closes(o, pnl) PROVE TypeOK'
  <2>1. o.slot \in Slot /\ pnl \in Int
    BY DEF TypeOK, Position
  <2>2. o.slot.profile \in Profile
    BY <2>1 DEF Profile
  <2>3. Losses(o.slot.profile, pnl) \in 0..MaxStreak
    BY <2>1, <2>2 DEF Losses, TypeOK
  <2>4. streak' \in [Profile -> 0..MaxStreak]
    BY <1>7, <2>2, <2>3 DEF Closes, TypeOK
  <2>5. daily' \in [Profile -> Int] /\ cooled' \in [Profile -> BOOLEAN]
    BY <1>7, <2>1, <2>2 DEF Closes, TypeOK
  <2>6. open' \subseteq Position /\ realized' \in Int /\ disturbed' \in [Runner -> BOOLEAN]
    BY <1>7, <2>1 DEF Closes, Disturbs, TypeOK
  <2>. QED
    BY <1>7, <2>4, <2>5, <2>6 DEF Closes, TypeOK, cycles, bounds
<1>8. ASSUME NEW p \in Profile, Cools(p) PROVE TypeOK'
  BY <1>8 DEF Cools, TypeOK, cycles, trades, bounds, history
<1>9. CASE Midnight
  BY <1>9 DEF Midnight, TypeOK, cycles, trades, bounds, history
<1>11. CASE UNCHANGED vars
  BY <1>11 DEF TypeOK, vars, cycles, trades, governor, bounds, history
<1>. QED
  BY <1>1, <1>2, <1>3, <1>4, <1>5, <1>6, <1>7, <1>8, <1>9, <1>11, <1>12 DEF Next

\* The book keeps its types (TypeOK).
THEOREM Typing == Spec => []TypeOK
<1>. QED
  BY InitTyping, StepTyping, PTL DEF Spec

-------------------------------------------------------------------------------
(***************************************************************************)
(* One position for each runner.                                            *)
(***************************************************************************)
\* What a runner found when it looked for an open position stays true of its own:
\* while it awaits, others may open the slot, it does not.
NoneOfItsOwn ==
  \A r \in Runner : stage[r] \in {"entering", "reserved"} =>
    \A o \in open : ~(o.slot = slot(r) /\ o.by = r)

OneInv == TypeOK /\ NoneOfItsOwn /\ OnePerRunner

\* A cycle that goes on awaits candles, or has ended, and the others are where they were.
LEMMA GoesAway ==
  ASSUME TypeOK, NEW r \in Runner, NEW i, NEW snapshot, NEW cooling,
         Goes(r, i, snapshot, cooling) \/ Ends(r)
  PROVE  /\ stage'[r] \in {"idle", "fetching"}
         /\ \A q \in Runner : q # r =>
              /\ stage'[q] = stage[q] /\ at'[q] = at[q] /\ barTime'[q] = barTime[q]
              /\ blocked'[q] = blocked[q] /\ began'[q] = began[q]
BY DEF Goes, Ends, TypeOK

\* The overlap of cycles is bounded: OnePerRunner holds for every number of runners.
THEOREM OnePerRunnerHolds == Spec => []OnePerRunner
<1>1. Init => OneInv
  <2>1. ASSUME Init PROVE NoneOfItsOwn /\ OnePerRunner
    BY <2>1 DEF Init, NoneOfItsOwn, OnePerRunner
  <2>. QED
    BY <2>1, InitTyping DEF OneInv
<1>2. ASSUME OneInv, [Next]_vars PROVE OneInv'
  <2>. USE <1>2 DEF OneInv
  <2>0. TypeOK'
    BY StepTyping
  <2>1. ASSUME NEW r \in Runner,
               \/ Goes(r, 0, CoolingNow, CoolingNow) \/ Goes(r, at[r], blocked[r], began[r])
               \/ Ends(r),
               UNCHANGED open
        PROVE  NoneOfItsOwn' /\ OnePerRunner'
    <3>1. /\ stage'[r] \in {"idle", "fetching"}
          /\ \A q \in Runner : q # r => stage'[q] = stage[q] /\ at'[q] = at[q]
      BY <2>1, GoesAway
    <3>. QED
      BY <2>1, <3>1 DEF NoneOfItsOwn, OnePerRunner, slot
  <2>2. ASSUME NEW r \in Runner, Begins(r) \/ Skips(r) \/ InsertThrows(r)
        PROVE  NoneOfItsOwn' /\ OnePerRunner'
    BY <2>1, <2>2 DEF Begins, Skips, InsertThrows, trades
  <2>3. ASSUME NEW r \in Runner, Scans(r) PROVE NoneOfItsOwn' /\ OnePerRunner'
    BY <2>3 DEF Scans, hasOpenPosition, NoneOfItsOwn, OnePerRunner, slot, TypeOK, trades
  <2>4. ASSUME NEW r \in Runner, Reserves(r) PROVE NoneOfItsOwn' /\ OnePerRunner'
    BY <2>4 DEF Reserves, NoneOfItsOwn, OnePerRunner, slot, TypeOK, trades
  <2>5. ASSUME NEW r \in Runner, Inserts(r) PROVE NoneOfItsOwn' /\ OnePerRunner'
    <3>. DEFINE new == [id |-> opened + 1, slot |-> slot(r), by |-> r, margin |-> margin[r]]
    <3>1. /\ stage'[r] \in {"idle", "fetching"}
          /\ \A q \in Runner : q # r => stage'[q] = stage[q] /\ at'[q] = at[q]
      BY <2>5, GoesAway DEF Inserts
    <3>2. open' = open \cup {new} /\ new.slot = slot(r) /\ new.by = r
      BY <2>5 DEF Inserts
    <3>3. \A o \in open : ~(o.slot = new.slot /\ o.by = new.by)
      BY <2>5, <3>2 DEF Inserts, NoneOfItsOwn
    <3>. HIDE DEF new
    <3>4. OnePerRunner'
      BY <3>2, <3>3 DEF OnePerRunner
    <3>5. NoneOfItsOwn'
      BY <3>1, <3>2 DEF NoneOfItsOwn, slot
    <3>. QED
      BY <3>4, <3>5
  <2>6. ASSUME NEW h \in Process, Restarts(h) PROVE NoneOfItsOwn' /\ OnePerRunner'
    BY <2>6 DEF Restarts, NoneOfItsOwn, OnePerRunner, slot, TypeOK, trades
  <2>7. ASSUME NEW o \in open, NEW pnl \in Pnls, Closes(o, pnl)
        PROVE  NoneOfItsOwn' /\ OnePerRunner'
    BY <2>7 DEF Closes, NoneOfItsOwn, OnePerRunner, slot, cycles
  <2>8. ASSUME \/ \E p \in Profile : Cools(p)
               \/ Midnight \/ UNCHANGED vars
        PROVE  NoneOfItsOwn' /\ OnePerRunner'
    <3>1. UNCHANGED <<stage, at, open>>
      BY <2>8 DEF Cools, Midnight, vars, cycles, trades
    <3>. QED
      BY <3>1 DEF NoneOfItsOwn, OnePerRunner, slot
  <2>. QED
    BY <2>0, <2>2, <2>3, <2>4, <2>5, <2>6, <2>7, <2>8 DEF Next
<1>. QED
  BY <1>1, <1>2, PTL DEF Spec, OneInv

-------------------------------------------------------------------------------
(***************************************************************************)
(* The cooldown.                                                            *)
(***************************************************************************)
\* A runner is at a slot whose profile did not cool down when its cycle began.
NotAtCooling ==
  \A r \in Runner : stage[r] # "idle" =>
    /\ blocked[r] = began[r]
    /\ Scan[at[r]].profile \notin began[r]

\* Going on keeps a runner away from the profiles it is to leave out.
LEMMA GoesAround ==
  ASSUME TypeOK, NEW r \in Runner, NEW i, NEW snapshot,
         Goes(r, i, snapshot, snapshot) \/ Ends(r), stage'[r] # "idle"
  PROVE  blocked'[r] = began'[r] /\ Scan[at'[r]].profile \notin began'[r]
BY DEF Goes, Ends, TypeOK

\* No step takes a runner to a profile that cooled down when its cycle began.
LEMMA StepAround ==
  ASSUME TypeOK, NotAtCooling, [Next]_vars
  PROVE  NotAtCooling'
<1>1. ASSUME NEW r \in Runner, NEW i, NEW snapshot, Goes(r, i, snapshot, snapshot) \/ Ends(r)
      PROVE  NotAtCooling'
  BY <1>1, GoesAround, GoesAway DEF NotAtCooling
<1>2. ASSUME NEW r \in Runner, Begins(r) PROVE NotAtCooling'
  BY <1>1, <1>2 DEF Begins
<1>3. ASSUME NEW r \in Runner, Skips(r) \/ Inserts(r) \/ InsertThrows(r) PROVE NotAtCooling'
  <2>1. stage[r] # "idle" /\ (Goes(r, at[r], blocked[r], began[r]) \/ Ends(r))
    BY <1>3 DEF Skips, Inserts, InsertThrows
  <2>. QED
    BY <1>1, <2>1 DEF NotAtCooling
<1>4. ASSUME NEW r \in Runner, Scans(r) \/ Reserves(r) PROVE NotAtCooling'
  BY <1>4 DEF Scans, Reserves, NotAtCooling, TypeOK, history
<1>5. ASSUME NEW h \in Process, Restarts(h) PROVE NotAtCooling'
  BY <1>5 DEF Restarts, NotAtCooling, TypeOK
<1>6. ASSUME \/ \E o \in open, pnl \in Pnls : Closes(o, pnl)
             \/ \E p \in Profile : Cools(p)
             \/ Midnight \/ UNCHANGED vars
      PROVE  NotAtCooling'
  <2>1. UNCHANGED <<stage, at, blocked, began>>
    BY <1>6 DEF Closes, Cools, Midnight, vars, cycles, history
  <2>. QED
    BY <2>1 DEF NotAtCooling
<1>. QED
  BY <1>2, <1>3, <1>4, <1>5, <1>6 DEF Next

\* What is opened is what Inserts adds.
LEMMA OpensByInsert ==
  ASSUME TypeOK, [Next]_vars, NEW o \in open' \ open
  PROVE  \E r \in Runner : /\ Inserts(r) /\ stage[r] = "reserved"
                           /\ o.by = r /\ o.slot = slot(r)
<1>1. ASSUME NEW r \in Runner, Inserts(r)
      PROVE  stage[r] = "reserved" /\ o.by = r /\ o.slot = slot(r)
  BY <1>1 DEF Inserts
<1>2. ASSUME ~\E r \in Runner : Inserts(r) PROVE FALSE
  <2>1. open' \subseteq open
    BY <1>2 DEF Next, Begins, Skips, Scans, Reserves, InsertThrows, Restarts, Closes, Cools, Midnight, vars, trades
  <2>. QED
    BY <2>1
<1>. QED
  BY <1>1, <1>2

\* A cycle begun while a profile cools down opens nothing for it.
THEOREM CooldownHolds == Spec => CooldownStopsNewCycles
<1>. DEFINE Stops == \A o \in open' \ open : o.slot.profile \notin began[o.by]
<1>1. Init => NotAtCooling
  BY DEF Init, NotAtCooling
<1>2. TypeOK /\ NotAtCooling /\ [Next]_vars => [Stops]_vars
  <2>1. ASSUME TypeOK, NotAtCooling, [Next]_vars, NEW o \in open' \ open
        PROVE  o.slot.profile \notin began[o.by]
    <3>1. PICK r \in Runner : stage[r] = "reserved" /\ o.by = r /\ o.slot = slot(r)
      BY <2>1, OpensByInsert
    <3>. QED
      BY <2>1, <3>1 DEF NotAtCooling, slot
  <2>. QED
    BY <2>1
<1>3. Spec => []NotAtCooling
  BY <1>1, Typing, StepAround, PTL DEF Spec
<1>. QED
  BY <1>2, <1>3, Typing, PTL DEF Spec, CooldownStopsNewCycles

-------------------------------------------------------------------------------
(***************************************************************************)
(* One entry on a bar.                                                      *)
(***************************************************************************)
\* r is the only runner of its process.
Alone(r) == \A q \in Runner : Home[q] = Home[r] => q = r

\* The entries of a slot that has not lapsed are on the bar noted for it or before;
\* and where nobody else notes, the slot that is entered is entered on another bar.
NotesLead ==
  /\ \A h \in Process, s \in Slot, b \in 0..MaxBar :
       <<s, b>> \in entered[h] => s \notin lapsed[h] /\ b <= lastEntryBar[h][s]
  /\ \A r \in Runner : Alone(r) /\ stage[r] \in {"entering", "reserved"} =>
       lastEntryBar[Home[r]][slot(r)] # barTime[r]

\* What an insert leaves of the entries of its process.
LEMMA InsertNotes ==
  ASSUME TypeOK, NotesLead, NEW r \in Runner, Inserts(r),
         NEW h \in Process, NEW s \in Slot, NEW b \in 0..MaxBar, <<s, b>> \in entered'[h]
  PROVE  s \notin lapsed'[h] /\ b <= lastEntryBar'[h][s]
<1>. USE BookAssumption
<1>1. /\ stage[r] = "reserved" /\ Home[r] \in Process /\ barTime[r] \in 0..MaxBar
      /\ slot(r) \in Slot
  <2>1. stage[r] = "reserved" /\ at[r] \in 1..Len(Scan)
    BY DEF Inserts, TypeOK
  <2>. QED
    BY <2>1, SlotOf DEF slot, TypeOK
<1>2. <<s, b>> \in entered[h] => s \notin lapsed[h] /\ b <= lastEntryBar[h][s]
  BY DEF NotesLead
<1>3. lastEntryBar[h][s] \in 0..MaxBar
  BY DEF TypeOK
<1>4. CASE h # Home[r] \/ s # slot(r)
  <2>1. lastEntryBar'[h][s] = lastEntryBar[h][s]
    <3>1. lastEntryBar' = Notes(r) \/ lastEntryBar' = lastEntryBar
      BY DEF Inserts
    <3>. QED
      BY <1>1, <1>4, <3>1 DEF Notes, TypeOK
  <2>2. <<s, b>> \in entered[h] /\ (s \in lapsed'[h] => s \in lapsed[h])
    <3>1. CASE Remembers(r)
      BY <1>1, <1>4, <3>1 DEF Remembers, TypeOK
    <3>2. CASE Lapses(r)
      BY <1>1, <1>4, <3>2 DEF Lapses, TypeOK
    <3>. QED
      BY <3>1, <3>2 DEF Inserts
  <2>. QED
    BY <1>2, <2>1, <2>2
<1>5. CASE h = Home[r] /\ s = slot(r)
  <2>1. ~Lapses(r)
    <3>1. ASSUME Lapses(r) PROVE FALSE
      <4>1. entered'[h] = {e \in entered[h] : e[1] # slot(r)}
        BY <1>1, <1>5, <3>1 DEF Lapses, TypeOK
      <4>. QED
        BY <1>5, <4>1
    <3>. QED
      BY <3>1
  <2>2. /\ Remembers(r) /\ lastEntryBar' = Notes(r)
        /\ ~(barTime[r] < lastEntryBar[h][s])
    BY <1>5, <2>1 DEF Inserts
  <2>3. lastEntryBar'[h][s] = barTime[r]
    BY <1>1, <1>5, <2>2 DEF Notes, TypeOK
  <2>4. /\ lapsed' = lapsed
        /\ \/ <<s, b>> \in entered[h]
           \/ s \notin lapsed[h] /\ b = barTime[r]
    BY <1>1, <1>5, <2>2 DEF Remembers, TypeOK
  <2>. QED
    BY <1>1, <1>2, <1>3, <2>2, <2>3, <2>4
<1>. QED
  BY <1>4, <1>5

\* Every step keeps the notes ahead of the entries.
LEMMA StepLeads ==
  ASSUME TypeOK, NotesLead, [Next]_vars
  PROVE  NotesLead'
<1>. USE BookAssumption
<1>0. TypeOK' /\ \A r \in Runner : Home[r] \in Process
  BY StepTyping
<1>1. ASSUME NEW r \in Runner, Begins(r) \/ Skips(r) \/ InsertThrows(r) PROVE NotesLead'
  <2>1. \E i, snapshot, cooling : Goes(r, i, snapshot, cooling) \/ Ends(r)
    BY <1>1 DEF Begins, Skips, InsertThrows
  <2>2. UNCHANGED <<lastEntryBar, entered, lapsed>>
    BY <1>1 DEF Begins, Skips, InsertThrows
  <2>3. /\ stage'[r] \in {"idle", "fetching"}
        /\ \A q \in Runner : q # r => UNCHANGED <<stage[q], at[q], barTime[q]>>
    BY <2>1, GoesAway
  <2>. QED
    BY <2>2, <2>3 DEF NotesLead, Alone, slot
<1>2. ASSUME NEW r \in Runner, Scans(r) PROVE NotesLead'
  <2>1. /\ UNCHANGED <<lastEntryBar, entered, lapsed, at>>
        /\ stage' = [stage EXCEPT ![r] = "entering"]
    BY <1>2 DEF Scans, history
  <2>2. PICK b \in 1..MaxBar : /\ lastEntryBar[Home[r]][slot(r)] # b
                              /\ barTime' = [barTime EXCEPT ![r] = b]
    BY <1>2 DEF Scans
  <2>3. \A q \in Runner : q # r => UNCHANGED <<stage[q], at[q], barTime[q]>>
    BY <2>1, <2>2 DEF TypeOK
  <2>4. barTime'[r] = b /\ slot(r)' = slot(r)
    BY <2>1, <2>2 DEF TypeOK, slot
  <2>. QED
    BY <2>1, <2>2, <2>3, <2>4 DEF NotesLead, Alone, slot
<1>3. ASSUME NEW r \in Runner, Reserves(r) PROVE NotesLead'
  BY <1>3 DEF Reserves, NotesLead, Alone, slot, TypeOK
<1>4. ASSUME NEW r \in Runner, Inserts(r) PROVE NotesLead'
  <2>1. \A h \in Process, s \in Slot, b \in 0..MaxBar :
          <<s, b>> \in entered'[h] => s \notin lapsed'[h] /\ b <= lastEntryBar'[h][s]
    BY <1>4, InsertNotes
  <2>2. /\ stage'[r] \in {"idle", "fetching"}
        /\ \A q \in Runner : q # r => UNCHANGED <<stage[q], at[q], barTime[q]>>
    BY <1>4, GoesAway DEF Inserts
  <2>3. \A q \in Runner : Home[q] # Home[r] => lastEntryBar'[Home[q]] = lastEntryBar[Home[q]]
    BY <1>0, <1>4 DEF Inserts, Notes, TypeOK
  <2>. QED
    BY <2>1, <2>2, <2>3 DEF NotesLead, Alone, slot
<1>5. ASSUME NEW h \in Process, Restarts(h) PROVE NotesLead'
  <2>1. /\ entered'[h] = {}
        /\ \A k \in Process : k # h => UNCHANGED <<entered[k], lapsed[k], lastEntryBar[k]>>
    BY <1>5 DEF Restarts, TypeOK
  <2>2. \A q \in Runner :
          IF Home[q] = h THEN stage'[q] = "idle" ELSE UNCHANGED <<stage[q], at[q], barTime[q]>>
    BY <1>5 DEF Restarts, TypeOK
  <2>3. \A k \in Process, s \in Slot, b \in 0..MaxBar :
          <<s, b>> \in entered'[k] => s \notin lapsed'[k] /\ b <= lastEntryBar'[k][s]
    BY <2>1 DEF NotesLead
  <2>4. \A q \in Runner : Alone(q) /\ stage'[q] \in {"entering", "reserved"} =>
          lastEntryBar'[Home[q]][slot(q)'] # barTime'[q]
    BY <1>0, <2>1, <2>2 DEF NotesLead, slot
  <2>. QED
    BY <2>3, <2>4 DEF NotesLead, Alone
<1>6. ASSUME \/ \E o \in open, pnl \in Pnls : Closes(o, pnl)
             \/ \E p \in Profile : Cools(p)
             \/ Midnight \/ UNCHANGED vars
      PROVE  NotesLead'
  <2>1. UNCHANGED <<stage, at, barTime, lastEntryBar, entered, lapsed>>
    BY <1>6 DEF Closes, Cools, Midnight, vars, cycles, history
  <2>. QED
    BY <2>1 DEF NotesLead, Alone, slot
<1>. QED
  BY <1>1, <1>2, <1>3, <1>4, <1>5, <1>6 DEF Next

\* A process with one line of cycles enters a slot again on a bar only after a lapse:
\* a note lost to a write that threw, or candles older than those it had seen.
THEOREM OneEntryHolds == Spec => OneEntryPerBar
<1>. DEFINE Excused == \A o \in open' \ open :
                         /\ \A r \in Runner : Home[r] = Home[o.by] => r = o.by
                         /\ <<o.slot, barTime[o.by]>> \in entered[Home[o.by]]
                         => o.slot \in lapsed'[Home[o.by]]
<1>1. Init => NotesLead
  BY BookAssumption DEF Init, NotesLead
<1>2. TypeOK /\ NotesLead /\ [Next]_vars => [Excused]_vars
  <2>1. ASSUME TypeOK, NotesLead, [Next]_vars, NEW o \in open' \ open,
               \A r \in Runner : Home[r] = Home[o.by] => r = o.by,
               <<o.slot, barTime[o.by]>> \in entered[Home[o.by]]
        PROVE  o.slot \in lapsed'[Home[o.by]]
    <3>1. PICK r \in Runner : Inserts(r) /\ stage[r] = "reserved" /\ o.by = r /\ o.slot = slot(r)
      BY <2>1, OpensByInsert
    <3>2. Alone(r)
      BY <2>1, <3>1 DEF Alone
    <3>3. slot(r) \in Slot /\ Home[r] \in Process /\ barTime[r] \in 0..MaxBar
      BY <2>1, <3>1, SlotOf, BookAssumption DEF slot, TypeOK
    <3>4. barTime[r] <= lastEntryBar[Home[r]][slot(r)] /\ lastEntryBar[Home[r]][slot(r)] # barTime[r]
      BY <2>1, <3>1, <3>2, <3>3 DEF NotesLead
    <3>5. lastEntryBar[Home[r]][slot(r)] \in Nat
      BY <2>1, <3>3, BookAssumption DEF TypeOK
    <3>6. barTime[r] < lastEntryBar[Home[r]][slot(r)]
      BY <3>3, <3>4, <3>5, BookAssumption
    <3>7. Lapses(r)
      BY <3>1, <3>6 DEF Inserts
    <3>. QED
      BY <2>1, <3>1, <3>3, <3>7 DEF Lapses, TypeOK
  <2>. QED
    BY <2>1
<1>3. Spec => []NotesLead
  BY <1>1, Typing, StepLeads, PTL DEF Spec
<1>. QED
  BY <1>2, <1>3, Typing, PTL DEF Spec, OneEntryPerBar
-------------------------------------------------------------------------------
(***************************************************************************)
(* The reserved margin.                                                     *)
(***************************************************************************)
\* A set of numbers that is not empty has a least one.
LEMMA LeastOf ==
  ASSUME NEW S \in SUBSET Nat, S # {}
  PROVE  \E n \in S : \A k \in S : n <= k
<1>1. PICK n \in S : \A k \in S : ~ (<<k, n>> \in OpToRel(<, Nat))
  BY NatLessThanWellFounded, WFMin, Zenon
<1>2. \A k \in S : ~(k < n)
  BY <1>1 DEF OpToRel
<1>. QED
  BY <1>2

\* The margin that the position of an id reserves, among the positions of S.
Part(S, n) ==
  IF \E o \in S : o.id = n THEN (CHOOSE o \in S : o.id = n).margin ELSE 0

\* m adds up the parts of the ids up to k.
AddsUp(m, S, k) == m = [n \in 0..k |-> IF n = 0 THEN 0 ELSE m[n - 1] + Part(S, n)]

\* The sum that getFuturesCapitalState takes over the open positions.
Sums(S) == CHOOSE m : AddsUp(m, S, MaxTrades)

\* A part is a margin.
LEMMA PartType ==
  ASSUME NEW S \in SUBSET Position, NEW n
  PROVE  Part(S, n) \in Int
<1>1. CASE \E o \in S : o.id = n
  <2>1. (CHOOSE o \in S : o.id = n) \in Position
    BY <1>1
  <2>. QED
    BY <1>1, <2>1, BookAssumption DEF Part, Position
<1>2. CASE ~\E o \in S : o.id = n
  BY <1>2 DEF Part
<1>. QED
  BY <1>1, <1>2

\* There is a function that adds the parts up to each number: take the least
\* number without one.
LEMMA SumExists ==
  ASSUME NEW S \in SUBSET Position, NEW N \in Nat
  PROVE  \E m \in [0..N -> Int] : AddsUp(m, S, N)
<1>. DEFINE Bad == {k \in Nat : ~\E m \in [0..k -> Int] : AddsUp(m, S, k)}
<1>1. SUFFICES ASSUME Bad # {} PROVE FALSE
  OBVIOUS
<1>2. PICK k \in Bad : \A j \in Bad : k <= j
  <2>1. Bad \in SUBSET Nat
    OBVIOUS
  <2>. HIDE DEF Bad
  <2>. QED
    BY <1>1, <2>1, LeastOf
<1>3. k # 0
  <2>1. [n \in 0..0 |-> 0] \in [0..0 -> Int]
    OBVIOUS
  <2>2. AddsUp([n \in 0..0 |-> 0], S, 0)
    BY DEF AddsUp
  <2>. QED
    BY <1>2, <2>1, <2>2
<1>4. k \in Nat /\ k - 1 \in Nat /\ k - 1 \notin Bad
  BY <1>2, <1>3
<1>5. PICK m \in [0..(k - 1) -> Int] : AddsUp(m, S, k - 1)
  BY <1>4
<1>. DEFINE g == [n \in 0..k |-> IF n = k THEN m[k - 1] + Part(S, k) ELSE m[n]]
<1>6. \A n \in 0..(k - 1) : m[n] = IF n = 0 THEN 0 ELSE m[n - 1] + Part(S, n)
  BY <1>5 DEF AddsUp
<1>7. g \in [0..k -> Int]
  <2>1. m[k - 1] \in Int /\ Part(S, k) \in Int
    BY <1>4, <1>5, PartType
  <2>2. ASSUME NEW n \in 0..k, n # k PROVE m[n] \in Int
    <3>1. n \in 0..(k - 1)
      BY <1>4, <2>2
    <3>. QED
      BY <3>1
  <2>. QED
    BY <2>1, <2>2
<1>8. AddsUp(g, S, k)
  <2>1. ASSUME NEW n \in 0..k PROVE g[n] = IF n = 0 THEN 0 ELSE g[n - 1] + Part(S, n)
    <3>1. CASE n = k
      <4>1. k - 1 \in 0..k /\ k - 1 # k
        BY <1>4
      <4>. QED
        BY <1>3, <3>1, <4>1
    <3>2. CASE n # k
      <4>1. n \in 0..(k - 1)
        BY <1>4, <3>2
      <4>2. n # 0 => n - 1 \in 0..k /\ n - 1 # k
        BY <1>4, <4>1
      <4>. QED
        BY <1>6, <3>2, <4>1, <4>2
    <3>. QED
      BY <3>1, <3>2
  <2>. QED
    BY <2>1 DEF AddsUp
<1>. QED
  BY <1>2, <1>7, <1>8

\* What Reserved adds up, number by number.
LEMMA SumIs ==
  ASSUME NEW S \in SUBSET Position
  PROVE  /\ Sums(S)[0] = 0
         /\ \A n \in 1..MaxTrades : Sums(S)[n] = Sums(S)[n - 1] + Part(S, n)
         /\ \A n \in 0..MaxTrades : Sums(S)[n] \in Int
<1>. USE BookAssumption
<1>1. AddsUp(Sums(S), S, MaxTrades)
  BY SumExists DEF Sums
<1>2. \A n \in 0..MaxTrades : Sums(S)[n] = IF n = 0 THEN 0 ELSE Sums(S)[n - 1] + Part(S, n)
  BY <1>1 DEF AddsUp
<1>. DEFINE Bad == {n \in 0..MaxTrades : Sums(S)[n] \notin Int}
<1>3. Bad = {}
  <2>1. SUFFICES ASSUME Bad # {} PROVE FALSE
    OBVIOUS
  <2>2. PICK n \in Bad : \A j \in Bad : n <= j
    <3>1. Bad \in SUBSET Nat
      OBVIOUS
    <3>. HIDE DEF Bad
    <3>. QED
      BY <2>1, <3>1, LeastOf
  <2>3. n # 0
    BY <1>2, <2>2
  <2>4. Sums(S)[n - 1] \in Int
    BY <2>2, <2>3
  <2>. QED
    BY <1>2, <2>2, <2>3, <2>4, PartType
<1>4. Sums(S)[0] = 0
  BY <1>2
<1>5. \A n \in 0..MaxTrades : Sums(S)[n] \in Int
  BY <1>3
<1>6. \A n \in 1..MaxTrades : Sums(S)[n] = Sums(S)[n - 1] + Part(S, n)
  BY <1>2
<1>. QED
  BY <1>4, <1>5, <1>6

\* Reserved is that sum over the open positions.
LEMMA ReservedIsSum == Reserved = Sums(open)[MaxTrades]
BY DEF Reserved, Sums, AddsUp, Part

\* When one part changes, so does the sum, by as much.
LEMMA SumMoves ==
  ASSUME NEW S \in SUBSET Position, NEW T \in SUBSET Position,
         NEW k \in 1..MaxTrades, NEW d \in Int,
         \A n \in 1..MaxTrades : Part(T, n) = Part(S, n) + (IF n = k THEN d ELSE 0)
  PROVE  Sums(T)[MaxTrades] = Sums(S)[MaxTrades] + d
<1>. USE BookAssumption
<1>. DEFINE Bad == {n \in 0..MaxTrades : Sums(T)[n] # Sums(S)[n] + (IF n >= k THEN d ELSE 0)}
<1>1. SUFFICES ASSUME Bad # {} PROVE FALSE
  OBVIOUS
<1>2. PICK n \in Bad : \A j \in Bad : n <= j
  <2>1. Bad \in SUBSET Nat
    OBVIOUS
  <2>. HIDE DEF Bad
  <2>. QED
    BY <1>1, <2>1, LeastOf
<1>3. n # 0
  <2>1. Sums(T)[0] = 0 /\ Sums(S)[0] = 0 /\ ~(0 >= k)
    BY SumIs
  <2>. QED
    BY <1>2, <2>1
<1>4. n \in 1..MaxTrades /\ n - 1 \in 0..MaxTrades /\ n - 1 \notin Bad
  BY <1>2, <1>3
<1>5. Sums(T)[n - 1] = Sums(S)[n - 1] + (IF n - 1 >= k THEN d ELSE 0)
  BY <1>4
<1>6. /\ Sums(T)[n] = Sums(T)[n - 1] + Part(T, n)
      /\ Sums(S)[n] = Sums(S)[n - 1] + Part(S, n)
      /\ Sums(S)[n - 1] \in Int /\ Sums(S)[n] \in Int
      /\ Part(S, n) \in Int
  BY <1>4, SumIs, PartType
<1>7. Part(T, n) = Part(S, n) + (IF n = k THEN d ELSE 0)
  BY <1>4
<1>8. Sums(T)[n] # Sums(S)[n] + (IF n >= k THEN d ELSE 0)
  BY <1>2
<1>. HIDE DEF Bad
<1>. QED
  BY <1>4, <1>5, <1>6, <1>7, <1>8

\* The ids tell the open positions apart, and are no newer than the last.
IdsTellApart ==
  /\ \A o \in open : o.id <= opened
  /\ \A o, q \in open : o.id = q.id => o = q

\* A position is the one its id is looked up as.
LEMMA PartIs ==
  ASSUME NEW S \in SUBSET Position, \A o, q \in S : o.id = q.id => o = q, NEW o \in S
  PROVE  Part(S, o.id) = o.margin
<1>1. (CHOOSE q \in S : q.id = o.id) = o
  OBVIOUS
<1>. QED
  BY <1>1 DEF Part

\* An id that is not among the positions has no part.
LEMMA NoPart ==
  ASSUME NEW S, NEW n, \A o \in S : o.id # n
  PROVE  Part(S, n) = 0
BY DEF Part

\* A position under a new id raises the sum by its margin.
LEMMA SumGains ==
  ASSUME NEW S \in SUBSET Position, \A o, q \in S : o.id = q.id => o = q,
         NEW p \in Position, \A o \in S : o.id # p.id
  PROVE  Sums(S \cup {p})[MaxTrades] = Sums(S)[MaxTrades] + p.margin
<1>. DEFINE T == S \cup {p}
<1>1. T \in SUBSET Position /\ \A o, q \in T : o.id = q.id => o = q
  OBVIOUS
<1>2. p.id \in 1..MaxTrades /\ p.margin \in Int
  BY BookAssumption DEF Position
<1>3. ASSUME NEW n \in 1..MaxTrades
      PROVE  Part(T, n) = Part(S, n) + (IF n = p.id THEN p.margin ELSE 0)
  <2>1. CASE n = p.id
    <3>1. Part(S, n) = 0
      BY <2>1, NoPart
    <3>2. p \in T
      OBVIOUS
    <3>. HIDE DEF T
    <3>3. Part(T, n) = p.margin
      BY <1>1, <2>1, <3>2, PartIs
    <3>. QED
      BY <1>2, <2>1, <3>1, <3>3
  <2>2. CASE n # p.id
    <3>1. CASE \E o \in S : o.id = n
      <4>1. PICK o \in S : o.id = n
        BY <3>1
      <4>2. o \in T
        OBVIOUS
      <4>. HIDE DEF T
      <4>3. Part(T, n) = o.margin /\ Part(S, n) = o.margin
        BY <1>1, <4>1, <4>2, PartIs
      <4>4. o.margin \in Int
        BY BookAssumption DEF Position
      <4>. QED
        BY <2>2, <4>3, <4>4
    <3>2. CASE ~\E o \in S : o.id = n
      <4>1. \A o \in T : o.id # n
        BY <2>2, <3>2
      <4>. HIDE DEF T
      <4>2. Part(T, n) = 0 /\ Part(S, n) = 0
        BY <3>2, <4>1, NoPart
      <4>. QED
        BY <2>2, <4>2
    <3>. QED
      BY <3>1, <3>2
  <2>. QED
    BY <2>1, <2>2
<1>. HIDE DEF T
<1>4. Sums(T)[MaxTrades] = Sums(S)[MaxTrades] + p.margin
  BY <1>1, <1>2, <1>3, SumMoves
<1>. QED
  BY <1>4 DEF T

\* What the margin was found for is still there, or another process wrote trades.
Found ==
  \A r \in Runner : stage[r] = "reserved" => margin[r] <= Available \/ disturbed[r]

\* In a process, one runner at a time is between the check and the insert.
OneInserts ==
  \A r, q \in Runner :
    stage[r] = "reserved" /\ stage[q] = "reserved" /\ Home[r] = Home[q] => r = q

MarginInv == TypeOK /\ IdsTellApart /\ OneInserts /\ Found

\* An insert takes its margin off what is available.
LEMMA InsertTakes ==
  ASSUME TypeOK, IdsTellApart, NEW r \in Runner, Inserts(r)
  PROVE  /\ Available' = Available - margin[r]
         /\ Available \in Int /\ margin[r] \in Int
         /\ IdsTellApart'
<1>. USE BookAssumption
<1>. DEFINE new == [id |-> opened + 1, slot |-> slot(r), by |-> r, margin |-> margin[r]]
<1>1. /\ open' = open \cup {new} /\ opened' = opened + 1
      /\ opened + 1 \in 1..MaxTrades /\ realized' = realized
  BY DEF Inserts, TypeOK
<1>2. new \in Position /\ new.margin = margin[r] /\ new.id = opened + 1
  <2>1. slot(r) \in Slot
    BY SlotOf DEF Inserts, TypeOK, slot
  <2>. QED
    BY <1>1, <2>1 DEF Position, TypeOK
<1>3. open \in SUBSET Position /\ realized \in Int /\ margin[r] \in Int /\ opened \in Nat
  BY DEF TypeOK
<1>. HIDE DEF new
<1>4. \A o \in open : o.id \in Int /\ o.id <= opened /\ o.id # new.id
  BY <1>2, <1>3 DEF IdsTellApart, Position
<1>5. Sums(open \cup {new})[MaxTrades] = Sums(open)[MaxTrades] + new.margin
  BY <1>2, <1>3, <1>4, SumGains DEF IdsTellApart
<1>6. Sums(open)[MaxTrades] \in Int
  BY <1>3, SumIs
<1>7. Reserved = Sums(open)[MaxTrades] /\ Reserved' = Sums(open \cup {new})[MaxTrades]
  <2>1. Reserved' = Sums(open')[MaxTrades]
    BY DEF Reserved, Sums, AddsUp, Part
  <2>. QED
    BY <1>1, <2>1, ReservedIsSum
<1>8. IdsTellApart'
  BY <1>1, <1>2, <1>3, <1>4 DEF IdsTellApart
<1>. QED
  BY <1>1, <1>2, <1>3, <1>5, <1>6, <1>7, <1>8 DEF Available

\* What is available depends on the trades alone.
LEMMA SameAvailable ==
  ASSUME UNCHANGED trades
  PROVE  Available' = Available
BY DEF trades, Available, Reserved

\* Every step keeps a margin that was found, or another process's trade marks it.
LEMMA StepFinds ==
  ASSUME MarginInv, [Next]_vars
  PROVE  MarginInv'
<1>. USE BookAssumption
<1>0. TypeOK' /\ TypeOK
  BY StepTyping DEF MarginInv
<1>. DEFINE Rest == IdsTellApart' /\ OneInserts' /\ Found'
<1>1. ASSUME NEW r \in Runner, Begins(r) \/ Skips(r) PROVE Rest
  <2>1. PICK i, snapshot, cooling : Goes(r, i, snapshot, cooling)
    BY <1>1 DEF Begins, Skips
  <2>2. /\ stage'[r] # "reserved"
        /\ \A q \in Runner : q # r => stage'[q] = stage[q]
    BY <1>0, <2>1, GoesAway
  <2>3. UNCHANGED <<margin, trades, disturbed, opened>>
    BY <1>1 DEF Begins, Skips, bounds
  <2>4. Available' = Available
    BY <2>3, SameAvailable
  <2>. QED
    BY <2>2, <2>3, <2>4 DEF MarginInv, IdsTellApart, OneInserts, Found, trades
<1>2. ASSUME NEW r \in Runner, Scans(r) PROVE Rest
  <2>1. UNCHANGED <<margin, trades, disturbed, opened>> /\ stage' = [stage EXCEPT ![r] = "entering"]
    BY <1>2 DEF Scans, bounds, history
  <2>2. Available' = Available
    BY <2>1, SameAvailable
  <2>. QED
    BY <1>0, <2>1, <2>2 DEF MarginInv, IdsTellApart, OneInserts, Found, trades, TypeOK
<1>3. ASSUME NEW r \in Runner, Reserves(r) PROVE Rest
  <2>1. PICK m \in 1..MaxMargin : m <= Available /\ margin' = [margin EXCEPT ![r] = m]
    BY <1>3 DEF Reserves
  <2>2. /\ UNCHANGED <<trades, opened>> /\ stage' = [stage EXCEPT ![r] = "reserved"]
        /\ disturbed' = [disturbed EXCEPT ![r] = FALSE] /\ Free(Home[r])
    BY <1>3 DEF Reserves, bounds
  <2>3. Available' = Available
    BY <2>2, SameAvailable
  <2>4. OneInserts'
    BY <1>0, <2>2 DEF MarginInv, OneInserts, Free, TypeOK
  <2>5. Found'
    BY <1>0, <2>1, <2>2, <2>3 DEF MarginInv, Found, TypeOK
  <2>. QED
    BY <2>2, <2>4, <2>5 DEF MarginInv, IdsTellApart, trades
<1>4. ASSUME NEW r \in Runner, Inserts(r) PROVE Rest
  <2>1. /\ stage'[r] # "reserved"
        /\ \A q \in Runner : q # r => stage'[q] = stage[q]
    BY <1>0, <1>4, GoesAway DEF Inserts
  <2>2. stage[r] = "reserved" /\ disturbed' = [q \in Runner |-> stage[q] = "reserved" /\ Home[q] # Home[r]]
    BY <1>4 DEF Inserts, Disturbs
  <2>3. IdsTellApart'
    BY <1>0, <1>4, InsertTakes DEF MarginInv
  <2>4. OneInserts'
    BY <2>1 DEF MarginInv, OneInserts
  <2>5. ASSUME NEW q \in Runner, stage'[q] = "reserved" PROVE disturbed'[q]
    BY <2>1, <2>2, <2>5 DEF MarginInv, OneInserts
  <2>6. Found'
    BY <2>5 DEF Found
  <2>. QED
    BY <2>3, <2>4, <2>6
<1>8. ASSUME NEW r \in Runner, InsertThrows(r) PROVE Rest
  <2>1. /\ UNCHANGED <<trades, opened>> /\ stage'[r] # "reserved"
        /\ margin' = [margin EXCEPT ![r] = 0] /\ disturbed' = [disturbed EXCEPT ![r] = FALSE]
        /\ \A q \in Runner : q # r => stage'[q] = stage[q]
    BY <1>0, <1>8, GoesAway DEF InsertThrows, bounds
  <2>2. Available' = Available
    BY <2>1, SameAvailable
  <2>. QED
    BY <1>0, <2>1, <2>2 DEF MarginInv, IdsTellApart, OneInserts, Found, trades, TypeOK
<1>5. ASSUME NEW h \in Process, Restarts(h) PROVE Rest
  <2>1. /\ UNCHANGED <<trades, opened>>
        /\ \A q \in Runner : stage'[q] = "reserved" =>
             stage[q] = "reserved" /\ margin'[q] = margin[q] /\ disturbed'[q] = disturbed[q]
    BY <1>0, <1>5 DEF Restarts, TypeOK
  <2>2. Available' = Available
    BY <2>1, SameAvailable
  <2>. QED
    BY <2>1, <2>2 DEF MarginInv, IdsTellApart, OneInserts, Found, trades
<1>6. ASSUME NEW o \in open, NEW pnl \in Pnls, Closes(o, pnl) PROVE Rest
  <2>1. /\ open' = open \ {o} /\ UNCHANGED <<stage, opened>>
        /\ disturbed' = [q \in Runner |-> stage[q] = "reserved" /\ Home[q] # MonitorHome]
        /\ \A q \in Runner : Home[q] = MonitorHome => stage[q] # "reserved"
    BY <1>6 DEF Closes, Disturbs, Free, cycles, bounds
  <2>. QED
    BY <2>1 DEF MarginInv, IdsTellApart, OneInserts, Found
<1>7. ASSUME \/ \E p \in Profile : Cools(p)
             \/ Midnight \/ UNCHANGED vars
      PROVE  Rest
  <2>1. UNCHANGED <<stage, margin, trades, disturbed, opened>>
    BY <1>7 DEF Cools, Midnight, vars, cycles, history, bounds
  <2>2. Available' = Available
    BY <2>1, SameAvailable
  <2>. QED
    BY <2>1, <2>2 DEF MarginInv, IdsTellApart, OneInserts, Found, trades
<1>. QED
  BY <1>0, <1>1, <1>2, <1>3, <1>4, <1>5, <1>6, <1>7, <1>8 DEF Next, MarginInv

\* The book keeps the invariant of the margin.
LEMMA MarginInvHolds == Spec => []MarginInv
<1>1. Init => MarginInv
  <2>1. ASSUME Init PROVE IdsTellApart /\ OneInserts /\ Found
    BY <2>1 DEF Init, IdsTellApart, OneInserts, Found
  <2>. QED
    BY <2>1, InitTyping DEF MarginInv
<1>. QED
  BY <1>1, StepFinds, PTL DEF Spec

\* A position leaves the margin covered unless another process traded in between.
THEOREM MarginHolds == Spec => MarginIsCovered
<1>. DEFINE Covered == \A o \in open' \ open : Available' >= 0 \/ disturbed[o.by]
<1>1. MarginInv /\ [Next]_vars => [Covered]_vars
  <2>1. ASSUME MarginInv, [Next]_vars, NEW o \in open' \ open
        PROVE  Available' >= 0 \/ disturbed[o.by]
    <3>1. PICK r \in Runner : Inserts(r) /\ stage[r] = "reserved" /\ o.by = r
      BY <2>1, OpensByInsert DEF MarginInv
    <3>2. Available' = Available - margin[r] /\ Available \in Int /\ margin[r] \in Int
      BY <2>1, <3>1, InsertTakes DEF MarginInv
    <3>3. margin[r] <= Available \/ disturbed[r]
      BY <2>1, <3>1 DEF MarginInv, Found
    <3>. QED
      BY <3>1, <3>2, <3>3
  <2>. QED
    BY <2>1
<1>. QED
  BY <1>1, MarginInvHolds, PTL DEF Spec, MarginIsCovered

\* A closed position gives its margin back, and what it won or lost.
LEMMA CloseReturns ==
  ASSUME MarginInv, NEW o \in open, NEW pnl \in Pnls, Closes(o, pnl)
  PROVE  /\ Available' = Available + o.margin + pnl
         /\ realized' - realized = pnl
         /\ Available \in Int /\ o.margin \in Int /\ pnl \in Int
<1>. USE BookAssumption
<1>1. open' = open \ {o} /\ realized' = realized + pnl
  BY DEF Closes
<1>2. open \in SUBSET Position /\ realized \in Int /\ pnl \in Int /\ o.margin \in Int
  BY DEF MarginInv, TypeOK, Position
<1>3. \A p, q \in open : p.id = q.id => p = q
  BY DEF MarginInv, IdsTellApart
<1>. DEFINE S == open \ {o}
<1>4. /\ S \in SUBSET Position /\ S \cup {o} = open /\ o \in Position
      /\ \A p, q \in S : p.id = q.id => p = q
      /\ \A p \in S : p.id # o.id
  BY <1>2, <1>3
<1>. HIDE DEF S
<1>5. Sums(S \cup {o})[MaxTrades] = Sums(S)[MaxTrades] + o.margin
  BY <1>4, SumGains
<1>6. Sums(S)[MaxTrades] \in Int
  BY <1>4, SumIs
<1>7. Reserved = Sums(open)[MaxTrades] /\ Reserved' = Sums(S)[MaxTrades]
  <2>1. Reserved' = Sums(open')[MaxTrades]
    BY DEF Reserved, Sums, AddsUp, Part
  <2>. QED
    BY <1>1, <2>1, ReservedIsSum DEF S
<1>8. Reserved' = Reserved - o.margin /\ Reserved \in Int
  <2>1. Reserved = Sums(S)[MaxTrades] + o.margin
    BY <1>4, <1>5, <1>7, Zenon
  <2>. QED
    BY <1>2, <1>6, <1>7, <2>1
<1>9. realized' - realized = pnl /\ realized' \in Int
  BY <1>1, <1>2
<1>. QED
  BY <1>1, <1>2, <1>8, <1>9 DEF Available

\* Nothing but these takes the available margin below zero: a loss that is larger
\* than the margin of the position that made it, and an insert between whose check
\* and whose write another process wrote a trade.
OverdrawnOnlyBy ==
  [][Available >= 0 /\ Available' < 0 =>
       \/ \E o \in open \ open' : realized - realized' > o.margin
       \/ \E o \in open' \ open : disturbed[o.by]]_vars

\* The available margin falls below zero only as OverdrawnOnlyBy says.
THEOREM OverdraftHolds == Spec => OverdrawnOnlyBy
<1>. DEFINE Caused == \/ \E o \in open \ open' : realized - realized' > o.margin
                      \/ \E o \in open' \ open : disturbed[o.by]
<1>1. MarginInv /\ [Next]_vars => [Available >= 0 /\ Available' < 0 => Caused]_vars
  <2>1. SUFFICES ASSUME MarginInv, [Next]_vars, Available >= 0, Available' < 0
                 PROVE  Caused
    OBVIOUS
  <2>2. ASSUME NEW r \in Runner, Inserts(r) PROVE Caused
    <3>. DEFINE new == [id |-> opened + 1, slot |-> slot(r), by |-> r, margin |-> margin[r]]
    <3>1. open' = open \cup {new} /\ new.by = r /\ new.id = opened + 1 /\ stage[r] = "reserved"
      BY <2>2 DEF Inserts
    <3>2. new \notin open
      <4>1. opened \in Nat
        BY <2>1 DEF MarginInv, TypeOK
      <4>2. \A o \in open : o.id <= opened
        BY <2>1 DEF MarginInv, IdsTellApart
      <4>. HIDE DEF new
      <4>. QED
        BY <3>1, <4>1, <4>2
    <3>3. Available' = Available - margin[r] /\ Available \in Int /\ margin[r] \in Int
      BY <2>1, <2>2, InsertTakes DEF MarginInv
    <3>4. disturbed[r]
      BY <2>1, <3>1, <3>3 DEF MarginInv, Found
    <3>. HIDE DEF new
    <3>. QED
      BY <3>1, <3>2, <3>4
  <2>3. ASSUME NEW o \in open, NEW pnl \in Pnls, Closes(o, pnl) PROVE Caused
    <3>1. /\ Available' = Available + o.margin + pnl /\ realized' - realized = pnl
          /\ Available \in Int /\ o.margin \in Int /\ pnl \in Int
      BY <2>1, <2>3, CloseReturns
    <3>2. realized \in Int /\ realized' \in Int /\ o \in open \ open'
      BY <2>1, <2>3, <3>1 DEF MarginInv, TypeOK, Closes
    <3>3. o.margin + pnl < 0
      <4>1. Available >= 0 /\ Available' < 0
        BY <2>1
      <4>. QED
        BY <3>1, <4>1
    <3>4. realized - realized' > o.margin
      <4>1. ASSUME NEW x \in Int, NEW y \in Int, NEW m \in Int, NEW p \in Int,
                   y - x = p, m + p < 0
            PROVE  x - y > m
        BY <4>1
      <4>2. realized \in Int /\ realized' \in Int /\ o.margin \in Int /\ pnl \in Int
        BY <3>1, <3>2
      <4>. QED
        BY <3>1, <3>3, <4>1, <4>2, Zenon
    <3>. QED
      BY <3>2, <3>4
  <2>4. ASSUME UNCHANGED trades PROVE FALSE
    <3>1. Available' = Available
      BY <2>4, SameAvailable
    <3>2. Available \in Int
      <4>1. open \in SUBSET Position
        BY <2>1 DEF MarginInv, TypeOK
      <4>2. Reserved \in Int
        BY <4>1, ReservedIsSum, SumIs, BookAssumption
      <4>. QED
        BY <2>1, <4>2, BookAssumption DEF Available, MarginInv, TypeOK
    <3>. QED
      BY <2>1, <3>1, <3>2
  <2>5. CASE \/ \E r \in Runner : Begins(r) \/ Skips(r) \/ Scans(r) \/ Reserves(r) \/ InsertThrows(r)
             \/ \E h \in Process : Restarts(h)
             \/ \E p \in Profile : Cools(p)
             \/ Midnight \/ UNCHANGED vars
    <3>1. UNCHANGED trades
      BY <2>5 DEF Begins, Skips, Scans, Reserves, InsertThrows, Restarts, Cools, Midnight, vars
    <3>. QED
      BY <2>4, <3>1
  <2>. QED
    BY <2>1, <2>2, <2>3, <2>5 DEF Next
<1>. QED
  BY <1>1, MarginInvHolds, PTL DEF Spec, OverdrawnOnlyBy

-------------------------------------------------------------------------------
(***************************************************************************)
(* How many positions a slot can have.                                      *)
(***************************************************************************)
\* However many cycles overlap, a slot has no more open positions than there are
\* lines of cycles: the bound that OnePerRunner puts on a check made three awaits
\* before the insert (hasOpenPosition).
THEOREM SlotIsBounded ==
  ASSUME IsFiniteSet(Runner)
  PROVE  Spec => [](\A s \in Slot : Cardinality({o \in open : o.slot = s}) <= Cardinality(Runner))
<1>1. ASSUME TypeOK, OnePerRunner, NEW s \in Slot
      PROVE  Cardinality({o \in open : o.slot = s}) <= Cardinality(Runner)
  <2>. DEFINE S == {o \in open : o.slot = s}
              by == [o \in S |-> o.by]
  <2>1. by \in [S -> Runner]
    BY <1>1 DEF TypeOK, Position
  <2>2. \A o, q \in S : by[o] = by[q] => o = q
    BY <1>1 DEF OnePerRunner
  <2>3. by \in Injection(S, Runner)
    BY <2>1, <2>2 DEF Injection, IsInjective
  <2>. HIDE DEF S, by
  <2>4. Cardinality(S) <= Cardinality(Runner)
    BY <2>3, FS_Injection
  <2>. QED
    BY <2>4 DEF S
<1>2. TypeOK /\ OnePerRunner
        => \A s \in Slot : Cardinality({o \in open : o.slot = s}) <= Cardinality(Runner)
  BY <1>1
<1>. QED
  BY <1>2, Typing, OnePerRunnerHolds, PTL
===============================================================================
