------------------------- MODULE StagedRolloutProofs -------------------------
(***************************************************************************)
(* What a rollout records, for any nodes, configurations, requests and     *)
(* bounds: the remaining nodes were told before it was broadened, and the  *)
(* version it goes back to is an older one.  Handlers act on what they     *)
(* read some calls earlier; HandlerFits says what is still true of it.     *)
(***************************************************************************)
EXTENDS StagedRollout, FiniteSetTheorems, TLAPS

\* Rows have numbers that grow no faster than the table, and one is highest.
Numbered(table) ==
    /\ \A i \in DOMAIN table : table[i].version <= i
    /\ table # <<>> => Latest(table) # {}

ToldOf(release, record, pushes) ==
    \A n \in Nodes \ record.canaryNodes : <<release, n>> \in pushes

OlderIn(table, previous, canary) ==
    previous # NoRow => table[previous].version < table[canary].version

\* A rollout names rows that exist, and was announced if it is broadened.
ReleaseFits(r, table, rollouts, pushes) ==
    /\ rollouts[r].canary \in DOMAIN table
    /\ rollouts[r].previous \in {NoRow} \cup DOMAIN table
    /\ OlderIn(table, rollouts[r].previous, rollouts[r].canary)
    /\ rollouts[r].status = "BROADENED" => ToldOf(r, rollouts[r], pushes)

\* Which calls belong to which operation, and what they need to be named.
CallFits(state, rollouts) ==
    /\ state.todo \subseteq DOMAIN rollouts
    /\ state.todo # {} => state.op = "health"
    /\ state.at \in {"next", "broaden"} => state.op = "health"
    /\ state.at = "budget" => state.op \in {"health", "broaden"}
    /\ state.at \in {"graph", "previous"} => state.op = "create"
    /\ state.at \in {"versions", "disable", "active"} => state.op = "auto"
    /\ state.at = "restore" => state.op \in {"rollback", "auto"}
    /\ state.at \in {"broaden", "budget"} \/ state.op = "rollback"
         \/ (state.at = "record" /\ state.op # "create")
         => state.release \in DOMAIN rollouts

\* What a handler has read of the version table still holds.
ReadFits(state, table) ==
    /\ state.at \in {"previous", "number", "insert"} => state.config \in Configs
    /\ state.at = "restore" => state.source \in DOMAIN table
    /\ state.at = "insert" => state.number \in 1 .. Len(table) + 1

\* createRollout: the canary gets a higher number than what it replaces.
CreateFits(state, table) ==
    state.op = "create" =>
      /\ state.at \in {"number", "insert", "publish", "record"} =>
            state.source \in {NoRow} \cup DOMAIN table
      /\ state.at = "insert" /\ state.source # NoRow =>
            table[state.source].version < state.number
      /\ state.at \in {"publish", "record"} =>
            /\ state.row \in DOMAIN table
            /\ OlderIn(table, state.source, state.row)

\* broadenRollout: the pushes come before the record.
BroadenFits(state, rollouts, pushes) ==
    state.at = "record" /\ state.op \in {"broaden", "health"} =>
        ToldOf(state.release, rollouts[state.release], pushes)

\* rollbackRollout: the copy is one of the row the rollout keeps as previous.
RollbackFits(state, table, rollouts) ==
    state.op = "rollback" =>
      /\ state.at \in {"restore", "number", "insert"} =>
            rollouts[state.release].previous \in DOMAIN table
      /\ state.at = "restore" => state.source = rollouts[state.release].previous
      /\ state.at \in {"number", "insert"} =>
            state.config = table[rollouts[state.release].previous].config

HandlerFits(state, table, rollouts, pushes) ==
    /\ CallFits(state, rollouts)
    /\ ReadFits(state, table)
    /\ CreateFits(state, table)
    /\ BroadenFits(state, rollouts, pushes)
    /\ RollbackFits(state, table, rollouts)

\* The handlers that will insert a row, and those that will record a rollout.
Inserting ==
    {h \in Handlers : handler[h].at \in
        {"graph", "previous", "number", "insert", "restore", "versions"}}
Creating == {h \in Busy : handler[h].op = "create"}

Bounded ==
    /\ Len(rows) + Cardinality(Inserting) <= MaxRows
    /\ Len(releases) + Cardinality(Creating) <= MaxReleases

Inv ==
    /\ TypeOK
    /\ Numbered(rows)
    /\ \A r \in DOMAIN releases : ReleaseFits(r, rows, releases, told)
    /\ \A h \in Handlers : HandlerFits(handler[h], rows, releases, told)
    /\ Bounded

-----------------------------------------------------------------------------
(***************************************************************************)
(* The version table.                                                      *)
(***************************************************************************)

\* A table that grew by rows at its end.
Grown(table, later) ==
    /\ Len(table) <= Len(later)
    /\ \A i \in DOMAIN table : later[i] = table[i]

LEMMA TableFacts ==
    ASSUME NEW table \in Seq(Rows)
    PROVE  /\ Len(table) \in Nat /\ DOMAIN table = 1 .. Len(table)
           /\ \A i \in DOMAIN table : table[i] \in Rows /\ table[i].version \in Nat
           /\ table # <<>> => Len(table) > 0
           /\ NoRow \notin DOMAIN table
<1>1. Len(table) \in Nat /\ DOMAIN table = 1 .. Len(table)
  OBVIOUS
<1>2. \A i \in DOMAIN table : table[i] \in Rows
  BY <1>1
<1>3. \A row \in Rows : row.version \in Nat
  BY StagedRolloutAssumption DEF Rows
<1>4. table # <<>> => Len(table) > 0
  BY <1>1
<1> QED BY <1>1, <1>2, <1>3, <1>4 DEF NoRow

LEMMA GrownFacts ==
    ASSUME NEW table \in Seq(Rows), NEW later \in Seq(Rows), Grown(table, later)
    PROVE  DOMAIN table \subseteq DOMAIN later
BY TableFacts DEF Grown

LEMMA AppendGrows ==
    ASSUME NEW table \in Seq(Rows), NEW row \in Rows
    PROVE  LET later == Append(table, row) IN
           /\ later \in Seq(Rows) /\ Len(later) = Len(table) + 1
           /\ Grown(table, later) /\ later[Len(later)] = row
<1> DEFINE later == Append(table, row)
<1>1. later \in Seq(Rows) /\ Len(later) = Len(table) + 1
  OBVIOUS
<1>2. \A i \in 1 .. Len(table) : later[i] = table[i]
  OBVIOUS
<1>3. later[Len(table) + 1] = row
  OBVIOUS
<1>4. DOMAIN table = 1 .. Len(table) /\ Len(table) \in Nat
  OBVIOUS
<1> HIDE DEF later
<1>5. Grown(table, later)
  BY <1>1, <1>2, <1>4 DEF Grown
<1> QED BY <1>1, <1>3, <1>5 DEF later

\* The highest row stays the highest, or the new one is.
LEMMA AppendNumbered ==
    ASSUME NEW table \in Seq(Rows), Numbered(table),
           NEW row \in Rows, row.version <= Len(table) + 1
    PROVE  Numbered(Append(table, row))
<1> DEFINE later == Append(table, row)
<1>1. /\ later \in Seq(Rows) /\ Len(later) = Len(table) + 1
      /\ Grown(table, later) /\ later[Len(later)] = row
  BY AppendGrows
<1> HIDE DEF later
<1>2. /\ Len(table) \in Nat /\ DOMAIN table = 1 .. Len(table)
      /\ \A i \in DOMAIN table : table[i].version \in Nat
      /\ DOMAIN later = 1 .. Len(table) + 1
      /\ \A i \in DOMAIN later : later[i].version \in Nat
      /\ table # <<>> => Len(table) > 0
  BY <1>1, TableFacts
<1>3. \A i \in DOMAIN later : i \in DOMAIN table \/ i = Len(table) + 1
  BY <1>2
<1>4. \A i \in DOMAIN table : later[i] = table[i]
  BY <1>1 DEF Grown
<1>5. \A i \in DOMAIN later : later[i].version <= i
  BY <1>1, <1>3, <1>4 DEF Numbered
<1>6. Latest(later) # {}
  <2>1. CASE table = <<>>
    <3>1. Len(table) = 0
      BY <2>1
    <3>2. DOMAIN later = {1}
      BY <1>2, <3>1
    <3>3. later[1].version \in Nat
      BY <1>2, <3>2
    <3>4. \A j \in {1} : later[j].version <= later[1].version
      BY <3>3
    <3> QED BY <3>2, <3>4 DEF Latest, Highest
  <2>2. CASE table # <<>>
    <3>1. PICK i \in DOMAIN table : \A j \in DOMAIN table : table[j].version <= table[i].version
      BY <2>2 DEF Numbered, Latest, Highest
    <3>2. i \in DOMAIN later /\ Len(table) + 1 \in DOMAIN later
      BY <1>2
    <3>3. CASE row.version <= table[i].version
      <4>1. \A j \in DOMAIN later : later[j].version <= later[i].version
        BY <1>1, <1>3, <1>4, <3>1, <3>3
      <4> QED BY <3>2, <4>1 DEF Latest, Highest
    <3>4. CASE table[i].version <= row.version
      <4>1. \A j \in DOMAIN table : table[j].version <= row.version
        BY <1>1, <1>2, <3>1, <3>2, <3>4
      <4>2. \A j \in DOMAIN later : later[j].version <= later[Len(table) + 1].version
        BY <1>1, <1>2, <1>3, <1>4, <3>2, <4>1
      <4> QED BY <3>2, <4>2 DEF Latest, Highest
    <3> QED BY <1>1, <1>2, <3>2, <3>3, <3>4
  <2> QED BY <2>1, <2>2
<1> QED BY <1>5, <1>6 DEF Numbered, later

\* createVersion's number is above every number of the table.
LEMMA NextNumberIsNew ==
    ASSUME NEW table \in Seq(Rows), Numbered(table)
    PROVE  /\ NextNumber(table) \in 1 .. Len(table) + 1
           /\ \A i \in DOMAIN table : table[i].version < NextNumber(table)
<1>1. CASE table = <<>>
  BY <1>1, TableFacts DEF NextNumber
<1>2. CASE table # <<>>
  <2> DEFINE top == CHOOSE i \in Latest(table) : TRUE
  <2>1. top \in DOMAIN table /\ \A j \in DOMAIN table : table[j].version <= table[top].version
    BY <1>2 DEF Numbered, Latest, Highest
  <2>2. NextNumber(table) = table[top].version + 1
    BY <1>2 DEF NextNumber
  <2> HIDE DEF top
  <2>3. table[top].version <= top /\ top \in 1 .. Len(table)
    BY <2>1, TableFacts DEF Numbered
  <2> QED BY <2>1, <2>2, <2>3, TableFacts
<1> QED BY <1>1, <1>2

LEMMA LatestExist ==
    ASSUME NEW table
    PROVE  /\ Latest(table) \subseteq DOMAIN table
           /\ SecondLatest(table) \subseteq {NoRow} \cup DOMAIN table
BY DEF Latest, SecondLatest, RunnersUp, Highest

-----------------------------------------------------------------------------
(***************************************************************************)
(* What rows, rollouts and handlers rely on survives the steps of others:  *)
(* rows are only added, and of a rollout only its status and the end of    *)
(* its window change.                                                      *)
(***************************************************************************)
Kept(rollouts, later) ==
    /\ DOMAIN rollouts \subseteq DOMAIN later
    /\ \A r \in DOMAIN rollouts :
          /\ later[r].canary = rollouts[r].canary
          /\ later[r].previous = rollouts[r].previous
          /\ later[r].canaryNodes = rollouts[r].canaryNodes

Progress == Grown(rows, rows') /\ Kept(releases, releases') /\ told \subseteq told'

LEMMA HandlerKeeps ==
    ASSUME NEW table \in Seq(Rows), NEW table2 \in Seq(Rows), Grown(table, table2),
           NEW rollouts, NEW rollouts2, Kept(rollouts, rollouts2),
           NEW pushes, NEW pushes2, pushes \subseteq pushes2,
           NEW state, HandlerFits(state, table, rollouts, pushes)
    PROVE  HandlerFits(state, table2, rollouts2, pushes2)
<1>1. /\ DOMAIN table \subseteq DOMAIN table2
      /\ \A i \in DOMAIN table : table2[i] = table[i]
      /\ Len(table) \in Nat /\ Len(table2) \in Nat /\ Len(table) <= Len(table2)
      /\ NoRow \notin DOMAIN table
  BY GrownFacts, TableFacts DEF Grown
<1>2. CallFits(state, rollouts2)
  BY DEF HandlerFits, CallFits, Kept
<1>3. ReadFits(state, table2)
  <2>1. 1 .. Len(table) + 1 \subseteq 1 .. Len(table2) + 1
    BY <1>1
  <2> QED BY <1>1, <2>1 DEF HandlerFits, ReadFits
<1>4. CreateFits(state, table2)
  BY <1>1 DEF HandlerFits, CreateFits, OlderIn
<1>5. BroadenFits(state, rollouts2, pushes2)
  <2>1. state.at = "record" /\ state.op \in {"broaden", "health"} =>
            state.release \in DOMAIN rollouts
    BY DEF HandlerFits, CallFits
  <2> QED BY <2>1 DEF HandlerFits, BroadenFits, ToldOf, Kept
<1>6. RollbackFits(state, table2, rollouts2)
  <2>1. state.op = "rollback" => state.release \in DOMAIN rollouts
    BY DEF HandlerFits, CallFits
  <2> QED BY <1>1, <2>1 DEF HandlerFits, RollbackFits, Kept
<1> QED BY <1>2, <1>3, <1>4, <1>5, <1>6 DEF HandlerFits

LEMMA ReleaseKeeps ==
    ASSUME NEW table \in Seq(Rows), NEW table2 \in Seq(Rows), Grown(table, table2),
           NEW rollouts, NEW rollouts2, Kept(rollouts, rollouts2),
           NEW pushes, NEW pushes2, pushes \subseteq pushes2,
           NEW r \in DOMAIN rollouts, ReleaseFits(r, table, rollouts, pushes),
           rollouts2[r].status = "BROADENED" => ToldOf(r, rollouts2[r], pushes2)
    PROVE  ReleaseFits(r, table2, rollouts2, pushes2)
<1>1. /\ DOMAIN table \subseteq DOMAIN table2
      /\ \A i \in DOMAIN table : table2[i] = table[i]
      /\ NoRow \notin DOMAIN table
  BY GrownFacts, TableFacts DEF Grown
<1> QED BY <1>1 DEF ReleaseFits, OlderIn, Kept

-----------------------------------------------------------------------------
(***************************************************************************)
(* The bounds: handlers that will add a row have room for it.              *)
(***************************************************************************)
InsertPlaces == {"graph", "previous", "number", "insert", "restore", "versions"}

LEMMA HandlersFinite == IsFiniteSet(Handlers)
<1>1. IsFiniteSet({"healthTick"} \cup {"rollbackTick"})
  BY FS_Singleton, FS_Union
<1>2. Handlers = Requests \cup ({"healthTick"} \cup {"rollbackTick"})
  BY DEF Handlers
<1> QED BY <1>1, <1>2, StagedRolloutAssumption, FS_Union

\* How a set of handlers may change, and by how much it then grows.
LEMMA Counting ==
    ASSUME NEW S \in SUBSET Handlers, NEW T \in SUBSET Handlers, NEW h \in Handlers
    PROVE  /\ Cardinality(S) \in Nat /\ Cardinality(T) \in Nat
           /\ T \subseteq S => Cardinality(T) <= Cardinality(S)
           /\ T \subseteq S \cup {h} => Cardinality(T) <= Cardinality(S) + 1
           /\ h \in S /\ T \subseteq S \ {h} => Cardinality(T) + 1 <= Cardinality(S)
<1>1. IsFiniteSet(S) /\ IsFiniteSet(T) /\ IsFiniteSet(S \cup {h}) /\ IsFiniteSet(S \ {h})
  BY HandlersFinite, FS_Subset, FS_AddElement, FS_RemoveElement
<1>2. Cardinality(S) \in Nat /\ Cardinality(T) \in Nat
  BY <1>1, FS_CardinalityType
<1>3. T \subseteq S => Cardinality(T) <= Cardinality(S)
  BY <1>1, FS_Subset
<1>4. T \subseteq S \cup {h} => Cardinality(T) <= Cardinality(S) + 1
  <2>1. T \subseteq S \cup {h} => Cardinality(T) <= Cardinality(S \cup {h})
    BY <1>1, FS_Subset
  <2>2. Cardinality(S \cup {h}) = IF h \in S THEN Cardinality(S) ELSE Cardinality(S) + 1
    BY <1>1, FS_AddElement
  <2> QED BY <1>2, <2>1, <2>2
<1>5. h \in S /\ T \subseteq S \ {h} => Cardinality(T) + 1 <= Cardinality(S)
  <2>1. T \subseteq S \ {h} => Cardinality(T) <= Cardinality(S \ {h})
    BY <1>1, FS_Subset
  <2>2. Cardinality(S \ {h}) = IF h \in S THEN Cardinality(S) - 1 ELSE Cardinality(S)
    BY <1>1, FS_RemoveElement
  <2> QED BY <1>2, <2>1, <2>2
<1> QED BY <1>2, <1>3, <1>4, <1>5

-----------------------------------------------------------------------------
(***************************************************************************)
(* One handler moves.                                                      *)
(***************************************************************************)
PipelineType == pipeline \in [graph: Configs, deployed: BOOLEAN, autoRollback: BOOLEAN]

\* What a step leaves to be shown of the other variables.
RestTyped ==
    /\ PipelineType'
    /\ inFlight' \in SUBSET {"health", "auto"}
    /\ told' \in SUBSET (ReleaseIds \X Nodes)
    /\ serving' \in [Nodes -> RowIds]

LEMMA RunFits ==
    ASSUME Inv, rows' \in Seq(Rows), Progress,
           NEW h \in Handlers, NEW state \in HandlerStates, Run(h, state),
           HandlerFits(state, rows', releases', told')
    PROVE  /\ handler' \in [Handlers -> HandlerStates]
           /\ handler'[h] = state
           /\ \A g \in Handlers : g # h => handler'[g] = handler[g]
           /\ \A g \in Handlers : HandlerFits(handler'[g], rows', releases', told')
<1>1. /\ handler' \in [Handlers -> HandlerStates]
      /\ handler'[h] = state
      /\ \A g \in Handlers : g # h => handler'[g] = handler[g]
  BY DEF Inv, TypeOK, Run
<1>2. ASSUME NEW g \in Handlers, g # h
      PROVE  HandlerFits(handler'[g], rows', releases', told')
  <2>1. HandlerFits(handler[g], rows, releases, told) /\ rows \in Seq(Rows)
    BY DEF Inv, TypeOK
  <2>2. HandlerFits(handler[g], rows', releases', told')
    BY <2>1, HandlerKeeps DEF Progress
  <2> QED BY <1>1, <1>2, <2>2
<1> QED BY <1>1, <1>2

\* A handler goes on in a place where it needs no more room than before.
LEMMA RunBounded ==
    ASSUME Inv, NEW h \in Handlers, NEW state, handler'[h] = state,
           \A g \in Handlers : g # h => handler'[g] = handler[g],
           state.at \in InsertPlaces => handler[h].at \in InsertPlaces,
           state.op = "create" /\ state.at # "idle" =>
               handler[h].op = "create" /\ handler[h].at # "idle"
    PROVE  /\ Inserting' \subseteq Inserting
           /\ Creating' \subseteq Creating
           /\ Cardinality(Inserting') <= Cardinality(Inserting)
           /\ Cardinality(Creating') <= Cardinality(Creating)
<1>1. Inserting' \subseteq Inserting /\ Creating' \subseteq Creating
  BY DEF Inserting, Creating, Busy, InsertPlaces
<1>2. Inserting \subseteq Handlers /\ Creating \subseteq Handlers
  BY DEF Inserting, Creating, Busy
<1>3. "healthTick" \in Handlers
  BY DEF Handlers
<1> QED BY <1>1, <1>2, <1>3, Counting

LEMMA QuietRun ==
    ASSUME Inv, UNCHANGED <<rows, releases>>, told \subseteq told', RestTyped,
           NEW h \in Handlers, NEW state \in HandlerStates, Run(h, state),
           HandlerFits(state, rows, releases, told'),
           state.at \in InsertPlaces => handler[h].at \in InsertPlaces,
           state.op = "create" /\ state.at # "idle" =>
               handler[h].op = "create" /\ handler[h].at # "idle"
    PROVE  Inv'
<1>1. rows \in Seq(Rows) /\ rows' \in Seq(Rows)
  BY DEF Inv, TypeOK
<1>2. Progress
  BY <1>1, TableFacts DEF Progress, Grown, Kept
<1>3. /\ handler' \in [Handlers -> HandlerStates]
      /\ handler'[h] = state
      /\ \A g \in Handlers : g # h => handler'[g] = handler[g]
      /\ \A g \in Handlers : HandlerFits(handler'[g], rows', releases', told')
  BY <1>1, <1>2, RunFits
<1>4. TypeOK'
  BY <1>3 DEF Inv, TypeOK, RestTyped, PipelineType
<1>5. \A r \in DOMAIN releases : ReleaseFits(r, rows', releases', told')
  BY DEF Inv, ReleaseFits, ToldOf
<1>6. Cardinality(Inserting') <= Cardinality(Inserting)
      /\ Cardinality(Creating') <= Cardinality(Creating)
  BY <1>3, RunBounded
<1>7. Bounded'
  <2>1. "healthTick" \in Handlers /\ Inserting \in SUBSET Handlers /\ Creating \in SUBSET Handlers
        /\ Inserting' \in SUBSET Handlers /\ Creating' \in SUBSET Handlers
    BY DEF Handlers, Inserting, Creating, Busy
  <2>2. Cardinality(Inserting) \in Nat /\ Cardinality(Creating) \in Nat
        /\ Cardinality(Inserting') \in Nat /\ Cardinality(Creating') \in Nat
    BY <2>1, Counting
  <2>3. Len(rows) \in Nat /\ Len(releases) \in Nat
    BY DEF Inv, TypeOK
  <2> QED BY <1>6, <2>2, <2>3, StagedRolloutAssumption DEF Inv, Bounded
<1>8. Numbered(rows')
  BY DEF Inv
<1> QED BY <1>3, <1>4, <1>5, <1>7, <1>8 DEF Inv

-----------------------------------------------------------------------------
(***************************************************************************)
(* The end of a handler, or of one iteration of the health tick.           *)
(***************************************************************************)
LEMMA BlankFits ==
    ASSUME NEW table, NEW rollouts, NEW pushes
    PROVE  Blank \in HandlerStates /\ HandlerFits(Blank, table, rollouts, pushes)
<1>1. Blank \in HandlerStates
  BY StagedRolloutAssumption
     DEF Blank, HandlerStates, Operations, RowIds, NoRow, ReleaseIds
<1>2. /\ Blank.op = "none" /\ Blank.at = "idle" /\ Blank.todo = {}
  BY DEF Blank
<1> QED BY <1>1, <1>2 DEF HandlerFits, CallFits, ReadFits, CreateFits, BroadenFits, RollbackFits

LEMMA NextState ==
    ASSUME NEW state \in HandlerStates, NEW todo \in SUBSET ReleaseIds
    PROVE  [state EXCEPT !.at = "next", !.release = 0, !.todo = todo] \in HandlerStates
<1>1. 0 \in 0 .. MaxReleases
  BY StagedRolloutAssumption
<1> QED BY <1>1 DEF HandlerStates

LEMMA EndFits ==
    ASSUME Inv, NEW h \in Handlers, NEW todo \in SUBSET handler[h].todo,
           EndIteration(h, todo)
    PROVE  \E state \in HandlerStates :
              /\ Run(h, state)
              /\ state.at \notin InsertPlaces
              /\ ~(state.op = "create" /\ state.at # "idle")
              /\ \A table, rollouts, pushes : DOMAIN releases \subseteq DOMAIN rollouts
                    => HandlerFits(state, table, rollouts, pushes)
              /\ inFlight' \in SUBSET {"health", "auto"}
<1> DEFINE next == [handler[h] EXCEPT !.at = "next", !.release = 0, !.todo = todo]
<1>1. handler[h] \in HandlerStates /\ CallFits(handler[h], releases)
      /\ inFlight \in SUBSET {"health", "auto"}
  BY DEF Inv, TypeOK, HandlerFits
<1>2. CASE todo = {}
  <2>1. Run(h, Blank) /\ inFlight' \in SUBSET {"health", "auto"}
    BY <1>1, <1>2 DEF EndIteration
  <2>2. Blank.at = "idle"
    BY DEF Blank
  <2> QED BY <2>1, <2>2, BlankFits DEF InsertPlaces
<1>3. CASE todo # {}
  <2>1. Run(h, next) /\ inFlight' = inFlight
    BY <1>3 DEF EndIteration
  <2>2. handler[h].op = "health" /\ todo \subseteq DOMAIN releases
    BY <1>1, <1>3 DEF CallFits
  <2>3. todo \in SUBSET ReleaseIds
    BY <1>1 DEF HandlerStates
  <2>4. next \in HandlerStates
    BY <1>1, <2>3, NextState
  <2>5. next.op = "health" /\ next.at = "next" /\ next.todo = todo
    BY <1>1, <2>2 DEF HandlerStates
  <2> HIDE DEF next
  <2>6. ASSUME NEW table, NEW rollouts, NEW pushes, DOMAIN releases \subseteq DOMAIN rollouts
        PROVE  HandlerFits(next, table, rollouts, pushes)
    BY <2>2, <2>5, <2>6
       DEF HandlerFits, CallFits, ReadFits, CreateFits, BroadenFits, RollbackFits
  <2> QED BY <1>1, <2>1, <2>4, <2>5, <2>6 DEF InsertPlaces
<1> QED BY <1>2, <1>3

\* A handler that ends and writes nothing.
LEMMA QuietEnd ==
    ASSUME Inv, NEW h \in Handlers, NEW todo \in SUBSET handler[h].todo,
           EndIteration(h, todo), UNCHANGED <<rows, releases>>, told' = told,
           PipelineType', serving' = serving
    PROVE  Inv'
<1>1. PICK state \in HandlerStates :
              /\ Run(h, state)
              /\ state.at \notin InsertPlaces
              /\ ~(state.op = "create" /\ state.at # "idle")
              /\ \A table, rollouts, pushes : DOMAIN releases \subseteq DOMAIN rollouts
                    => HandlerFits(state, table, rollouts, pushes)
              /\ inFlight' \in SUBSET {"health", "auto"}
  BY EndFits
<1>2. RestTyped
  BY <1>1 DEF RestTyped, Inv, TypeOK
<1>3. HandlerFits(state, rows, releases, told')
  BY <1>1
<1> QED BY <1>1, <1>2, <1>3, QuietRun

-----------------------------------------------------------------------------
(***************************************************************************)
(* What a handler relies on after each of its calls.                       *)
(***************************************************************************)
\* A call that only moves the handler on, with what it must not forget.
LEMMA MoveFits ==
    ASSUME NEW state \in HandlerStates, NEW table, NEW rollouts, NEW pushes,
           HandlerFits(state, table, rollouts, pushes),
           NEW place \in {"record", "disable", "active", "budget"},
           \/ state.at = "publish" /\ place = "record" /\ state.op \in {"create", "rollback"}
           \/ state.at = "publish" /\ place = "disable" /\ state.op = "auto"
           \/ state.at = "disable" /\ place = "active" /\ state.op \notin {"create", "rollback"}
           \/ state.at = "broaden" /\ place = "budget"
    PROVE  LET next == [state EXCEPT !.at = place] IN
           /\ next \in HandlerStates /\ next.op = state.op /\ next.at = place
           /\ HandlerFits(next, table, rollouts, pushes)
<1> DEFINE next == [state EXCEPT !.at = place]
<1>1. next \in HandlerStates
  BY DEF HandlerStates
<1>2. /\ next.op = state.op /\ next.at = place /\ next.release = state.release
      /\ next.source = state.source /\ next.row = state.row /\ next.config = state.config
      /\ next.number = state.number /\ next.todo = state.todo
  BY DEF HandlerStates
<1> HIDE DEF next
<1>3. CallFits(next, rollouts)
  BY <1>2 DEF HandlerFits, CallFits
<1>4. ReadFits(next, table)
  BY <1>2 DEF ReadFits
<1>5. CreateFits(next, table)
  BY <1>2 DEF HandlerFits, CreateFits, CallFits
<1>6. BroadenFits(next, rollouts, pushes)
  BY <1>2 DEF BroadenFits
<1>7. RollbackFits(next, table, rollouts)
  BY <1>2 DEF RollbackFits
<1> QED BY <1>1, <1>2, <1>3, <1>4, <1>5, <1>6, <1>7 DEF HandlerFits, next

LEMMA ReadNumberFits ==
    ASSUME NEW state \in HandlerStates, NEW table \in Seq(Rows), NEW rollouts, NEW pushes,
           HandlerFits(state, table, rollouts, pushes), Numbered(table),
           state.at = "number", Len(table) + 1 <= MaxRows
    PROVE  LET next == [state EXCEPT !.at = "insert", !.number = NextNumber(table)] IN
           /\ next \in HandlerStates /\ next.op = state.op /\ next.at = "insert"
           /\ HandlerFits(next, table, rollouts, pushes)
<1> DEFINE n == NextNumber(table)
           next == [state EXCEPT !.at = "insert", !.number = n]
<1>0. /\ n \in 1 .. Len(table) + 1 /\ Len(table) \in Nat
      /\ \A i \in DOMAIN table : table[i].version < n
  BY NextNumberIsNew, TableFacts
<1> HIDE DEF n
<1>1. next \in HandlerStates
  <2>1. n \in RowIds
    BY <1>0, StagedRolloutAssumption DEF RowIds
  <2> QED BY <2>1 DEF HandlerStates
<1>2. /\ next.op = state.op /\ next.at = "insert" /\ next.release = state.release
      /\ next.source = state.source /\ next.row = state.row /\ next.config = state.config
      /\ next.number = n /\ next.todo = state.todo
  BY DEF HandlerStates
<1> HIDE DEF next
<1>3. CallFits(next, rollouts)
  BY <1>2 DEF HandlerFits, CallFits
<1>4. ReadFits(next, table)
  BY <1>0, <1>2 DEF HandlerFits, ReadFits
<1>5. CreateFits(next, table)
  BY <1>0, <1>2 DEF HandlerFits, CreateFits
<1>6. BroadenFits(next, rollouts, pushes)
  BY <1>2 DEF BroadenFits
<1>7. RollbackFits(next, table, rollouts)
  BY <1>2 DEF HandlerFits, RollbackFits
<1> QED BY <1>1, <1>2, <1>3, <1>4, <1>5, <1>6, <1>7 DEF HandlerFits, next, n

\* The graph and the version to go back to are read by createRollout only.
LEMMA ReadGraphFits ==
    ASSUME NEW state \in HandlerStates, NEW table, NEW rollouts, NEW pushes,
           HandlerFits(state, table, rollouts, pushes),
           state.at = "graph", NEW config \in Configs
    PROVE  LET next == [state EXCEPT !.at = "previous", !.config = config] IN
           /\ next \in HandlerStates /\ next.op = state.op /\ next.at = "previous"
           /\ HandlerFits(next, table, rollouts, pushes)
<1> DEFINE next == [state EXCEPT !.at = "previous", !.config = config]
<1>1. next \in HandlerStates
  BY DEF HandlerStates
<1>2. /\ next.op = state.op /\ next.at = "previous" /\ next.config = config
      /\ next.todo = state.todo
  BY DEF HandlerStates
<1> HIDE DEF next
<1>3. state.op = "create"
  BY DEF HandlerFits, CallFits
<1> QED BY <1>1, <1>2, <1>3
        DEF HandlerFits, CallFits, ReadFits, CreateFits, BroadenFits, RollbackFits, next

LEMMA ReadPreviousFits ==
    ASSUME NEW state \in HandlerStates, NEW table \in Seq(Rows), NEW rollouts, NEW pushes,
           HandlerFits(state, table, rollouts, pushes), Len(table) <= MaxRows,
           state.at = "previous", NEW i \in {NoRow} \cup DOMAIN table
    PROVE  LET next == [state EXCEPT !.at = "number", !.source = i] IN
           /\ next \in HandlerStates /\ next.op = state.op /\ next.at = "number"
           /\ HandlerFits(next, table, rollouts, pushes)
<1> DEFINE next == [state EXCEPT !.at = "number", !.source = i]
<1>1. next \in HandlerStates
  <2>1. i \in RowIds
    BY TableFacts, StagedRolloutAssumption DEF RowIds, NoRow
  <2> QED BY <2>1 DEF HandlerStates
<1>2. /\ next.op = state.op /\ next.at = "number" /\ next.source = i
      /\ next.config = state.config /\ next.todo = state.todo
  BY DEF HandlerStates
<1> HIDE DEF next
<1>3. state.op = "create" /\ state.config \in Configs
  BY DEF HandlerFits, CallFits, ReadFits
<1> QED BY <1>1, <1>2, <1>3
        DEF HandlerFits, CallFits, ReadFits, CreateFits, BroadenFits, RollbackFits, next

\* Every node outside the canary is told before the status is recorded.
LEMMA PassBudgetFits ==
    ASSUME NEW state \in HandlerStates, NEW table, NEW rollouts, NEW pushes, NEW pushes2,
           HandlerFits(state, table, rollouts, pushes), state.at = "budget",
           pushes2 = pushes \cup {<<state.release, n>> :
                               n \in Nodes \ rollouts[state.release].canaryNodes}
    PROVE  LET next == [state EXCEPT !.at = "record"] IN
           /\ next \in HandlerStates /\ next.op = state.op /\ next.at = "record"
           /\ HandlerFits(next, table, rollouts, pushes2)
<1> DEFINE next == [state EXCEPT !.at = "record"]
<1>1. next \in HandlerStates
  BY DEF HandlerStates
<1>2. /\ next.op = state.op /\ next.at = "record" /\ next.release = state.release
      /\ next.todo = state.todo
  BY DEF HandlerStates
<1> HIDE DEF next
<1>3. state.op \in {"health", "broaden"} /\ state.release \in DOMAIN rollouts
  BY DEF HandlerFits, CallFits
<1>4. ToldOf(state.release, rollouts[state.release], pushes2)
  BY DEF ToldOf
<1>5. CallFits(next, rollouts)
  BY <1>2, <1>3 DEF HandlerFits, CallFits
<1> QED BY <1>1, <1>2, <1>3, <1>4, <1>5
        DEF HandlerFits, ReadFits, CreateFits, BroadenFits, RollbackFits, next

\* deployFromVersion: the snapshot is the one of the row that was chosen.
LEMMA RestoreFits ==
    ASSUME NEW state \in HandlerStates, NEW table \in Seq(Rows), NEW rollouts, NEW pushes,
           HandlerFits(state, table, rollouts, pushes), state.at = "restore"
    PROVE  LET next == [state EXCEPT !.at = "number", !.source = NoRow,
                                     !.config = table[state.source].config] IN
           /\ next \in HandlerStates /\ next.op = state.op /\ next.at = "number"
           /\ HandlerFits(next, table, rollouts, pushes)
<1> DEFINE c == table[state.source].config
           next == [state EXCEPT !.at = "number", !.source = NoRow, !.config = c]
<1>0. state.source \in DOMAIN table /\ state.op \in {"rollback", "auto"}
  BY DEF HandlerFits, ReadFits, CallFits
<1>a. c \in Configs
  BY <1>0, TableFacts DEF Rows
<1>b. state.op = "rollback" =>
        /\ rollouts[state.release].previous \in DOMAIN table
        /\ c = table[rollouts[state.release].previous].config
  BY DEF HandlerFits, RollbackFits
<1> HIDE DEF c
<1>1. next \in HandlerStates
  <2>1. NoRow \in RowIds
    BY StagedRolloutAssumption DEF NoRow, RowIds
  <2> QED BY <1>a, <2>1 DEF HandlerStates
<1>2. /\ next.op = state.op /\ next.at = "number" /\ next.release = state.release
      /\ next.config = c /\ next.todo = state.todo
  BY DEF HandlerStates
<1> HIDE DEF next
<1>3. CallFits(next, rollouts)
  BY <1>2 DEF HandlerFits, CallFits
<1> QED BY <1>0, <1>a, <1>b, <1>1, <1>2, <1>3
        DEF HandlerFits, ReadFits, CreateFits, BroadenFits, RollbackFits, next, c

\* The loop of the auto-rollback names a row, and later a rollout.
LEMMA ExceededFits ==
    ASSUME NEW state \in HandlerStates, NEW table \in Seq(Rows), NEW rollouts, NEW pushes,
           HandlerFits(state, table, rollouts, pushes), Len(table) <= MaxRows,
           state.at = "versions", NEW i \in DOMAIN table
    PROVE  LET next == [state EXCEPT !.at = "restore", !.source = i] IN
           /\ next \in HandlerStates /\ next.op = state.op /\ next.at = "restore"
           /\ HandlerFits(next, table, rollouts, pushes)
<1> DEFINE next == [state EXCEPT !.at = "restore", !.source = i]
<1>1. next \in HandlerStates
  <2>1. i \in RowIds
    BY TableFacts, StagedRolloutAssumption DEF RowIds
  <2> QED BY <2>1 DEF HandlerStates
<1>2. /\ next.op = state.op /\ next.at = "restore" /\ next.source = i
      /\ next.todo = state.todo
  BY DEF HandlerStates
<1> HIDE DEF next
<1>3. state.op = "auto"
  BY DEF HandlerFits, CallFits
<1> QED BY <1>1, <1>2, <1>3
        DEF HandlerFits, CallFits, ReadFits, CreateFits, BroadenFits, RollbackFits, next

LEMMA FoundFits ==
    ASSUME NEW state \in HandlerStates, NEW table, NEW rollouts, NEW pushes,
           HandlerFits(state, table, rollouts, pushes), state.at = "active",
           state.op \notin {"create", "broaden", "health", "rollback"},
           DOMAIN rollouts \subseteq ReleaseIds, NEW r \in DOMAIN rollouts
    PROVE  LET next == [state EXCEPT !.at = "record", !.release = r] IN
           /\ next \in HandlerStates /\ next.op = state.op /\ next.at = "record"
           /\ HandlerFits(next, table, rollouts, pushes)
<1> DEFINE next == [state EXCEPT !.at = "record", !.release = r]
<1>1. next \in HandlerStates
  <2>1. r \in 0 .. MaxReleases
    BY StagedRolloutAssumption DEF ReleaseIds
  <2> QED BY <2>1 DEF HandlerStates
<1>2. /\ next.op = state.op /\ next.at = "record" /\ next.release = r
      /\ next.todo = state.todo
  BY DEF HandlerStates
<1> HIDE DEF next
<1> QED BY <1>1, <1>2
        DEF HandlerFits, CallFits, ReadFits, CreateFits, BroadenFits, RollbackFits, next
\* The new row has the number that was read, which is above what it replaces.
LEMMA InsertFits ==
    ASSUME NEW state \in HandlerStates, NEW table \in Seq(Rows), NEW rollouts, NEW pushes,
           HandlerFits(state, table, rollouts, pushes), state.at = "insert",
           Len(table) + 1 <= MaxRows
    PROVE  LET row == [version |-> state.number, config |-> state.config]
               next == [state EXCEPT !.at = "publish", !.row = Len(table) + 1,
                                     !.number = 0, !.config = NoConfig]
           IN  /\ row \in Rows /\ row.version <= Len(table) + 1
               /\ next \in HandlerStates /\ next.op = state.op /\ next.at = "publish"
               /\ HandlerFits(next, Append(table, row), rollouts, pushes)
<1> DEFINE row == [version |-> state.number, config |-> state.config]
           next == [state EXCEPT !.at = "publish", !.row = Len(table) + 1,
                                 !.number = 0, !.config = NoConfig]
           later == Append(table, row)
<1>0. /\ Len(table) \in Nat /\ DOMAIN table = 1 .. Len(table) /\ NoRow \notin DOMAIN table
      /\ state.number \in 1 .. Len(table) + 1 /\ state.config \in Configs
  BY TableFacts DEF HandlerFits, ReadFits
<1>a. row \in Rows /\ row.version = state.number
  BY <1>0, StagedRolloutAssumption DEF Rows
<1> HIDE DEF row
<1>b. /\ later \in Seq(Rows) /\ Len(later) = Len(table) + 1
      /\ Grown(table, later) /\ later[Len(later)] = row
  BY <1>a, AppendGrows
<1> HIDE DEF later
<1>c. DOMAIN later = 1 .. Len(table) + 1
  BY <1>b, TableFacts
<1>1. next \in HandlerStates
  <2>1. Len(table) + 1 \in RowIds /\ 0 \in RowIds
    BY <1>0, StagedRolloutAssumption DEF RowIds
  <2> QED BY <2>1 DEF HandlerStates
<1>2. /\ next.op = state.op /\ next.at = "publish" /\ next.release = state.release
      /\ next.source = state.source /\ next.row = Len(table) + 1
      /\ next.todo = state.todo
  BY DEF HandlerStates
<1> HIDE DEF next
<1>3. CallFits(next, rollouts)
  BY <1>2 DEF HandlerFits, CallFits
<1>4. CreateFits(next, later)
  <2> SUFFICES ASSUME state.op = "create"
               PROVE  /\ next.source \in {NoRow} \cup DOMAIN later
                      /\ next.row \in DOMAIN later
                      /\ OlderIn(later, next.source, next.row)
    BY <1>2 DEF CreateFits
  <2>1. /\ state.source \in {NoRow} \cup DOMAIN table
        /\ state.source # NoRow => table[state.source].version < state.number
    BY DEF HandlerFits, CreateFits
  <2>2. \A i \in DOMAIN table : i \in DOMAIN later /\ later[i] = table[i]
    BY <1>0, <1>b, <1>c DEF Grown
  <2>3. next.row \in DOMAIN later /\ later[next.row] = row
    BY <1>0, <1>2, <1>b, <1>c
  <2> QED BY <1>2, <1>a, <2>1, <2>2, <2>3 DEF OlderIn
<1>5. ReadFits(next, later) /\ BroadenFits(next, rollouts, pushes)
      /\ RollbackFits(next, later, rollouts)
  BY <1>2 DEF ReadFits, BroadenFits, RollbackFits
<1> QED BY <1>0, <1>1, <1>2, <1>3, <1>4, <1>5, <1>a DEF HandlerFits, next, later, row

\* The health tick takes up the next rollout.
LEMMA MarkFits ==
    ASSUME NEW state \in HandlerStates, NEW table, NEW rollouts, NEW pushes,
           HandlerFits(state, table, rollouts, pushes), state.at = "next",
           DOMAIN rollouts \subseteq ReleaseIds, NEW r \in state.todo
    PROVE  LET next == [state EXCEPT !.at = "broaden", !.release = r, !.todo = @ \ {r}] IN
           /\ r \in DOMAIN rollouts
           /\ next \in HandlerStates /\ next.op = "health" /\ next.at = "broaden"
           /\ HandlerFits(next, table, rollouts, pushes)
<1> DEFINE next == [state EXCEPT !.at = "broaden", !.release = r, !.todo = @ \ {r}]
<1>0. state.op = "health" /\ state.todo \subseteq DOMAIN rollouts
  BY DEF HandlerFits, CallFits
<1>1. next \in HandlerStates
  <2>1. r \in 0 .. MaxReleases /\ state.todo \ {r} \in SUBSET ReleaseIds
    BY <1>0, StagedRolloutAssumption DEF ReleaseIds
  <2> QED BY <2>1 DEF HandlerStates
<1>2. /\ next.op = state.op /\ next.at = "broaden" /\ next.release = r
      /\ next.todo = state.todo \ {r}
  BY DEF HandlerStates
<1> HIDE DEF next
<1> QED BY <1>0, <1>1, <1>2
        DEF HandlerFits, CallFits, ReadFits, CreateFits, BroadenFits, RollbackFits, next

\* What a handler is begun with.
LEMMA BeginFits ==
    ASSUME NEW table \in Seq(Rows), NEW rollouts, NEW pushes,
           Len(table) <= MaxRows, DOMAIN rollouts \subseteq ReleaseIds
    PROVE  /\ \A config \in Configs :
                LET next == [Blank EXCEPT !.op = "deploy", !.at = "number", !.config = config]
                IN  /\ next \in HandlerStates /\ next.op = "deploy"
                    /\ HandlerFits(next, table, rollouts, pushes)
           /\ LET next == [Blank EXCEPT !.op = "create", !.at = "graph"]
              IN  /\ next \in HandlerStates
                  /\ HandlerFits(next, table, rollouts, pushes)
           /\ \A r \in DOMAIN rollouts :
                LET next == [Blank EXCEPT !.op = "broaden", !.at = "budget", !.release = r]
                IN  /\ next \in HandlerStates /\ next.op = "broaden" /\ next.at = "budget"
                    /\ HandlerFits(next, table, rollouts, pushes)
           /\ LET next == [Blank EXCEPT !.op = "auto", !.at = "versions"]
              IN  /\ next \in HandlerStates /\ next.op = "auto"
                  /\ HandlerFits(next, table, rollouts, pushes)
           /\ \A due \in SUBSET DOMAIN rollouts :
                LET next == [Blank EXCEPT !.op = "health", !.at = "next", !.todo = due]
                IN  /\ next \in HandlerStates /\ next.op = "health" /\ next.at = "next"
                    /\ HandlerFits(next, table, rollouts, pushes)
<1> USE DEF HandlerFits, CallFits, ReadFits, CreateFits, BroadenFits, RollbackFits
<1>0. Blank \in HandlerStates /\ Blank.todo = {} /\ Blank.release = 0
  BY BlankFits DEF Blank
<1>1. ASSUME NEW config \in Configs
      PROVE  LET next == [Blank EXCEPT !.op = "deploy", !.at = "number", !.config = config]
             IN  /\ next \in HandlerStates /\ next.op = "deploy"
                 /\ HandlerFits(next, table, rollouts, pushes)
  <2> DEFINE next == [Blank EXCEPT !.op = "deploy", !.at = "number", !.config = config]
  <2>1. next \in HandlerStates
    BY <1>0 DEF HandlerStates, Operations
  <2>2. next.op = "deploy" /\ next.at = "number" /\ next.config = config /\ next.todo = {}
    BY <1>0 DEF HandlerStates
  <2> HIDE DEF next
  <2>3. HandlerFits(next, table, rollouts, pushes)
    BY <2>2
  <2> QED BY <2>1, <2>2, <2>3 DEF next
<1>2. LET next == [Blank EXCEPT !.op = "create", !.at = "graph"]
      IN  next \in HandlerStates /\ HandlerFits(next, table, rollouts, pushes)
  <2> DEFINE next == [Blank EXCEPT !.op = "create", !.at = "graph"]
  <2>1. next \in HandlerStates
    BY <1>0 DEF HandlerStates, Operations
  <2>2. next.op = "create" /\ next.at = "graph" /\ next.todo = {}
    BY <1>0 DEF HandlerStates
  <2> HIDE DEF next
  <2>3. HandlerFits(next, table, rollouts, pushes)
    BY <2>2
  <2> QED BY <2>1, <2>3 DEF next
<1>3. ASSUME NEW r \in DOMAIN rollouts
      PROVE  LET next == [Blank EXCEPT !.op = "broaden", !.at = "budget", !.release = r]
             IN  /\ next \in HandlerStates /\ next.op = "broaden" /\ next.at = "budget"
                 /\ HandlerFits(next, table, rollouts, pushes)
  <2> DEFINE next == [Blank EXCEPT !.op = "broaden", !.at = "budget", !.release = r]
  <2>0. r \in 0 .. MaxReleases
    BY StagedRolloutAssumption DEF ReleaseIds
  <2>1. next \in HandlerStates
    BY <1>0, <2>0 DEF HandlerStates, Operations
  <2>2. next.op = "broaden" /\ next.at = "budget" /\ next.release = r /\ next.todo = {}
    BY <1>0 DEF HandlerStates
  <2> HIDE DEF next
  <2>3. HandlerFits(next, table, rollouts, pushes)
    BY <2>2
  <2> QED BY <2>1, <2>2, <2>3 DEF next
<1>4. LET next == [Blank EXCEPT !.op = "auto", !.at = "versions"]
      IN  /\ next \in HandlerStates /\ next.op = "auto"
          /\ HandlerFits(next, table, rollouts, pushes)
  <2> DEFINE next == [Blank EXCEPT !.op = "auto", !.at = "versions"]
  <2>1. next \in HandlerStates
    BY <1>0 DEF HandlerStates, Operations
  <2>2. next.op = "auto" /\ next.at = "versions" /\ next.todo = {}
    BY <1>0 DEF HandlerStates
  <2> HIDE DEF next
  <2>3. HandlerFits(next, table, rollouts, pushes)
    BY <2>2
  <2> QED BY <2>1, <2>2, <2>3 DEF next
<1>5. ASSUME NEW due \in SUBSET DOMAIN rollouts
      PROVE  LET next == [Blank EXCEPT !.op = "health", !.at = "next", !.todo = due]
             IN  /\ next \in HandlerStates /\ next.op = "health" /\ next.at = "next"
                 /\ HandlerFits(next, table, rollouts, pushes)
  <2> DEFINE next == [Blank EXCEPT !.op = "health", !.at = "next", !.todo = due]
  <2>1. next \in HandlerStates
    BY <1>0 DEF HandlerStates, Operations
  <2>2. next.op = "health" /\ next.at = "next" /\ next.todo = due
    BY <1>0 DEF HandlerStates
  <2> HIDE DEF next
  <2>3. HandlerFits(next, table, rollouts, pushes)
    BY <2>2
  <2> QED BY <2>1, <2>2, <2>3 DEF next
<1> HIDE DEF HandlerFits, CallFits, ReadFits, CreateFits, BroadenFits, RollbackFits
<1> QED BY <1>1, <1>2, <1>3, <1>4, <1>5

\* rollbackRollout knows the row to go back to, if there is one.
LEMMA BeginRollbackFits ==
    ASSUME NEW table \in Seq(Rows), NEW rollouts, NEW pushes,
           Len(table) <= MaxRows, DOMAIN rollouts \subseteq ReleaseIds,
           NEW r \in DOMAIN rollouts, ReleaseFits(r, table, rollouts, pushes)
    PROVE  LET next == [Blank EXCEPT
                  !.op = "rollback",
                  !.at = IF rollouts[r].previous = NoRow THEN "record" ELSE "restore",
                  !.release = r, !.source = rollouts[r].previous]
           IN  /\ next \in HandlerStates /\ next.op = "rollback"
               /\ HandlerFits(next, table, rollouts, pushes)
<1> DEFINE previous == rollouts[r].previous
           place == IF previous = NoRow THEN "record" ELSE "restore"
           next == [Blank EXCEPT !.op = "rollback", !.at = place,
                                 !.release = r, !.source = previous]
<1>0. Blank \in HandlerStates /\ Blank.todo = {}
  BY BlankFits DEF Blank
<1>1. previous \in RowIds /\ r \in 0 .. MaxReleases
  BY TableFacts, StagedRolloutAssumption DEF ReleaseFits, RowIds, NoRow, ReleaseIds
<1>2. previous # NoRow => previous \in DOMAIN table
  BY DEF ReleaseFits
<1>3. place \in {"record", "restore"} /\ (place = "restore" => previous # NoRow)
  OBVIOUS
<1> HIDE DEF place
<1>4. next \in HandlerStates
  <2>1. previous \in RowIds /\ place \in {"record", "restore"}
    BY <1>1, <1>3
  <2> HIDE DEF previous
  <2> QED BY <1>0, <1>1, <2>1 DEF HandlerStates, Operations
<1>5. /\ next.op = "rollback" /\ next.at = place /\ next.release = r
      /\ next.source = previous /\ next.todo = {}
  BY <1>0 DEF HandlerStates
<1> HIDE DEF next
<1>6. HandlerFits(next, table, rollouts, pushes)
  BY <1>2, <1>3, <1>5
     DEF HandlerFits, CallFits, ReadFits, CreateFits, BroadenFits, RollbackFits
<1> QED BY <1>4, <1>5, <1>6 DEF next, place

-----------------------------------------------------------------------------
(***************************************************************************)
(* The steps.                                                              *)
(***************************************************************************)
LEMMA InvFacts ==
    ASSUME Inv
    PROVE  /\ rows \in Seq(Rows) /\ Len(rows) \in Nat /\ Len(rows) <= MaxRows
           /\ Numbered(rows)
           /\ DOMAIN releases \subseteq ReleaseIds
           /\ \A r \in DOMAIN releases : ReleaseFits(r, rows, releases, told)
           /\ \A h \in Handlers :
                 /\ handler[h] \in HandlerStates
                 /\ HandlerFits(handler[h], rows, releases, told)
           /\ PipelineType /\ inFlight \in SUBSET {"health", "auto"}
           /\ told \in SUBSET (ReleaseIds \X Nodes) /\ serving \in [Nodes -> RowIds]
<1>1. DOMAIN releases \subseteq ReleaseIds
  <2>1. releases \in Seq(Releases) /\ Len(releases) <= MaxReleases
    BY DEF Inv, TypeOK
  <2>2. DOMAIN releases = 1 .. Len(releases) /\ Len(releases) \in Nat
    BY <2>1
  <2> QED BY <2>1, <2>2, StagedRolloutAssumption DEF ReleaseIds
<1> QED BY <1>1 DEF Inv, TypeOK, PipelineType

LEMMA Sets ==
    /\ Inserting \in SUBSET Handlers /\ Creating \in SUBSET Handlers
    /\ Busy \in SUBSET Handlers
BY DEF Inserting, Creating, Busy

LEMMA SetsLater ==
    /\ Inserting' \in SUBSET Handlers /\ Creating' \in SUBSET Handlers
BY DEF Inserting, Creating, Busy

LEMMA RoomFacts ==
    ASSUME Inv, NEW h \in Handlers
    PROVE  /\ handler[h].at \in InsertPlaces => Len(rows) + 1 <= MaxRows
           /\ handler[h].op = "create" /\ handler[h].at # "idle" =>
                  Len(releases) + 1 <= MaxReleases
<1>1. Len(rows) \in Nat /\ Len(releases) \in Nat
  BY DEF Inv, TypeOK
<1>2. Cardinality(Inserting) \in Nat /\ Cardinality(Creating) \in Nat
  BY Sets, Counting
<1>3. {} \in SUBSET Handlers /\ Cardinality({}) = 0
  BY FS_EmptySet
<1>4. handler[h].at \in InsertPlaces => 1 <= Cardinality(Inserting)
  <2>1. handler[h].at \in InsertPlaces => h \in Inserting
    BY DEF InsertPlaces, Inserting
  <2> QED BY <1>3, <2>1, Sets, Counting
<1>5. handler[h].op = "create" /\ handler[h].at # "idle" => 1 <= Cardinality(Creating)
  <2>1. handler[h].op = "create" /\ handler[h].at # "idle" => h \in Creating
    BY DEF Creating, Busy
  <2> QED BY <1>3, <2>1, Sets, Counting
<1> QED BY <1>1, <1>2, <1>4, <1>5, StagedRolloutAssumption DEF Inv, Bounded

\* A call without a write to the tables, of a handler that was running.
LEMMA CallRuns ==
    ASSUME Inv, UNCHANGED <<rows, releases, told, serving, inFlight>>, PipelineType',
           NEW h \in Handlers, NEW state \in HandlerStates, Run(h, state),
           HandlerFits(state, rows, releases, told), state.op = handler[h].op,
           handler[h].at # "idle",
           state.at \in InsertPlaces => handler[h].at \in InsertPlaces
    PROVE  Inv'
<1>1. RestTyped
  BY InvFacts DEF RestTyped
<1> QED BY <1>1, QuietRun

LEMMA SameDb == UNCHANGED dbVars => UNCHANGED <<rows, releases, pipeline>>
BY DEF dbVars

LEMMA SamePipeline == Inv /\ pipeline' = pipeline => PipelineType'
BY InvFacts DEF PipelineType

LEMMA ReadingStep ==
    ASSUME Inv, NEW h \in Handlers,
           \/ ReadNumber(h) \/ ReadGraph(h) \/ ReadPrevious(h) \/ RestoreGraph(h)
           \/ AutoBroaden(h) \/ ErrorRateExceeded(h) \/ DisableAutoRollback(h)
    PROVE  Inv'
<1>0. /\ rows \in Seq(Rows) /\ Len(rows) \in Nat /\ Len(rows) <= MaxRows /\ Numbered(rows)
      /\ handler[h] \in HandlerStates /\ HandlerFits(handler[h], rows, releases, told)
      /\ pipeline.graph \in Configs
      /\ pipeline.deployed \in BOOLEAN /\ pipeline.autoRollback \in BOOLEAN
  BY InvFacts DEF PipelineType
<1>1. CASE ReadNumber(h)
  <2> DEFINE next == [handler[h] EXCEPT !.at = "insert", !.number = NextNumber(rows)]
  <2>1. Run(h, next) /\ handler[h].at = "number"
        /\ UNCHANGED <<rows, releases, pipeline, told, serving, inFlight>>
    BY <1>1, SameDb DEF ReadNumber, At
  <2>2. Len(rows) + 1 <= MaxRows
    BY <2>1, RoomFacts DEF InsertPlaces
  <2>3. /\ next \in HandlerStates /\ next.op = handler[h].op /\ next.at = "insert"
        /\ HandlerFits(next, rows, releases, told)
    BY <1>0, <2>1, <2>2, ReadNumberFits
  <2> HIDE DEF next
  <2> QED BY <2>1, <2>3, CallRuns, SamePipeline DEF InsertPlaces
<1>2. CASE ReadGraph(h)
  <2> DEFINE next == [handler[h] EXCEPT !.at = "previous", !.config = pipeline.graph]
  <2>1. Run(h, next) /\ handler[h].at = "graph"
        /\ UNCHANGED <<rows, releases, pipeline, told, serving, inFlight>>
    BY <1>2, SameDb DEF ReadGraph, At
  <2>2. /\ next \in HandlerStates /\ next.op = handler[h].op /\ next.at = "previous"
        /\ HandlerFits(next, rows, releases, told)
    BY <1>0, <2>1, ReadGraphFits
  <2> HIDE DEF next
  <2> QED BY <2>1, <2>2, CallRuns, SamePipeline DEF InsertPlaces
<1>3. CASE ReadPrevious(h)
  <2>1. PICK i \in SecondLatest(rows) :
            Run(h, [handler[h] EXCEPT !.at = "number", !.source = i])
    BY <1>3 DEF ReadPrevious
  <2> DEFINE next == [handler[h] EXCEPT !.at = "number", !.source = i]
  <2>2. Run(h, next) /\ handler[h].at = "previous"
        /\ UNCHANGED <<rows, releases, pipeline, told, serving, inFlight>>
    BY <1>3, <2>1, SameDb DEF ReadPrevious, At
  <2>3. i \in {NoRow} \cup DOMAIN rows
    BY LatestExist
  <2>4. /\ next \in HandlerStates /\ next.op = handler[h].op /\ next.at = "number"
        /\ HandlerFits(next, rows, releases, told)
    BY <1>0, <2>2, <2>3, ReadPreviousFits
  <2> HIDE DEF next
  <2> QED BY <2>2, <2>4, CallRuns, SamePipeline DEF InsertPlaces
<1>4. CASE RestoreGraph(h)
  <2> DEFINE next == [handler[h] EXCEPT !.at = "number", !.source = NoRow,
                                        !.config = rows[handler[h].source].config]
  <2>1. Run(h, next) /\ handler[h].at = "restore"
        /\ pipeline' = [pipeline EXCEPT !.graph = rows[handler[h].source].config]
        /\ UNCHANGED <<rows, releases, told, serving, inFlight>>
    BY <1>4 DEF RestoreGraph, At
  <2>2. /\ next \in HandlerStates /\ next.op = handler[h].op /\ next.at = "number"
        /\ HandlerFits(next, rows, releases, told)
    BY <1>0, <2>1, RestoreFits
  <2>3. rows[handler[h].source].config \in Configs
    BY <1>0, <2>1, TableFacts DEF HandlerFits, ReadFits, Rows
  <2>4. PipelineType'
    BY <2>1, <2>3, InvFacts DEF PipelineType
  <2> HIDE DEF next
  <2> QED BY <2>1, <2>2, <2>4, CallRuns DEF InsertPlaces
<1>5. CASE AutoBroaden(h)
  <2> DEFINE next == [handler[h] EXCEPT !.at = "budget"]
  <2>1. Run(h, next) /\ handler[h].at = "broaden"
        /\ UNCHANGED <<rows, releases, pipeline, told, serving, inFlight>>
    BY <1>5, SameDb DEF AutoBroaden, At
  <2>2. /\ next \in HandlerStates /\ next.op = handler[h].op /\ next.at = "budget"
        /\ HandlerFits(next, rows, releases, told)
    BY <1>0, <2>1, MoveFits
  <2> HIDE DEF next
  <2> QED BY <2>1, <2>2, CallRuns, SamePipeline DEF InsertPlaces
<1>6. CASE ErrorRateExceeded(h)
  <2>1. PICK i \in SecondLatest(rows) :
            Run(h, [handler[h] EXCEPT !.at = "restore", !.source = i])
    BY <1>6 DEF ErrorRateExceeded
  <2> DEFINE next == [handler[h] EXCEPT !.at = "restore", !.source = i]
  <2>2. Run(h, next) /\ handler[h].at = "versions" /\ Len(rows) >= 2
        /\ UNCHANGED <<rows, releases, pipeline, told, serving, inFlight>>
    BY <1>6, <2>1, SameDb DEF ErrorRateExceeded, At
  <2>3. i \in DOMAIN rows
    BY <1>0, <2>2 DEF SecondLatest, RunnersUp, Highest
  <2>4. /\ next \in HandlerStates /\ next.op = handler[h].op /\ next.at = "restore"
        /\ HandlerFits(next, rows, releases, told)
    BY <1>0, <2>2, <2>3, ExceededFits
  <2> HIDE DEF next
  <2> QED BY <2>2, <2>4, CallRuns, SamePipeline DEF InsertPlaces
<1>7. CASE DisableAutoRollback(h)
  <2> DEFINE next == [handler[h] EXCEPT !.at = "active"]
  <2>1. Run(h, next) /\ handler[h].at = "disable"
        /\ pipeline' = [pipeline EXCEPT !.autoRollback = FALSE]
        /\ UNCHANGED <<rows, releases, told, serving, inFlight>>
    BY <1>7 DEF DisableAutoRollback, At
  <2>2. handler[h].op = "auto"
    BY <1>0, <2>1 DEF HandlerFits, CallFits
  <2>3. /\ next \in HandlerStates /\ next.op = handler[h].op /\ next.at = "active"
        /\ HandlerFits(next, rows, releases, told)
    BY <1>0, <2>1, <2>2, MoveFits
  <2>4. PipelineType'
    BY <2>1, InvFacts DEF PipelineType
  <2> HIDE DEF next
  <2> QED BY <2>1, <2>3, <2>4, CallRuns DEF InsertPlaces
<1> QED BY <1>1, <1>2, <1>3, <1>4, <1>5, <1>6, <1>7

\* Handlers that return, fail, or find nothing to do.
LEMMA EndingStep ==
    ASSUME Inv, NEW h \in Handlers,
           \/ BudgetBurned(h) \/ LeaveForReview(h) \/ ErrorRateAcceptable(h)
           \/ CallFails(h) \/ MarkFails(h)
    PROVE  Inv'
<1>1. UNCHANGED <<rows, releases, pipeline, told, serving>>
  BY SameDb DEF BudgetBurned, LeaveForReview, ErrorRateAcceptable, CallFails, MarkFails
<1>2. \E todo \in SUBSET handler[h].todo : EndIteration(h, todo)
  <2>1. CASE MarkFails(h)
    BY <2>1 DEF MarkFails
  <2>2. CASE Finish(h)
    BY <2>2 DEF Finish
  <2> QED BY <2>1, <2>2 DEF BudgetBurned, LeaveForReview, ErrorRateAcceptable, CallFails
<1> QED BY <1>1, <1>2, QuietEnd, SamePipeline

LEMMA PublishStep ==
    ASSUME Inv, NEW h \in Handlers, PublishVersion(h)
    PROVE  Inv'
<1>0. /\ handler[h] \in HandlerStates /\ HandlerFits(handler[h], rows, releases, told)
      /\ handler[h].at = "publish"
      /\ UNCHANGED <<rows, releases, told, serving>>
      /\ pipeline' = [pipeline EXCEPT !.deployed = TRUE]
  BY InvFacts DEF PublishVersion, At
<1>1. PipelineType'
  BY <1>0, InvFacts DEF PipelineType
<1>2. CASE handler[h].op \in {"create", "rollback"}
  <2> DEFINE next == [handler[h] EXCEPT !.at = "record"]
  <2>1. Run(h, next) /\ inFlight' = inFlight
    BY <1>2 DEF PublishVersion
  <2>2. /\ next \in HandlerStates /\ next.op = handler[h].op /\ next.at = "record"
        /\ HandlerFits(next, rows, releases, told)
    BY <1>0, <1>2, MoveFits
  <2> HIDE DEF next
  <2> QED BY <1>0, <1>1, <2>1, <2>2, CallRuns DEF InsertPlaces
<1>3. CASE handler[h].op = "auto"
  <2> DEFINE next == [handler[h] EXCEPT !.at = "disable"]
  <2>1. Run(h, next) /\ inFlight' = inFlight
    BY <1>3 DEF PublishVersion
  <2>2. /\ next \in HandlerStates /\ next.op = handler[h].op /\ next.at = "disable"
        /\ HandlerFits(next, rows, releases, told)
    BY <1>0, <1>3, MoveFits
  <2> HIDE DEF next
  <2> QED BY <1>0, <1>1, <2>1, <2>2, CallRuns DEF InsertPlaces
<1>4. CASE handler[h].op \notin {"create", "rollback", "auto"}
  <2>1. Finish(h)
    BY <1>4 DEF PublishVersion
  <2> QED BY <1>0, <1>1, <2>1, QuietEnd DEF Finish
<1> QED BY <1>2, <1>3, <1>4

LEMMA FindStep ==
    ASSUME Inv, NEW h \in Handlers, FindActiveRollout(h)
    PROVE  Inv'
<1>0. /\ handler[h] \in HandlerStates /\ HandlerFits(handler[h], rows, releases, told)
      /\ handler[h].at = "active" /\ DOMAIN releases \subseteq ReleaseIds
      /\ UNCHANGED <<rows, releases, pipeline, told, serving>>
  BY InvFacts, SameDb DEF FindActiveRollout, At
<1>1. CASE Active = {}
  BY <1>0, <1>1, QuietEnd, SamePipeline DEF FindActiveRollout, Finish
<1>2. CASE Active # {}
  <2>1. PICK r \in Active : Run(h, [handler[h] EXCEPT !.at = "record", !.release = r])
    BY <1>2 DEF FindActiveRollout
  <2>2. r \in DOMAIN releases /\ inFlight' = inFlight
    BY <1>2 DEF FindActiveRollout, Active
  <2> DEFINE next == [handler[h] EXCEPT !.at = "record", !.release = r]
  <2>3. handler[h].op = "auto"
    BY <1>0 DEF HandlerFits, CallFits
  <2>4. /\ next \in HandlerStates /\ next.op = handler[h].op /\ next.at = "record"
        /\ HandlerFits(next, rows, releases, told)
    BY <1>0, <2>2, <2>3, FoundFits
  <2>5. Run(h, next)
    BY <2>1
  <2> HIDE DEF next
  <2> QED BY <1>0, <2>2, <2>4, <2>5, CallRuns, SamePipeline DEF InsertPlaces
<1> QED BY <1>1, <1>2

LEMMA PassBudgetStep ==
    ASSUME Inv, NEW h \in Handlers, PassBudget(h)
    PROVE  Inv'
<1> DEFINE release == handler[h].release
           next == [handler[h] EXCEPT !.at = "record"]
<1>0. /\ handler[h] \in HandlerStates /\ HandlerFits(handler[h], rows, releases, told)
      /\ handler[h].at = "budget" /\ DOMAIN releases \subseteq ReleaseIds
      /\ UNCHANGED <<rows, releases, pipeline, inFlight, serving>>
      /\ told' = told \cup {<<release, n>> : n \in Nodes \ releases[release].canaryNodes}
      /\ Run(h, next)
  BY InvFacts, SameDb DEF PassBudget, At
<1>1. release \in ReleaseIds
  BY <1>0 DEF HandlerFits, CallFits
<1>2. /\ next \in HandlerStates /\ next.op = handler[h].op /\ next.at = "record"
      /\ HandlerFits(next, rows, releases, told')
  BY <1>0, PassBudgetFits
<1>3. told \subseteq told' /\ told' \in SUBSET (ReleaseIds \X Nodes)
  BY <1>0, <1>1, InvFacts
<1>4. RestTyped
  BY <1>0, <1>3, InvFacts, SamePipeline DEF RestTyped
<1> HIDE DEF next, release
<1> QED BY <1>0, <1>2, <1>3, <1>4, QuietRun DEF InsertPlaces

-----------------------------------------------------------------------------
\* A handler begins: the guard has left room for the row it may insert.
LEMMA BeginRuns ==
    ASSUME Inv, UNCHANGED <<rows, releases, pipeline, told, serving>>,
           inFlight' \in SUBSET {"health", "auto"},
           NEW h \in Handlers, handler[h] = Blank,
           NEW state \in HandlerStates, Run(h, state),
           HandlerFits(state, rows, releases, told), Room,
           state.op = "create" => Len(releases) + Cardinality(Creating) < MaxReleases
    PROVE  Inv'
<1>1. rows' \in Seq(Rows) /\ Progress
  BY InvFacts, TableFacts DEF Progress, Grown, Kept
<1>2. /\ handler' \in [Handlers -> HandlerStates]
      /\ handler'[h] = state
      /\ \A g \in Handlers : g # h => handler'[g] = handler[g]
      /\ \A g \in Handlers : HandlerFits(handler'[g], rows', releases', told')
  BY <1>1, RunFits
<1>3. TypeOK'
  BY <1>2 DEF Inv, TypeOK
<1>4. \A r \in DOMAIN releases' : ReleaseFits(r, rows', releases', told')
  BY InvFacts DEF ReleaseFits, ToldOf
<1>5. /\ Cardinality(Inserting) \in Nat /\ Cardinality(Inserting') \in Nat
      /\ Cardinality(Creating) \in Nat /\ Cardinality(Creating') \in Nat
      /\ Cardinality(Busy) \in Nat
      /\ Cardinality(Inserting) <= Cardinality(Busy)
  <2>1. Inserting \subseteq Busy
    BY DEF Inserting, Busy
  <2> QED BY <2>1, Sets, SetsLater, Counting
<1>6. Len(rows) \in Nat /\ Len(releases) \in Nat
  BY DEF Inv, TypeOK
<1>7. Inserting' \subseteq Inserting \cup {h} /\ Creating' \subseteq Creating \cup {h}
  BY <1>2 DEF Inserting, Creating, Busy
<1>8. Len(rows) + Cardinality(Inserting') <= MaxRows
  <2>1. Cardinality(Inserting') <= Cardinality(Inserting) + 1
    BY <1>7, Sets, SetsLater, Counting
  <2>2. Len(rows) + Cardinality(Busy) < MaxRows
    BY DEF Room
  <2> QED BY <1>5, <1>6, <2>1, <2>2, StagedRolloutAssumption
<1>9. Len(releases) + Cardinality(Creating') <= MaxReleases
  <2>1. CASE state.op = "create"
    <3>1. Cardinality(Creating') <= Cardinality(Creating) + 1
      BY <1>7, Sets, SetsLater, Counting
    <3> QED BY <1>5, <1>6, <2>1, <3>1, StagedRolloutAssumption
  <2>2. CASE state.op # "create"
    <3>1. Creating' \subseteq Creating
      BY <1>2, <2>2 DEF Creating, Busy
    <3>2. Cardinality(Creating') <= Cardinality(Creating)
      BY <3>1, Sets, SetsLater, Counting
    <3> QED BY <1>5, <1>6, <3>2, StagedRolloutAssumption DEF Inv, Bounded
  <2> QED BY <2>1, <2>2
<1>10. Bounded'
  BY <1>8, <1>9 DEF Bounded
<1>11. Numbered(rows')
  BY InvFacts
<1> QED BY <1>2, <1>3, <1>4, <1>10, <1>11 DEF Inv

LEMMA BeginStep ==
    ASSUME Inv, NEW h \in Requests, Begin(h)
    PROVE  Inv'
<1>0. /\ h \in Handlers /\ handler[h] = Blank
      /\ rows \in Seq(Rows) /\ Len(rows) <= MaxRows /\ DOMAIN releases \subseteq ReleaseIds
      /\ UNCHANGED <<rows, releases, pipeline, told, serving, inFlight>>
      /\ inFlight' \in SUBSET {"health", "auto"}
  BY InvFacts, SameDb
     DEF Begin, BeginDeploy, BeginCreate, BeginBroaden, BeginRollback, Request, MayBegin, Handlers
<1>1. CASE BeginDeploy(h)
  <2> DEFINE next == [Blank EXCEPT !.op = "deploy", !.at = "number", !.config = pipeline.graph]
  <2>1. Run(h, next) /\ Room /\ pipeline.graph \in Configs
    BY <1>1, InvFacts DEF BeginDeploy, PipelineType
  <2>2. next \in HandlerStates /\ next.op = "deploy" /\ HandlerFits(next, rows, releases, told)
    BY <1>0, <2>1, BeginFits
  <2> HIDE DEF next
  <2> QED BY <1>0, <2>1, <2>2, BeginRuns
<1>2. CASE BeginCreate(h)
  <2> DEFINE next == [Blank EXCEPT !.op = "create", !.at = "graph"]
  <2>1. Run(h, next) /\ Room /\ Len(releases) + Cardinality(Creating) < MaxReleases
    BY <1>2 DEF BeginCreate, Creating
  <2>2. next \in HandlerStates /\ HandlerFits(next, rows, releases, told)
    BY <1>0, BeginFits
  <2> HIDE DEF next
  <2> QED BY <1>0, <2>1, <2>2, BeginRuns
<1>3. CASE BeginBroaden(h)
  <2>1. PICK r \in DOMAIN releases :
            Run(h, [Blank EXCEPT !.op = "broaden", !.at = "budget", !.release = r])
    BY <1>3 DEF BeginBroaden
  <2> DEFINE next == [Blank EXCEPT !.op = "broaden", !.at = "budget", !.release = r]
  <2>2. /\ next \in HandlerStates /\ next.op = "broaden" /\ next.at = "budget"
        /\ HandlerFits(next, rows, releases, told)
    BY <1>0, BeginFits
  <2>3. Run(h, next) /\ RestTyped
    BY <1>0, <2>1, InvFacts, SamePipeline DEF RestTyped
  <2> HIDE DEF next
  <2> QED BY <1>0, <2>2, <2>3, QuietRun DEF InsertPlaces
<1>4. CASE BeginRollback(h)
  <2>1. PICK r \in DOMAIN releases :
            Run(h, [Blank EXCEPT
                !.op = "rollback",
                !.at = IF releases[r].previous = NoRow THEN "record" ELSE "restore",
                !.release = r, !.source = releases[r].previous])
    BY <1>4 DEF BeginRollback
  <2> DEFINE next == [Blank EXCEPT
                !.op = "rollback",
                !.at = IF releases[r].previous = NoRow THEN "record" ELSE "restore",
                !.release = r, !.source = releases[r].previous]
  <2>2. next \in HandlerStates /\ next.op = "rollback" /\ HandlerFits(next, rows, releases, told)
    BY <1>0, BeginRollbackFits, InvFacts
  <2>3. Run(h, next) /\ Room
    BY <1>4, <2>1 DEF BeginRollback
  <2> HIDE DEF next
  <2> QED BY <1>0, <2>2, <2>3, BeginRuns
<1> QED BY <1>1, <1>2, <1>3, <1>4 DEF Begin

LEMMA TickStep ==
    ASSUME Inv, BeginHealthTick \/ BeginRollbackTick
    PROVE  Inv'
<1>0. /\ rows \in Seq(Rows) /\ Len(rows) <= MaxRows /\ DOMAIN releases \subseteq ReleaseIds
      /\ UNCHANGED <<rows, releases, pipeline, told, serving>>
      /\ inFlight' \in SUBSET {"health", "auto"}
  BY InvFacts, SameDb DEF BeginHealthTick, BeginRollbackTick
<1>1. CASE BeginHealthTick
  <2> DEFINE due == {r \in DOMAIN releases : Due(r)}
             next == [Blank EXCEPT !.op = "health", !.at = "next", !.todo = due]
  <2>1. Run("healthTick", next)
    BY <1>1 DEF BeginHealthTick
  <2>2. /\ next \in HandlerStates /\ next.op = "health" /\ next.at = "next"
        /\ HandlerFits(next, rows, releases, told)
    BY <1>0, BeginFits
  <2>3. "healthTick" \in Handlers /\ RestTyped
    BY <1>0, InvFacts, SamePipeline DEF RestTyped, Handlers
  <2> HIDE DEF next
  <2> QED BY <1>0, <2>1, <2>2, <2>3, QuietRun DEF InsertPlaces
<1>2. CASE BeginRollbackTick
  <2> DEFINE next == [Blank EXCEPT !.op = "auto", !.at = "versions"]
  <2>1. /\ Run("rollbackTick", next) /\ Room
        /\ handler["rollbackTick"] = Blank /\ "rollbackTick" \in Handlers
    BY <1>2 DEF BeginRollbackTick, MayBegin, Handlers
  <2>2. next \in HandlerStates /\ next.op = "auto" /\ HandlerFits(next, rows, releases, told)
    BY <1>0, BeginFits
  <2> HIDE DEF next
  <2> QED BY <1>0, <2>1, <2>2, BeginRuns
<1> QED BY <1>1, <1>2

-----------------------------------------------------------------------------
\* createVersion's row: everything read before is still true.
LEMMA InsertStep ==
    ASSUME Inv, NEW h \in Handlers, InsertVersion(h)
    PROVE  Inv'
<1> DEFINE row == [version |-> handler[h].number, config |-> handler[h].config]
           next == [handler[h] EXCEPT !.at = "publish", !.row = Len(rows) + 1,
                                      !.number = 0, !.config = NoConfig]
<1>0. /\ rows \in Seq(Rows) /\ Len(rows) \in Nat /\ Numbered(rows)
      /\ handler[h] \in HandlerStates /\ HandlerFits(handler[h], rows, releases, told)
      /\ handler[h].at = "insert"
      /\ rows' = Append(rows, row) /\ Run(h, next)
      /\ UNCHANGED <<pipeline, releases, inFlight, told, serving>>
  BY InvFacts DEF InsertVersion, At
<1>1. Len(rows) + 1 <= MaxRows
  BY <1>0, RoomFacts DEF InsertPlaces
<1>2. /\ row \in Rows /\ row.version <= Len(rows) + 1
      /\ next \in HandlerStates /\ next.op = handler[h].op /\ next.at = "publish"
      /\ HandlerFits(next, rows', releases', told')
  BY <1>0, <1>1, InsertFits
<1> HIDE DEF row, next
<1>3. rows' \in Seq(Rows) /\ Len(rows') = Len(rows) + 1 /\ Grown(rows, rows')
  BY <1>0, <1>2, AppendGrows
<1>4. Progress
  BY <1>0, <1>3 DEF Progress, Kept
<1>5. /\ handler' \in [Handlers -> HandlerStates]
      /\ handler'[h] = next
      /\ \A g \in Handlers : g # h => handler'[g] = handler[g]
      /\ \A g \in Handlers : HandlerFits(handler'[g], rows', releases', told')
  BY <1>0, <1>2, <1>3, <1>4, RunFits
<1>6. TypeOK'
  BY <1>0, <1>1, <1>3, <1>5 DEF Inv, TypeOK
<1>7. Numbered(rows')
  BY <1>0, <1>2, AppendNumbered
<1>8. ASSUME NEW r \in DOMAIN releases' PROVE ReleaseFits(r, rows', releases', told')
  <2>1. r \in DOMAIN releases /\ ReleaseFits(r, rows, releases, told)
    BY <1>0, InvFacts
  <2>2. releases'[r].status = "BROADENED" => ToldOf(r, releases'[r], told')
    BY <1>0, <2>1 DEF ReleaseFits
  <2> QED BY <1>0, <1>3, <1>4, <2>1, <2>2, ReleaseKeeps DEF Progress
<1>9. Bounded'
  <2>1. h \in Inserting /\ Inserting' \subseteq Inserting \ {h}
    BY <1>0, <1>2, <1>5 DEF Inserting
  <2>2. Creating' \subseteq Creating
    BY <1>0, <1>2, <1>5 DEF Creating, Busy
  <2>3. /\ Cardinality(Inserting') + 1 <= Cardinality(Inserting)
        /\ Cardinality(Creating') <= Cardinality(Creating)
        /\ Cardinality(Inserting) \in Nat /\ Cardinality(Inserting') \in Nat
        /\ Cardinality(Creating) \in Nat /\ Cardinality(Creating') \in Nat
    BY <2>1, <2>2, Sets, SetsLater, Counting
  <2>4. Len(releases) \in Nat
    BY DEF Inv, TypeOK
  <2> QED BY <1>0, <1>3, <2>3, <2>4, StagedRolloutAssumption DEF Inv, Bounded
<1> QED BY <1>5, <1>6, <1>7, <1>8, <1>9 DEF Inv

\* A status changes: whatever it was, it becomes BROADENED only when told.
LEMMA StatusFacts ==
    ASSUME Inv, NEW r \in DOMAIN releases, NEW status \in Statuses, SetStatus(r, status),
           UNCHANGED <<rows, told>>,
           status = "BROADENED" => ToldOf(r, releases[r], told)
    PROVE  /\ releases' \in Seq(Releases) /\ Len(releases') = Len(releases)
           /\ DOMAIN releases' = DOMAIN releases /\ Progress
           /\ \A q \in DOMAIN releases' : ReleaseFits(q, rows', releases', told')
<1>0. releases \in Seq(Releases) /\ releases' = [releases EXCEPT ![r].status = status]
  BY DEF Inv, TypeOK, SetStatus
<1>1. Len(releases) \in Nat /\ DOMAIN releases = 1 .. Len(releases)
      /\ \A q \in DOMAIN releases : releases[q] \in Releases
  BY <1>0
<1>2. [releases[r] EXCEPT !.status = status] \in Releases
  BY <1>1 DEF Releases
<1>3. /\ releases' \in Seq(Releases) /\ Len(releases') = Len(releases)
      /\ DOMAIN releases' = DOMAIN releases
  BY <1>0, <1>1, <1>2
<1>4. /\ \A q \in DOMAIN releases : q # r => releases'[q] = releases[q]
      /\ releases'[r] = [releases[r] EXCEPT !.status = status]
  BY <1>0, <1>1
<1>5. /\ releases'[r].status = status /\ releases'[r].canary = releases[r].canary
      /\ releases'[r].previous = releases[r].previous
      /\ releases'[r].canaryNodes = releases[r].canaryNodes
  BY <1>1, <1>4 DEF Releases
<1>6. Kept(releases, releases')
  BY <1>3, <1>4, <1>5 DEF Kept
<1>7. Progress
  BY <1>6, InvFacts, TableFacts DEF Progress, Grown
<1>8. ASSUME NEW q \in DOMAIN releases PROVE ReleaseFits(q, rows', releases', told')
  <2>1. releases'[q].status = "BROADENED" => ToldOf(q, releases'[q], told')
    BY <1>4, <1>5, InvFacts DEF ReleaseFits, ToldOf
  <2> QED BY <1>6, <1>7, <2>1, ReleaseKeeps, InvFacts DEF Progress
<1> QED BY <1>3, <1>7, <1>8

\* A handler that writes a status, and does not need room afterwards.
LEMMA StatusRun ==
    ASSUME Inv, NEW r \in DOMAIN releases, NEW status \in Statuses, SetStatus(r, status),
           UNCHANGED <<rows, pipeline, told, serving>>,
           inFlight' \in SUBSET {"health", "auto"},
           status = "BROADENED" => ToldOf(r, releases[r], told),
           NEW h \in Handlers, NEW state \in HandlerStates, Run(h, state),
           HandlerFits(state, rows', releases', told'),
           state.at \notin InsertPlaces,
           ~(state.op = "create" /\ state.at # "idle")
    PROVE  Inv'
<1>1. /\ releases' \in Seq(Releases) /\ Len(releases') = Len(releases)
      /\ DOMAIN releases' = DOMAIN releases /\ Progress
      /\ \A q \in DOMAIN releases' : ReleaseFits(q, rows', releases', told')
  BY StatusFacts
<1>2. rows' \in Seq(Rows)
  BY InvFacts
<1>3. /\ handler' \in [Handlers -> HandlerStates]
      /\ handler'[h] = state
      /\ \A g \in Handlers : g # h => handler'[g] = handler[g]
      /\ \A g \in Handlers : HandlerFits(handler'[g], rows', releases', told')
  BY <1>1, <1>2, RunFits
<1>4. TypeOK'
  BY <1>1, <1>3 DEF Inv, TypeOK
<1>5. Bounded'
  <2>1. /\ Cardinality(Inserting') <= Cardinality(Inserting)
        /\ Cardinality(Creating') <= Cardinality(Creating)
    BY <1>3, RunBounded
  <2>2. /\ Cardinality(Inserting) \in Nat /\ Cardinality(Inserting') \in Nat
        /\ Cardinality(Creating) \in Nat /\ Cardinality(Creating') \in Nat
    BY Sets, SetsLater, Counting
  <2>3. Len(rows) \in Nat /\ Len(releases) \in Nat
    BY DEF Inv, TypeOK
  <2> QED BY <1>1, <2>1, <2>2, <2>3, StagedRolloutAssumption DEF Inv, Bounded
<1>6. Numbered(rows')
  BY InvFacts
<1> QED BY <1>1, <1>3, <1>4, <1>5, <1>6 DEF Inv

LEMMA RecordStep ==
    ASSUME Inv, NEW h \in Handlers, RecordBroadened(h) \/ RecordRolledBack(h)
    PROVE  Inv'
<1> DEFINE r == handler[h].release
           status == IF handler[h].op \in {"broaden", "health"}
                     THEN "BROADENED" ELSE "ROLLED_BACK"
<1>0. /\ HandlerFits(handler[h], rows, releases, told) /\ handler[h].at = "record"
      /\ handler[h].op \in {"broaden", "health", "rollback", "auto"}
      /\ SetStatus(r, status) /\ Finish(h)
      /\ UNCHANGED <<rows, pipeline, told, serving>>
  BY InvFacts DEF RecordBroadened, RecordRolledBack, At
<1>1. r \in DOMAIN releases
  BY <1>0 DEF HandlerFits, CallFits
<1>2. status \in Statuses /\ (status = "BROADENED" => ToldOf(r, releases[r], told))
  BY <1>0 DEF HandlerFits, BroadenFits, Statuses
<1>3. PICK state \in HandlerStates :
              /\ Run(h, state)
              /\ state.at \notin InsertPlaces
              /\ ~(state.op = "create" /\ state.at # "idle")
              /\ \A table, rollouts, pushes : DOMAIN releases \subseteq DOMAIN rollouts
                    => HandlerFits(state, table, rollouts, pushes)
              /\ inFlight' \in SUBSET {"health", "auto"}
  BY <1>0, EndFits DEF Finish
<1> HIDE DEF status, r
<1>4. DOMAIN releases' = DOMAIN releases
  BY <1>0, <1>1, <1>2, StatusFacts
<1>5. HandlerFits(state, rows', releases', told')
  BY <1>3, <1>4
<1> QED BY <1>0, <1>1, <1>2, <1>3, <1>5, StatusRun

LEMMA MarkStep ==
    ASSUME Inv, NEW h \in Handlers, MarkHealthCheck(h)
    PROVE  Inv'
<1>0. /\ handler[h] \in HandlerStates /\ HandlerFits(handler[h], rows, releases, told)
      /\ handler[h].at = "next" /\ DOMAIN releases \subseteq ReleaseIds
      /\ UNCHANGED <<rows, pipeline, inFlight, told, serving>>
  BY InvFacts DEF MarkHealthCheck, At
<1>1. PICK r \in handler[h].todo :
          /\ SetStatus(r, "HEALTH_CHECK")
          /\ Run(h, [handler[h] EXCEPT !.at = "broaden", !.release = r, !.todo = @ \ {r}])
  BY DEF MarkHealthCheck
<1> DEFINE next == [handler[h] EXCEPT !.at = "broaden", !.release = r, !.todo = @ \ {r}]
<1>2. /\ r \in DOMAIN releases
      /\ next \in HandlerStates /\ next.op = "health" /\ next.at = "broaden"
      /\ HandlerFits(next, rows, releases, told)
  BY <1>0, MarkFits
<1>3. Run(h, next)
  BY <1>1
<1> HIDE DEF next
<1>4. "HEALTH_CHECK" \in Statuses
  BY DEF Statuses
<1>5. Progress
  BY <1>0, <1>1, <1>2, <1>4, StatusFacts
<1>6. HandlerFits(next, rows', releases', told')
  BY <1>0, <1>2, <1>5, InvFacts, HandlerKeeps DEF Progress
<1>7. inFlight' \in SUBSET {"health", "auto"}
  BY <1>0, InvFacts
<1> QED BY <1>0, <1>1, <1>2, <1>3, <1>4, <1>6, <1>7, StatusRun DEF InsertPlaces

\* createRollout records what it inserted and what it replaces.
LEMMA RolloutStep ==
    ASSUME Inv, NEW h \in Handlers, RecordRollout(h)
    PROVE  Inv'
<1>0. /\ handler[h] \in HandlerStates /\ HandlerFits(handler[h], rows, releases, told)
      /\ handler[h].at = "record" /\ handler[h].op = "create" /\ Finish(h)
      /\ rows \in Seq(Rows) /\ DOMAIN rows = 1 .. Len(rows) /\ Len(rows) <= MaxRows
      /\ releases \in Seq(Releases) /\ Len(releases) \in Nat
      /\ UNCHANGED <<rows, pipeline, told, serving>>
  BY InvFacts DEF RecordRollout, At, Inv, TypeOK
<1>1. PICK canaryNodes \in SUBSET Nodes \ {{}} :
          releases' = Append(releases,
              [status |-> "CANARY_DEPLOYED", canary |-> handler[h].row,
               previous |-> handler[h].source, canaryNodes |-> canaryNodes,
               expired |-> FALSE])
  BY DEF RecordRollout
<1> DEFINE new == [status |-> "CANARY_DEPLOYED", canary |-> handler[h].row,
                   previous |-> handler[h].source, canaryNodes |-> canaryNodes,
                   expired |-> FALSE]
<1>2. /\ handler[h].row \in DOMAIN rows /\ handler[h].source \in {NoRow} \cup DOMAIN rows
      /\ OlderIn(rows, handler[h].source, handler[h].row)
  BY <1>0 DEF HandlerFits, CreateFits
<1>3. new \in Releases
  <2>1. handler[h].row \in RowIds /\ handler[h].source \in RowIds
    BY <1>0 DEF HandlerStates
  <2> QED BY <2>1 DEF Releases, Statuses
<1>4. /\ new.status = "CANARY_DEPLOYED" /\ new.canary = handler[h].row
      /\ new.previous = handler[h].source
  OBVIOUS
<1>5. releases' = Append(releases, new)
  BY <1>1
<1> HIDE DEF new
<1>6. /\ releases' \in Seq(Releases) /\ Len(releases') = Len(releases) + 1
      /\ DOMAIN releases = 1 .. Len(releases) /\ DOMAIN releases' = 1 .. Len(releases) + 1
      /\ \A q \in 1 .. Len(releases) : releases'[q] = releases[q]
      /\ releases'[Len(releases) + 1] = new
  BY <1>0, <1>3, <1>5
<1>7. Kept(releases, releases')
  BY <1>0, <1>6 DEF Kept
<1>8. Progress
  BY <1>0, <1>7, TableFacts DEF Progress, Grown
<1>9. ASSUME NEW q \in DOMAIN releases' PROVE ReleaseFits(q, rows', releases', told')
  <2>1. CASE q \in DOMAIN releases
    <3>1. releases'[q].status = "BROADENED" => ToldOf(q, releases'[q], told')
      BY <1>0, <1>6, <2>1, InvFacts DEF ReleaseFits
    <3> QED BY <1>0, <1>8, <2>1, <3>1, ReleaseKeeps, InvFacts DEF Progress
  <2>2. CASE q = Len(releases) + 1
    BY <1>0, <1>2, <1>4, <1>6, <2>2 DEF ReleaseFits
  <2> QED BY <1>0, <1>6, <2>1, <2>2
<1>10. PICK state \in HandlerStates :
              /\ Run(h, state)
              /\ state.at \notin InsertPlaces
              /\ ~(state.op = "create" /\ state.at # "idle")
              /\ \A table, rollouts, pushes : DOMAIN releases \subseteq DOMAIN rollouts
                    => HandlerFits(state, table, rollouts, pushes)
              /\ inFlight' \in SUBSET {"health", "auto"}
  BY <1>0, EndFits DEF Finish
<1>11. HandlerFits(state, rows', releases', told')
  BY <1>8, <1>10 DEF Progress, Kept
<1>12. rows' \in Seq(Rows)
  BY <1>0
<1>13. /\ handler' \in [Handlers -> HandlerStates]
       /\ handler'[h] = state
       /\ \A g \in Handlers : g # h => handler'[g] = handler[g]
       /\ \A g \in Handlers : HandlerFits(handler'[g], rows', releases', told')
  BY <1>8, <1>10, <1>11, <1>12, RunFits
<1>14. Len(releases) + 1 <= MaxReleases
  BY <1>0, RoomFacts
<1>15. TypeOK'
  BY <1>0, <1>6, <1>10, <1>13, <1>14 DEF Inv, TypeOK
<1>16. Bounded'
  <2>1. h \in Creating /\ Creating' \subseteq Creating \ {h}
    BY <1>0, <1>10, <1>13 DEF Creating, Busy
  <2>2. Inserting' \subseteq Inserting
    BY <1>10, <1>13 DEF Inserting, InsertPlaces
  <2>3. /\ Cardinality(Inserting') <= Cardinality(Inserting)
        /\ Cardinality(Creating') + 1 <= Cardinality(Creating)
        /\ Cardinality(Inserting) \in Nat /\ Cardinality(Inserting') \in Nat
        /\ Cardinality(Creating) \in Nat /\ Cardinality(Creating') \in Nat
    BY <2>1, <2>2, Sets, SetsLater, Counting
  <2>4. Len(rows) \in Nat
    BY InvFacts
  <2> QED BY <1>0, <1>6, <2>3, <2>4, StagedRolloutAssumption DEF Inv, Bounded
<1>17. Numbered(rows')
  BY <1>0, InvFacts
<1> QED BY <1>9, <1>13, <1>15, <1>16, <1>17 DEF Inv

-----------------------------------------------------------------------------
\* A stop of the server ends every handler.
LEMMA RestartStep == Inv /\ ServerRestarts => Inv'
<1> SUFFICES ASSUME Inv, ServerRestarts PROVE Inv'
  OBVIOUS
<1>0. /\ handler' = [h \in Handlers |-> Blank] /\ inFlight' = {}
      /\ UNCHANGED <<rows, releases, pipeline, told, serving>>
  BY SameDb DEF ServerRestarts
<1>1. Blank \in HandlerStates /\ HandlerFits(Blank, rows', releases', told')
      /\ Blank.at = "idle"
  BY BlankFits DEF Blank
<1>2. /\ handler' \in [Handlers -> HandlerStates]
      /\ \A h \in Handlers : HandlerFits(handler'[h], rows', releases', told')
  BY <1>0, <1>1
<1>3. TypeOK'
  BY <1>0, <1>2 DEF Inv, TypeOK
<1>4. Inserting' = {} /\ Creating' = {}
  BY <1>0, <1>1 DEF Inserting, Creating, Busy
<1>5. Bounded'
  <2>1. Cardinality({}) = 0
    BY FS_EmptySet
  <2>2. Len(rows) \in Nat /\ Len(releases) \in Nat
        /\ Cardinality(Inserting) \in Nat /\ Cardinality(Creating) \in Nat
    BY Sets, HandlersFinite, FS_Subset, FS_CardinalityType DEF Inv, TypeOK
  <2> QED BY <1>0, <1>4, <2>1, <2>2, StagedRolloutAssumption DEF Inv, Bounded
<1>6. Numbered(rows')
      /\ \A r \in DOMAIN releases' : ReleaseFits(r, rows', releases', told')
  BY <1>0, InvFacts DEF ReleaseFits, ToldOf
<1> QED BY <1>2, <1>3, <1>5, <1>6 DEF Inv

\* The end of a window changes nothing a handler or a rollout relies on.
LEMMA WindowStep ==
    ASSUME Inv, NEW r \in DOMAIN releases, WindowExpires(r)
    PROVE  Inv'
<1>0. /\ releases \in Seq(Releases) /\ releases' = [releases EXCEPT ![r].expired = TRUE]
      /\ UNCHANGED <<rows, pipeline, handler, inFlight, told, serving>>
  BY DEF Inv, TypeOK, WindowExpires, serverVars
<1>1. Len(releases) \in Nat /\ DOMAIN releases = 1 .. Len(releases)
      /\ \A q \in DOMAIN releases : releases[q] \in Releases
  BY <1>0
<1>2. [releases[r] EXCEPT !.expired = TRUE] \in Releases
  BY <1>1 DEF Releases
<1>3. /\ releases' \in Seq(Releases) /\ Len(releases') = Len(releases)
      /\ DOMAIN releases' = DOMAIN releases
      /\ releases'[r] = [releases[r] EXCEPT !.expired = TRUE]
      /\ \A q \in DOMAIN releases : q # r => releases'[q] = releases[q]
  BY <1>0, <1>1, <1>2
<1>4. \A q \in DOMAIN releases :
        /\ releases'[q].status = releases[q].status
        /\ releases'[q].canary = releases[q].canary
        /\ releases'[q].previous = releases[q].previous
        /\ releases'[q].canaryNodes = releases[q].canaryNodes
  BY <1>1, <1>3 DEF Releases
<1>5. Progress
  BY <1>0, <1>3, <1>4, InvFacts, TableFacts DEF Progress, Grown, Kept
<1>6. ASSUME NEW q \in DOMAIN releases' PROVE ReleaseFits(q, rows', releases', told')
  BY <1>0, <1>3, <1>4, InvFacts DEF ReleaseFits, ToldOf
<1>7. ASSUME NEW h \in Handlers PROVE HandlerFits(handler'[h], rows', releases', told')
  <2>1. rows' \in Seq(Rows) /\ HandlerFits(handler[h], rows, releases, told)
    BY <1>0, InvFacts
  <2> QED BY <1>0, <1>5, <2>1, HandlerKeeps, InvFacts DEF Progress
<1>8. TypeOK'
  BY <1>0, <1>3 DEF Inv, TypeOK
<1>9. Bounded' /\ Numbered(rows')
  <2>1. Inserting' = Inserting /\ Creating' = Creating
    BY <1>0 DEF Inserting, Creating, Busy
  <2> QED BY <1>0, <1>3, <2>1 DEF Inv, Bounded
<1> QED BY <1>6, <1>7, <1>8, <1>9 DEF Inv

\* Users' switches, edits and polls of agents.
LEMMA OutsideStep ==
    ASSUME Inv, \/ Edit \/ Undeploy \/ EnableAutoRollback
                \/ \E n \in Nodes : PollConfig(n)
                \/ UNCHANGED vars
    PROVE  Inv'
<1>1. /\ UNCHANGED <<rows, releases, handler, inFlight, told>>
  BY SameDb DEF Edit, Undeploy, EnableAutoRollback, PollConfig, serverVars, vars
<1>2. PipelineType'
  <2>1. CASE pipeline' = pipeline
    BY <2>1, SamePipeline
  <2>2. CASE Edit
    BY <2>2, InvFacts DEF Edit, PipelineType
  <2>3. CASE Undeploy
    BY <2>3, InvFacts DEF Undeploy, PipelineType
  <2>4. CASE EnableAutoRollback
    BY <2>4, InvFacts DEF EnableAutoRollback, PipelineType
  <2>5. CASE UNCHANGED dbVars
    BY <2>1, <2>5, SameDb
  <2> QED BY <2>1, <2>2, <2>3, <2>4, <2>5 DEF PollConfig, vars
<1>3. serving' \in [Nodes -> RowIds]
  <2>1. CASE serving' = serving
    BY <2>1, InvFacts
  <2>2. ASSUME NEW n \in Nodes, PollConfig(n) PROVE serving' \in [Nodes -> RowIds]
    <3>1. PICK i \in ServedRows : serving' = [serving EXCEPT ![n] = i]
      BY <2>2 DEF PollConfig
    <3>2. i \in {NoRow} \cup DOMAIN rows
      BY LatestExist DEF ServedRows
    <3>3. i \in RowIds
      BY <3>2, InvFacts, TableFacts, StagedRolloutAssumption DEF RowIds, NoRow
    <3> QED BY <3>1, <3>3, InvFacts
  <2> QED BY <2>1, <2>2 DEF Edit, Undeploy, EnableAutoRollback, vars
<1>4. TypeOK'
  BY <1>1, <1>2, <1>3 DEF Inv, TypeOK, PipelineType
<1>5. Inserting' = Inserting /\ Creating' = Creating
  BY <1>1 DEF Inserting, Creating, Busy
<1> QED BY <1>1, <1>4, <1>5 DEF Inv, Bounded, ReleaseFits, ToldOf

LEMMA InvStep == Inv /\ [Next]_vars => Inv'
<1> SUFFICES ASSUME Inv, [Next]_vars PROVE Inv'
  OBVIOUS
<1>1. CASE \E h \in Requests : Begin(h)
  BY <1>1, BeginStep
<1>2. CASE BeginHealthTick \/ BeginRollbackTick
  BY <1>2, TickStep
<1>3. ASSUME NEW h \in Handlers, Continue(h) \/ CallFails(h) \/ MarkFails(h)
      PROVE  Inv'
  <2>1. CASE \/ ReadNumber(h) \/ ReadGraph(h) \/ ReadPrevious(h) \/ RestoreGraph(h)
             \/ AutoBroaden(h) \/ ErrorRateExceeded(h) \/ DisableAutoRollback(h)
    BY <2>1, ReadingStep
  <2>2. CASE \/ BudgetBurned(h) \/ LeaveForReview(h) \/ ErrorRateAcceptable(h)
             \/ CallFails(h) \/ MarkFails(h)
    BY <2>2, EndingStep
  <2>3. CASE \/ InsertVersion(h) \/ PublishVersion(h) \/ RecordRollout(h)
             \/ PassBudget(h) \/ RecordBroadened(h) \/ RecordRolledBack(h)
             \/ MarkHealthCheck(h) \/ FindActiveRollout(h)
    BY <2>3, InsertStep, PublishStep, RolloutStep, PassBudgetStep, RecordStep,
       MarkStep, FindStep
  <2> QED BY <1>3, <2>1, <2>2, <2>3 DEF Continue
<1>4. CASE ServerRestarts
  BY <1>4, RestartStep
<1>5. CASE \E r \in DOMAIN releases : WindowExpires(r)
  BY <1>5, WindowStep
<1>6. CASE \/ Edit \/ Undeploy \/ EnableAutoRollback
           \/ \E n \in Nodes : PollConfig(n)
           \/ UNCHANGED vars
  BY <1>6, OutsideStep
<1> QED BY <1>1, <1>2, <1>3, <1>4, <1>5, <1>6 DEF Next

LEMMA InitInv == Init => Inv
<1> SUFFICES ASSUME Init PROVE Inv
  OBVIOUS
<1>0. /\ rows = <<>> /\ releases = <<>> /\ told = {} /\ inFlight = {}
      /\ handler = [h \in Handlers |-> Blank] /\ serving = [n \in Nodes |-> NoRow]
  BY DEF Init
<1>1. /\ rows \in Seq(Rows) /\ Len(rows) = 0 /\ DOMAIN rows = {}
      /\ releases \in Seq(Releases) /\ Len(releases) = 0 /\ DOMAIN releases = {}
  BY <1>0
<1>2. Blank \in HandlerStates /\ HandlerFits(Blank, rows, releases, told) /\ Blank.at = "idle"
  BY BlankFits DEF Blank
<1>3. /\ handler \in [Handlers -> HandlerStates]
      /\ \A h \in Handlers : HandlerFits(handler[h], rows, releases, told)
  BY <1>0, <1>2
<1>4. PipelineType
  <2>1. (CHOOSE config \in Configs : TRUE) \in Configs
    BY StagedRolloutAssumption
  <2> QED BY <2>1 DEF Init, PipelineType
<1>5. NoRow \in RowIds
  BY StagedRolloutAssumption DEF NoRow, RowIds
<1>6. TypeOK
  BY <1>0, <1>1, <1>3, <1>4, <1>5, StagedRolloutAssumption DEF TypeOK, PipelineType
<1>7. Bounded
  <2>1. Inserting = {} /\ Creating = {}
    BY <1>0, <1>2 DEF Inserting, Creating, Busy
  <2> QED BY <1>1, <2>1, FS_EmptySet, StagedRolloutAssumption DEF Bounded
<1> QED BY <1>0, <1>1, <1>3, <1>6, <1>7 DEF Inv, Numbered

THEOREM Invariance == Spec => []Inv
<1> QED BY InitInv, InvStep, PTL DEF Spec

-----------------------------------------------------------------------------
\* A rollout is recorded as broadened only after every node outside its canary
\* was told, by whichever handler finished the work and whatever failed before.
THEOREM BroadenedWasToldHolds == Spec => []BroadenedWasTold
<1>1. Inv => BroadenedWasTold
  BY DEF Inv, BroadenedWasTold, ReleaseFits, ToldOf, Status
<1> QED BY <1>1, Invariance, PTL

\* The version a rollback would deploy has a lower number than the canary, for
\* any number of handlers that insert versions at the same time.
THEOREM PreviousIsOlderHolds == Spec => []PreviousIsOlder
<1>1. Inv => PreviousIsOlder
  BY DEF Inv, PreviousIsOlder, ReleaseFits, OlderIn
<1> QED BY <1>1, Invariance, PTL

\* The row that ends a rollback copies the version the rollout recorded: only
\* the handler itself takes the step, with the snapshot it restored.
THEOREM RollbacksCopyPreviousHolds == Spec => RollbacksCopyPrevious
<1> DEFINE Copies(h) ==
        LET previous == releases[handler[h].release].previous IN
        handler[h].op = "rollback" /\ At(h, "insert") /\ Len(rows') > Len(rows)
            /\ handler'[h] # handler[h]
          => rows'[Len(rows')].config = rows[previous].config
<1>1. ASSUME Inv, [Next]_vars, NEW h \in Handlers PROVE Copies(h)
  <2> SUFFICES ASSUME handler[h].op = "rollback", handler[h].at = "insert",
                      Len(rows') > Len(rows), handler'[h] # handler[h]
               PROVE  rows'[Len(rows')].config
                        = rows[releases[handler[h].release].previous].config
    BY DEF At
  <2>1. rows \in Seq(Rows) /\ Len(rows) \in Nat /\ HandlerFits(handler[h], rows, releases, told)
    BY <1>1, InvFacts
  <2>2. rows' # rows
    BY <2>1
  <2>3. PICK g \in Handlers : InsertVersion(g)
    <3> USE DEF Request, Begin, BeginDeploy, BeginCreate, BeginBroaden, BeginRollback
    <3>1. CASE \E g \in Requests : Begin(g)
      BY <2>2, <3>1, SameDb
    <3>2. CASE \/ BeginHealthTick \/ BeginRollbackTick \/ ServerRestarts
               \/ Edit \/ Undeploy \/ EnableAutoRollback
               \/ UNCHANGED vars
      BY <2>2, <3>2, SameDb DEF BeginHealthTick, BeginRollbackTick, ServerRestarts, Edit,
         Undeploy, EnableAutoRollback, vars
    <3>3. CASE \/ \E n \in Nodes : PollConfig(n)
               \/ \E r \in DOMAIN releases : WindowExpires(r)
      BY <2>2, <3>3, SameDb DEF PollConfig, WindowExpires
    <3>4. ASSUME NEW g \in Handlers, CallFails(g) \/ MarkFails(g) PROVE FALSE
      BY <2>2, <3>4, SameDb DEF CallFails, MarkFails
    <3>5. ASSUME NEW g \in Handlers, Continue(g), ~InsertVersion(g) PROVE FALSE
      BY <2>2, <3>5, SameDb
         DEF Continue, ReadNumber, PublishVersion, ReadGraph, ReadPrevious, RecordRollout,
             PassBudget, BudgetBurned, RecordBroadened, RestoreGraph, RecordRolledBack,
             MarkHealthCheck, AutoBroaden, LeaveForReview, ErrorRateExceeded,
             ErrorRateAcceptable, DisableAutoRollback, FindActiveRollout
    <3> QED BY <1>1, <3>1, <3>2, <3>3, <3>4, <3>5 DEF Next
  <2>4. g = h
    <3>1. handler \in [Handlers -> HandlerStates]
      BY <1>1 DEF Inv, TypeOK
    <3> QED BY <2>3, <3>1 DEF InsertVersion, Run
  <2> DEFINE row == [version |-> handler[h].number, config |-> handler[h].config]
  <2>5. rows' = Append(rows, row)
    BY <2>3, <2>4 DEF InsertVersion
  <2>6. row.config = handler[h].config
    OBVIOUS
  <2> HIDE DEF row
  <2>7. rows'[Len(rows')] = row
    BY <2>1, <2>5
  <2> QED BY <2>1, <2>6, <2>7 DEF HandlerFits, RollbackFits
<1>2. Inv /\ [Next]_vars => [\A h \in Handlers : Copies(h)]_vars
  BY <1>1
<1>3. Spec => [][\A h \in Handlers : Copies(h)]_vars
  BY <1>2, Invariance, PTL DEF Spec
<1> QED BY <1>3 DEF RollbacksCopyPrevious
=============================================================================
