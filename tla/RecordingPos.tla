----------------------------- MODULE RecordingPos -----------------------------
(***************************************************************************)
(* RecordingPos reads the counters of the driver, which changes them at    *)
(* the same time: the state of a counter, its type and its key are read    *)
(* one after the other.                                                    *)
(***************************************************************************)
EXTENDS Recordings

VARIABLES
    reader,     \* the call of RecordingPos: op, what it looks for, where it is
    touched     \* history: counters changed while a search was under way

readerVars == <<reader, touched>>

\* findCounterIdBySession and findCounterIdByRecording search all counters,
\* getRecordingId looks at one.
Searches == {"bySession", "byRecording"}
NoReader == [op |-> "none", sought |-> None, counterId |-> 0, field |-> "done", result |-> None]

Search(op, sought) ==
    /\ reader' = [op |-> op, sought |-> sought, counterId |-> 0, field |-> "state", result |-> None]
    /\ touched' = {}

GetRecordingId(counterId) ==
    /\ reader' = [op |-> "getRecordingId", sought |-> None, counterId |-> counterId,
                  field |-> "state", result |-> None]
    /\ UNCHANGED touched

ReadReturns(value) == reader' = [reader EXCEPT !.field = "done", !.result = value]
ReadField(field) == reader' = [reader EXCEPT !.field = field]

\* Not the counter that is sought: the next, if there is one.
IsPastLast(i) == i > LastCounterId              \* mutant of IsLast
IsLastButOne(i) == i >= LastCounterId - 1       \* mutant of IsLast
IsLast(i) == i = LastCounterId
Miss ==
    IF reader.op = "getRecordingId" \/ IsLast(reader.counterId)
    THEN ReadReturns(None)
    ELSE reader' = [reader EXCEPT !.counterId = @ + 1, !.field = "state"]

ReadState ==
    /\ reader.field = "state"
    /\ IF counters[reader.counterId].state = "allocated" THEN ReadField("typeId") ELSE Miss

ReadTypeId ==
    /\ reader.field = "typeId"
    /\ IF counters[reader.counterId].typeId = "recordingPos" THEN ReadField("key") ELSE Miss

KeyOf(c, op) == IF op = "bySession" THEN c.sessionId ELSE c.recordingId

ReadKey ==
    LET key == KeyOf(counters[reader.counterId], reader.op) IN
    /\ reader.field = "key"
    /\ IF reader.op = "getRecordingId" THEN ReadReturns(key)
       ELSE IF key = reader.sought THEN ReadReturns(reader.counterId) ELSE Miss

ReadStep ==
    /\ ReadState \/ ReadTypeId \/ ReadKey
    /\ UNCHANGED <<touched, recordingsVars>>

\* Goes with every step of the driver, for the history.
Watch ==
    LET entry(c) == <<c.state, c.typeId, c.recordingId, c.sessionId>> IN
    /\ UNCHANGED reader
    /\ touched' = IF reader.op \in Searches /\ reader.field # "done"
                  THEN touched \cup { i \in CounterIds : entry(counters'[i]) # entry(counters[i]) }
                  ELSE touched

ReadTypeOK ==
    /\ reader \in [op : Searches \cup {"none", "getRecordingId"}, sought : Int, counterId : CounterIds,
                   field : {"state", "typeId", "key", "done"}, result : Int]
    /\ touched \subseteq CounterIds

-----------------------------------------------------------------------------
Matches(i, op, sought) ==
    LET c == counters[i] IN
    c.state = "allocated" /\ c.typeId = "recordingPos" /\ KeyOf(c, op) = sought

\* A search that finds a counter which did not change meanwhile is right about
\* it, and one that finds nothing has overlooked no counter that was there from
\* its beginning to its end, whatever the driver did to the others.
SearchIsRight ==
    [][ reader.op \in Searches /\ reader.field # "done" /\ reader'.field = "done" =>
          IF reader'.result = None
          THEN \A i \in CounterIds \ touched : ~Matches(i, reader.op, reader.sought)
          ELSE reader'.result \in touched \/ Matches(reader'.result, reader.op, reader.sought)
      ]_<<reader, touched, counters>>
=============================================================================
