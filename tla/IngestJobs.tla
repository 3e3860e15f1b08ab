-------------------------------- MODULE IngestJobs --------------------------------
(***************************************************************************)
(* The ingest loop that the join backfill, catch-up, the history backfill  *)
(* and the recovery script each have a copy of: collect messages, split    *)
(* them into albums and solos, upsert the albums, then the solos, one      *)
(* session and commit each.                                                *)
(***************************************************************************)
EXTENDS PostStore

CONSTANTS JoinLimit, CatchUpLimit, BatchSize   \* messages one fetch asks for

ASSUME LimitAssumption == {JoinLimit, CatchUpLimit, BatchSize} \subseteq Nat \ {0}

VARIABLE job   \* what each copy is doing

Jobs == {"join", "catchup", "history", "recovery"}

\* selected: a history pass has its cursor but not its lock
\* fetch:    about to ask Telegram, from cursor on
\* ingest:   todo is what of batch is not committed yet
\* write:    item has been looked up, with the answer seen
JobState ==
  [pc     : {"idle", "selected", "fetch", "ingest", "write"},
   cursor : 0..LastMessage,
   batch  : SUBSET Messages,
   todo   : SUBSET SUBSET Messages,
   item   : SUBSET Messages,
   seen   : {NothingFound} \cup Found]

JobTypeOK == job \in [Jobs -> JobState]

State(pc, cursor, batch, todo, item, seen) ==
  [pc |-> pc, cursor |-> cursor, batch |-> batch, todo |-> todo, item |-> item, seen |-> seen]

At(pc, cursor) == State(pc, cursor, {}, {}, {}, NothingFound)
Idle == At("idle", 0)

Enter(j, state) == job' = [job EXCEPT ![j] = state]
Leave(j) == Enter(j, Idle)

Collect(j, S) == Enter(j, State("ingest", job[j].cursor, S, Items(S), {}, NothingFound))

Newer(a, b) == \E m \in a : \A k \in b : m > k

\* Albums first, then solos, each in the order their messages were yielded.
Precedes(a, b) ==
  IF (Group(a) = {}) = (Group(b) = {}) THEN Newer(a, b) ELSE Group(a) # {}

LookUp(j) ==
  /\ job[j].pc = "ingest"
  /\ \E item \in job[j].todo :
       /\ \A other \in job[j].todo \ {item} : Precedes(item, other)
       /\ \E seen \in Readings(item) :
            Enter(j, State("write", job[j].cursor, job[j].batch, job[j].todo, item, seen))
  /\ UNCHANGED postVars

Write(j) ==
  /\ job[j].pc = "write"
  /\ Upsert(job[j].item, job[j].seen)
  /\ Enter(j, State("ingest", job[j].cursor, job[j].batch, job[j].todo \ {job[j].item},
                    {}, NothingFound))

Ingest(j) == LookUp(j) \/ Write(j)

\* Every item is committed.
Ingested(j) == job[j].pc = "ingest" /\ job[j].todo = {}

\* A unique index refuses the write, or any call of the job fails.  The loop
\* itself catches nothing.
Raises(j) ==
  \/ job[j].pc = "write" /\ Refused(job[j].item, job[j].seen)
  \/ job[j].pc # "idle" /\ "error" \in Faults
================================================================================
