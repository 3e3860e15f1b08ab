------------------------------- MODULE IngesterBoot -------------------------------
(***************************************************************************)
(* main() of the ingester, for a channel: catch-up, the repair of missing  *)
(* pictures, the merge of albums ingested before posts knew their group,   *)
(* and only then the live handlers and the workers.  What the steps raise  *)
(* ends the process.  (The text and channel photo repairs touch none of    *)
(* this state.)                                                            *)
(***************************************************************************)
EXTENDS HistoryBackfill, LiveHandlers

CONSTANT HealLimit   \* messages backfill_recent_media looks at

ASSUME HealAssumption == HealLimit \in Nat \ {0}

VARIABLE phase   \* how far main() has come

Phases == {"down", "catchup", "heal", "merge", "live"}

BootTypeOK == phase \in Phases

\* COALESCE(MAX(tg_message_id), 0)
MaxKnown(c) ==
  IF posts = {} THEN c = 0
  ELSE (\E p \in posts : p.head = c) /\ \A p \in posts : p.head \leq c

BeginBoot ==
  /\ phase = "down"
  /\ phase' = IF sub = "active" THEN "catchup" ELSE "heal"
  /\ IF sub = "active"
       THEN \E c \in 0..LastMessage : MaxKnown(c) /\ Enter("catchup", At("fetch", c))
       ELSE UNCHANGED job
  /\ UNCHANGED <<postVars, reads, routed>>

FetchMissed ==
  /\ job["catchup"].pc = "fetch"
  /\ Collect("catchup", Newest({m \in Posted : m > job["catchup"].cursor}, CatchUpLimit))
  /\ UNCHANGED <<postVars, reads, phase, routed>>

\* Everything fetched is committed; or get_entity failed, and the channel is
\* left out.
CaughtUp ==
  /\ Ingested("catchup") \/ (job["catchup"].pc = "fetch" /\ "error" \in Faults)
  /\ Leave("catchup")
  /\ phase' = "heal"
  /\ UNCHANGED <<postVars, reads, routed>>

\* backfill_recent_media: a recent message that heads a post gives its
\* picture to every row of the post that has none.  With faults it may stop
\* half way, or a download fail.
Heal ==
  /\ phase = "heal"
  /\ phase' = "merge"
  /\ \E got \in SUBSET Newest(Posted, HealLimit) :
       /\ Faults = {} => got = Newest(Posted, HealLimit)
       /\ media' = {IF r.photo = 0 /\ r.post \in got /\ sub = "active"
                    THEN [r EXCEPT !.photo = r.post] ELSE r : r \in media}
  /\ UNCHANGED <<posts, reads, job, routed>>

\* Posts of album A that do not know they belong to it.
Legacy(A) == {p \in posts : p.group = {} /\ p.head \in A}

HasLegacy(A) == sub = "active" /\ Legacy(A) # {}

\* The rows that move from the other legacy posts to p, and their places there.
Moving(A, p) ==
  {r \in media : r.file \notin Files(p.head) /\ \E q \in Legacy(A) \ {p} : r.post = q.head}

Place(A, p, r) == Rank(r.file, {t.file : t \in Moving(A, p)})

\* Mutated forms: the moved files are placed from 0 on; none is moved.
MovedFromZero(A, p, n) ==
  {[r EXCEPT !.post = p.head, !.position = Place(A, p, r)] : r \in Moving(A, p)}
MovedNothing(A, p, n) == {}

Moved(A, p, n) ==
  {[r EXCEPT !.post = p.head, !.position = n + Place(A, p, r)] : r \in Moving(A, p)}

\* Mutated form: the others stay.
NobodyDeleted(A, p) == {}

Deleted(A, p) == Legacy(A) \ {p}

\* The legacy posts of A become one: the head takes the group and, after its
\* own, the files of the others it does not have.
MergeAlbum(A) ==
  /\ phase = "merge"
  /\ HasLegacy(A) /\ Untagged(A)
  /\ \E p \in Legacy(A) :
       /\ \A q \in Legacy(A) \ {p} : p.head < q.head
       /\ posts' = (posts \ (Deleted(A, p) \cup {p})) \cup {[p EXCEPT !.group = A]}
       /\ \E n \in NextPositions(p.head) :
            media' = {r \in media : \A q \in Deleted(A, p) : r.post # q.head} \cup Moved(A, p, n)
  /\ reads' \in {n \in 0..Cardinality(posts') : n \leq reads}
  /\ UNCHANGED <<phase, job, routed>>

\* subscribe_to_active_channels, once no album is left to merge or the
\* messages could not be read.
Subscribe ==
  /\ phase = "merge"
  /\ (\A A \in Albums : ~HasLegacy(A)) \/ "error" \in Faults
  /\ phase' = "live" /\ routed' = (sub = "active")
  /\ UNCHANGED <<postVars, reads, job>>

\* An exception of a boot step, or a group that has a post already.
BootFails ==
  /\ \/ Raises("catchup")
     \/ phase \in {"heal", "merge"} /\ "error" \in Faults
     \/ phase = "merge" /\ \E A \in Albums : HasLegacy(A) /\ ~Untagged(A)
  /\ phase' = "down"
  /\ Leave("catchup")
  /\ UNCHANGED <<postVars, reads, routed>>

BootStep ==
  \/ BeginBoot \/ FetchMissed \/ (Ingest("catchup") /\ UNCHANGED <<reads, phase, routed>>)
  \/ CaughtUp \/ Heal
  \/ \E A \in Albums : MergeAlbum(A)
  \/ Subscribe \/ BootFails
================================================================================
