-------------------------------- MODULE PostStore --------------------------------
(***************************************************************************)
(* The posts and media tables, for one channel, and upsert_post.  Every    *)
(* message carries one photo, so a media row is known by its message.  A   *)
(* post is known by tg_message_id, its head, which is unique per channel.  *)
(* An upsert is split where other sessions can commit in between: what its *)
(* SELECTs read, and the insert with its commit.                           *)
(***************************************************************************)
EXTENDS ChannelFeed

CONSTANT Faults   \* what may go wrong: "crash", "error", "flood", "download"

VARIABLES
  posts,   \* [head, group]: tg_message_id, tg_grouped_id
  media    \* [post, file, position, photo]: photo is the message whose
           \* picture storage_key names, 0 for NULL

postVars == <<posts, media>>

Post == [head : Messages, group : SUBSET Messages]
MediaRow == [post : Messages, file : Messages, position : Nat, photo : 0..LastMessage]

PostTypeOK == posts \subseteq Post /\ media \subseteq MediaRow

\* Message m has its media row.
Stored(m) == \E r \in media : r.file = m

Rows(p) == {r \in media : r.post = p}
Files(p) == {r.file : r \in Rows(p)}

Oldest(m, S) == m \in S /\ \A k \in S : m \leq k

\* How many messages of S come before m.
Rank(m, S) == Cardinality({k \in S : k < m})

Group(item) == UNION {GroupOf(m) : m \in item}

\* MAX(position) + 1 over the rows of post p.
NextPositions(p) ==
  {n \in {0} \cup {r.position + 1 : r \in Rows(p)} : \A r \in Rows(p) : r.position < n}

(* What the SELECTs of upsert_post return: the post of the album, the files *)
(* it has and the next position.                                            *)
NothingFound == [found |-> FALSE]
Found == [found : {TRUE}, post : Messages, files : SUBSET Messages, next : Nat]

AlbumPosts(item) == {p \in posts : Group(item) # {} /\ p.group = Group(item)}

\* Mutated form: the album is not looked up.
ReadingsOfNothing(item) == {NothingFound}

Readings(item) ==
  IF AlbumPosts(item) = {} THEN {NothingFound}
  ELSE UNION {{[found |-> TRUE, post |-> p.head, files |-> Files(p.head), next |-> n] :
                 n \in NextPositions(p.head)} : p \in AlbumPosts(item)}

Free(head) == \A p \in posts : p.head # head
Untagged(group) == group = {} \/ \A p \in posts : p.group # group

\* The rows, with the pictures of files in got stored for post p.
WithPhotos(rows, p, got) ==
  {IF r.post = p /\ r.file \in got THEN [r EXCEPT !.photo = r.file] ELSE r : r \in rows}

\* A picture that cannot be downloaded leaves its storage_key NULL.
Downloads(item) == IF "download" \in Faults THEN SUBSET item ELSE {item}

\* Mutated form: places are counted from -1.
NewRowsFromMinusOne(p, files, from) ==
  {[post |-> p, file |-> f, position |-> from + Rank(f, files) - 1, photo |-> 0] : f \in files}

NewRows(p, files, from) ==
  {[post |-> p, file |-> f, position |-> from + Rank(f, files), photo |-> 0] : f \in files}

\* Mutated form: the files the album's post already has are appended again,
\* and no unique index refuses them.
AppendAll(item, seen) ==
  /\ seen.found
  /\ \E got \in Downloads(item) :
       media' = WithPhotos(media \cup NewRows(seen.post, item, seen.next), seen.post, got)
  /\ UNCHANGED posts

\* Mutated form: the appended files are placed from 0 on.
AppendFromZero(item, seen) ==
  /\ seen.found
  /\ (item \ seen.files) \cap Files(seen.post) = {}
  /\ \E got \in Downloads(item) :
       media' = WithPhotos(media \cup NewRows(seen.post, item \ seen.files, 0), seen.post, got)
  /\ UNCHANGED posts

\* The album has a post: the files it lacked are appended to it.  The unique
\* index on (post_id, tg_file_id) admits them.
AppendMedia(item, seen) ==
  /\ seen.found
  /\ (item \ seen.files) \cap Files(seen.post) = {}
  /\ \E got \in Downloads(item) :
       media' = WithPhotos(media \cup NewRows(seen.post, item \ seen.files, seen.next),
                           seen.post, got)
  /\ UNCHANGED posts

\* INSERT ... ON CONFLICT (channel_id, tg_message_id) DO NOTHING, then the
\* media rows.  The unique index on (channel_id, tg_grouped_id) admits it.
InsertPost(item, seen) ==
  /\ ~seen.found
  /\ \E h \in item : /\ Oldest(h, item) /\ Free(h) /\ Untagged(Group(item))
                     /\ posts' = posts \cup {[head |-> h, group |-> Group(item)]}
                     /\ \E got \in Downloads(item) :
                          media' = WithPhotos(media \cup NewRows(h, item, 0), h, got)

\* The conflict target: the post is already there.
SkipDuplicate(item, seen) ==
  /\ ~seen.found
  /\ \E h \in item : Oldest(h, item) /\ ~Free(h)
  /\ UNCHANGED postVars

Upsert(item, seen) ==
  AppendMedia(item, seen) \/ InsertPost(item, seen) \/ SkipDuplicate(item, seen)

\* One of the other two unique indexes refuses the insert: IntegrityError.
Refused(item, seen) ==
  IF seen.found
    THEN (item \ seen.files) \cap Files(seen.post) # {}
    ELSE /\ \A h \in item : Oldest(h, item) => Free(h)
         /\ ~Untagged(Group(item))
================================================================================
