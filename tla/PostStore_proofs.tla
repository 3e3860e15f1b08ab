----------------------------- MODULE PostStore_proofs -----------------------------
(***************************************************************************)
(* What an upsert keeps, whatever album, batch boundary or order of        *)
(* arrival it meets: lemmas about the feed, the tables and upsert_post,    *)
(* for a channel of any length with any albums.                            *)
(***************************************************************************)
EXTENDS PostStore, TLAPS, FiniteSetTheorems

--------------------------------------------------------------------------------
(* The feed *)

\* The album of a message, when it has one.
LEMMA AlbumOfMessage == \A A \in Albums : \A m \in A : GroupOf(m) = A
<1> SUFFICES ASSUME NEW A \in Albums, NEW m \in A PROVE GroupOf(m) = A
  OBVIOUS
<1>1. {B \in Albums : m \in B} = {A}
  BY FeedAssumption
<1>2. QED
  BY <1>1 DEF GroupOf

\* A message has no album or is in it, and albums are stretches of messages.
LEMMA GroupFacts ==
  ASSUME NEW m \in Messages
  PROVE  /\ GroupOf(m) \subseteq Messages
         /\ GroupOf(m) # {} => GroupOf(m) \in Albums /\ m \in GroupOf(m)
         /\ \A k \in GroupOf(m) : GroupOf(k) = GroupOf(m) /\ k..m \subseteq GroupOf(m)
                                  /\ m..k \subseteq GroupOf(m)
<1>1. CASE \E A \in Albums : m \in A
  <2>1. PICK A \in Albums : m \in A
    BY <1>1
  <2>2. GroupOf(m) = A
    BY <2>1, AlbumOfMessage
  <2>3. A \subseteq Messages
    BY <2>1, FeedAssumption
  <2>4. \A k \in A : k..m \subseteq A /\ m..k \subseteq A
    BY <2>1, FeedAssumption
  <2>5. \A k \in A : GroupOf(k) = A
    BY <2>1, AlbumOfMessage
  <2>6. QED
    BY <2>1, <2>2, <2>3, <2>4, <2>5
<1>2. CASE ~\E A \in Albums : m \in A
  <2>1. {A \in Albums : m \in A} = {}
    BY <1>2
  <2>2. GroupOf(m) = {}
    BY <2>1 DEF GroupOf
  <2>3. QED
    BY <2>2
<1>3. QED
  BY <1>1, <1>2

\* The messages of an item belong together.
Together(item) ==
  /\ item # {} /\ item \subseteq Messages
  /\ \A m, k \in item : GroupOf(m) = GroupOf(k) /\ (m = k \/ m \in GroupOf(k))

\* Splitting a collection divides it into items, and no album of it in two.
LEMMA ItemsFacts ==
  ASSUME NEW S, S \subseteq Messages
  PROVE  /\ \A i \in Items(S) : i \subseteq S /\ Together(i)
         /\ \A i \in Items(S) : \A m \in i : \A k \in GroupOf(m) : k \in S => k \in i
         /\ \A m \in S : \E i \in Items(S) : m \in i
<1>1. ASSUME NEW i \in Items(S)
      PROVE  \/ \E A \in Albums : i = A \cap S /\ i # {}
             \/ \E m \in S : i = {m} /\ GroupOf(m) = {}
  BY DEF Items
<1>2. ASSUME NEW i \in Items(S)
      PROVE  /\ i \subseteq S /\ Together(i)
             /\ \A m \in i : \A k \in GroupOf(m) : k \in S => k \in i
  <2>1. CASE \E A \in Albums : i = A \cap S /\ i # {}
    <3>1. PICK A \in Albums : i = A \cap S /\ i # {}
      BY <2>1
    <3>2. \A m \in i : GroupOf(m) = A
      BY <3>1, AlbumOfMessage
    <3>3. QED
      BY <3>1, <3>2 DEF Together
  <2>2. CASE \E m \in S : i = {m} /\ GroupOf(m) = {}
    BY <2>2 DEF Together
  <2>3. QED
    BY <1>1, <2>1, <2>2
<1>3. ASSUME NEW m \in S PROVE \E i \in Items(S) : m \in i
  <2>1. CASE GroupOf(m) = {}
    <3>1. {m} \in Items(S)
      BY <2>1 DEF Items
    <3>2. QED
      BY <3>1
  <2>2. CASE GroupOf(m) # {}
    <3>1. GroupOf(m) \in Albums /\ m \in GroupOf(m)
      BY <2>2, GroupFacts
    <3>2. GroupOf(m) \cap S \in Items(S)
      BY <3>1 DEF Items
    <3>3. QED
      BY <3>1, <3>2
  <2>3. QED
    BY <2>1, <2>2
<1>4. QED
  BY <1>2, <1>3

\* Sets of messages are finite.
LEMMA MessagesFinite == \A S \in SUBSET Messages : IsFiniteSet(S) /\ Cardinality(S) \in Nat
<1>1. 1 \in Int /\ LastMessage \in Int
  BY FeedAssumption
<1>2. IsFiniteSet(Messages)
  BY <1>1, FS_Interval DEF Messages
<1>3. QED
  BY <1>2, FS_Subset, FS_CardinalityType

\* Of what a limit keeps, it keeps everything newer too.
LEMMA NewestIsUpward ==
  ASSUME NEW S, S \subseteq Messages, NEW n \in Nat, NEW m \in Newest(S, n), NEW k \in S, m < k
  PROVE  k \in Newest(S, n)
<1> DEFINE Above(x) == {y \in S : y > x}
<1>1. m \in Messages /\ k \in Messages /\ \A y \in S : y \in Int
  BY DEF Messages, Newest
<1>2. m \in Int /\ k \in Int
  BY <1>1 DEF Messages
<1>3. Above(k) \subseteq Above(m)
  <2>1. \A y \in S : k < y => m < y
    BY <1>1, <1>2
  <2>2. QED
    BY <2>1
<1>4. IsFiniteSet(Above(m)) /\ Cardinality(Above(m)) \in Nat /\ Cardinality(Above(k)) \in Nat
  <2>1. Above(m) \in SUBSET Messages /\ Above(k) \in SUBSET Messages
    OBVIOUS
  <2>2. QED
    BY <2>1, MessagesFinite
<1>5. Cardinality(Above(k)) \leq Cardinality(Above(m))
  BY <1>3, <1>4, FS_Subset
<1>6. Cardinality(Above(m)) < n
  BY DEF Newest
<1>7. Cardinality(Above(k)) < n
  BY <1>4, <1>5, <1>6
<1>8. QED
  BY <1>7 DEF Newest

--------------------------------------------------------------------------------
(* The tables *)

\* c and all that is newer in its album are posted and stored.
UpStored(c) == c \in Posted /\ Stored(c) /\ \A k \in GroupOf(c) : c \leq k => Stored(k)

\* What of an item's album is newer than a message of the item is in the item
\* or stored.
UpItem(item) == \A m \in item : \A k \in GroupOf(m) : m \leq k => k \in item \/ Stored(k)

\* A post knows its album.  Those stored before posts did have the group {}.
Knows(p) == p.group = GroupOf(p.head)

\* What a writer may try to insert: of its album no post is a legacy one.
ItemInv(item) ==
  /\ Together(item) /\ item \subseteq Posted /\ UpItem(item)
  /\ \A p \in posts : p.head \in Group(item) => Knows(p)

\* An answer of the SELECTs is not outdated by what others insert.
SeenInv(item, seen) ==
  seen.found => /\ \A f \in seen.files : Stored(f)
                /\ \E p \in posts : p.head = seen.post /\ p.group = Group(item) /\ p.group # {}

RowsUnique(rows) == \A r, t \in rows : r.post = t.post /\ r.file = t.file => r = t

StoreInv ==
  /\ PostTypeOK
  /\ \A p \in posts : (p.group = {} \/ Knows(p)) /\ UpStored(p.head)
  /\ \A p, q \in posts : p.head = q.head => p = q
  /\ \A p, q \in posts : p.group # {} /\ p.group = q.group => p = q
  /\ \A p, q \in posts : p.group = {} /\ q.group = GroupOf(p.head) => q.group = {}
  /\ \A r \in media : \E p \in posts : p.head = r.post /\ r.file \in p.group \cup {p.head}
  /\ RowsUnique(media)

\* Rows that change nothing but their picture keep their posts and files.
LEMMA Repaint ==
  ASSUME NEW rows \in SUBSET MediaRow, NEW F \in [rows -> MediaRow],
         \A r \in rows : F[r].post = r.post /\ F[r].file = r.file,
         NEW W, W = {F[r] : r \in rows}
  PROVE  /\ W \subseteq MediaRow
         /\ \A t \in W : \E r \in rows : t.post = r.post /\ t.file = r.file
         /\ \A r \in rows : \E t \in W : t.post = r.post /\ t.file = r.file
         /\ RowsUnique(rows) => RowsUnique(W)
<1>1. W \subseteq MediaRow
  OBVIOUS
<1>2. ASSUME RowsUnique(rows), NEW t \in W, NEW u \in W, t.post = u.post, t.file = u.file
      PROVE  t = u
  <2>1. PICK r \in rows : t = F[r]
    OBVIOUS
  <2>2. PICK q \in rows : u = F[q]
    OBVIOUS
  <2>3. r = q
    BY <1>2, <2>1, <2>2 DEF RowsUnique
  <2>4. QED
    BY <2>1, <2>2, <2>3
<1>3. QED
  BY <1>1, <1>2 DEF RowsUnique

LEMMA WithPhotosFacts ==
  ASSUME NEW rows \in SUBSET MediaRow, NEW p, NEW got
  PROVE  /\ WithPhotos(rows, p, got) \subseteq MediaRow
         /\ \A t \in WithPhotos(rows, p, got) : \E r \in rows : t.post = r.post /\ t.file = r.file
         /\ \A r \in rows : \E t \in WithPhotos(rows, p, got) : t.post = r.post /\ t.file = r.file
         /\ RowsUnique(rows) => RowsUnique(WithPhotos(rows, p, got))
<1> DEFINE F == [r \in rows |-> IF r.post = p /\ r.file \in got THEN [r EXCEPT !.photo = r.file] ELSE r]
<1>1. ASSUME NEW r \in rows
      PROVE  F[r] \in MediaRow /\ F[r].post = r.post /\ F[r].file = r.file
  <2>1. r \in MediaRow /\ r.file \in 0..LastMessage
    BY FeedAssumption DEF MediaRow, Messages
  <2>2. [r EXCEPT !.photo = r.file] \in MediaRow
    BY <2>1 DEF MediaRow
  <2>3. QED
    BY <2>1, <2>2 DEF MediaRow
<1>2. F \in [rows -> MediaRow]
  BY <1>1
<1>3. WithPhotos(rows, p, got) = {F[r] : r \in rows}
  BY DEF WithPhotos
<1> HIDE DEF F
<1>4. QED
  BY <1>1, <1>2, <1>3, Repaint

LEMMA NewRowsFacts ==
  ASSUME NEW p \in Messages, NEW files \in SUBSET Messages, NEW from \in Nat
  PROVE  /\ NewRows(p, files, from) \subseteq MediaRow
         /\ \A r \in NewRows(p, files, from) : r.post = p /\ r.file \in files
         /\ \A f \in files : \E r \in NewRows(p, files, from) : r.post = p /\ r.file = f
         /\ RowsUnique(NewRows(p, files, from))
<1>1. \A f \in files : Rank(f, files) \in Nat
  <2>1. ASSUME NEW f \in files PROVE Rank(f, files) \in Nat
    <3>1. {k \in files : k < f} \in SUBSET Messages
      OBVIOUS
    <3>2. QED
      BY <3>1, MessagesFinite DEF Rank
  <2>2. QED
    BY <2>1
<1>2. 0 \in 0..LastMessage
  BY FeedAssumption
<1>3. \A f \in files :
        [post |-> p, file |-> f, position |-> from + Rank(f, files), photo |-> 0] \in MediaRow
  BY <1>1, <1>2 DEF MediaRow
<1> DEFINE New(f) == [post |-> p, file |-> f, position |-> from + Rank(f, files), photo |-> 0]
<1>4. NewRows(p, files, from) = {New(f) : f \in files}
  BY DEF NewRows
<1>5. \A f \in files : New(f) \in MediaRow /\ New(f).post = p /\ New(f).file = f
  BY <1>3
<1> HIDE DEF New
<1>6. QED
  BY <1>4, <1>5 DEF RowsUnique

LEMMA GroupOfItem ==
  ASSUME NEW item, Together(item), NEW m \in item
  PROVE  Group(item) = GroupOf(m)
<1>1. \A k \in item : GroupOf(k) = GroupOf(m)
  BY DEF Together
<1>2. QED
  BY <1>1 DEF Group

\* Every post that is new knows its album.
NewOnesKnow == \A p \in posts' : p \in posts \/ Knows(p)

\* SeenInv and ItemInv look at what is stored and at posts that never change.
LEMMA StoredOnly ==
  ASSUME \A m : Stored(m) => Stored(m)', posts \subseteq posts', Posted \subseteq Posted',
         NewOnesKnow
  PROVE  /\ \A c : UpStored(c) => UpStored(c)'
         /\ \A item : ItemInv(item) => ItemInv(item)'
         /\ \A item, seen : SeenInv(item, seen) => SeenInv(item, seen)'
<1>1. \A item : ItemInv(item) => ItemInv(item)'
  BY DEF UpItem, ItemInv, NewOnesKnow, Knows
<1>2. \A c : UpStored(c) => UpStored(c)'
  BY DEF UpStored
<1>3. \A item, seen : SeenInv(item, seen) => SeenInv(item, seen)'
  BY DEF SeenInv
<1>4. QED
  BY <1>1, <1>2, <1>3

\* The files an album's post lacked are appended to it.
LEMMA AppendKeeps ==
  ASSUME StoreInv, NEW item, NEW seen \in Found, ItemInv(item), SeenInv(item, seen),
         AppendMedia(item, seen), Posted \subseteq Posted'
  PROVE  StoreInv' /\ posts' = posts /\ (\A m \in item : Stored(m)')
         /\ (\A m : Stored(m) => Stored(m)')
<1>1. PICK lacked : lacked = item \ seen.files
  OBVIOUS
<1>2. /\ seen.found /\ seen.post \in Messages /\ seen.next \in Nat
      /\ lacked \in SUBSET Messages
  BY <1>1 DEF Found, ItemInv, Together
<1>3. media \subseteq MediaRow /\ posts \subseteq Post
  BY DEF StoreInv, PostTypeOK
<1>4. PICK fresh : fresh = NewRows(seen.post, lacked, seen.next)
  OBVIOUS
<1>5. /\ fresh \subseteq MediaRow
      /\ \A r \in fresh : r.post = seen.post /\ r.file \in lacked
      /\ \A f \in lacked : \E r \in fresh : r.post = seen.post /\ r.file = f
      /\ RowsUnique(fresh)
  BY <1>2, <1>4, NewRowsFacts
<1>6. PICK rows : rows = media \cup fresh
  OBVIOUS
<1>7. rows \subseteq MediaRow
  BY <1>3, <1>5, <1>6
<1>8. lacked \cap Files(seen.post) = {}
  BY <1>1 DEF AppendMedia
<1>9. RowsUnique(rows)
  <2>1. ASSUME NEW r \in media, NEW t \in fresh, r.post = t.post, r.file = t.file PROVE FALSE
    <3>1. r.post = seen.post /\ r.file \in lacked
      BY <1>5, <2>1
    <3>2. r.file \in Files(seen.post)
      BY <3>1 DEF Files, Rows
    <3>3. QED
      BY <1>8, <3>1, <3>2
  <2>2. RowsUnique(media)
    BY DEF StoreInv
  <2>3. QED
    BY <1>5, <1>6, <2>1, <2>2 DEF RowsUnique
<1>10. PICK got \in Downloads(item) : media' = WithPhotos(rows, seen.post, got)
  BY <1>1, <1>4, <1>6 DEF AppendMedia
<1>11. posts' = posts
  BY DEF AppendMedia
<1>12. /\ media' \subseteq MediaRow
       /\ \A t \in media' : \E r \in rows : t.post = r.post /\ t.file = r.file
       /\ \A r \in rows : \E t \in media' : t.post = r.post /\ t.file = r.file
       /\ RowsUnique(media')
  BY <1>7, <1>9, <1>10, WithPhotosFacts
<1>13. \A m : Stored(m) => Stored(m)'
  <2>1. \A r \in media : \E t \in media' : t.file = r.file
    BY <1>6, <1>12
  <2>2. QED
    BY <2>1 DEF Stored
<1>14. \A m \in item : Stored(m)'
  <2>1. ASSUME NEW m \in lacked PROVE Stored(m)'
    <3>1. PICK r \in fresh : r.file = m
      BY <1>5
    <3>2. PICK t \in media' : t.file = r.file
      <4>1. r \in rows
        BY <1>6
      <4>2. QED
        BY <1>12, <4>1
    <3>3. QED
      BY <3>1, <3>2 DEF Stored
  <2>2. \A m \in item \cap seen.files : Stored(m)'
    BY <1>2, <1>13 DEF SeenInv
  <2>3. QED
    BY <1>1, <2>1, <2>2
<1>15. \A r \in media' : \E p \in posts' : p.head = r.post /\ r.file \in p.group \cup {p.head}
  <2>1. \A r \in media : \E p \in posts : p.head = r.post /\ r.file \in p.group \cup {p.head}
    BY DEF StoreInv
  <2>2. PICK p \in posts : p.head = seen.post /\ p.group = Group(item) /\ p.group # {}
    BY <1>2 DEF SeenInv
  <2>3. \A f \in item : f \in Group(item)
    <3>1. ASSUME NEW f \in item PROVE f \in Group(item)
      <4>1. Group(item) = GroupOf(f) /\ f \in Messages
        BY GroupOfItem DEF ItemInv, Together
      <4>2. QED
        BY <2>2, <4>1, GroupFacts
    <3>2. QED
      BY <3>1
  <2>4. \A r \in rows : \E q \in posts : q.head = r.post /\ r.file \in q.group \cup {q.head}
    <3>1. ASSUME NEW r \in fresh PROVE r.post = p.head /\ r.file \in p.group
      BY <1>1, <1>5, <2>2, <2>3
    <3>2. QED
      BY <1>6, <2>1, <3>1
  <2>5. QED
    BY <1>11, <1>12, <2>4
<1>16. StoreInv'
  <2>1. \A p \in posts' : (p.group = {} \/ Knows(p)) /\ UpStored(p.head)'
    <3>1. \A p \in posts : (p.group = {} \/ Knows(p)) /\ UpStored(p.head)
      BY DEF StoreInv
    <3>2. QED
      BY <1>11, <1>13, <3>1 DEF UpStored
  <2>2. QED
    BY <1>3, <1>11, <1>12, <1>15, <2>1 DEF StoreInv, PostTypeOK
<1>17. QED
  BY <1>11, <1>13, <1>14, <1>16

\* A new post, for the part of an album that is met first or for a message.
LEMMA InsertKeeps ==
  ASSUME StoreInv, NEW item, NEW seen, ItemInv(item), InsertPost(item, seen),
         Posted \subseteq Posted'
  PROVE  StoreInv' /\ posts \subseteq posts' /\ (\A m \in item : Stored(m)')
         /\ (\A m : Stored(m) => Stored(m)') /\ NewOnesKnow
<1>1. PICK h \in item :
        /\ Oldest(h, item) /\ Free(h) /\ Untagged(Group(item))
        /\ posts' = posts \cup {[head |-> h, group |-> Group(item)]}
        /\ \E got \in Downloads(item) : media' = WithPhotos(media \cup NewRows(h, item, 0), h, got)
  BY DEF InsertPost
<1>2. item \in SUBSET Messages /\ h \in Messages /\ Together(item) /\ UpItem(item)
  BY <1>1 DEF ItemInv, Together
<1>3. Group(item) = GroupOf(h)
  BY <1>1, <1>2, GroupOfItem
<1>4. media \subseteq MediaRow /\ posts \subseteq Post
  BY DEF StoreInv, PostTypeOK
<1>5. PICK fresh : fresh = NewRows(h, item, 0)
  OBVIOUS
<1>6. /\ fresh \subseteq MediaRow
      /\ \A r \in fresh : r.post = h /\ r.file \in item
      /\ \A f \in item : \E r \in fresh : r.post = h /\ r.file = f
      /\ RowsUnique(fresh)
  BY <1>2, <1>5, NewRowsFacts
<1>7. PICK rows : rows = media \cup fresh
  OBVIOUS
<1>8. rows \subseteq MediaRow
  BY <1>4, <1>6, <1>7
<1>9. \A r \in media : \E p \in posts : p.head = r.post /\ r.file \in p.group \cup {p.head}
  BY DEF StoreInv
<1>10. RowsUnique(rows)
  <2>1. ASSUME NEW r \in media, NEW t \in fresh, r.post = t.post PROVE FALSE
    <3>1. PICK p \in posts : p.head = r.post
      BY <1>9
    <3>2. QED
      BY <1>1, <1>6, <2>1, <3>1 DEF Free
  <2>2. RowsUnique(media)
    BY DEF StoreInv
  <2>3. QED
    BY <1>6, <1>7, <2>1, <2>2 DEF RowsUnique
<1>11. PICK got \in Downloads(item) : media' = WithPhotos(rows, h, got)
  BY <1>1, <1>5, <1>7
<1>12. /\ media' \subseteq MediaRow
       /\ \A t \in media' : \E r \in rows : t.post = r.post /\ t.file = r.file
       /\ \A r \in rows : \E t \in media' : t.post = r.post /\ t.file = r.file
       /\ RowsUnique(media')
  BY <1>8, <1>10, <1>11, WithPhotosFacts
<1>13. \A m : Stored(m) => Stored(m)'
  BY <1>7, <1>12 DEF Stored
<1>14. \A m \in item : Stored(m)'
  <2>1. ASSUME NEW m \in item PROVE Stored(m)'
    <3>1. PICK r \in fresh : r.file = m
      BY <1>6
    <3>2. PICK t \in media' : t.file = r.file
      BY <1>7, <1>12
    <3>3. QED
      BY <3>1, <3>2 DEF Stored
  <2>2. QED
    BY <2>1
<1>15. PICK new : new = [head |-> h, group |-> Group(item)]
  OBVIOUS
<1>16. posts' = posts \cup {new} /\ new.head = h /\ new.group = GroupOf(h) /\ new \in Post
  <2>1. Group(item) \in SUBSET Messages
    BY <1>2, <1>3, GroupFacts
  <2>2. QED
    BY <1>1, <1>2, <1>3, <1>15, <2>1 DEF Post
<1>17. UpStored(h)'
  <2>1. ASSUME NEW k \in GroupOf(h), h \leq k PROVE Stored(k)'
    BY <1>1, <1>2, <1>13, <1>14, <2>1 DEF UpItem
  <2>2. h \in Posted
    BY <1>1 DEF Oldest, ItemInv
  <2>3. QED
    BY <1>1, <1>14, <2>1, <2>2 DEF UpStored, Oldest
<1>18. \A p \in posts' : (p.group = {} \/ Knows(p)) /\ UpStored(p.head)'
  <2>1. \A p \in posts : (p.group = {} \/ Knows(p)) /\ UpStored(p.head)
    BY DEF StoreInv
  <2>2. \A p \in posts : UpStored(p.head)'
    BY <1>13, <2>1 DEF UpStored
  <2>3. QED
    BY <1>16, <1>17, <2>1, <2>2 DEF Knows
<1>19. \A p, q \in posts' : p.head = q.head => p = q
  <2>1. \A p, q \in posts : p.head = q.head => p = q
    BY DEF StoreInv
  <2>2. \A p \in posts : p.head # new.head
    BY <1>1, <1>16 DEF Free
  <2>3. QED
    BY <1>16, <2>1, <2>2
<1>20. \A p, q \in posts' : p.group # {} /\ p.group = q.group => p = q
  <2>1. \A p, q \in posts : p.group # {} /\ p.group = q.group => p = q
    BY DEF StoreInv
  <2>2. new.group # {} => \A p \in posts : p.group # new.group
    BY <1>1, <1>3, <1>16 DEF Untagged
  <2>3. QED
    BY <1>16, <2>1, <2>2
<1>21. \A r \in media' : \E p \in posts' : p.head = r.post /\ r.file \in p.group \cup {p.head}
  <2>1. ASSUME NEW r \in fresh PROVE r.post = new.head /\ r.file \in new.group \cup {new.head}
    <3>1. r.post = h /\ r.file \in item
      BY <1>6
    <3>2. r.file = h \/ r.file \in GroupOf(h)
      BY <1>1, <1>2, <3>1 DEF Together
    <3>3. QED
      BY <1>16, <3>1, <3>2
  <2>2. \A r \in rows : \E p \in posts' : p.head = r.post /\ r.file \in p.group \cup {p.head}
    BY <1>7, <1>9, <1>16, <2>1
  <2>3. QED
    BY <1>12, <2>2
<1>22. \A p, q \in posts' : p.group = {} /\ q.group = GroupOf(p.head) => q.group = {}
  <2>1. \A p, q \in posts : p.group = {} /\ q.group = GroupOf(p.head) => q.group = {}
    BY DEF StoreInv
  <2>2. ASSUME NEW p \in posts, p.group = {}, new.group = GroupOf(p.head) PROVE new.group = {}
    <3>1. p.head \in Messages
      BY <1>4 DEF Post
    <3>2. GroupOf(p.head) # {} => p.head \in GroupOf(p.head)
      BY <3>1, GroupFacts
    <3>3. new.group = Group(item)
      BY <1>15
    <3>4. QED
      BY <2>2, <3>2, <3>3 DEF ItemInv, Knows
  <2>3. QED
    BY <1>16, <2>1, <2>2
<1>23. StoreInv'
  BY <1>4, <1>12, <1>16, <1>18, <1>19, <1>20, <1>21, <1>22 DEF StoreInv, PostTypeOK
<1>24. NewOnesKnow
  BY <1>16 DEF NewOnesKnow, Knows
<1>25. QED
  BY <1>13, <1>14, <1>16, <1>23, <1>24

\* What is skipped is there already: the post that heads the item has its own
\* message and all that is newer in the album.
LEMMA SkipKeeps ==
  ASSUME StoreInv, NEW item, NEW seen, ItemInv(item), SkipDuplicate(item, seen),
         Posted \subseteq Posted'
  PROVE  StoreInv' /\ posts' = posts /\ (\A m \in item : Stored(m)')
         /\ (\A m : Stored(m) => Stored(m)')
<1>1. posts' = posts /\ media' = media
  BY DEF SkipDuplicate, postVars
<1>2. PICK h \in item : Oldest(h, item) /\ ~Free(h)
  BY DEF SkipDuplicate
<1>3. UpStored(h)
  BY <1>2 DEF Free, StoreInv
<1>4. \A m \in item : Stored(m)
  <2>1. ASSUME NEW m \in item PROVE Stored(m)
    <3>1. h \leq m /\ (m = h \/ m \in GroupOf(h))
      BY <1>2 DEF Oldest, ItemInv, Together
    <3>2. QED
      BY <1>3, <3>1 DEF UpStored
  <2>2. QED
    BY <2>1
<1>5. StoreInv'
  BY <1>1 DEF StoreInv, PostTypeOK, UpStored, Stored
<1>6. QED
  BY <1>1, <1>4, <1>5 DEF Stored

\* However upsert_post ends, the tables are in order, nothing is forgotten and
\* the messages it was given are stored.
THEOREM UpsertStores ==
  ASSUME StoreInv, NEW item, NEW seen \in {NothingFound} \cup Found,
         ItemInv(item), SeenInv(item, seen), Upsert(item, seen), Posted \subseteq Posted'
  PROVE  StoreInv' /\ posts \subseteq posts' /\ (\A m \in item : Stored(m)')
         /\ (\A m : Stored(m) => Stored(m)') /\ NewOnesKnow
<1>1. CASE AppendMedia(item, seen)
  <2>1. seen \in Found
    BY <1>1 DEF AppendMedia, NothingFound
  <2>2. QED
    BY <1>1, <2>1, AppendKeeps DEF NewOnesKnow
<1>2. CASE InsertPost(item, seen)
  BY <1>2, InsertKeeps
<1>3. CASE SkipDuplicate(item, seen)
  BY <1>3, SkipKeeps DEF NewOnesKnow
<1>4. QED
  BY <1>1, <1>2, <1>3 DEF Upsert

\* What the SELECTs answer is true when they answer it.
LEMMA ReadingsFacts ==
  ASSUME StoreInv, NEW item, NEW seen \in Readings(item)
  PROVE  seen \in {NothingFound} \cup Found /\ SeenInv(item, seen)
<1>1. CASE AlbumPosts(item) = {}
  BY <1>1 DEF Readings, SeenInv, NothingFound
<1>2. CASE AlbumPosts(item) # {}
  <2>1. PICK p \in AlbumPosts(item) : \E n \in NextPositions(p.head) :
          seen = [found |-> TRUE, post |-> p.head, files |-> Files(p.head), next |-> n]
    BY <1>2 DEF Readings
  <2>2. p \in posts /\ Group(item) # {} /\ p.group = Group(item)
    BY <2>1 DEF AlbumPosts
  <2>3. p.head \in Messages
    BY <2>2 DEF StoreInv, PostTypeOK, Post
  <2>4. media \subseteq MediaRow
    BY DEF StoreInv, PostTypeOK
  <2>5. Files(p.head) \subseteq Messages /\ \A f \in Files(p.head) : Stored(f)
    BY <2>4 DEF Files, Rows, Stored, MediaRow
  <2>6. \A n \in NextPositions(p.head) : n \in Nat
    BY <2>4 DEF NextPositions, Rows, MediaRow
  <2>7. seen \in Found
    BY <2>1, <2>3, <2>5, <2>6 DEF Found
  <2>8. SeenInv(item, seen)
    BY <2>1, <2>2, <2>5 DEF SeenInv
  <2>9. QED
    BY <2>7, <2>8
<1>3. QED
  BY <1>1, <1>2

\* Each message is stored once: the tables' share of EachMessageOnce.
LEMMA StoredOnce ==
  ASSUME StoreInv
  PROVE  \A r, t \in media : r.file = t.file => r = t
<1>1. ASSUME NEW r \in media, NEW t \in media, r.file = t.file PROVE r = t
  <2>1. PICK p \in posts : p.head = r.post /\ r.file \in p.group \cup {p.head}
    BY DEF StoreInv
  <2>2. PICK q \in posts : q.head = t.post /\ t.file \in q.group \cup {q.head}
    BY DEF StoreInv
  <2>3. p.head \in Messages /\ q.head \in Messages
    BY DEF StoreInv, PostTypeOK, Post
  <2>4. ASSUME NEW u \in posts, u.group # {}, NEW f \in u.group \cup {u.head}
        PROVE  GroupOf(f) = u.group
    <3>1. u.head \in Messages /\ u.group = GroupOf(u.head)
      BY <2>4 DEF StoreInv, PostTypeOK, Post, Knows
    <3>2. QED
      BY <2>4, <3>1, GroupFacts
  <2>5. p = q
    <3>1. CASE p.group = {} /\ q.group = {}
      BY <1>1, <2>1, <2>2, <3>1 DEF StoreInv
    <3>2. CASE p.group # {} /\ q.group # {}
      BY <1>1, <2>1, <2>2, <2>4, <3>2 DEF StoreInv
    <3>3. CASE p.group = {} /\ q.group # {}
      <4>1. GroupOf(p.head) = q.group
        BY <1>1, <2>1, <2>2, <2>4, <3>3
      <4>2. QED
        BY <3>3, <4>1 DEF StoreInv
    <3>4. CASE p.group # {} /\ q.group = {}
      <4>1. GroupOf(q.head) = p.group
        BY <1>1, <2>1, <2>2, <2>4, <3>4
      <4>2. QED
        BY <3>4, <4>1 DEF StoreInv
    <3>5. QED
      BY <3>1, <3>2, <3>3, <3>4
  <2>6. QED
    BY <1>1, <2>1, <2>2, <2>5 DEF StoreInv, RowsUnique
<1>2. QED
  BY <1>1
================================================================================
