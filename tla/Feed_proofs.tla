------------------------------- MODULE Feed_proofs -------------------------------
(***************************************************************************)
(* What the feed promises its reader, for any number of posts, requests    *)
(* and taps, any size of a page, whatever is hidden, read or arrives.      *)
(***************************************************************************)
EXTENDS Feed, TLAPS, FiniteSetTheorems, WellFoundedInduction, SequenceTheorems

\* A page's posts as they are asked for below cursor: S are the steady posts.
Below(P, cursor, S) ==
  /\ P \subseteq Posts
  /\ \A p \in P : p < cursor
  /\ \A p \in S : (p < cursor /\ p \geq NextCursor(P)) => p \in P

\* Pages that follow one another, and leave out no steady post.
Listing(ps, S) ==
  /\ ps \in Seq(Page)
  /\ \A i \in DOMAIN ps : \A p \in ps[i].posts : ps[i].next \leq p
  /\ \A i, j \in DOMAIN ps : i < j => ps[j].next \leq ps[i].next
  /\ \A i, j \in DOMAIN ps : i < j => \A p \in ps[j].posts : p < ps[i].next
  /\ \A p \in S : p \geq Reach(ps) => p \in Shown(ps)

Getting == {"lookup", "select", "store", "reply"}

\* What is known of a request, given what is steady and read and the fetch.
Sound(r, S, R, f) ==
  /\ r.pc \in {"store", "reply"} => Below(r.posts, r.cursor, S)
  /\ r.pc \in {"lookup", "store"} => r.cursor \in Posts
  /\ r.pc \in Getting => r.cursor # End
  /\ r.heard => /\ r.pc \in Getting /\ ~r.all
                /\ f.kind # "none" /\ r.cursor = Reach(f.got)
  /\ r.asked \subseteq R
  /\ r.pc = "reply" => r.heard
  /\ (r.pc = "reply" /\ r.cursor = Top) => r.posts \cap r.asked = {}

CacheInv == \A c \in DOMAIN cache : Below(cache[c], c, steady)

SlotInv ==
  /\ \A s \in Slots : Sound(slot[s], steady, read, fetch)
  /\ \A s, t \in Slots : (slot[s].heard /\ slot[t].heard) => s = t

ListInv ==
  /\ Listing(pages, steady)
  /\ Listing(fetch.got, steady)
  /\ \A m \in hides : Listing(m.snap, steady) /\ m.snap # <<>>

\* What is off the feed lies above what a fetch may bring.
GoneInv ==
  /\ gone \cap Shown(pages) = {}
  /\ \A p \in gone : p \geq Reach(pages)
  /\ pages = <<>> => gone = {}
  /\ fetch.kind = "all" => gone = {}
  /\ fetch.kind = "more" =>
       /\ gone \cap Shown(fetch.got) = {}
       /\ \A p \in gone : p \geq Reach(fetch.got)

IInv == TypeOK /\ CacheInv /\ SlotInv /\ ListInv /\ GoneInv

--------------------------------------------------------------------------------
(* Pages *)

\* Every set of natural numbers that is not empty has a least member.
LEMMA LeastExists ==
  ASSUME NEW P, P \subseteq Nat, P # {}
  PROVE  Min(P) \in P /\ \A p \in P : Min(P) \leq p
<1>1. PICK x \in P : \A y \in P : <<y, x>> \notin OpToRel(<, Nat)
  BY NatLessThanWellFounded, WFMin, Zenon
<1>2. \A y \in P : ~(y < x)
  BY <1>1, Zenon DEF OpToRel
<1>3. \A y \in P : x \leq y
  BY <1>2
<1>4. QED
  BY <1>1, <1>3 DEF Min

\* Posts are numbers between the two cursors that are none.
LEMMA CursorFacts ==
  /\ MaxPost \in Nat /\ Top \in Nat /\ Top \notin Posts /\ End \notin Posts
  /\ \A p \in Posts : p \in Nat /\ p < Top /\ p > 0
  /\ \A c \in 0..Top : c # End /\ c # Top => c \in Posts
BY FeedApiAssumption DEF Posts, Top, End

\* The cursor of a page is its last post, or the end.
LEMMA NextCursorFacts ==
  ASSUME NEW P, P \subseteq Posts
  PROVE  /\ NextCursor(P) \in 0..Top
         /\ \A p \in P : NextCursor(P) \leq p
         /\ P # {} => NextCursor(P) \in P
         /\ P = {} => NextCursor(P) = End
<1>1. P \subseteq Nat
  BY CursorFacts
<1>2. CASE P = {}
  BY <1>2, CursorFacts DEF NextCursor, End
<1>3. CASE P # {}
  <2>1. NextCursor(P) \in P /\ \A p \in P : NextCursor(P) \leq p
    BY <1>1, <1>3, LeastExists DEF NextCursor
  <2>2. NextCursor(P) \in Posts
    BY <2>1
  <2>3. QED
    BY <1>3, <2>1, <2>2, CursorFacts
<1>4. QED
  BY <1>2, <1>3

\* The newest of some posts: none is newer than one of them without being one,
\* and there are some if there is anything to choose from.
LEMMA NewestFacts ==
  ASSUME NEW S, S \subseteq Posts
  PROVE  /\ Newest(S, PageSize) \subseteq S
         /\ \A p \in S, q \in Newest(S, PageSize) : p \geq q => p \in Newest(S, PageSize)
         /\ S # {} => Newest(S, PageSize) # {}
<1>1. IsFiniteSet(S) /\ S \subseteq Nat
  <2>1. IsFiniteSet(Posts)
    BY FeedApiAssumption, FS_Interval DEF Posts
  <2>2. QED
    BY <2>1, FS_Subset, CursorFacts
<1> DEFINE Above(p) == {q \in S : q > p}
<1>2. \A p : IsFiniteSet(Above(p)) /\ Cardinality(Above(p)) \in Nat
  BY <1>1, FS_Subset, FS_CardinalityType
<1>3. Newest(S, PageSize) = {p \in S : Cardinality(Above(p)) < PageSize}
  BY DEF Newest
<1>4. ASSUME NEW p \in S, NEW q \in Newest(S, PageSize), p \geq q
      PROVE  p \in Newest(S, PageSize)
  <2>1. q \in S /\ q \in Nat /\ p \in Nat /\ Cardinality(Above(q)) < PageSize
    BY <1>1, <1>3
  <2>2. \A r \in S : r > p => r > q
    BY <1>1, <1>4, <2>1
  <2>3. Above(p) \subseteq Above(q)
    BY <2>2
  <2>4. Cardinality(Above(p)) \leq Cardinality(Above(q))
    BY <1>2, <2>3, FS_Subset
  <2>5. QED
    <3> HIDE DEF Above
    <3>1. Cardinality(Above(p)) < PageSize
      BY <1>2, <2>1, <2>4, FeedApiAssumption
    <3>2. QED
      BY <1>3, <3>1
<1>5. ASSUME S # {} PROVE Newest(S, PageSize) # {}
  <2> DEFINE D == {MaxPost - q : q \in S}
  <2>1. D \subseteq Nat /\ D # {}
    BY <1>5, FeedApiAssumption DEF Posts
  <2>2. Min(D) \in D /\ \A d \in D : Min(D) \leq d
    BY <2>1, LeastExists
  <2>3. PICK q \in S : Min(D) = MaxPost - q
    BY <2>2
  <2>4. ASSUME NEW r \in S PROVE ~(r > q)
    <3>1. MaxPost - r \in D
      BY <2>4
    <3>2. MaxPost - q \leq MaxPost - r
      BY <2>2, <2>3, <3>1
    <3>3. QED
      BY <1>1, <2>3, <2>4, <3>2, FeedApiAssumption
  <2>5. Above(q) = {}
    BY <2>4
  <2>6. Cardinality(Above(q)) = 0
    BY <2>5, FS_EmptySet
  <2>7. QED
    BY <1>3, <2>3, <2>6, FeedApiAssumption
<1>6. QED
  BY <1>3, <1>4, <1>5

\* The query answers with a page below the cursor that leaves out no post that
\* is there to be seen, and holds no post that has been read.
LEMMA SliceFacts ==
  ASSUME TypeOK, NEW cursor \in 0..Top, NEW all \in BOOLEAN
  PROVE  /\ Below(Slice(cursor, all), cursor, steady)
         /\ ~all => Slice(cursor, all) \cap read = {}
<1> DEFINE S == {p \in IF all THEN Visible ELSE Unread : p < cursor}
<1>1. Unread \subseteq Visible /\ Visible \subseteq Posts /\ steady \subseteq Unread
  BY DEF TypeOK, ApiTypeOK, Visible, Unread
<1>2. S \subseteq Posts /\ \A p \in S : p < cursor
  BY <1>1
<1>3. Slice(cursor, all) = Newest(S, PageSize)
  BY DEF Slice
<1>4. Slice(cursor, all) \subseteq S
  BY <1>2, <1>3, NewestFacts
<1>5. ASSUME NEW p \in steady, p < cursor, p \geq NextCursor(Slice(cursor, all))
      PROVE  p \in Slice(cursor, all)
  <2>1. p \in S
    BY <1>1, <1>5
  <2>2. Slice(cursor, all) # {}
    BY <1>2, <1>3, <2>1, NewestFacts
  <2>3. NextCursor(Slice(cursor, all)) \in Slice(cursor, all)
    BY <1>2, <1>4, <2>2, NextCursorFacts
  <2>4. QED
    BY <1>2, <1>3, <1>5, <2>1, <2>3, NewestFacts
<1>6. ~all => Slice(cursor, all) \cap read = {}
  BY <1>4 DEF Unread
<1>7. QED
  BY <1>2, <1>4, <1>5, <1>6 DEF Below

\* The list with one more page.
Longer(ps, P) == Append(ps, [posts |-> P, next |-> NextCursor(P)])

\* A page that fits under a list makes a longer list.
LEMMA ListingGrows ==
  ASSUME NEW S, S \subseteq Posts, NEW ps, Listing(ps, S),
         NEW P, Below(P, Reach(ps), S)
  PROVE  /\ Listing(Longer(ps, P), S) /\ Longer(ps, P) # <<>>
         /\ Shown(Longer(ps, P)) = Shown(ps) \cup P
         /\ Reach(Longer(ps, P)) = NextCursor(P)
         /\ Reach(Longer(ps, P)) \leq Reach(ps)
<1> DEFINE page == [posts |-> P, next |-> NextCursor(P)]
           qs == Longer(ps, P)
<1>1. /\ P \subseteq Posts /\ NextCursor(P) \in 0..Top /\ NextCursor(P) \in Nat
      /\ \A p \in P : p \in Nat /\ NextCursor(P) \leq p /\ p < Reach(ps)
      /\ P # {} => NextCursor(P) \in P
      /\ P = {} => NextCursor(P) = 0
  BY NextCursorFacts, CursorFacts DEF Below, End
<1>2. page \in Page /\ ps \in Seq(Page)
  BY <1>1 DEF Page, Listing
<1>3. /\ qs \in Seq(Page) /\ qs # <<>> /\ Len(qs) = Len(ps) + 1 /\ Len(ps) \in Nat
      /\ \A i \in 1..Len(ps) : qs[i] = ps[i]
      /\ qs[Len(qs)] = page
      /\ DOMAIN ps = 1..Len(ps) /\ DOMAIN qs = 1..(Len(ps) + 1)
  BY <1>2 DEF Longer
<1>4. Shown(qs) = Shown(ps) \cup P
  BY <1>3 DEF Shown
<1>5. Reach(qs) = NextCursor(P)
  BY <1>3 DEF Reach
<1>6. \A i \in DOMAIN ps : Reach(ps) \leq ps[i].next /\ ps[i].next \in Nat
  <2>1. ASSUME NEW i \in DOMAIN ps PROVE Reach(ps) \leq ps[i].next /\ ps[i].next \in Nat
    <3>1. ps # <<>> /\ Len(ps) \in DOMAIN ps /\ Reach(ps) = ps[Len(ps)].next
      BY <1>3, <2>1 DEF Reach
    <3>2. \A j \in DOMAIN ps : ps[j].next \in Nat
      <4>1. \A j \in DOMAIN ps : ps[j] \in Page
        BY <1>2, <1>3
      <4>2. QED
        BY <4>1, CursorFacts DEF Page
    <3>3. CASE i = Len(ps)
      BY <2>1, <3>1, <3>2, <3>3
    <3>4. CASE i # Len(ps)
      <4>1. i < Len(ps)
        BY <1>3, <2>1, <3>4
      <4>2. QED
        BY <2>1, <3>1, <3>2, <4>1 DEF Listing
    <3>5. QED
      BY <3>3, <3>4
  <2>2. QED
    BY <2>1
<1>7. Reach(ps) \in Nat
  <2>1. CASE ps = <<>>
    BY <2>1, CursorFacts DEF Reach
  <2>2. CASE ps # <<>>
    BY <1>3, <1>6, <2>2 DEF Reach
  <2>3. QED
    BY <2>1, <2>2
<1>8. NextCursor(P) \leq Reach(ps)
  BY <1>1, <1>7
<1>9. \A i \in DOMAIN qs : \A p \in qs[i].posts : qs[i].next \leq p
  BY <1>1, <1>3 DEF Listing
<1>10. \A i, j \in DOMAIN qs : i < j =>
         /\ qs[j].next \leq qs[i].next
         /\ \A p \in qs[j].posts : p < qs[i].next
  <2>1. ASSUME NEW i \in DOMAIN qs, NEW j \in DOMAIN qs, i < j
        PROVE  qs[j].next \leq qs[i].next /\ \A p \in qs[j].posts : p < qs[i].next
    <3>1. i \in DOMAIN ps /\ qs[i] = ps[i]
      BY <1>3, <2>1
    <3>2. CASE j \in DOMAIN ps
      BY <1>3, <2>1, <3>1, <3>2 DEF Listing
    <3>3. CASE j \notin DOMAIN ps
      <4>1. qs[j] = page
        BY <1>3, <2>1, <3>3
      <4>2. Reach(ps) \leq ps[i].next /\ ps[i].next \in Nat
        BY <1>6, <3>1
      <4>3. page.posts = P /\ page.next = NextCursor(P)
        OBVIOUS
      <4>4. QED
        BY <1>1, <1>7, <1>8, <3>1, <4>1, <4>2, <4>3
    <3>4. QED
      BY <3>2, <3>3
  <2>2. QED
    BY <2>1
<1>11. ASSUME NEW p \in S, p \geq Reach(qs) PROVE p \in Shown(qs)
  <2>1. p \in Nat
    BY <1>11, CursorFacts
  <2>2. CASE p \geq Reach(ps)
    BY <1>4, <1>11, <2>2 DEF Listing
  <2>3. CASE p < Reach(ps)
    BY <1>4, <1>5, <1>11, <2>3 DEF Below
  <2>4. QED
    BY <1>7, <2>1, <2>2, <2>3
<1>12. QED
  BY <1>3, <1>4, <1>5, <1>8, <1>9, <1>10, <1>11 DEF Listing

\* What is shown lies at or above the point the pages reach to.
LEMMA ReachFacts ==
  ASSUME NEW S, NEW ps, Listing(ps, S)
  PROVE  /\ Reach(ps) \in 0..Top
         /\ \A p \in Shown(ps) : p \in Posts /\ p \geq Reach(ps)
         /\ \A i \in DOMAIN ps : ps[i] \in Page
         /\ DOMAIN ps = 1..Len(ps) /\ Len(ps) \in Nat
<1>1. ps \in Seq(Page) /\ DOMAIN ps = 1..Len(ps) /\ Len(ps) \in Nat
  BY DEF Listing
<1>2. \A i \in DOMAIN ps : ps[i] \in Page /\ ps[i].next \in 0..Top /\ ps[i].posts \subseteq Posts
  <2>1. \A i \in DOMAIN ps : ps[i] \in Page
    BY <1>1
  <2>2. QED
    BY <2>1 DEF Page
<1>3. CASE ps = <<>>
  BY <1>1, <1>3, CursorFacts DEF Reach, Shown
<1>4. CASE ps # <<>>
  <2>1. Len(ps) \in DOMAIN ps /\ Reach(ps) = ps[Len(ps)].next
    BY <1>1, <1>4 DEF Reach
  <2>2. Reach(ps) \in 0..Top
    BY <1>2, <2>1
  <2>3. ASSUME NEW i \in DOMAIN ps, NEW p \in ps[i].posts PROVE p \in Posts /\ p \geq Reach(ps)
    <3>1. p \in Posts /\ p \in Nat /\ ps[i].next \in Nat /\ Reach(ps) \in Nat
      BY <1>2, <2>2, <2>3, CursorFacts
    <3>2. ps[i].next \leq p
      BY <2>3 DEF Listing
    <3>3. CASE i = Len(ps)
      BY <2>1, <3>1, <3>2, <3>3
    <3>4. CASE i # Len(ps)
      <4>1. i < Len(ps)
        BY <1>1, <2>3, <3>4
      <4>2. Reach(ps) \leq ps[i].next
        BY <2>1, <2>3, <4>1 DEF Listing
      <4>3. QED
        BY <3>1, <3>2, <4>2
    <3>5. QED
      BY <3>3, <3>4
  <2>4. QED
    BY <1>1, <1>2, <2>2, <2>3 DEF Shown
<1>5. QED
  BY <1>3, <1>4

\* What is steady only shrinks, which changes nothing that is known.
LEMMA ListingShrinks ==
  ASSUME NEW S, NEW S2, S2 \subseteq S, NEW ps, Listing(ps, S)
  PROVE  Listing(ps, S2)
BY DEF Listing

\* A request stays sound when less is steady and more is read.
LEMMA SoundStays ==
  ASSUME NEW S, NEW S2, S2 \subseteq S, NEW R, NEW R2, R \subseteq R2,
         NEW f, NEW f2, NEW r, Sound(r, S, R, f), r.heard => f2 = f
  PROVE  Sound(r, S2, R2, f2)
BY DEF Sound, Below, Getting

\* No pages: nothing is shown, nothing is reached.
LEMMA EmptyListing ==
  ASSUME NEW S, S \subseteq Posts
  PROVE  Listing(<<>>, S) /\ Shown(<<>>) = {} /\ Reach(<<>>) = Top
<1>1. \A p \in S : ~(p \geq Top)
  BY CursorFacts
<1>2. Reach(<<>>) = Top
  BY DEF Reach
<1>3. <<>> \in Seq(Page) /\ DOMAIN <<>> = {}
  OBVIOUS
<1>4. QED
  BY <1>1, <1>2, <1>3 DEF Listing, Shown

\* Taking cards off the pages that are not steady any more leaves a list.
LEMMA ListingWithout ==
  ASSUME NEW S, S \subseteq Posts, NEW ps, Listing(ps, S),
         NEW h, NEW S2, S2 \subseteq S, S2 \cap h = {}
  PROVE  /\ Listing(Without(ps, h), S2)
         /\ Shown(Without(ps, h)) = Shown(ps) \ h
         /\ Reach(Without(ps, h)) = Reach(ps)
         /\ Without(ps, h) = <<>> <=> ps = <<>>
<1> DEFINE qs == Without(ps, h)
<1>1. /\ ps \in Seq(Page) /\ DOMAIN ps = 1..Len(ps) /\ Len(ps) \in Nat
      /\ \A i \in DOMAIN ps : ps[i] \in Page
  BY ReachFacts DEF Listing
<1>2. /\ DOMAIN qs = DOMAIN ps
      /\ \A i \in DOMAIN ps : /\ qs[i] = [ps[i] EXCEPT !.posts = @ \ h]
                             /\ qs[i] \in Page
                             /\ qs[i].posts = ps[i].posts \ h
                             /\ qs[i].next = ps[i].next
  BY <1>1 DEF Without, Page
<1>3. qs \in Seq(Page) /\ Len(qs) = Len(ps)
  <2>1. qs \in [1..Len(ps) -> Page]
    BY <1>1, <1>2 DEF Without
  <2>2. QED
    BY <1>1, <2>1
<1>4. qs = <<>> <=> ps = <<>>
  BY <1>1, <1>3
<1>5. Shown(qs) = Shown(ps) \ h
  BY <1>2 DEF Shown
<1>6. Reach(qs) = Reach(ps)
  <2>1. CASE ps = <<>>
    BY <1>4, <2>1 DEF Reach
  <2>2. CASE ps # <<>>
    <3>1. Len(ps) \in DOMAIN ps
      BY <1>1, <2>2
    <3>2. QED
      BY <1>2, <1>3, <1>4, <2>2, <3>1 DEF Reach
  <2>3. QED
    BY <2>1, <2>2
<1>7. Listing(qs, S2)
  <2>1. \A p \in S2 : p \geq Reach(qs) => p \in Shown(qs)
    BY <1>5, <1>6 DEF Listing
  <2>2. \A i \in DOMAIN qs : \A p \in qs[i].posts : qs[i].next \leq p
    BY <1>2 DEF Listing
  <2>3. \A i, j \in DOMAIN qs : i < j => qs[j].next \leq qs[i].next
    BY <1>2 DEF Listing
  <2>4. \A i, j \in DOMAIN qs : i < j => \A p \in qs[j].posts : p < qs[i].next
    BY <1>2 DEF Listing
  <2>5. QED
    BY <1>3, <2>1, <2>2, <2>3, <2>4 DEF Listing
<1>8. QED
  BY <1>4, <1>5, <1>6, <1>7

--------------------------------------------------------------------------------
(* Steps *)

\* What a step that is watched does to the steady posts.
LEMMA WatchFacts ==
  ASSUME TypeOK, Watch
  PROVE  /\ steady' \subseteq steady /\ steady' \subseteq Unread' /\ steady \subseteq Posts
         /\ \A m \in hides' : steady' \cap m.what = {}
<1>1. steady' \subseteq steady /\ steady' \subseteq Unread' /\ steady \subseteq Posts
  BY DEF TypeOK, ApiTypeOK, Watch, Unread, Visible
<1>2. \A m \in hides' : steady' \cap m.what = {}
  BY DEF Watch
<1>3. QED
  BY <1>1, <1>2

\* A slot nobody uses.
LEMMA FreeIsSound ==
  /\ Free \in Request /\ ~Free.heard /\ Free.pc = "free"
  /\ \A S, R, f : Sound(Free, S, R, f)
<1>1. Free \in Request
  BY CursorFacts DEF Free, Request, End
<1>2. ~Free.heard /\ Free.pc = "free" /\ Free.asked = {}
  BY DEF Free
<1>3. QED
  BY <1>1, <1>2 DEF Sound, Getting

\* A request that nobody listens to any more is sound whatever the fetch.
LEMMA UnheardFacts ==
  ASSUME IInv
  PROVE  /\ Unheard \in [Slots -> Request]
         /\ \A s \in Slots : ~Unheard[s].heard
         /\ \A s \in Slots : \A f : Sound(Unheard[s], steady, read, f)
         /\ \A s \in Slots : slot[s] = Free => Unheard[s] = Free
<1>1. slot \in [Slots -> Request]
  BY DEF IInv, TypeOK, ApiTypeOK
<1>2. ASSUME NEW s \in Slots
      PROVE  /\ Unheard[s] \in Request /\ ~Unheard[s].heard
             /\ \A f : Sound(Unheard[s], steady, read, f)
             /\ slot[s] = Free => Unheard[s] = Free
  <2>1. slot[s] \in Request /\ Sound(slot[s], steady, read, fetch)
    BY <1>1, <1>2 DEF IInv, SlotInv
  <2>2. CASE ~slot[s].heard
    <3>1. Unheard[s] = slot[s]
      BY <2>2 DEF Unheard
    <3>2. \A f : Sound(slot[s], steady, read, f)
      BY <2>1, <2>2 DEF Sound
    <3>3. QED
      BY <2>1, <2>2, <3>1, <3>2
  <2>3. CASE slot[s].heard /\ slot[s].pc = "reply"
    <3>1. Unheard[s] = Free
      BY <2>3 DEF Unheard
    <3>2. QED
      BY <3>1, FreeIsSound
  <2>4. CASE slot[s].heard /\ slot[s].pc # "reply"
    <3>1. Unheard[s] = [slot[s] EXCEPT !.heard = FALSE]
      BY <2>4 DEF Unheard
    <3>2. /\ Unheard[s] \in Request /\ ~Unheard[s].heard /\ Unheard[s].pc = slot[s].pc
          /\ Unheard[s].cursor = slot[s].cursor /\ Unheard[s].posts = slot[s].posts
          /\ Unheard[s].asked = slot[s].asked
      BY <2>1, <3>1 DEF Request
    <3>3. \A f : Sound(Unheard[s], steady, read, f)
      BY <2>1, <2>4, <3>2 DEF Sound
    <3>4. slot[s] # Free
      BY <2>4, FreeIsSound
    <3>5. QED
      BY <3>2, <3>3, <3>4
  <2>5. QED
    BY <2>2, <2>3, <2>4
<1>3. QED
  BY <1>2 DEF Unheard

\* A request that is just made.
LEMMA GetIsSound ==
  ASSUME NEW cursor \in 0..Top, cursor # End, NEW all \in BOOLEAN, NEW heard \in BOOLEAN,
         NEW S, NEW f, read \subseteq Posts,
         heard => ~all /\ f.kind # "none" /\ cursor = Reach(f.got)
  PROVE  /\ Get(cursor, all, heard) \in Request
         /\ Get(cursor, all, heard).heard = heard
         /\ Sound(Get(cursor, all, heard), S, read, f)
<1> DEFINE g == Get(cursor, all, heard)
<1>1. /\ g.pc = IF Keyed(cursor, all) THEN "lookup" ELSE "select"
      /\ g.cursor = cursor /\ g.all = all /\ g.heard = heard
      /\ g.asked = IF cursor = Top THEN read ELSE {}
  BY DEF Get, Free
<1>2. g \in Request
  BY CursorFacts DEF Get, Free, Request, End
<1>3. g.pc = "lookup" => cursor \in Posts
  BY <1>1, CursorFacts DEF Keyed
<1>4. g.pc \in {"lookup", "select"}
  BY <1>1
<1>5. QED
  <2> HIDE DEF g
  <2>1. Sound(g, S, read, f)
    BY <1>1, <1>3, <1>4 DEF Sound, Getting
  <2>2. QED
    BY <1>1, <1>2, <2>1 DEF g

\* A step that changes one request.
LEMMA SlotChanges ==
  ASSUME IInv, steady' \subseteq steady, read \subseteq read',
         NEW s \in Slots, NEW r \in Request, slot' = [slot EXCEPT ![s] = r],
         Sound(r, steady, read, fetch'),
         \A t \in Slots : t # s /\ slot[t].heard => fetch' = fetch /\ ~r.heard
  PROVE  slot' \in [Slots -> Request] /\ SlotInv'
<1>1. slot \in [Slots -> Request] /\ slot' \in [Slots -> Request]
  BY DEF IInv, TypeOK, ApiTypeOK
<1>2. slot'[s] = r /\ \A t \in Slots : t # s => slot'[t] = slot[t]
  BY <1>1
<1>3. \A t \in Slots : Sound(slot[t], steady, read, fetch)
  BY DEF IInv, SlotInv
<1>4. ASSUME NEW t \in Slots PROVE Sound(slot'[t], steady', read', fetch')
  <2>1. CASE t = s
    BY <1>2, <2>1, SoundStays
  <2>2. CASE t # s
    BY <1>2, <1>3, <2>2, SoundStays
  <2>3. QED
    BY <2>1, <2>2
<1>5. ASSUME NEW t \in Slots, NEW u \in Slots, slot'[t].heard, slot'[u].heard PROVE t = u
  BY <1>2, <1>5 DEF IInv, SlotInv
<1>6. QED
  BY <1>1, <1>4, <1>5 DEF SlotInv

\* A step after which nobody listens to what ran.
LEMMA SlotsUnheard ==
  ASSUME IInv, steady' \subseteq steady, read' = read, slot' = Unheard
  PROVE  slot' \in [Slots -> Request] /\ SlotInv'
<1>1. \A s \in Slots : Sound(Unheard[s], steady, read, fetch')
  BY UnheardFacts
<1>2. \A s \in Slots : Sound(slot'[s], steady', read', fetch')
  BY <1>1, SoundStays
<1>3. QED
  BY <1>2, UnheardFacts DEF SlotInv

\* The same, with a request made instead.
LEMMA SlotsReplaced ==
  ASSUME IInv, steady' \subseteq steady, read' = read,
         NEW s \in Slots, NEW r \in Request, slot' = [Unheard EXCEPT ![s] = r],
         Sound(r, steady, read, fetch')
  PROVE  slot' \in [Slots -> Request] /\ SlotInv'
<1>1. /\ slot' \in [Slots -> Request] /\ slot'[s] = r
      /\ \A t \in Slots : t # s => slot'[t] = Unheard[t]
  BY UnheardFacts
<1>2. \A t \in Slots : Sound(slot'[t], steady, read, fetch')
  BY <1>1, UnheardFacts
<1>3. \A t \in Slots : Sound(slot'[t], steady', read', fetch')
  BY <1>2, SoundStays
<1>4. \A t \in Slots : t # s => ~slot'[t].heard
  BY <1>1, UnheardFacts
<1>5. QED
  BY <1>1, <1>3, <1>4 DEF SlotInv

\* A request that is answered with a page fit for it.
LEMMA AnswerIsSound ==
  ASSUME IInv, steady' \subseteq steady, read' = read, fetch' = fetch,
         NEW s \in Slots, slot[s].pc \in Getting,
         NEW page, Below(page, slot[s].cursor, steady),
         slot[s].heard /\ slot[s].cursor = Top => page \cap slot[s].asked = {},
         Answer(s, page)
  PROVE  slot' \in [Slots -> Request] /\ SlotInv'
<1> DEFINE r == IF slot[s].heard THEN [slot[s] EXCEPT !.pc = "reply", !.posts = page] ELSE Free
<1>1. slot[s] \in Request /\ Sound(slot[s], steady, read, fetch) /\ slot \in [Slots -> Request]
  BY DEF IInv, TypeOK, ApiTypeOK, SlotInv
<1>2. slot' = [slot EXCEPT ![s] = r]
  BY <1>1 DEF Answer
<1>3. r \in Request /\ Sound(r, steady, read, fetch) /\ (r.heard => slot[s].heard)
  <2>1. CASE slot[s].heard
    <3>1. /\ r \in Request /\ r.pc = "reply" /\ r.heard = slot[s].heard
          /\ r.cursor = slot[s].cursor /\ r.all = slot[s].all
          /\ r.posts = page /\ r.asked = slot[s].asked
      BY <1>1, <2>1 DEF Request, Below
    <3>2. r.cursor # End
      BY <1>1, <3>1 DEF Sound
    <3>3. QED
      <4> HIDE DEF r
      <4>1. QED
        BY <1>1, <2>1, <3>1, <3>2 DEF Sound, Getting
  <2>2. CASE ~slot[s].heard
    BY <2>2, FreeIsSound
  <2>3. QED
    BY <2>1, <2>2
<1>4. \A t \in Slots : t # s /\ slot[t].heard => ~r.heard
  BY <1>3 DEF IInv, SlotInv
<1>5. QED
  <2> HIDE DEF r
  <2>1. QED
    BY <1>2, <1>3, <1>4, SlotChanges

\* A step that leaves the mini app alone.
LEMMA ClientKept ==
  ASSUME IInv, Watch, UNCHANGED clientVars
  PROVE  ClientTypeOK' /\ ListInv' /\ GoneInv'
<1>1. pages' = pages /\ fetch' = fetch /\ hides' = hides /\ gone' = gone
  BY DEF clientVars
<1>2. steady' \subseteq steady
  BY WatchFacts DEF IInv
<1>3. ClientTypeOK'
  BY <1>1 DEF IInv, TypeOK, ClientTypeOK
<1>4. ListInv'
  BY <1>1, <1>2, ListingShrinks DEF IInv, ListInv
<1>5. GoneInv'
  BY <1>1 DEF IInv, GoneInv, Shown, Reach
<1>6. QED
  BY <1>3, <1>4, <1>5

\* A step that drops slices, or none.
LEMMA CacheShrinks ==
  ASSUME IInv, steady' \subseteq steady,
         DOMAIN cache' \subseteq DOMAIN cache, \A c \in DOMAIN cache' : cache'[c] = cache[c]
  PROVE  /\ CacheInv' /\ DOMAIN cache' \subseteq Posts
         /\ \A c \in DOMAIN cache' : cache'[c] \subseteq Posts
BY DEF IInv, CacheInv, Below, TypeOK, ApiTypeOK

\* Each step of a request keeps its tables, the cache and the requests sound.
LEMMA ServerKeeps ==
  ASSUME IInv, Watch, NEW s \in Slots, ServerStep(s), UNCHANGED clientVars
  PROVE  ApiTypeOK' /\ CacheInv' /\ SlotInv'
<1>1. /\ slot[s] \in Request /\ Sound(slot[s], steady, read, fetch)
      /\ slot \in [Slots -> Request]
      /\ stored \subseteq Posts /\ hidden \subseteq SUBSET Posts /\ read \subseteq Posts
      /\ TypeOK
  BY DEF IInv, TypeOK, ApiTypeOK, SlotInv
<1>2. steady' \subseteq steady /\ fetch' = fetch
  BY <1>1, WatchFacts DEF clientVars
<1>3. CASE LookUp(s)
  <2>1. /\ slot[s].pc = "lookup" /\ stored' = stored /\ hidden' = hidden
        /\ read' = read /\ cache' = cache
    BY <1>3 DEF LookUp
  <2>2. CacheInv' /\ DOMAIN cache' \subseteq Posts /\ \A c \in DOMAIN cache' : cache'[c] \subseteq Posts
    BY <1>2, <2>1, CacheShrinks
  <2>3. slot' \in [Slots -> Request] /\ SlotInv'
    <3>1. CASE slot[s].cursor \in DOMAIN cache
      <4>1. Answer(s, cache[slot[s].cursor])
        BY <1>3, <3>1 DEF LookUp
      <4>2. slot[s].cursor # Top /\ slot[s].pc \in Getting
        BY <1>1, <2>1, CursorFacts DEF Sound, Getting
      <4>3. Below(cache[slot[s].cursor], slot[s].cursor, steady)
        BY <3>1 DEF IInv, CacheInv
      <4>4. QED
        BY <1>2, <2>1, <4>1, <4>2, <4>3, AnswerIsSound
    <3>2. CASE slot[s].cursor \notin DOMAIN cache
      <4> DEFINE r == [slot[s] EXCEPT !.pc = "select"]
      <4>1. slot' = [slot EXCEPT ![s] = r]
        BY <1>1, <1>3, <3>2 DEF LookUp
      <4>2. /\ r \in Request /\ r.pc = "select" /\ r.heard = slot[s].heard
            /\ r.cursor = slot[s].cursor /\ r.all = slot[s].all /\ r.asked = slot[s].asked
        BY <1>1 DEF Request
      <4> HIDE DEF r
      <4>3. Sound(r, steady, read, fetch)
        BY <1>1, <2>1, <4>2 DEF Sound, Getting
      <4>4. \A u \in Slots : u # s /\ slot[u].heard => ~r.heard
        BY <4>2 DEF IInv, SlotInv
      <4>5. QED
        BY <1>2, <2>1, <4>1, <4>2, <4>3, <4>4, SlotChanges
    <3>3. QED
      BY <3>1, <3>2
  <2>4. QED
    BY <1>1, <2>1, <2>2, <2>3 DEF ApiTypeOK
<1>4. CASE Select(s)
  <2> DEFINE page == Slice(slot[s].cursor, slot[s].all)
  <2>1. /\ slot[s].pc = "select" /\ stored' = stored /\ hidden' = hidden
        /\ read' = read /\ cache' = cache
    BY <1>4 DEF Select
  <2>2. CacheInv' /\ DOMAIN cache' \subseteq Posts /\ \A c \in DOMAIN cache' : cache'[c] \subseteq Posts
    BY <1>2, <2>1, CacheShrinks
  <2>3. slot[s].cursor \in 0..Top /\ slot[s].all \in BOOLEAN
    BY <1>1 DEF Request
  <2>4. /\ Below(page, slot[s].cursor, steady)
        /\ ~slot[s].all => page \cap read = {}
    BY <1>1, <2>3, SliceFacts
  <2>5. slot' \in [Slots -> Request] /\ SlotInv'
    <3>1. CASE Keyed(slot[s].cursor, slot[s].all)
      <4> DEFINE r == [slot[s] EXCEPT !.pc = "store", !.posts = page]
      <4>1. slot' = [slot EXCEPT ![s] = r]
        BY <1>1, <1>4, <3>1 DEF Select
      <4>2. /\ r \in Request /\ r.pc = "store" /\ r.heard = slot[s].heard
            /\ r.cursor = slot[s].cursor /\ r.all = slot[s].all /\ r.asked = slot[s].asked
            /\ r.posts = page
        <5>1. page \in SUBSET Posts
          BY <2>4 DEF Below
        <5> HIDE DEF page
        <5>2. QED
          BY <1>1, <5>1 DEF Request
      <4> HIDE DEF r, page
      <4>3. r.cursor \in Posts
        BY <1>1, <2>1, <2>3, <3>1, <4>2, CursorFacts DEF Sound, Getting, Keyed
      <4>4. Sound(r, steady, read, fetch)
        BY <1>1, <2>1, <2>4, <4>2, <4>3, CursorFacts DEF Sound, Getting
      <4>5. \A u \in Slots : u # s /\ slot[u].heard => ~r.heard
        BY <4>2 DEF IInv, SlotInv
      <4>6. QED
        BY <1>2, <2>1, <4>1, <4>2, <4>4, <4>5, SlotChanges
    <3>2. CASE ~Keyed(slot[s].cursor, slot[s].all)
      <4>1. Answer(s, page)
        BY <1>4, <3>2 DEF Select
      <4>2. slot[s].pc \in Getting
        BY <2>1 DEF Getting
      <4>3. slot[s].heard => page \cap slot[s].asked = {}
        BY <1>1, <2>4 DEF Sound
      <4>4. QED
        BY <1>2, <2>1, <2>4, <4>1, <4>2, <4>3, AnswerIsSound
    <3>3. QED
      BY <3>1, <3>2
  <2>6. QED
    BY <1>1, <2>1, <2>2, <2>5 DEF ApiTypeOK
<1>5. CASE Store(s)
  <2>1. /\ slot[s].pc = "store" /\ stored' = stored /\ hidden' = hidden /\ read' = read
        /\ Answer(s, slot[s].posts)
        /\ cache' = [c \in DOMAIN cache \cup {slot[s].cursor} |->
                       IF c = slot[s].cursor THEN slot[s].posts ELSE cache[c]]
    BY <1>5 DEF Store
  <2>2. slot[s].cursor \in Posts /\ Below(slot[s].posts, slot[s].cursor, steady)
    BY <1>1, <2>1 DEF Sound
  <2>3. CacheInv' /\ DOMAIN cache' \subseteq Posts /\ \A c \in DOMAIN cache' : cache'[c] \subseteq Posts
    <3>1. ASSUME NEW c \in DOMAIN cache' PROVE c \in Posts /\ Below(cache'[c], c, steady)
      <4>1. CASE c = slot[s].cursor
        BY <2>1, <2>2, <4>1
      <4>2. CASE c # slot[s].cursor
        <5>1. c \in DOMAIN cache /\ cache'[c] = cache[c]
          BY <2>1, <3>1, <4>2
        <5>2. QED
          BY <1>1, <5>1 DEF IInv, CacheInv, TypeOK, ApiTypeOK
      <4>3. QED
        BY <4>1, <4>2
    <3>2. QED
      BY <1>2, <3>1 DEF CacheInv, Below
  <2>4. slot' \in [Slots -> Request] /\ SlotInv'
    <3>1. slot[s].pc \in Getting /\ slot[s].cursor # Top
      BY <2>1, <2>2, CursorFacts DEF Getting
    <3>2. QED
      BY <1>2, <2>1, <2>2, <3>1, AnswerIsSound
  <2>5. QED
    BY <1>1, <2>1, <2>3, <2>4 DEF ApiTypeOK
<1>6. CASE CommitRead(s)
  <2> DEFINE r == [Free EXCEPT !.pc = "scan"]
  <2>1. /\ slot[s].pc = "commit" /\ stored' = stored /\ hidden' = hidden /\ cache' = cache
        /\ read' = read \cup slot[s].posts /\ slot' = [slot EXCEPT ![s] = r]
    BY <1>6 DEF CommitRead
  <2>2. r \in Request /\ ~r.heard /\ r.pc = "scan" /\ r.asked = {}
    BY FreeIsSound DEF Request, Free
  <2> HIDE DEF r
  <2>3. Sound(r, steady, read, fetch)
    BY <2>2 DEF Sound, Getting
  <2>4. slot' \in [Slots -> Request] /\ SlotInv'
    BY <1>2, <2>1, <2>2, <2>3, SlotChanges
  <2>5. CacheInv' /\ DOMAIN cache' \subseteq Posts /\ \A c \in DOMAIN cache' : cache'[c] \subseteq Posts
    BY <1>2, <2>1, CacheShrinks
  <2>6. read' \subseteq Posts
    BY <1>1, <2>1 DEF Request
  <2>7. QED
    BY <1>1, <2>1, <2>4, <2>5, <2>6 DEF ApiTypeOK
<1>7. CASE ScanKeys(s)
  <2> DEFINE r == IF DOMAIN cache = {} THEN Free
                  ELSE [slot[s] EXCEPT !.pc = "delete", !.keys = DOMAIN cache]
  <2>1. /\ slot[s].pc = "scan" /\ stored' = stored /\ hidden' = hidden /\ cache' = cache
        /\ read' = read /\ slot' = [slot EXCEPT ![s] = r]
    BY <1>1, <1>7 DEF ScanKeys
  <2>2. ~slot[s].heard
    BY <1>1, <2>1 DEF Sound, Getting
  <2>3. r \in Request /\ ~r.heard /\ Sound(r, steady, read, fetch)
    <3>1. CASE DOMAIN cache = {}
      BY <3>1, FreeIsSound
    <3>2. CASE DOMAIN cache # {}
      <4>1. DOMAIN cache \in SUBSET Posts
        BY <1>1 DEF TypeOK, ApiTypeOK
      <4>2. r = [slot[s] EXCEPT !.pc = "delete", !.keys = DOMAIN cache]
        BY <3>2
      <4> HIDE DEF r
      <4>3. r \in Request /\ ~r.heard /\ r.pc = "delete" /\ r.asked = slot[s].asked
        BY <1>1, <2>2, <4>1, <4>2 DEF Request
      <4>4. QED
        BY <1>1, <4>3 DEF Sound, Getting
    <3>3. QED
      BY <3>1, <3>2
  <2> HIDE DEF r
  <2>4. slot' \in [Slots -> Request] /\ SlotInv'
    BY <1>2, <2>1, <2>3, SlotChanges
  <2>5. CacheInv' /\ DOMAIN cache' \subseteq Posts /\ \A c \in DOMAIN cache' : cache'[c] \subseteq Posts
    BY <1>2, <2>1, CacheShrinks
  <2>6. QED
    BY <1>1, <2>1, <2>4, <2>5 DEF ApiTypeOK
<1>8. CASE DeleteKeys(s)
  <2>1. /\ stored' = stored /\ hidden' = hidden /\ read' = read
        /\ cache' = [c \in DOMAIN cache \ slot[s].keys |-> cache[c]]
        /\ slot' = [slot EXCEPT ![s] = Free]
    BY <1>8 DEF DeleteKeys
  <2>2. slot' \in [Slots -> Request] /\ SlotInv'
    BY <1>2, <2>1, FreeIsSound, SlotChanges
  <2>3. CacheInv' /\ DOMAIN cache' \subseteq Posts /\ \A c \in DOMAIN cache' : cache'[c] \subseteq Posts
    BY <1>2, <2>1, CacheShrinks
  <2>4. QED
    BY <1>1, <2>1, <2>2, <2>3 DEF ApiTypeOK
<1>9. CASE Die(s)
  <2>1. /\ stored' = stored /\ hidden' = hidden /\ read' = read /\ cache' = cache
        /\ slot' = [slot EXCEPT ![s] = Free]
    BY <1>9 DEF Die
  <2>2. slot' \in [Slots -> Request] /\ SlotInv'
    BY <1>2, <2>1, FreeIsSound, SlotChanges
  <2>3. CacheInv' /\ DOMAIN cache' \subseteq Posts /\ \A c \in DOMAIN cache' : cache'[c] \subseteq Posts
    BY <1>2, <2>1, CacheShrinks
  <2>4. QED
    BY <1>1, <2>1, <2>2, <2>3 DEF ApiTypeOK
<1>10. QED
  BY <1>3, <1>4, <1>5, <1>6, <1>7, <1>8, <1>9 DEF ServerStep

\* A step that leaves the tables and the cache alone.
LEMMA TablesKept ==
  ASSUME IInv, Watch, UNCHANGED <<stored, hidden, read, cache>>, slot' \in [Slots -> Request]
  PROVE  ApiTypeOK' /\ CacheInv'
<1>1. steady' \subseteq steady
  BY WatchFacts DEF IInv
<1>2. CacheInv' /\ DOMAIN cache' \subseteq Posts /\ \A c \in DOMAIN cache' : cache'[c] \subseteq Posts
  BY <1>1, CacheShrinks
<1>3. QED
  BY <1>2 DEF IInv, TypeOK, ApiTypeOK

\* A request that is sent beside what runs.
LEMMA SendKeeps ==
  ASSUME IInv, Watch, NEW s \in Slots, NEW r \in Request, Send(s, r),
         Sound(r, steady, read, fetch'),
         fetch.kind = "none" \/ (fetch' = fetch /\ ~r.heard)
  PROVE  ApiTypeOK' /\ CacheInv' /\ SlotInv'
<1>1. steady' \subseteq steady
  BY WatchFacts DEF IInv
<1>2. UNCHANGED <<stored, hidden, read, cache>> /\ slot' = [slot EXCEPT ![s] = r]
  BY DEF Send
<1>3. \A t \in Slots : t # s /\ slot[t].heard => fetch' = fetch /\ ~r.heard
  BY DEF IInv, SlotInv, Sound
<1>4. slot' \in [Slots -> Request] /\ SlotInv'
  BY <1>1, <1>2, <1>3, SlotChanges
<1>5. QED
  BY <1>2, <1>4, TablesKept

\* The first page is asked for.
LEMMA GetFirstPage ==
  ASSUME IInv, Watch, NEW s \in Slots, Send(s, Get(Top, FALSE, TRUE)),
         fetch.kind = "none", NEW n, fetch' = [kind |-> "all", got |-> <<>>, left |-> n]
  PROVE  ApiTypeOK' /\ CacheInv' /\ SlotInv'
<1>1. fetch'.kind # "none" /\ Top = Reach(fetch'.got)
  BY DEF Reach
<1>2. Top \in 0..Top /\ Top # End
  BY CursorFacts DEF Top, End
<1>3. read \subseteq Posts
  BY DEF IInv, TypeOK, ApiTypeOK
<1>4. /\ Get(Top, FALSE, TRUE) \in Request
      /\ Sound(Get(Top, FALSE, TRUE), steady, read, fetch')
  BY <1>1, <1>2, <1>3, GetIsSound
<1>5. QED
  BY <1>4, SendKeeps

Kept == ApiTypeOK /\ ClientTypeOK /\ CacheInv /\ SlotInv /\ ListInv /\ GoneInv

\* FirstLoad and Refetch fetch from the top: nothing is gone, nothing got.
LEMMA StartsAreKept ==
  ASSUME IInv, Watch, FirstLoad \/ Refetch
  PROVE  Kept'
<1>1. PICK s \in Slots : Send(s, Get(Top, FALSE, TRUE))
  BY DEF FirstLoad, Refetch
<1> DEFINE n == IF FirstLoad THEN 1 ELSE Len(pages)
<1>2. /\ fetch.kind = "none" /\ fetch' = [kind |-> "all", got |-> <<>>, left |-> n]
      /\ pages' = pages /\ hides' = hides /\ gone' = {}
  BY DEF FirstLoad, Refetch, IInv, GoneInv
<1>3. n \in Nat
  BY ReachFacts DEF IInv, ListInv
<1>4. ApiTypeOK' /\ CacheInv' /\ SlotInv'
  <2> HIDE DEF n
  <2>1. QED
    BY <1>1, <1>2, GetFirstPage
<1> HIDE DEF n
<1>5. steady' \subseteq steady /\ steady' \subseteq Posts
  BY WatchFacts DEF IInv
<1>6. ClientTypeOK'
  BY <1>2, <1>3 DEF IInv, TypeOK, ClientTypeOK
<1>7. fetch'.got = <<>> /\ fetch'.kind = "all"
  BY <1>2
<1>8. ListInv'
  <2>1. Listing(fetch'.got, steady')
    BY <1>5, <1>7, EmptyListing
  <2>2. QED
    BY <1>2, <1>5, <2>1, ListingShrinks DEF IInv, ListInv
<1>9. GoneInv'
  BY <1>2, <1>7 DEF GoneInv
<1>10. QED
  BY <1>4, <1>6, <1>8, <1>9 DEF Kept

\* The next page is asked for at the point the pages reach to.
LEMMA FetchNextPageKeeps ==
  ASSUME IInv, Watch, FetchNextPage
  PROVE  Kept'
<1> DEFINE r == Get(Reach(pages), FALSE, TRUE)
<1>1. PICK s \in Slots : SendInstead(s, r)
  BY DEF FetchNextPage
<1>2. /\ Reach(pages) # End /\ fetch' = [kind |-> "more", got |-> pages, left |-> 1]
      /\ pages' = pages /\ hides' = hides /\ gone' = gone
      /\ fetch'.kind = "more" /\ fetch'.got = pages
  BY DEF FetchNextPage
<1>3. UNCHANGED <<stored, hidden, read, cache>> /\ slot' = [Unheard EXCEPT ![s] = r]
  BY <1>1 DEF SendInstead
<1>4. steady' \subseteq steady /\ read \subseteq Posts /\ Reach(pages) \in 0..Top
  BY WatchFacts, ReachFacts DEF IInv, ListInv, TypeOK, ApiTypeOK
<1>5. r \in Request /\ Sound(r, steady, read, fetch')
  BY <1>2, <1>4, GetIsSound
<1> HIDE DEF r
<1>6. slot' \in [Slots -> Request] /\ SlotInv'
  BY <1>3, <1>4, <1>5, SlotsReplaced
<1>7. ApiTypeOK' /\ CacheInv'
  BY <1>3, <1>6, TablesKept
<1>8. ClientTypeOK'
  BY <1>2 DEF IInv, TypeOK, ClientTypeOK
<1>9. ListInv'
  BY <1>2, <1>4, ListingShrinks DEF IInv, ListInv
<1>10. GoneInv'
  BY <1>2 DEF IInv, GoneInv, Shown, Reach
<1>11. QED
  BY <1>6, <1>7, <1>8, <1>9, <1>10 DEF Kept

\* What has arrived lengthens what the fetch has got, below all that is gone.
LEMMA GotFacts ==
  ASSUME IInv, NEW s \in Slots, Arrived(s)
  PROVE  /\ Listing(Got(s), steady) /\ Got(s) # <<>>
         /\ fetch.kind = "more" => /\ gone \cap Shown(Got(s)) = {}
                                   /\ \A p \in gone : p \geq Reach(Got(s))
         /\ fetch.kind \in {"more", "all"}
         /\ \A t \in Slots : t # s => ~slot[t].heard
<1>1. /\ Sound(slot[s], steady, read, fetch) /\ slot[s].heard /\ slot[s].pc = "reply"
      /\ TypeOK /\ Listing(fetch.got, steady)
  BY DEF IInv, SlotInv, ListInv, Arrived
<1>2. steady \subseteq Posts
  BY <1>1 DEF TypeOK, ApiTypeOK, Unread, Visible
<1>3. Below(slot[s].posts, Reach(fetch.got), steady) /\ fetch.kind # "none"
  BY <1>1 DEF Sound
<1>4. /\ Listing(Got(s), steady) /\ Got(s) # <<>>
      /\ Shown(Got(s)) = Shown(fetch.got) \cup slot[s].posts
      /\ Reach(Got(s)) \leq Reach(fetch.got)
  <2>1. Got(s) = Longer(fetch.got, slot[s].posts)
    BY DEF Got, Longer
  <2>2. QED
    BY <1>1, <1>2, <1>3, <2>1, ListingGrows
<1>5. ASSUME fetch.kind = "more"
      PROVE  gone \cap Shown(Got(s)) = {} /\ \A p \in gone : p \geq Reach(Got(s))
  <2>1. gone \cap Shown(fetch.got) = {} /\ \A p \in gone : p \geq Reach(fetch.got)
    BY <1>5 DEF IInv, GoneInv
  <2>2. \A p \in gone : p \in Nat
    BY <1>1, CursorFacts DEF TypeOK, ClientTypeOK
  <2>3. Reach(fetch.got) \in Nat /\ Reach(Got(s)) \in Nat
    <3>1. Reach(fetch.got) \in 0..Top /\ Reach(Got(s)) \in 0..Top
      BY <1>1, <1>4, ReachFacts
    <3>2. QED
      BY <3>1, CursorFacts
  <2>4. \A p \in slot[s].posts : p < Reach(fetch.got)
    BY <1>3 DEF Below
  <2>5. QED
    BY <1>4, <2>1, <2>2, <2>3, <2>4
<1>6. fetch.kind \in {"more", "all"}
  BY <1>1, <1>3 DEF TypeOK, ClientTypeOK
<1>7. \A t \in Slots : t # s => ~slot[t].heard
  BY <1>1 DEF IInv, SlotInv
<1>8. QED
  BY <1>4, <1>5, <1>6, <1>7

\* A page that arrives goes below those the fetch has got.
LEMMA FetchStepsAreKept ==
  ASSUME IInv, Watch, NEW s \in Slots, FetchDone(s) \/ FetchGoesOn(s)
  PROVE  Kept'
<1>1. /\ Arrived(s) /\ UNCHANGED <<stored, hidden, read, cache>>
      /\ hides' = hides /\ gone' = gone
  BY DEF FetchDone, FetchGoesOn
<1>2. /\ Listing(Got(s), steady) /\ Got(s) # <<>>
      /\ fetch.kind = "more" => /\ gone \cap Shown(Got(s)) = {}
                                /\ \A p \in gone : p \geq Reach(Got(s))
      /\ fetch.kind \in {"more", "all"}
      /\ \A t \in Slots : t # s => ~slot[t].heard
  BY <1>1, GotFacts
<1>3. /\ steady' \subseteq steady /\ read \subseteq Posts
      /\ Reach(Got(s)) \in 0..Top /\ Got(s) \in Seq(Page)
      /\ fetch.left \in Nat
      /\ fetch \in [kind : {"none", "more", "all"}, got : Seq(Page), left : Nat]
  BY <1>2, WatchFacts, ReachFacts DEF IInv, TypeOK, ApiTypeOK, ClientTypeOK, Listing
<1>4. fetch.kind = "all" => gone = {}
  BY DEF IInv, GoneInv
<1>5. CASE FetchDone(s)
  <2>1. pages' = Got(s) /\ fetch' = NoFetch /\ slot' = [slot EXCEPT ![s] = Free]
    BY <1>5 DEF FetchDone
  <2>2. slot' \in [Slots -> Request] /\ SlotInv'
    BY <1>1, <1>2, <1>3, <2>1, FreeIsSound, SlotChanges
  <2>3. ApiTypeOK' /\ CacheInv'
    BY <1>1, <2>2, TablesKept
  <2>4. NoFetch.got = <<>> /\ NoFetch.kind = "none" /\ NoFetch \in [kind : {"none", "more", "all"}, got : Seq(Page), left : Nat]
    BY DEF NoFetch
  <2>5. ClientTypeOK'
    BY <1>1, <1>3, <2>1, <2>4 DEF IInv, TypeOK, ClientTypeOK
  <2>6. ListInv'
    <3>1. Listing(NoFetch.got, steady')
      BY <2>4, EmptyListing, WatchFacts DEF IInv
    <3>2. QED
      BY <1>1, <1>2, <1>3, <2>1, <3>1, ListingShrinks DEF IInv, ListInv
  <2>7. GoneInv'
    BY <1>1, <1>2, <1>4, <2>1, <2>4 DEF GoneInv
  <2>8. QED
    BY <2>2, <2>3, <2>5, <2>6, <2>7 DEF Kept
<1>6. CASE FetchGoesOn(s)
  <2> DEFINE r == Get(Reach(Got(s)), FALSE, TRUE)
  <2>1. /\ pages' = pages /\ fetch' = [fetch EXCEPT !.got = Got(s), !.left = @ - 1]
        /\ slot' = [slot EXCEPT ![s] = r] /\ fetch.left > 1 /\ Reach(Got(s)) # End
    BY <1>6 DEF FetchGoesOn
  <2>2. /\ fetch'.kind = fetch.kind /\ fetch'.got = Got(s)
        /\ fetch' \in [kind : {"none", "more", "all"}, got : Seq(Page), left : Nat]
    <3>1. fetch.left - 1 \in Nat
      BY <1>3, <2>1
    <3>2. fetch' = [fetch EXCEPT !.got = Got(s), !.left = fetch.left - 1]
      BY <2>1
    <3>3. QED
      BY <1>3, <3>1, <3>2
  <2>3. r \in Request /\ Sound(r, steady, read, fetch')
    BY <1>2, <1>3, <2>1, <2>2, GetIsSound
  <2> HIDE DEF r
  <2>4. slot' \in [Slots -> Request] /\ SlotInv'
    BY <1>1, <1>2, <1>3, <2>1, <2>3, SlotChanges
  <2>5. ApiTypeOK' /\ CacheInv'
    BY <1>1, <2>4, TablesKept
  <2>6. ClientTypeOK'
    BY <1>1, <2>1, <2>2 DEF IInv, TypeOK, ClientTypeOK
  <2>7. ListInv'
    BY <1>1, <1>2, <1>3, <2>1, <2>2, ListingShrinks DEF IInv, ListInv
  <2>8. GoneInv'
    <3>1. gone' \cap Shown(pages') = {} /\ \A p \in gone' : p \geq Reach(pages')
      BY <1>1, <2>1 DEF IInv, GoneInv
    <3>2. QED
      BY <1>1, <1>2, <1>4, <2>1, <2>2, <3>1 DEF IInv, GoneInv
  <2>9. QED
    BY <2>4, <2>5, <2>6, <2>7, <2>8 DEF Kept
<1>7. QED
  BY <1>5, <1>6

\* A step that ends the fetch, whatever it does to the pages.
LEMMA FetchEnds ==
  ASSUME IInv, Watch, UNCHANGED <<stored, hidden, read, cache>>,
         fetch' = NoFetch, slot' = Unheard
  PROVE  /\ ApiTypeOK' /\ CacheInv' /\ SlotInv'
         /\ fetch' \in [kind : {"none", "more", "all"}, got : Seq(Page), left : Nat]
         /\ Listing(fetch'.got, steady') /\ fetch'.kind = "none"
<1>1. steady' \subseteq steady /\ steady' \subseteq Posts
  BY WatchFacts DEF IInv
<1>2. slot' \in [Slots -> Request] /\ SlotInv'
  BY <1>1, SlotsUnheard
<1>3. ApiTypeOK' /\ CacheInv'
  BY <1>2, TablesKept
<1>4. /\ fetch'.got = <<>> /\ fetch'.kind = "none"
      /\ fetch' \in [kind : {"none", "more", "all"}, got : Seq(Page), left : Nat]
  BY DEF NoFetch
<1>5. QED
  BY <1>1, <1>2, <1>3, <1>4, EmptyListing

\* A fetch that fails leaves the pages as they were.
LEMMA FetchFailsKeeps ==
  ASSUME IInv, Watch, FetchFails
  PROVE  Kept'
<1>1. /\ UNCHANGED <<stored, hidden, read, cache, pages, hides, gone>>
      /\ fetch' = NoFetch /\ slot' = Unheard
  BY DEF FetchFails
<1>2. /\ ApiTypeOK' /\ CacheInv' /\ SlotInv'
      /\ fetch' \in [kind : {"none", "more", "all"}, got : Seq(Page), left : Nat]
      /\ Listing(fetch'.got, steady') /\ fetch'.kind = "none"
  BY <1>1, FetchEnds
<1>3. ClientTypeOK'
  BY <1>1, <1>2 DEF IInv, TypeOK, ClientTypeOK
<1>4. steady' \subseteq steady
  BY WatchFacts DEF IInv
<1>5. ListInv'
  BY <1>1, <1>2, <1>4, ListingShrinks DEF IInv, ListInv
<1>6. GoneInv'
  BY <1>1, <1>2 DEF IInv, GoneInv
<1>7. QED
  BY <1>2, <1>3, <1>5, <1>6 DEF Kept

\* A new screen has no pages.
LEMMA ReopenKeeps ==
  ASSUME IInv, Watch, Reopen
  PROVE  Kept'
<1>1. /\ UNCHANGED <<stored, hidden, read, cache>>
      /\ fetch' = NoFetch /\ slot' = Unheard
      /\ pages' = <<>> /\ hides' = {} /\ gone' = {}
  BY DEF Reopen
<1>2. /\ ApiTypeOK' /\ CacheInv' /\ SlotInv'
      /\ fetch' \in [kind : {"none", "more", "all"}, got : Seq(Page), left : Nat]
      /\ Listing(fetch'.got, steady') /\ fetch'.kind = "none"
  BY <1>1, FetchEnds
<1>3. ClientTypeOK'
  BY <1>1, <1>2 DEF ClientTypeOK
<1>4. steady' \subseteq Posts
  BY WatchFacts DEF IInv
<1>5. ListInv'
  BY <1>1, <1>2, <1>4, EmptyListing DEF ListInv
<1>6. GoneInv'
  BY <1>1, <1>2 DEF GoneInv
<1>7. QED
  BY <1>2, <1>3, <1>5, <1>6 DEF Kept

\* Hiding ends the fetch and takes cards off that are steady no more.
LEMMA HideKeeps ==
  ASSUME IInv, Watch, NEW h \in Hideable, Hide(h)
  PROVE  Kept'
<1>1. /\ UNCHANGED <<stored, hidden, read, cache>>
      /\ fetch' = NoFetch /\ slot' = Unheard /\ h \cap Shown(pages) # {}
      /\ pages' = Without(pages, h) /\ gone' = gone \cup (h \cap Shown(pages))
      /\ hides' = hides \cup {[what |-> h, snap |-> pages, done |-> FALSE]}
  BY DEF Hide
<1>2. /\ ApiTypeOK' /\ CacheInv' /\ SlotInv'
      /\ fetch' \in [kind : {"none", "more", "all"}, got : Seq(Page), left : Nat]
      /\ Listing(fetch'.got, steady') /\ fetch'.kind = "none"
  BY <1>1, FetchEnds
<1>3. /\ steady' \subseteq steady /\ steady \subseteq Posts
      /\ \A m \in hides' : steady' \cap m.what = {}
  BY WatchFacts DEF IInv
<1>4. steady' \cap h = {}
  <2> DEFINE m == [what |-> h, snap |-> pages, done |-> FALSE]
  <2>1. m \in hides' /\ m.what = h
    BY <1>1
  <2>2. QED
    BY <1>3, <2>1
<1>5. Listing(pages, steady)
  BY DEF IInv, ListInv
<1>6. /\ Listing(pages', steady') /\ Shown(pages') = Shown(pages) \ h
      /\ Reach(pages') = Reach(pages) /\ (pages' = <<>> <=> pages = <<>>)
  <2>1. /\ Listing(Without(pages, h), steady') /\ Shown(Without(pages, h)) = Shown(pages) \ h
        /\ Reach(Without(pages, h)) = Reach(pages) /\ (Without(pages, h) = <<>> <=> pages = <<>>)
    BY <1>3, <1>4, <1>5, ListingWithout
  <2>2. Shown(pages') = Shown(Without(pages, h)) /\ Reach(pages') = Reach(Without(pages, h))
    BY <1>1 DEF Shown, Reach
  <2>3. QED
    BY <1>1, <2>1, <2>2
<1>7. pages # <<>>
  BY <1>1 DEF Shown
<1>8. \A p \in Shown(pages) : p \in Posts /\ p \geq Reach(pages)
  BY <1>5, ReachFacts
<1>9. ClientTypeOK'
  <2>1. pages' \in Seq(Page) /\ pages \in Seq(Page)
    BY <1>5, <1>6 DEF Listing
  <2>2. QED
    <3>1. [what |-> h, snap |-> pages, done |-> FALSE] \in [what : Hideable, snap : Seq(Page), done : BOOLEAN]
      BY <2>1
    <3>2. hides \subseteq [what : Hideable, snap : Seq(Page), done : BOOLEAN] /\ gone \subseteq Posts
      BY DEF IInv, TypeOK, ClientTypeOK
    <3>3. hides' \subseteq [what : Hideable, snap : Seq(Page), done : BOOLEAN]
      BY <1>1, <3>1, <3>2
    <3>4. gone' \subseteq Posts
      BY <1>1, <1>8, <3>2
    <3>5. QED
      BY <1>2, <2>1, <3>3, <3>4 DEF ClientTypeOK
<1>10. ListInv'
  BY <1>1, <1>2, <1>3, <1>5, <1>6, <1>7, ListingShrinks DEF IInv, ListInv
<1>11. GoneInv'
  BY <1>1, <1>2, <1>6, <1>7, <1>8 DEF IInv, GoneInv
<1>12. QED
  BY <1>2, <1>9, <1>10, <1>11 DEF Kept

\* A hide commits, ends, or puts back a snapshot, which is a list still.
LEMMA HideEndsAreKept ==
  ASSUME IInv, Watch, NEW m \in hides, HideCommits(m) \/ HideSucceeds(m) \/ Rollback(m)
  PROVE  Kept'
<1>1. /\ m \in [what : Hideable, snap : Seq(Page), done : BOOLEAN]
      /\ Listing(m.snap, steady) /\ m.snap # <<>>
      /\ hides \subseteq [what : Hideable, snap : Seq(Page), done : BOOLEAN]
  BY DEF IInv, TypeOK, ClientTypeOK, ListInv
<1>2. steady' \subseteq steady
  BY WatchFacts DEF IInv
<1>3. stored' = stored /\ read' = read /\ cache' = cache /\ slot' = slot /\ fetch' = fetch
  BY DEF HideCommits, HideSucceeds, Rollback, HideOnServer, apiVars
<1>4. CacheInv' /\ DOMAIN cache' \subseteq Posts /\ \A c \in DOMAIN cache' : cache'[c] \subseteq Posts
  BY <1>2, <1>3, CacheShrinks
<1>5. hidden' \subseteq SUBSET Posts
  BY <1>1, ClientAssumption DEF IInv, TypeOK, ApiTypeOK, HideCommits, HideSucceeds, Rollback, HideOnServer, apiVars
<1>6. ApiTypeOK'
  BY <1>3, <1>4, <1>5 DEF IInv, TypeOK, ApiTypeOK
<1>7. SlotInv'
  <2>1. \A s \in Slots : Sound(slot'[s], steady', read', fetch')
    BY <1>2, <1>3, SoundStays DEF IInv, SlotInv
  <2>2. QED
    BY <1>3, <2>1 DEF IInv, SlotInv
<1>8. CASE Rollback(m)
  <2>1. /\ hides' = hides \ {m} /\ pages' = m.snap
        /\ gone' = {p \in gone \ Shown(m.snap) : p \geq Reach(m.snap)}
    BY <1>8 DEF Rollback
  <2>2. ClientTypeOK'
    BY <1>1, <1>3, <2>1 DEF IInv, TypeOK, ClientTypeOK
  <2>3. ListInv'
    BY <1>1, <1>2, <1>3, <2>1, ListingShrinks DEF IInv, ListInv
  <2>4. GoneInv'
    BY <1>1, <1>3, <2>1 DEF IInv, GoneInv
  <2>5. QED
    BY <1>4, <1>6, <1>7, <2>2, <2>3, <2>4 DEF Kept
<1>9. CASE HideCommits(m) \/ HideSucceeds(m)
  <2> DEFINE d == [m EXCEPT !.done = TRUE]
  <2>1. /\ pages' = pages /\ gone' = gone
        /\ hides' \subseteq hides \cup {d}
    BY <1>9 DEF HideCommits, HideSucceeds
  <2>2. d \in [what : Hideable, snap : Seq(Page), done : BOOLEAN] /\ d.snap = m.snap
    BY <1>1
  <2> HIDE DEF d
  <2>3. ClientTypeOK'
    BY <1>1, <1>3, <2>1, <2>2 DEF IInv, TypeOK, ClientTypeOK
  <2>4. ListInv'
    <3>1. \A n \in hides' : Listing(n.snap, steady) /\ n.snap # <<>>
      BY <1>1, <2>1, <2>2 DEF IInv, ListInv
    <3>2. QED
      BY <1>2, <1>3, <2>1, <3>1, ListingShrinks DEF IInv, ListInv
  <2>5. GoneInv'
    BY <1>3, <2>1 DEF IInv, GoneInv
  <2>6. QED
    BY <1>4, <1>6, <1>7, <2>3, <2>4, <2>5 DEF Kept
<1>10. QED
  BY <1>8, <1>9

\* A step of the tables alone, or of nothing.
LEMMA TablesChange ==
  ASSUME IInv, Watch, UNCHANGED <<read, cache, slot>>, UNCHANGED clientVars,
         stored' \subseteq Posts, hidden' \subseteq SUBSET Posts
  PROVE  Kept'
<1>1. steady' \subseteq steady /\ fetch' = fetch
  BY WatchFacts DEF IInv, clientVars
<1>2. CacheInv' /\ DOMAIN cache' \subseteq Posts /\ \A c \in DOMAIN cache' : cache'[c] \subseteq Posts
  BY <1>1, CacheShrinks
<1>3. ApiTypeOK'
  BY <1>2 DEF IInv, TypeOK, ApiTypeOK
<1>4. SlotInv'
  <2>1. \A s \in Slots : Sound(slot'[s], steady', read', fetch')
    BY <1>1, SoundStays DEF IInv, SlotInv
  <2>2. QED
    BY <2>1 DEF IInv, SlotInv
<1>5. QED
  BY <1>2, <1>3, <1>4, ClientKept DEF Kept

\* A post that arrives was not steady, and never is.
LEMMA ArriveKeeps ==
  ASSUME IInv, Watch, NEW p \in Arriving, Arrive(p), UNCHANGED clientVars
  PROVE  Kept'
<1>1. stored' \subseteq Posts /\ hidden' \subseteq SUBSET Posts
  BY FeedAssumption DEF Arrive, IInv, TypeOK, ApiTypeOK
<1>2. UNCHANGED <<read, cache, slot>>
  BY DEF Arrive
<1>3. QED
  BY <1>1, <1>2, TablesChange

\* Another device changes what is hidden, or asks for a page of its own.
LEMMA ElsewhereKeeps ==
  ASSUME IInv, Watch, Elsewhere
  PROVE  Kept'
<1>1. UNCHANGED clientVars
  BY DEF Elsewhere
<1>2. CASE \E h \in Toggled : HideOnServer(h) \/ Unhide(h)
  <2>1. PICK h \in Toggled : HideOnServer(h) \/ Unhide(h)
    BY <1>2
  <2>2. stored' \subseteq Posts /\ hidden' \subseteq SUBSET Posts
    BY <2>1, FeedAssumption DEF HideOnServer, Unhide, IInv, TypeOK, ApiTypeOK
  <2>3. UNCHANGED <<read, cache, slot>>
    BY <2>1 DEF HideOnServer, Unhide
  <2>4. QED
    BY <1>1, <2>2, <2>3, TablesChange
<1>3. CASE \E s \in Slots, c \in Peeked : Send(s, Get(c, TRUE, FALSE))
  <2>1. PICK s \in Slots, c \in Peeked : Send(s, Get(c, TRUE, FALSE))
    BY <1>3
  <2>2. c \in 0..Top /\ c # End /\ read \subseteq Posts /\ fetch' = fetch
    <3>1. c \in Posts
      BY FeedAssumption
    <3>2. QED
      BY <1>1, <3>1, CursorFacts DEF IInv, TypeOK, ApiTypeOK, clientVars, Top, End
  <2>3. /\ Get(c, TRUE, FALSE) \in Request /\ Get(c, TRUE, FALSE).heard = FALSE
        /\ Sound(Get(c, TRUE, FALSE), steady, read, fetch')
    BY <2>2, GetIsSound
  <2>4. ApiTypeOK' /\ CacheInv' /\ SlotInv'
    BY <2>1, <2>2, <2>3, SendKeeps
  <2>5. QED
    BY <1>1, <2>4, ClientKept DEF Kept
<1>4. QED
  BY <1>2, <1>3 DEF Elsewhere

\* A batch of read marks is sent.
LEMMA SendReadKeeps ==
  ASSUME IInv, Watch, NEW batch \in SUBSET Noticed, SendRead(batch)
  PROVE  Kept'
<1>1. PICK s \in Slots : Send(s, Mark(batch))
  BY DEF SendRead
<1>2. UNCHANGED clientVars /\ fetch' = fetch
  BY DEF SendRead, clientVars
<1>3. batch \subseteq Posts
  BY ClientAssumption
<1>4. /\ Mark(batch) \in Request /\ ~Mark(batch).heard
      /\ Mark(batch).pc = "commit" /\ Mark(batch).asked = {}
  <2> DEFINE r == [Free EXCEPT !.pc = "commit", !.posts = batch]
  <2>1. batch \in SUBSET Posts
    BY <1>3
  <2>2. r \in Request /\ ~r.heard /\ r.pc = "commit" /\ r.asked = {}
    BY <2>1, FreeIsSound DEF Request, Free
  <2>3. QED
    BY <2>2 DEF Mark
<1>5. Sound(Mark(batch), steady, read, fetch')
  BY <1>4 DEF Sound, Getting
<1>6. ApiTypeOK' /\ CacheInv' /\ SlotInv'
  BY <1>1, <1>2, <1>4, <1>5, SendKeeps
<1>7. QED
  BY <1>2, <1>6, ClientKept DEF Kept

\* A slice that expires leaves the others as they were.
LEMMA ExpireKeeps ==
  ASSUME IInv, NEW c \in Posts, Redis(c)
  PROVE  IInv'
<1>1. /\ UNCHANGED <<stored, hidden, read, slot>> /\ UNCHANGED clientVars
      /\ UNCHANGED <<steady, taps>>
      /\ cache' = [d \in DOMAIN cache \ {c} |-> cache[d]]
  BY DEF Redis, Expire
<1>2. CacheInv' /\ DOMAIN cache' \subseteq Posts /\ \A d \in DOMAIN cache' : cache'[d] \subseteq Posts
  BY <1>1, CacheShrinks
<1>3. TypeOK'
  BY <1>1, <1>2 DEF IInv, TypeOK, ApiTypeOK, ClientTypeOK, clientVars, Unread, Visible
<1>4. SlotInv' /\ ListInv' /\ GoneInv'
  BY <1>1 DEF IInv, SlotInv, ListInv, GoneInv, clientVars
<1>5. QED
  BY <1>2, <1>3, <1>4 DEF IInv

--------------------------------------------------------------------------------

\* A step that is watched and keeps its parts keeps the whole.
LEMMA KeptIsEnough ==
  ASSUME IInv, Watch, Kept', taps' \in 0..MaxTaps
  PROVE  IInv'
<1>1. steady' \subseteq Unread'
  BY WatchFacts DEF IInv
<1>2. QED
  BY <1>1 DEF Kept, IInv, TypeOK

\* Nothing is cached, asked for or shown.
LEMMA InitIInv == Init => IInv
<1> SUFFICES ASSUME Init PROVE IInv
  OBVIOUS
<1>1. /\ hidden = {} /\ read = {} /\ cache = [c \in {} |-> {}] /\ slot = [s \in Slots |-> Free]
      /\ pages = <<>> /\ fetch = NoFetch /\ hides = {} /\ gone = {}
      /\ stored = Posts \ Arriving /\ steady = stored /\ taps = 0
  BY DEF Init, ApiInit, ClientInit
<1>2. DOMAIN cache = {}
  BY <1>1
<1>3. slot \in [Slots -> Request] /\ SlotInv
  BY <1>1, FreeIsSound DEF SlotInv
<1>4. fetch.got = <<>> /\ fetch.kind = "none" /\ fetch \in [kind : {"none", "more", "all"}, got : Seq(Page), left : Nat]
  BY <1>1 DEF NoFetch
<1>5. steady \subseteq Posts /\ steady \subseteq Unread
  BY <1>1 DEF Unread, Visible
<1>6. TypeOK
  <2>1. ApiTypeOK
    BY <1>1, <1>2, <1>3 DEF ApiTypeOK
  <2>2. ClientTypeOK
    BY <1>1, <1>4 DEF ClientTypeOK
  <2>3. QED
    BY <1>1, <1>5, <2>1, <2>2, FeedAssumption DEF TypeOK
<1>7. ListInv
  BY <1>1, <1>4, <1>5, EmptyListing DEF ListInv
<1>8. GoneInv
  BY <1>1, <1>4 DEF GoneInv
<1>9. QED
  BY <1>2, <1>3, <1>6, <1>7, <1>8 DEF IInv, CacheInv

\* One step for each action of the composition.
LEMMA NextIInv == IInv /\ [Next]_vars => IInv'
<1> SUFFICES ASSUME IInv, [Next]_vars PROVE IInv'
  OBVIOUS
<1>1. taps \in 0..MaxTaps /\ MaxTaps \in Nat
  BY FeedAssumption DEF IInv, TypeOK
<1>2. CASE (User \/ Elsewhere) /\ taps < MaxTaps /\ taps' = taps + 1 /\ Watch
  <2>1. taps' \in 0..MaxTaps
    BY <1>1, <1>2
  <2>2. Kept'
    BY <1>2, StartsAreKept, ReopenKeeps, HideKeeps, SendReadKeeps, ElsewhereKeeps DEF User
  <2>3. QED
    BY <1>2, <2>1, <2>2, KeptIsEnough
<1>3. CASE (App \/ Server \/ Ingester) /\ UNCHANGED taps /\ Watch
  <2>1. taps' \in 0..MaxTaps
    BY <1>1, <1>3
  <2>2. CASE App
    <3>1. Kept'
      BY <1>3, <2>2, StartsAreKept, FetchNextPageKeeps, FetchFailsKeeps, FetchStepsAreKept,
         HideEndsAreKept DEF App
    <3>2. QED
      BY <1>3, <2>1, <3>1, KeptIsEnough
  <2>3. CASE Server
    <3>1. PICK s \in Slots : ServerStep(s)
      BY <2>3 DEF Server
    <3>2. UNCHANGED clientVars
      BY <2>3 DEF Server
    <3>3. Kept'
      BY <1>3, <3>1, <3>2, ServerKeeps, ClientKept DEF Kept
    <3>4. QED
      BY <1>3, <2>1, <3>3, KeptIsEnough
  <2>4. CASE Ingester
    <3>1. Kept'
      BY <1>3, <2>4, ArriveKeeps DEF Ingester
    <3>2. QED
      BY <1>3, <2>1, <3>1, KeptIsEnough
  <2>5. QED
    BY <1>3, <2>2, <2>3, <2>4
<1>4. CASE \E c \in Posts : Redis(c)
  BY <1>4, ExpireKeeps
<1>5. CASE UNCHANGED vars
  BY <1>5 DEF vars, apiVars, clientVars, IInv, TypeOK, ApiTypeOK, ClientTypeOK, Unread,
     Visible, CacheInv, SlotInv, ListInv, GoneInv
<1>6. QED
  BY <1>2, <1>3, <1>4, <1>5 DEF Next

\* The inductive invariant.
LEMMA FeedInvariant == Spec => []IInv
BY InitIInv, NextIInv, PTL DEF Spec

\* The tables, the cache, the requests and the mini app's pages keep their
\* types, and a post that has been steady is stored, unread and not hidden.
THEOREM FeedTypes == Spec => []TypeOK
<1>1. IInv => TypeOK
  BY DEF IInv
<1>2. QED
  BY <1>1, FeedInvariant, PTL

\* The pages of the feed, from whatever caches, refetches and snapshots they
\* come, descend: no post is out of order, none is on two of them.
THEOREM PagesDescend == Spec => []FeedDescends
<1>1. IInv => FeedDescends
  BY DEF IInv, ListInv, Listing, FeedDescends
<1>2. QED
  BY <1>1, FeedInvariant, PTL

\* No scroll skips a post that was there to be seen all along.
THEOREM ScrollsAreComplete == Spec => []ScrollIsComplete
<1>1. IInv => ScrollIsComplete
  BY DEF IInv, ListInv, Listing, ScrollIsComplete
<1>2. QED
  BY <1>1, FeedInvariant, PTL

\* The first page is computed from what is read when it is asked for, or later.
THEOREM RefreshesAreCurrent == Spec => []RefreshIsCurrent
<1>1. IInv => RefreshIsCurrent
  BY DEF IInv, SlotInv, Sound, RefreshIsCurrent
<1>2. QED
  BY <1>1, FeedInvariant, PTL

\* Whatever pages are under way, what has been taken off the feed stays off.
THEOREM HiddenPostsStayAway == Spec => []HiddenStaysAway
<1>1. IInv => HiddenStaysAway
  BY DEF IInv, GoneInv, HiddenStaysAway
<1>2. QED
  BY <1>1, FeedInvariant, PTL
================================================================================
