----------------------------- MODULE TextHtml_proofs -----------------------------
(***************************************************************************)
(* Proofs about TextHtml, for texts of any length, characters of one or    *)
(* two UTF-16 units and any list of entities.                              *)
(***************************************************************************)
EXTENDS TextHtml, TLAPS, FiniteSetTheorems, WellFoundedInduction, SequenceTheorems

--------------------------------------------------------------------------------
(* Offsets and characters *)

\* What stands in for induction: a set of numbers has a least one.
LEMMA Least ==
  ASSUME NEW T \in SUBSET Nat, T # {}
  PROVE  \E m \in T : \A k \in T : m \leq k
<1> DEFINE Upto == {0..k : k \in T}
<1>1. \A k \in T : 0..k \in SUBSET Nat /\ IsFiniteSet(0..k)
  <2>1. ASSUME NEW k \in T PROVE 0..k \in SUBSET Nat /\ IsFiniteSet(0..k)
    <3>1. 0 \in Int /\ k \in Int
      OBVIOUS
    <3>2. QED
      BY <3>1, FS_Interval
  <2>2. QED
    BY <2>1
<1>2. Upto \subseteq FiniteSubsetsOf(Nat) /\ Upto # {}
  BY <1>1 DEF FiniteSubsetsOf
<1>3. PICK S \in Upto : \A R \in Upto : <<R, S>> \notin StrictSubsetOrdering(Nat)
  BY <1>2, FS_StrictSubsetOrderingWellFounded, WFMin
<1>4. PICK m \in T : S = 0..m
  OBVIOUS
<1>5. ASSUME NEW k \in T PROVE m \leq k
  <2>1. ~(0..k \subseteq 0..m /\ 0..k # 0..m)
    BY <1>1, <1>3, <1>4 DEF StrictSubsetOrdering
  <2>2. CASE k < m
    <3>1. 0..k \subseteq 0..m /\ m \in 0..m /\ m \notin 0..k
      BY <2>2
    <3>2. QED
      BY <2>1, <3>1
  <2>3. QED
    BY <2>2
<1>6. QED
  BY <1>5

\* A character ends one unit or two behind the one before it.
TextType ==
  /\ text \in Seq(Nat)
  /\ \A c \in 1..Len(text) : StartOf(c) = StartOf(c - 1) + 1 \/ StartOf(c) = StartOf(c - 1) + 2

\* Starts of characters are numbers.
LEMMA StartsAreNumbers ==
  ASSUME TextType
  PROVE  Len(text) \in Nat /\ \A c \in 0..Len(text) : StartOf(c) \in Nat
<1>1. Len(text) \in Nat
  BY DEF TextType
<1>2. \A c \in 1..Len(text) : text[c] \in Nat
  BY DEF TextType
<1>3. QED
  BY <1>1, <1>2 DEF StartOf, StartIn

\* A later character starts further on.
LEMMA StartsAscend ==
  ASSUME TextType
  PROVE  \A d \in 0..Len(text) : \A c \in 0..(d - 1) : StartOf(c) < StartOf(d)
<1> DEFINE T == {d \in 0..Len(text) : \E c \in 0..(d - 1) : ~(StartOf(c) < StartOf(d))}
<1>1. SUFFICES ASSUME T # {} PROVE FALSE
  OBVIOUS
<1>2. Len(text) \in Nat /\ \A c \in 0..Len(text) : StartOf(c) \in Nat
  BY StartsAreNumbers
<1>3. T \in SUBSET Nat
  BY <1>2
<1>4. PICK d \in T : \A k \in T : d \leq k
  BY <1>1, <1>3, Least
<1>5. PICK c \in 0..(d - 1) : ~(StartOf(c) < StartOf(d))
  OBVIOUS
<1>6. d \in 1..Len(text) /\ d - 1 \in 0..Len(text) /\ c \in 0..Len(text)
  BY <1>2, <1>5
<1>7. StartOf(d - 1) < StartOf(d)
  <2>1. StartOf(d) = StartOf(d - 1) + 1 \/ StartOf(d) = StartOf(d - 1) + 2
    BY <1>6 DEF TextType
  <2>2. StartOf(d - 1) \in Nat
    BY <1>2, <1>6
  <2>3. QED
    BY <2>1, <2>2
<1>8. CASE c = d - 1
  BY <1>5, <1>7, <1>8
<1>9. CASE c # d - 1
  <2>1. c \in 0..(d - 1 - 1) /\ ~(StartOf(c) < StartOf(d - 1))
    BY <1>2, <1>5, <1>6, <1>7, <1>9
  <2>2. d - 1 \in T
    BY <1>6, <2>1
  <2>3. QED
    BY <1>4, <1>6, <2>2
<1>10. QED
  BY <1>8, <1>9

\* _utf16_to_char finds the first character that starts at the offset or after.
LEMMA CharAtFacts ==
  ASSUME TextType, NEW offset \in Int
  PROVE  /\ CharAt(offset) \in 0..Len(text)
         /\ \A c \in Chars : StartOf(c) < offset <=> c < CharAt(offset)
<1> DEFINE D == {c \in Chars : StartOf(c) < offset}
<1> DEFINE T == {c \in 0..Len(text) : c \notin D}
<1>1. Len(text) \in Nat /\ \A c \in 0..Len(text) : StartOf(c) \in Nat
  BY StartsAreNumbers
<1>2. T \in SUBSET Nat /\ Len(text) \in T
  BY <1>1 DEF Chars
<1>3. PICK m \in T : \A k \in T : m \leq k
  BY <1>2, Least
<1>4. m \in 0..Len(text) /\ m \in Int
  BY <1>1
<1>5. \A c \in Chars : c \in D <=> c < m
  <2>1. ASSUME NEW c \in Chars, c < m PROVE c \in D
    BY <1>1, <1>3, <2>1 DEF Chars
  <2>2. ASSUME NEW c \in D, ~(c < m) PROVE FALSE
    <3>1. c \in Chars /\ m \in Chars /\ ~(StartOf(m) < offset)
      BY <1>1, <1>4, <2>2 DEF Chars
    <3>2. m = c \/ m \in 0..(c - 1)
      BY <1>4, <2>2, <3>1 DEF Chars
    <3>3. c \in 0..Len(text) /\ m \in 0..Len(text) /\ StartOf(c) < offset
      BY <1>1, <3>1 DEF Chars
    <3>4. StartOf(m) = StartOf(c) \/ StartOf(m) < StartOf(c)
      BY <3>2, <3>3, StartsAscend
    <3>5. QED
      BY <1>1, <3>1, <3>3, <3>4
  <2>3. QED
    BY <2>1, <2>2
<1>6. D = 0..(m - 1)
  BY <1>1, <1>4, <1>5 DEF Chars
<1>7. Cardinality(D) = m
  <2>1. \A a, b \in Int : Cardinality(a..b) = IF a > b THEN 0 ELSE b - a + 1
    BY FS_Interval
  <2>2. Cardinality(0..(m - 1)) = IF 0 > m - 1 THEN 0 ELSE m - 1 - 0 + 1
    BY <1>4, <2>1
  <2>3. (IF 0 > m - 1 THEN 0 ELSE m - 1 - 0 + 1) = m
    BY <1>1, <1>4
  <2>4. Cardinality(D) = Cardinality(0..(m - 1))
    BY <1>6
  <2>5. QED
    BY <2>2, <2>3, <2>4
<1>8. CharAt(offset) = m
  BY <1>7 DEF CharAt
<1>9. QED
  BY <1>4, <1>5, <1>8

\* So the characters an entity was sent for are those from the one its offset
\* becomes to the one its end becomes.
LEMMA MeantIsStretch ==
  ASSUME TextType, NEW offset \in Int, NEW length \in Int
  PROVE  {c \in Chars : offset \leq StartOf(c) /\ StartOf(c) < offset + length}
           = CharAt(offset)..(CharAt(offset + length) - 1)
<1>1. Len(text) \in Nat /\ \A c \in Chars : StartOf(c) \in Int
  BY StartsAreNumbers DEF Chars
<1>2. offset + length \in Int
  OBVIOUS
<1>3. /\ CharAt(offset) \in 0..Len(text)
      /\ \A c \in Chars : StartOf(c) < offset <=> c < CharAt(offset)
  BY CharAtFacts
<1>4. /\ CharAt(offset + length) \in 0..Len(text)
      /\ \A c \in Chars : StartOf(c) < offset + length <=> c < CharAt(offset + length)
  BY <1>2, CharAtFacts
<1>5. \A c \in Chars : c \in Int
  BY <1>1 DEF Chars
<1>6. CharAt(offset)..(CharAt(offset + length) - 1) \subseteq Chars
  BY <1>1, <1>3, <1>4 DEF Chars
<1>7. ASSUME NEW c \in Chars
      PROVE  (offset \leq StartOf(c) /\ StartOf(c) < offset + length)
               <=> c \in CharAt(offset)..(CharAt(offset + length) - 1)
  <2>1. offset \leq StartOf(c) <=> CharAt(offset) \leq c
    BY <1>1, <1>3, <1>5
  <2>2. StartOf(c) < offset + length <=> c \leq CharAt(offset + length) - 1
    BY <1>4, <1>5
  <2>3. QED
    BY <1>3, <1>4, <1>5, <2>1, <2>2
<1>8. QED
  BY <1>6, <1>7

--------------------------------------------------------------------------------
(* The invariant *)

Entry == {"char", "open", "close"} \X Int

\* Types, and what an entity is rendered on: the characters it was sent for.
Typed ==
  /\ TextType
  /\ converted \in Seq([from : Nat, to : Nat])
  /\ meant \in Seq(SUBSET Int) /\ Len(meant) = Len(converted)
  /\ queue \in Seq(DOMAIN converted) /\ stack \in Seq(DOMAIN converted)
  /\ pos \in Int /\ -1 \leq pos /\ pos \leq Len(text)
  /\ out \in Seq(Entry)
  /\ pos = -1 => queue = <<>> /\ stack = <<>> /\ out = <<>>

Rendered ==
  \A i \in DOMAIN converted :
    /\ converted[i].from < converted[i].to /\ converted[i].to \leq Len(text)
    /\ meant[i] = converted[i].from..(converted[i].to - 1)

\* Entities that are still to be opened are in order, and none is late.
QueueInv ==
  /\ \A a, b \in DOMAIN queue : a < b => Before(queue[a], queue[b])
  /\ \A a \in DOMAIN queue : pos \leq converted[queue[a]].from

\* Open ones were opened in that order.
StackInv ==
  /\ \A a, b \in DOMAIN stack : a < b => Before(stack[a], stack[b])
  /\ \A a \in DOMAIN stack, b \in DOMAIN queue : Before(stack[a], queue[b])
  /\ \A a \in DOMAIN stack : converted[stack[a]].from \leq pos

\* An entity is not opened yet, open, or behind.
NoneForgotten ==
  pos >= 0 => \A i \in DOMAIN converted :
                 \/ \E a \in DOMAIN queue : queue[a] = i
                 \/ \E a \in DOMAIN stack : stack[a] = i
                 \/ converted[i].to \leq pos

\* The stack is what was opened and not closed.
StackIsOpen == OpenAt(Len(out) + 1) = {stack[a] : a \in DOMAIN stack}

\* Entities that nest are left in the order they end.
NestedInv ==
  Nested =>
    /\ \A a, b \in DOMAIN stack : a < b => converted[stack[b]].to \leq converted[stack[a]].to
    /\ \A a \in DOMAIN stack : pos \leq converted[stack[a]].to

\* RendersNested before the end.
Exact ==
  Nested =>
    \A k \in DOMAIN out :
      /\ out[k][1] = "char" => OpenAt(k) = {i \in DOMAIN meant : out[k][2] \in meant[i]}
      /\ out[k][1] = "close" =>
           \A i \in OpenAt(k) : meant[out[k][2]] \subseteq meant[i]

Inv ==
  /\ Typed /\ Rendered /\ QueueInv /\ StackInv
  /\ NoneForgotten /\ StackIsOpen /\ NestedInv
  /\ MarksItsText /\ Exact

\* Numbers the arithmetic is done with.
LEMMA Numbers ==
  ASSUME Typed
  PROVE  /\ Len(text) \in Nat /\ Len(out) \in Nat
         /\ DOMAIN out = 1..Len(out) /\ DOMAIN queue = 1..Len(queue)
         /\ DOMAIN stack = 1..Len(stack) /\ DOMAIN meant = DOMAIN converted
         /\ Len(queue) \in Nat /\ Len(stack) \in Nat
         /\ DOMAIN converted \subseteq Int
         /\ \A i \in DOMAIN converted : converted[i].from \in Nat /\ converted[i].to \in Nat
         /\ \A a \in DOMAIN queue : queue[a] \in DOMAIN converted
         /\ \A a \in DOMAIN stack : stack[a] \in DOMAIN converted
<1>1. /\ Len(text) \in Nat /\ Len(out) \in Nat /\ Len(queue) \in Nat /\ Len(stack) \in Nat
      /\ DOMAIN out = 1..Len(out) /\ DOMAIN queue = 1..Len(queue) /\ DOMAIN stack = 1..Len(stack)
  BY DEF Typed, TextType
<1>2. DOMAIN converted = 1..Len(converted) /\ DOMAIN meant = 1..Len(meant)
      /\ Len(converted) \in Nat /\ Len(meant) = Len(converted)
  BY DEF Typed
<1>3. \A i \in DOMAIN converted : converted[i] \in [from : Nat, to : Nat]
  <2>1. converted \in Seq([from : Nat, to : Nat])
    BY DEF Typed
  <2>2. ASSUME NEW T, NEW s \in Seq(T) PROVE \A i \in DOMAIN s : s[i] \in T
    OBVIOUS
  <2>3. QED
    BY <2>1, <2>2
<1>4. \A a \in DOMAIN queue : queue[a] \in DOMAIN converted
  BY DEF Typed
<1>5. \A a \in DOMAIN stack : stack[a] \in DOMAIN converted
  BY DEF Typed
<1>6. QED
  BY <1>1, <1>2, <1>3, <1>4, <1>5

\* What is open at a place that was written earlier stays as it is, and one
\* more entry opens or closes its own entity.
LEMMA OneMore ==
  ASSUME Typed, NEW x \in Entry, out' = Append(out, x), DOMAIN meant' = DOMAIN meant,
         NEW n, n = Len(out)
  PROVE  /\ Len(out') = n + 1
         /\ \A k \in 1..n : out'[k] = out[k]
         /\ out'[n + 1] = x
         /\ \A k \in 1..(n + 1) : OpenAt(k)' = OpenAt(k)
         /\ x[1] = "char" => OpenAt(n + 2)' = OpenAt(n + 1)
         /\ x[1] = "close" => OpenAt(n + 2)' = OpenAt(n + 1) \ {x[2]}
         /\ x[1] = "open" /\ x[2] \in DOMAIN meant
              => OpenAt(n + 2)' = OpenAt(n + 1) \cup {x[2]}
<1>1. /\ Len(out') = n + 1 /\ n \in Nat
      /\ \A k \in 1..n : out'[k] = out[k]
      /\ out'[n + 1] = x
  BY AppendProperties DEF Typed
<1>2. \A k \in 1..(n + 1) : OpenAt(k)' = OpenAt(k)
  <2>1. ASSUME NEW k \in 1..(n + 1) PROVE OpenAt(k)' = OpenAt(k)
    <3>1. \A j \in 1..(k - 1) : j \in 1..n /\ out'[j] = out[j]
      BY <1>1
    <3>2. \A j \in 1..(k - 1) : \A l \in j..(k - 1) : l \in 1..(k - 1)
      BY <1>1
    <3>3. ASSUME NEW i \in DOMAIN meant, NEW j \in 1..(k - 1)
          PROVE  (out'[j] = <<"open", i>> /\ \A l \in j..(k - 1) : out'[l] # <<"close", i>>)
                   <=> (out[j] = <<"open", i>> /\ \A l \in j..(k - 1) : out[l] # <<"close", i>>)
      BY <3>1, <3>2
    <3>4. QED
      BY <3>3 DEF OpenAt
  <2>2. QED
    BY <2>1
<1>3. n + 2 - 1 = n + 1 /\ n + 1 - 1 = n
  BY <1>1
<1>4. ASSUME NEW i \in DOMAIN meant, x # <<"open", i>>, x # <<"close", i>>
      PROVE  i \in OpenAt(n + 2)' <=> i \in OpenAt(n + 1)
  <2>1. \A j \in 1..(n + 1) : j \in 1..n \/ j = n + 1
    BY <1>1
  <2>2. \A j \in 1..n : j \in 1..(n + 1)
    BY <1>1
  <2>3. ASSUME NEW j \in 1..n
        PROVE  (\A l \in j..(n + 1) : out'[l] # <<"close", i>>)
                 <=> (\A l \in j..n : out[l] # <<"close", i>>)
    <3>1. \A l \in j..(n + 1) : l \in j..n \/ l = n + 1
      BY <1>1
    <3>2. \A l \in j..n : l \in j..(n + 1) /\ l \in 1..n
      BY <1>1
    <3>3. QED
      BY <1>1, <1>4, <3>1, <3>2
  <2>4. i \in OpenAt(n + 2)' <=>
          \E j \in 1..(n + 1) : out'[j] = <<"open", i>> /\ \A l \in j..(n + 1) : out'[l] # <<"close", i>>
    <3>1. ASSUME NEW k, k = n + 2
          PROVE  i \in OpenAt(k)' <=>
            \E j \in 1..(n + 1) : out'[j] = <<"open", i>> /\ \A l \in j..(n + 1) : out'[l] # <<"close", i>>
      <4>1. k - 1 = (n + 1)
        BY <1>3, <3>1
      <4>2. QED
        BY <4>1 DEF OpenAt
    <3>2. QED
      BY <3>1
  <2>5. i \in OpenAt(n + 1) <=>
          \E j \in 1..n : out[j] = <<"open", i>> /\ \A l \in j..n : out[l] # <<"close", i>>
    <3>1. ASSUME NEW k, k = n + 1
          PROVE  i \in OpenAt(k) <=>
            \E j \in 1..n : out[j] = <<"open", i>> /\ \A l \in j..n : out[l] # <<"close", i>>
      <4>1. k - 1 = n
        BY <1>3, <3>1
      <4>2. QED
        BY <4>1 DEF OpenAt
    <3>2. QED
      BY <3>1
  <2>6. ASSUME NEW j \in 1..n
        PROVE  (out'[j] = <<"open", i>> /\ \A l \in j..(n + 1) : out'[l] # <<"close", i>>)
                 <=> (out[j] = <<"open", i>> /\ \A l \in j..n : out[l] # <<"close", i>>)
    BY <1>1, <2>3
  <2>7. out'[n + 1] # <<"open", i>>
    BY <1>1, <1>4
  <2>8. QED
    BY <2>1, <2>2, <2>4, <2>5, <2>6, <2>7
<1>5. ASSUME NEW i \in DOMAIN meant, x = <<"open", i>> PROVE i \in OpenAt(n + 2)'
  <2>1. n + 1 \in 1..(n + 1) /\ \A l \in (n + 1)..(n + 1) : l = n + 1
    BY <1>1
  <2>2. out'[n + 1] = <<"open", i>> /\ <<"open", i>> # <<"close", i>>
    BY <1>1, <1>5
  <2>3. QED
    BY <1>3, <2>1, <2>2 DEF OpenAt
<1>6. ASSUME NEW i \in DOMAIN meant, x = <<"close", i>> PROVE i \notin OpenAt(n + 2)'
  <2>1. \A j \in 1..(n + 1) : n + 1 \in j..(n + 1)
    BY <1>1
  <2>2. out'[n + 1] = <<"close", i>>
    BY <1>1, <1>6
  <2>3. QED
    BY <1>3, <2>1, <2>2 DEF OpenAt
<1>7. x = <<x[1], x[2]>> /\ x[1] \in {"char", "open", "close"}
  BY DEF Entry
<1>8. \A k \in {n + 1} : OpenAt(k) \subseteq DOMAIN meant
  BY DEF OpenAt
<1>9. OpenAt(n + 2)' \subseteq DOMAIN meant
  BY DEF OpenAt
<1>10. ASSUME x[1] = "char" PROVE OpenAt(n + 2)' = OpenAt(n + 1)
  <2>1. \A i : x # <<"open", i>> /\ x # <<"close", i>>
    BY <1>10
  <2>2. QED
    BY <1>4, <1>8, <1>9, <2>1
<1>11. ASSUME x[1] = "close" PROVE OpenAt(n + 2)' = OpenAt(n + 1) \ {x[2]}
  <2>1. \A i : x # <<"open", i>> /\ (x = <<"close", i>> <=> i = x[2])
    BY <1>7, <1>11
  <2>2. QED
    BY <1>4, <1>6, <1>8, <1>9, <2>1
<1>12. ASSUME x[1] = "open", x[2] \in DOMAIN meant
       PROVE  OpenAt(n + 2)' = OpenAt(n + 1) \cup {x[2]}
  <2>1. \A i : x # <<"close", i>> /\ (x = <<"open", i>> <=> i = x[2])
    BY <1>7, <1>12
  <2>2. QED
    BY <1>4, <1>5, <1>8, <1>9, <1>12, <2>1
<1>13. QED
  BY <1>1, <1>2, <1>10, <1>11, <1>12

--------------------------------------------------------------------------------
(* Each step *)

\* Nothing is written at first.
LEMMA InitInv == Init => Inv
<1> SUFFICES ASSUME Init PROVE Inv
  OBVIOUS
<1>1. text \in Texts /\ converted = <<>> /\ meant = <<>> /\ queue = <<>> /\ stack = <<>>
      /\ pos = -1 /\ out = <<>>
  BY DEF Init
<1>2. TextType /\ Len(text) \in Nat
  <2>1. PICK n \in 0..MaxChars : text \in [1..n -> 1..MaxUnits]
    BY <1>1 DEF Texts
  <2>2. text \in Seq(Nat) /\ n \in Nat /\ Len(text) = n
    BY <2>1, TextAssumption DEF MaxUnits
  <2>3. ASSUME NEW c \in 1..Len(text)
        PROVE  StartOf(c) = StartOf(c - 1) + 1 \/ StartOf(c) = StartOf(c - 1) + 2
    <3>1. text[c] - StartIn(text, c - 1) \in {1, 2}
      BY <1>1, <2>3 DEF Texts
    <3>2. StartOf(c) = text[c] /\ text[c] \in Nat
      BY <2>2, <2>3 DEF StartOf, StartIn
    <3>3. StartIn(text, c - 1) \in Nat
      BY <2>2, <2>3 DEF StartIn
    <3>4. QED
      BY <3>1, <3>2, <3>3 DEF StartOf
  <2>4. QED
    BY <2>2, <2>3 DEF TextType
<1>3. Typed
  BY <1>1, <1>2 DEF Typed
<1>4. OpenAt(Len(out) + 1) = {}
  BY <1>1 DEF OpenAt
<1>5. QED
  BY <1>1, <1>3, <1>4
  DEF Inv, Rendered, QueueInv, StackInv, NoneForgotten, StackIsOpen, NestedInv, MarksItsText, Exact

\* Rendered and TextType are about the message alone.
LEMMA SameMessage ==
  ASSUME Inv, UNCHANGED <<text, converted, meant>>
  PROVE  /\ TextType' /\ Rendered' /\ Nested' = Nested
         /\ \A i, j : Before(i, j)' = Before(i, j)
<1>1. \A c : StartOf(c)' = StartOf(c)
  BY DEF StartOf, StartIn
<1>2. TextType'
  BY <1>1 DEF Inv, Typed, TextType
<1>3. Rendered'
  BY DEF Inv, Rendered
<1>4. Nested' = Nested
  BY DEF Nested
<1>5. \A i, j : Before(i, j)' = Before(i, j)
  BY DEF Before
<1>6. QED
  BY <1>2, <1>3, <1>4, <1>5

\* An entity more: it is rendered on the characters it was sent for.
LEMMA ConvertKeeps ==
  ASSUME Inv, NEW offset \in 0..MaxUnits, NEW length \in 0..MaxUnits,
         NEW kind, NEW target, Convert(offset, length, kind, target)
  PROVE  Inv'
<1> DEFINE from == CharAt(offset)
<1> DEFINE to == CharAt(offset + length)
<1> DEFINE e == [from |-> from, to |-> to]
<1> DEFINE cs == {c \in Chars : offset \leq StartOf(c) /\ StartOf(c) < offset + length}
<1>1. /\ pos = -1 /\ from < to
      /\ converted' = Append(converted, e)
      /\ meant' = Append(meant, cs)
      /\ UNCHANGED <<text, queue, stack, pos, out>>
  BY DEF Convert
<1>2. Typed /\ queue = <<>> /\ stack = <<>> /\ out = <<>>
  BY <1>1 DEF Inv, Typed
<1>3. TextType /\ offset \in Int /\ length \in Int /\ offset + length \in Int /\ Len(text) \in Nat
  BY <1>2, TextAssumption DEF MaxUnits, Typed, TextType
<1>4. from \in Nat /\ to \in Nat /\ to \leq Len(text)
  BY <1>3, CharAtFacts
<1>5. cs = from..(to - 1) /\ cs \in SUBSET Int
  <2>1. cs = from..(to - 1)
    BY <1>3, MeantIsStretch
  <2>2. from..(to - 1) \subseteq Int
    BY <1>4
  <2>3. QED
    BY <2>1, <2>2
<1>6. /\ converted' \in Seq([from : Nat, to : Nat]) /\ Len(converted') = Len(converted) + 1
      /\ \A i \in 1..Len(converted) : converted'[i] = converted[i]
      /\ converted'[Len(converted) + 1] = e
  <2>1. converted \in Seq([from : Nat, to : Nat]) /\ e \in [from : Nat, to : Nat]
    BY <1>2, <1>4 DEF Typed
  <2>2. QED
    BY <1>1, <2>1, AppendProperties
<1>7. /\ meant' \in Seq(SUBSET Int) /\ Len(meant') = Len(meant) + 1
      /\ \A i \in 1..Len(meant) : meant'[i] = meant[i]
      /\ meant'[Len(meant) + 1] = cs
  <2>1. meant \in Seq(SUBSET Int)
    BY <1>2 DEF Typed
  <2>2. QED
    BY <1>1, <1>5, <2>1, AppendProperties
<1>8. TextType'
  <2>1. \A c : StartOf(c)' = StartOf(c)
    BY <1>1 DEF StartOf, StartIn
  <2>2. QED
    BY <1>1, <1>3, <2>1 DEF TextType
<1>9. Typed'
  <2>1. pos' = -1 /\ queue' = <<>> /\ stack' = <<>> /\ out' = <<>> /\ Len(meant') = Len(converted')
        /\ pos' \leq Len(text')
    BY <1>1, <1>2, <1>3, <1>6, <1>7 DEF Typed
  <2>2. queue' \in Seq(DOMAIN converted') /\ stack' \in Seq(DOMAIN converted') /\ out' \in Seq(Entry)
    BY <2>1
  <2>3. QED
    BY <1>6, <1>7, <1>8, <2>1, <2>2 DEF Typed
<1>10. Rendered'
  <2>1. DOMAIN converted' = 1..(Len(converted) + 1) /\ DOMAIN converted = 1..Len(converted)
        /\ Len(converted) \in Nat /\ Len(meant) = Len(converted)
    BY <1>2, <1>6 DEF Typed
  <2>2. \A i \in DOMAIN converted' : i \in DOMAIN converted \/ i = Len(converted) + 1
    BY <2>1
  <2>3. e.from = from /\ e.to = to
    OBVIOUS
  <2>4. QED
    BY <1>1, <1>4, <1>5, <1>6, <1>7, <2>1, <2>2, <2>3 DEF Inv, Rendered
<1>11. OpenAt(Len(out) + 1)' = {}
  <2>1. Len(out') = 0
    BY <1>1, <1>2
  <2>2. QED
    BY <2>1 DEF OpenAt
<1>12. QED
  BY <1>1, <1>2, <1>9, <1>10, <1>11
  DEF Inv, QueueInv, StackInv, NoneForgotten, StackIsOpen, NestedInv, MarksItsText, Exact

\* The sort misses no entity: an injection of 1..n into itself is onto.
LEMMA SortedTakesAll ==
  ASSUME Typed, NEW q \in Sorted
  PROVE  /\ q \in Seq(DOMAIN converted) /\ DOMAIN q = DOMAIN converted
         /\ \A i \in DOMAIN converted : \E a \in DOMAIN q : q[a] = i
<1> DEFINE n == Len(converted)
<1>1. n \in Nat /\ DOMAIN converted = 1..n
  BY DEF Typed
<1>2. q \in [1..n -> 1..n] /\ \A a, b \in 1..n : a < b => Before(q[a], q[b])
  BY <1>1 DEF Sorted
<1>3. \A i \in DOMAIN converted : converted[i].from \in Int /\ converted[i].to \in Int
  BY Numbers
<1>4. \A i \in DOMAIN converted : ~Before(i, i)
  BY <1>1, <1>3 DEF Before
<1>5. \A a, b \in 1..n : q[a] = q[b] => a = b
  <2>1. ASSUME NEW a \in 1..n, NEW b \in 1..n, q[a] = q[b], a # b PROVE FALSE
    <3>1. a < b \/ b < a
      BY <1>1, <2>1
    <3>2. q[a] \in DOMAIN converted
      BY <1>1, <1>2
    <3>3. QED
      BY <1>2, <1>4, <2>1, <3>1, <3>2
  <2>2. QED
    BY <2>1
<1>6. q \in Injection(1..n, 1..n)
  BY <1>2, <1>5 DEF Injection, IsInjective
<1>7. IsFiniteSet(1..n)
  BY <1>1, FS_Interval
<1>8. q \in Surjection(1..n, 1..n)
  BY <1>6, <1>7, FS_Injection
<1>9. q \in Seq(1..n) /\ DOMAIN q = 1..n
  BY <1>1, <1>2
<1>10. \A i \in 1..n : \E a \in 1..n : q[a] = i
  BY <1>8 DEF Surjection
<1>11. QED
  BY <1>1, <1>9, <1>10

\* All entities are queued, in order.
LEMMA StartKeeps ==
  ASSUME Inv, Start
  PROVE  Inv'
<1>1. /\ pos = -1 /\ queue' \in Sorted /\ pos' = 0
      /\ UNCHANGED <<text, converted, meant, stack, out>>
  BY DEF Start
<1>2. Typed /\ stack = <<>> /\ out = <<>>
  BY <1>1 DEF Inv, Typed
<1>3. /\ queue' \in Seq(DOMAIN converted) /\ DOMAIN queue' = DOMAIN converted
      /\ \A i \in DOMAIN converted : \E a \in DOMAIN queue' : queue'[a] = i
  BY <1>1, <1>2, SortedTakesAll
<1>4. TextType' /\ Rendered' /\ \A i, j : Before(i, j)' = Before(i, j)
  BY <1>1, SameMessage
<1>5. Typed'
  <2>1. Len(text) \in Nat
    BY <1>2, Numbers
  <2>2. pos' \in Int /\ -1 \leq pos' /\ pos' \leq Len(text') /\ pos' # -1
    BY <1>1, <2>1
  <2>3. QED
    BY <1>1, <1>2, <1>3, <1>4, <2>2 DEF Typed
<1>6. QueueInv'
  <2>1. \A a, b \in DOMAIN queue' : a < b => Before(queue'[a], queue'[b])
    BY <1>1 DEF Sorted
  <2>2. \A i \in DOMAIN converted : 0 \leq converted[i].from
    <3>1. \A i \in DOMAIN converted : converted[i].from \in Nat
      BY <1>2, Numbers
    <3>2. QED
      BY <3>1
  <2>3. \A a \in DOMAIN queue' : queue'[a] \in DOMAIN converted
    BY <1>3
  <2>4. QED
    BY <1>1, <1>4, <2>1, <2>2, <2>3 DEF QueueInv
<1>7. OpenAt(Len(out) + 1)' = OpenAt(Len(out) + 1)
  BY <1>1 DEF OpenAt
<1>8. QED
  BY <1>1, <1>2, <1>3, <1>4, <1>5, <1>6, <1>7
  DEF Inv, StackInv, NoneForgotten, StackIsOpen, NestedInv, MarksItsText, Exact

\* The text alone.
LEMMA PlainKeeps ==
  ASSUME Inv, Plain
  PROVE  Inv'
<1>1. /\ pos = -1 /\ converted = <<>>
      /\ out' = [k \in 1..Len(text) |-> <<"char", k - 1>>]
      /\ pos' = Len(text)
      /\ UNCHANGED <<text, converted, meant, queue, stack>>
  BY DEF Plain
<1>2. Typed /\ queue = <<>> /\ stack = <<>> /\ Len(text) \in Nat /\ DOMAIN meant = {}
  <2>1. Typed /\ queue = <<>> /\ stack = <<>> /\ DOMAIN converted = {}
    BY <1>1 DEF Inv, Typed
  <2>2. QED
    BY <2>1, Numbers
<1>3. TextType' /\ Rendered'
  BY <1>1, SameMessage
<1>4. Typed'
  <2>1. \A k \in 1..Len(text) : <<"char", k - 1>> \in Entry
    BY <1>2 DEF Entry
  <2>2. out' \in Seq(Entry)
    BY <1>1, <1>2, <2>1
  <2>3. pos' \in Int /\ -1 \leq pos' /\ pos' \leq Len(text') /\ pos' # -1
    BY <1>1, <1>2
  <2>4. QED
    BY <1>1, <1>2, <1>3, <2>2, <2>3 DEF Typed
<1>5. \A k : OpenAt(k)' = {}
  BY <1>1, <1>2 DEF OpenAt
<1>6. \A k \in DOMAIN out' : out'[k][1] = "char"
  BY <1>1
<1>7. QED
  BY <1>1, <1>2, <1>3, <1>4, <1>5, <1>6
  DEF Inv, QueueInv, StackInv, NoneForgotten, StackIsOpen, NestedInv, MarksItsText, Exact

\* The top of the stack is closed: whatever else is open encloses it.
LEMMA CloseKeeps ==
  ASSUME Inv, Close
  PROVE  Inv'
<1>01. PICK n, m : n = Len(out) /\ m = Len(stack)
  OBVIOUS
<1>02. PICK i, x : i = stack[m] /\ x = <<"close", i>>
  OBVIOUS
<1>1. /\ stack # <<>> /\ converted[Last(stack)].to = pos
      /\ out' = Append(out, <<"close", Last(stack)>>)
      /\ stack' = Front(stack)
      /\ UNCHANGED <<text, converted, meant, queue, pos>>
  BY DEF Close, Closing
<1>2. Typed /\ n \in Nat /\ m \in Nat /\ m \geq 1 /\ m \in DOMAIN stack /\ DOMAIN stack = 1..m
  <2>1. Typed /\ n \in Nat /\ m \in Nat /\ DOMAIN stack = 1..m
    BY <1>01, Numbers DEF Inv
  <2>2. m # 0
    BY <1>1, <1>01, <2>1 DEF Typed
  <2>3. QED
    BY <2>1, <2>2
<1>3. /\ Last(stack) = i /\ i \in DOMAIN converted /\ i \in Int
      /\ converted[i].to = pos /\ out' = Append(out, x) /\ pos \in Nat
      /\ converted[i].from \in Nat
  <2>1. Last(stack) = i /\ i \in DOMAIN converted /\ i \in Int /\ converted[i].to \in Nat
        /\ converted[i].from \in Nat
    BY <1>2, <1>01, <1>02, Numbers DEF Last
  <2>2. QED
    BY <1>1, <1>02, <2>1
<1>4. /\ stack' \in Seq(DOMAIN converted) /\ DOMAIN stack' = 1..(m - 1)
      /\ \A a \in 1..(m - 1) : stack'[a] = stack[a]
  <2>1. stack \in Seq(DOMAIN converted)
    BY <1>2 DEF Typed
  <2>2. stack' = SubSeq(stack, 1, m - 1)
    BY <1>1, <1>01 DEF Front
  <2>3. QED
    BY <1>2, <2>1, <2>2
<1>5. TextType' /\ Rendered' /\ Nested' = Nested /\ \A j, k : Before(j, k)' = Before(j, k)
  BY <1>1, SameMessage
<1>6. x \in Entry /\ x[1] = "close" /\ x[2] = i
  BY <1>3, <1>02 DEF Entry
<1>7. /\ Len(out') = n + 1
      /\ \A k \in 1..n : out'[k] = out[k]
      /\ out'[n + 1] = x
      /\ \A k \in 1..(n + 1) : OpenAt(k)' = OpenAt(k)
      /\ OpenAt(n + 2)' = OpenAt(n + 1) \ {i}
  <2>1. DOMAIN meant' = DOMAIN meant
    BY <1>1
  <2>2. QED
    BY <1>2, <1>3, <1>6, <1>01, <2>1, OneMore
<1>8. out' \in Seq(Entry) /\ DOMAIN out' = 1..(n + 1)
  <2>1. out \in Seq(Entry)
    BY <1>2 DEF Typed
  <2>2. out' \in Seq(Entry)
    BY <1>3, <1>6, <2>1, AppendProperties
  <2>3. QED
    BY <1>7, <2>2
<1>9. Typed'
  BY <1>1, <1>2, <1>3, <1>4, <1>5, <1>8 DEF Typed
<1>10. \A a \in 1..(m - 1) : a \in DOMAIN stack /\ a < m /\ a # m
  BY <1>2
<1>11. QueueInv' /\ StackInv'
  BY <1>1, <1>4, <1>5, <1>10 DEF Inv, QueueInv, StackInv
<1>12. NoneForgotten'
  <2>1. ASSUME NEW j \in DOMAIN converted, NEW a \in DOMAIN stack, stack[a] = j
        PROVE  (\E b \in DOMAIN stack' : stack'[b] = j) \/ converted[j].to \leq pos
    <3>1. CASE a = m
      BY <1>3, <1>02, <2>1, <3>1
    <3>2. CASE a # m
      <4>1. a \in 1..(m - 1)
        BY <1>2, <2>1, <3>2
      <4>2. QED
        BY <1>4, <2>1, <4>1
    <3>3. QED
      BY <3>1, <3>2
  <2>2. QED
    BY <1>1, <1>3, <2>1 DEF Inv, NoneForgotten
<1>13. StackIsOpen'
  <2>1. \A a \in 1..(m - 1) : stack[a] # i
    <3>1. \A a \in 1..(m - 1) : Before(stack[a], i)
      BY <1>2, <1>10, <1>02 DEF Inv, StackInv
    <3>2. ~Before(i, i)
      <4>1. converted[i].from \in Int /\ converted[i].to \in Int /\ i \in Int
        BY <1>2, <1>3, Numbers
      <4>2. QED
        BY <4>1 DEF Before
    <3>3. QED
      BY <3>1, <3>2
  <2>2. OpenAt(n + 1) = {stack[a] : a \in 1..m}
    BY <1>2, <1>01 DEF Inv, StackIsOpen
  <2>3. OpenAt(n + 1) \ {i} = {stack'[a] : a \in 1..(m - 1)}
    <3>1. \A a \in 1..m : a \in 1..(m - 1) \/ a = m
      BY <1>2
    <3>2. \A a \in 1..(m - 1) : a \in 1..m
      BY <1>2
    <3>3. QED
      BY <1>4, <1>02, <2>1, <2>2, <3>1, <3>2
  <2>4. Len(out') + 1 = n + 2
    BY <1>2, <1>7
  <2>5. OpenAt(n + 2)' = {stack'[a] : a \in DOMAIN stack'}
    BY <1>4, <1>7, <2>3
  <2>6. QED
    BY <2>4, <2>5 DEF StackIsOpen
<1>14. NestedInv'
  <2>1. \A a, b \in DOMAIN stack' : a \in DOMAIN stack /\ b \in DOMAIN stack
                                    /\ stack'[a] = stack[a] /\ stack'[b] = stack[b]
    BY <1>4, <1>10
  <2>2. QED
    BY <1>1, <1>5, <2>1 DEF Inv, NestedInv
<1>15. \A k \in DOMAIN out' : k \in DOMAIN out \/ k = n + 1
  BY <1>2, <1>8, <1>01, Numbers
<1>16. \A k \in DOMAIN out : k \in 1..n /\ k \in 1..(n + 1)
  BY <1>2, <1>01, Numbers
<1>17. MarksItsText'
  <2>1. x[1] # "char"
    BY <1>6
  <2>2. QED
    BY <1>1, <1>7, <1>15, <1>16, <2>1 DEF Inv, MarksItsText
<1>18. Exact'
  <2>1. ASSUME Nested, NEW j \in OpenAt(n + 1) PROVE meant[i] \subseteq meant[j]
    <3>1. PICK a \in DOMAIN stack : stack[a] = j
      BY <1>01, <2>1 DEF Inv, StackIsOpen
    <3>2. j \in DOMAIN converted /\ converted[j].from \in Int /\ converted[j].to \in Int
          /\ converted[i].from \in Int /\ converted[i].to \in Int
      BY <1>2, <1>3, <3>1, Numbers
    <3>3. CASE a = m
      BY <1>02, <3>1, <3>3
    <3>4. CASE a # m
      <4>1. a < m
        BY <1>2, <3>4
      <4>2. converted[j].from \leq converted[i].from
        <5>1. Before(j, i)
          BY <1>2, <1>02, <3>1, <4>1 DEF Inv, StackInv
        <5>2. QED
          BY <3>2, <5>1 DEF Before
      <4>3. converted[i].to \leq converted[j].to
        BY <1>2, <1>02, <2>1, <3>1, <4>1 DEF Inv, NestedInv
      <4>4. meant[i] = converted[i].from..(converted[i].to - 1)
            /\ meant[j] = converted[j].from..(converted[j].to - 1)
        BY <1>3, <3>2 DEF Inv, Rendered
      <4>5. QED
        BY <3>2, <4>2, <4>3, <4>4
    <3>5. QED
      BY <3>3, <3>4
  <2>2. x[1] = "close" /\ x[2] = i /\ n + 1 \in 1..(n + 1)
    BY <1>2, <1>6
  <2>3. ASSUME Nested, NEW k \in DOMAIN out'
        PROVE  /\ out'[k][1] = "char" => OpenAt(k)' = {j \in DOMAIN meant' : out'[k][2] \in meant'[j]}
               /\ out'[k][1] = "close" =>
                    \A j \in OpenAt(k)' : meant'[out'[k][2]] \subseteq meant'[j]
    <3>1. CASE k \in DOMAIN out
      <4>1. out'[k] = out[k] /\ OpenAt(k)' = OpenAt(k) /\ meant' = meant
        BY <1>1, <1>7, <1>16, <3>1
      <4>2. QED
        BY <2>3, <3>1, <4>1 DEF Inv, Exact
    <3>2. CASE k = n + 1
      <4>1. out'[k] = x /\ OpenAt(k)' = OpenAt(n + 1) /\ meant' = meant
        BY <1>1, <1>7, <2>2, <3>2
      <4>2. QED
        BY <2>1, <2>2, <2>3, <4>1
    <3>3. QED
      BY <1>15, <3>1, <3>2
  <2>4. QED
    BY <1>5, <2>3 DEF Exact
<1>19. QED
  BY <1>5, <1>9, <1>11, <1>12, <1>13, <1>14, <1>17, <1>18 DEF Inv

\* The next entity is opened: it starts here, and what is open has not ended.
LEMMA OpenKeeps ==
  ASSUME Inv, Open
  PROVE  Inv'
<1>1. PICK n, m, i, x : /\ n = Len(out) /\ m = Len(stack)
                        /\ i = Head(queue) /\ x = <<"open", i>>
  OBVIOUS
<1>2. /\ ~Closing /\ queue # <<>> /\ converted[i].from = pos
      /\ out' = Append(out, x)
      /\ stack' = Append(stack, i)
      /\ queue' = Tail(queue)
      /\ UNCHANGED <<text, converted, meant, pos>>
  BY <1>1 DEF Open, Opening
<1>3. Typed /\ n \in Nat /\ m \in Nat /\ DOMAIN stack = 1..m /\ DOMAIN queue = 1..Len(queue)
      /\ Len(queue) \in Nat
  BY <1>1, Numbers DEF Inv
<1>4. 1 \in DOMAIN queue /\ queue[1] = i /\ i \in DOMAIN converted /\ i \in Int
  <2>1. queue \in Seq(DOMAIN converted)
    BY <1>3 DEF Typed
  <2>2. Len(queue) # 0 /\ queue[1] = i
    BY <1>1, <1>2, <2>1
  <2>3. QED
    BY <1>3, <2>2, Numbers
<1>5. converted[i].from \in Nat /\ converted[i].to \in Nat /\ pos \in Nat /\ pos < converted[i].to
  <2>1. converted[i].from \in Nat /\ converted[i].to \in Nat /\ converted[i].from < converted[i].to
    BY <1>3, <1>4, Numbers DEF Inv, Rendered
  <2>2. QED
    BY <1>2, <2>1
<1>6. /\ stack' \in Seq(DOMAIN converted) /\ DOMAIN stack' = 1..(m + 1)
      /\ \A a \in 1..m : stack'[a] = stack[a]
      /\ stack'[m + 1] = i
  <2>1. stack \in Seq(DOMAIN converted)
    BY <1>3 DEF Typed
  <2>2. QED
    BY <1>1, <1>2, <1>4, <2>1, AppendProperties
<1>7. /\ queue' \in Seq(DOMAIN converted) /\ DOMAIN queue' = 1..(Len(queue) - 1)
      /\ \A a \in 1..(Len(queue) - 1) : queue'[a] = queue[a + 1]
  <2>1. queue \in Seq(DOMAIN converted)
    BY <1>3 DEF Typed
  <2>2. queue' \in Seq(DOMAIN converted) /\ Len(queue') = Len(queue) - 1
        /\ \A a \in 1..Len(queue') : queue'[a] = queue[a + 1]
    BY <1>2, <2>1, HeadTailProperties
  <2>3. QED
    BY <2>2
<1>8. TextType' /\ Rendered' /\ Nested' = Nested /\ \A j, k : Before(j, k)' = Before(j, k)
  BY <1>2, SameMessage
<1>9. x \in Entry /\ x[1] = "open" /\ x[2] = i /\ i \in DOMAIN meant
  BY <1>1, <1>3, <1>4, Numbers DEF Entry
<1>10. /\ Len(out') = n + 1
       /\ \A k \in 1..n : out'[k] = out[k]
       /\ out'[n + 1] = x
       /\ \A k \in 1..(n + 1) : OpenAt(k)' = OpenAt(k)
       /\ OpenAt(n + 2)' = OpenAt(n + 1) \cup {i}
  <2>1. DOMAIN meant' = DOMAIN meant
    BY <1>2
  <2>2. QED
    BY <1>1, <1>2, <1>3, <1>9, <2>1, OneMore
<1>11. out' \in Seq(Entry) /\ DOMAIN out' = 1..(n + 1)
  <2>1. out \in Seq(Entry)
    BY <1>3 DEF Typed
  <2>2. out' \in Seq(Entry)
    BY <1>2, <1>9, <2>1, AppendProperties
  <2>3. QED
    BY <1>10, <2>2
<1>12. Typed'
  BY <1>2, <1>3, <1>5, <1>6, <1>7, <1>8, <1>11 DEF Typed
<1>13. \A a \in DOMAIN queue' : a + 1 \in DOMAIN queue /\ queue'[a] = queue[a + 1] /\ 1 < a + 1
  BY <1>3, <1>7
<1>14. \A a \in DOMAIN stack' : (a \in DOMAIN stack /\ stack'[a] = stack[a]) \/ (a = m + 1 /\ stack'[a] = i)
  BY <1>3, <1>6
<1>15. QueueInv'
  <2>1. ASSUME NEW a \in DOMAIN queue', NEW b \in DOMAIN queue', a < b
        PROVE  Before(queue'[a], queue'[b])
    <3>1. a + 1 < b + 1
      BY <1>7, <2>1
    <3>2. QED
      BY <1>13, <2>1, <3>1 DEF Inv, QueueInv
  <2>2. QED
    BY <1>2, <1>8, <1>13, <2>1 DEF Inv, QueueInv
<1>16. StackInv'
  <2>1. ASSUME NEW a \in DOMAIN stack', NEW b \in DOMAIN stack', a < b
        PROVE  Before(stack'[a], stack'[b])
    <3>1. a \in DOMAIN stack /\ stack'[a] = stack[a]
      BY <1>3, <1>6, <2>1
    <3>2. CASE b \in DOMAIN stack /\ stack'[b] = stack[b]
      BY <2>1, <3>1, <3>2 DEF Inv, StackInv
    <3>3. CASE stack'[b] = i
      BY <1>4, <3>1, <3>3 DEF Inv, StackInv
    <3>4. QED
      BY <1>14, <3>2, <3>3
  <2>2. ASSUME NEW a \in DOMAIN stack', NEW b \in DOMAIN queue'
        PROVE  Before(stack'[a], queue'[b])
    <3>1. b + 1 \in DOMAIN queue /\ queue'[b] = queue[b + 1] /\ 1 < b + 1
      BY <1>13
    <3>2. CASE a \in DOMAIN stack /\ stack'[a] = stack[a]
      BY <3>1, <3>2 DEF Inv, StackInv
    <3>3. CASE stack'[a] = i
      BY <1>4, <3>1, <3>3 DEF Inv, QueueInv
    <3>4. QED
      BY <1>14, <3>2, <3>3
  <2>3. ASSUME NEW a \in DOMAIN stack' PROVE converted[stack'[a]].from \leq pos
    <3>1. CASE a \in DOMAIN stack /\ stack'[a] = stack[a]
      BY <3>1 DEF Inv, StackInv
    <3>2. CASE stack'[a] = i
      BY <1>2, <1>5, <3>2
    <3>3. QED
      BY <1>14, <3>1, <3>2
  <2>4. QED
    BY <1>2, <1>8, <2>1, <2>2, <2>3 DEF StackInv
<1>17. NoneForgotten'
  <2>1. ASSUME NEW j \in DOMAIN converted, NEW a \in DOMAIN queue, queue[a] = j
        PROVE  (\E b \in DOMAIN queue' : queue'[b] = j) \/ (\E b \in DOMAIN stack' : stack'[b] = j)
    <3>1. CASE a = 1
      <4>1. m + 1 \in DOMAIN stack' /\ stack'[m + 1] = j
        BY <1>3, <1>4, <1>6, <2>1, <3>1
      <4>2. QED
        BY <4>1
    <3>2. CASE a # 1
      <4>1. a - 1 \in DOMAIN queue' /\ queue'[a - 1] = queue[a]
        <5>1. a - 1 \in 1..(Len(queue) - 1) /\ a - 1 + 1 = a
          BY <1>3, <2>1, <3>2
        <5>2. QED
          BY <1>7, <5>1
      <4>2. QED
        BY <2>1, <4>1
    <3>3. QED
      BY <3>1, <3>2
  <2>2. \A a \in DOMAIN stack : a \in DOMAIN stack' /\ stack'[a] = stack[a]
    BY <1>3, <1>6
  <2>3. QED
    BY <1>2, <2>1, <2>2 DEF Inv, NoneForgotten
<1>18. StackIsOpen'
  <2>1. OpenAt(n + 1) = {stack[a] : a \in 1..m}
    BY <1>1, <1>3 DEF Inv, StackIsOpen
  <2>2. OpenAt(n + 1) \cup {i} = {stack'[a] : a \in 1..(m + 1)}
    <3>1. \A a \in 1..(m + 1) : a \in 1..m \/ a = m + 1
      BY <1>3
    <3>2. \A a \in 1..m : a \in 1..(m + 1)
      BY <1>3
    <3>3. m + 1 \in 1..(m + 1)
      BY <1>3
    <3>4. QED
      BY <1>6, <2>1, <3>1, <3>2, <3>3
  <2>3. Len(out') + 1 = n + 2
    BY <1>3, <1>10
  <2>4. OpenAt(n + 2)' = {stack'[a] : a \in DOMAIN stack'}
    BY <1>6, <1>10, <2>2
  <2>5. QED
    BY <2>3, <2>4 DEF StackIsOpen
<1>19. NestedInv'
  <2>1. ASSUME Nested, NEW a \in DOMAIN stack
        PROVE  converted[i].to \leq converted[stack[a]].to
    <3>1. PICK j : j = stack[a]
      OBVIOUS
    <3>2. j \in DOMAIN converted /\ converted[j].from \in Nat /\ converted[j].to \in Nat
          /\ j \in DOMAIN meant
      BY <1>3, <3>1, <2>1, Numbers
    <3>3. converted[j].from \leq pos /\ Before(j, i)
      BY <1>4, <2>1, <3>1 DEF Inv, StackInv
    <3>4. pos < converted[j].to
      <4>1. m \in DOMAIN stack /\ pos \leq converted[stack[m]].to /\ converted[stack[m]].to # pos
        <5>1. m \in DOMAIN stack /\ stack # <<>> /\ stack[m] = Last(stack)
          BY <1>1, <1>3, <2>1 DEF Last
        <5>2. QED
          BY <1>2, <2>1, <5>1 DEF Inv, NestedInv, Closing
      <4>2. converted[stack[m]].to \in Nat
        BY <1>3, <4>1, Numbers
      <4>3. a = m \/ a < m
        BY <1>3, <2>1
      <4>4. a < m => converted[stack[m]].to \leq converted[j].to
        BY <2>1, <3>1, <4>1 DEF Inv, NestedInv
      <4>5. QED
        BY <1>5, <3>1, <3>2, <4>1, <4>2, <4>3, <4>4
    <3>5. meant[i] = converted[i].from..(converted[i].to - 1)
          /\ meant[j] = converted[j].from..(converted[j].to - 1)
      BY <1>4, <3>2 DEF Inv, Rendered
    <3>6. pos \in meant[i] /\ pos \in meant[j]
      BY <1>2, <1>5, <3>2, <3>3, <3>4, <3>5
    <3>7. meant[i] \subseteq meant[j] \/ meant[j] \subseteq meant[i]
      BY <1>9, <2>1, <3>2, <3>6 DEF Nested
    <3>8. CASE meant[i] \subseteq meant[j]
      <4>1. converted[i].to - 1 \in meant[i]
        BY <1>2, <1>5, <3>5
      <4>2. QED
        BY <1>5, <3>1, <3>2, <3>5, <3>8, <4>1
    <3>9. CASE meant[j] \subseteq meant[i]
      <4>1. converted[j].from \in meant[j]
        BY <3>2, <3>3, <3>4, <3>5, <1>5
      <4>2. converted[i].from \leq converted[j].from
        BY <1>5, <3>2, <3>5, <3>9, <4>1
      <4>3. converted[j].to \geq converted[i].to
        BY <1>5, <3>2, <3>3, <4>2 DEF Before
      <4>4. QED
        BY <1>5, <3>1, <3>2, <4>3
    <3>10. QED
      BY <3>7, <3>8, <3>9
  <2>2. ASSUME Nested, NEW a \in DOMAIN stack', NEW b \in DOMAIN stack', a < b
        PROVE  converted[stack'[b]].to \leq converted[stack'[a]].to
    <3>1. a \in DOMAIN stack /\ stack'[a] = stack[a]
      BY <1>3, <1>6, <2>2
    <3>2. CASE b \in DOMAIN stack /\ stack'[b] = stack[b]
      BY <2>2, <3>1, <3>2 DEF Inv, NestedInv
    <3>3. CASE stack'[b] = i
      BY <2>1, <2>2, <3>1, <3>3
    <3>4. QED
      BY <1>14, <3>2, <3>3
  <2>3. ASSUME Nested, NEW a \in DOMAIN stack' PROVE pos \leq converted[stack'[a]].to
    <3>1. CASE a \in DOMAIN stack /\ stack'[a] = stack[a]
      BY <2>3, <3>1 DEF Inv, NestedInv
    <3>2. CASE stack'[a] = i
      BY <1>5, <3>2
    <3>3. QED
      BY <1>14, <3>1, <3>2
  <2>4. QED
    BY <1>2, <1>8, <2>2, <2>3 DEF NestedInv
<1>20. \A k \in DOMAIN out' : (k \in DOMAIN out /\ out'[k] = out[k] /\ OpenAt(k)' = OpenAt(k))
                              \/ out'[k] = x
  <2>1. \A k \in DOMAIN out' : (k \in 1..n /\ k \in 1..(n + 1)) \/ k = n + 1
    BY <1>3, <1>11
  <2>2. DOMAIN out = 1..n
    BY <1>1, <1>3, Numbers
  <2>3. QED
    BY <1>10, <2>1, <2>2
<1>21. x[1] # "char" /\ x[1] # "close"
  BY <1>9
<1>22. MarksItsText'
  BY <1>2, <1>20, <1>21 DEF Inv, MarksItsText
<1>23. Exact'
  <2>1. ASSUME Nested, NEW k \in DOMAIN out'
        PROVE  /\ out'[k][1] = "char" => OpenAt(k)' = {j \in DOMAIN meant' : out'[k][2] \in meant'[j]}
               /\ out'[k][1] = "close" =>
                    \A j \in OpenAt(k)' : meant'[out'[k][2]] \subseteq meant'[j]
    <3>1. CASE k \in DOMAIN out /\ out'[k] = out[k] /\ OpenAt(k)' = OpenAt(k)
      BY <1>2, <2>1, <3>1 DEF Inv, Exact
    <3>2. CASE out'[k] = x
      BY <1>21, <3>2
    <3>3. QED
      BY <1>20, <3>1, <3>2
  <2>2. QED
    BY <1>8, <2>1 DEF Exact
<1>24. QED
  BY <1>8, <1>12, <1>15, <1>16, <1>17, <1>18, <1>19, <1>22, <1>23 DEF Inv

\* A character is written: every entity that starts here is open, and none
\* that ends here is.
LEMMA EmitKeeps ==
  ASSUME Inv, Emit
  PROVE  Inv'
<1>1. PICK n, m, x : n = Len(out) /\ m = Len(stack) /\ x = <<"char", pos>>
  OBVIOUS
<1>2. /\ ~Closing /\ ~Opening /\ pos \in Chars
      /\ out' = Append(out, x) /\ pos' = pos + 1
      /\ UNCHANGED <<text, converted, meant, queue, stack>>
  BY <1>1 DEF Emit
<1>3. Typed /\ n \in Nat /\ m \in Nat /\ DOMAIN stack = 1..m /\ DOMAIN queue = 1..Len(queue)
      /\ Len(queue) \in Nat /\ Len(text) \in Nat /\ DOMAIN meant = DOMAIN converted
  BY <1>1, Numbers DEF Inv
<1>4. pos \in Nat /\ pos < Len(text)
  BY <1>2, <1>3 DEF Chars
<1>5. TextType' /\ Rendered' /\ Nested' = Nested /\ \A j, k : Before(j, k)' = Before(j, k)
  BY <1>2, SameMessage
<1>6. x \in Entry /\ x[1] = "char" /\ x[2] = pos
  BY <1>1, <1>4 DEF Entry
<1>7. /\ Len(out') = n + 1
      /\ \A k \in 1..n : out'[k] = out[k]
      /\ out'[n + 1] = x
      /\ \A k \in 1..(n + 1) : OpenAt(k)' = OpenAt(k)
      /\ OpenAt(n + 2)' = OpenAt(n + 1)
  <2>1. DOMAIN meant' = DOMAIN meant
    BY <1>2
  <2>2. QED
    BY <1>1, <1>2, <1>3, <1>6, <2>1, OneMore
<1>8. out' \in Seq(Entry) /\ DOMAIN out' = 1..(n + 1)
  <2>1. out \in Seq(Entry)
    BY <1>3 DEF Typed
  <2>2. out' \in Seq(Entry)
    BY <1>2, <1>6, <2>1, AppendProperties
  <2>3. QED
    BY <1>7, <2>2
<1>9. Typed'
  BY <1>2, <1>3, <1>4, <1>5, <1>8 DEF Typed
<1>10. \A i \in DOMAIN converted :
         /\ converted[i].from \in Nat /\ converted[i].to \in Nat
         /\ meant[i] = converted[i].from..(converted[i].to - 1)
  BY <1>3, Numbers DEF Inv, Rendered
<1>11. \A a \in DOMAIN queue : queue[a] \in DOMAIN converted /\ pos < converted[queue[a]].from
  <2>1. ASSUME NEW a \in DOMAIN queue PROVE queue[a] \in DOMAIN converted /\ pos < converted[queue[a]].from
    <3>1. 1 \in DOMAIN queue /\ queue # <<>> /\ Head(queue) = queue[1]
          /\ queue[1] \in DOMAIN converted /\ queue[a] \in DOMAIN converted
      <4>1. queue \in Seq(DOMAIN converted) /\ 1 \in DOMAIN queue
        BY <1>3, <2>1 DEF Typed
      <4>2. QED
        BY <1>3, <2>1, <4>1, Numbers
    <3>2. converted[queue[1]].from # pos /\ pos \leq converted[queue[1]].from
      BY <1>2, <3>1 DEF Opening, Inv, QueueInv
    <3>3. a = 1 \/ Before(queue[1], queue[a])
      BY <1>3, <2>1, <3>1 DEF Inv, QueueInv
    <3>4. converted[queue[1]].from \leq converted[queue[a]].from
      BY <1>10, <3>1, <3>3 DEF Before
    <3>5. QED
      BY <1>4, <1>10, <3>1, <3>2, <3>4
  <2>2. QED
    BY <2>1
<1>12. QueueInv'
  <2>1. \A a \in DOMAIN queue : pos + 1 \leq converted[queue[a]].from
    BY <1>4, <1>10, <1>11
  <2>2. QED
    BY <1>2, <1>5, <2>1 DEF Inv, QueueInv
<1>13. StackInv'
  <2>1. \A a \in DOMAIN stack : converted[stack[a]].from \leq pos + 1
    BY <1>3, <1>4, Numbers DEF Inv, StackInv
  <2>2. QED
    BY <1>2, <1>5, <2>1 DEF Inv, StackInv
<1>14. NoneForgotten'
  BY <1>2, <1>4, <1>10 DEF Inv, NoneForgotten
<1>15. StackIsOpen'
  <2>1. Len(out') + 1 = n + 2
    BY <1>3, <1>7
  <2>2. OpenAt(n + 2)' = {stack'[a] : a \in DOMAIN stack'}
    BY <1>1, <1>2, <1>7 DEF Inv, StackIsOpen
  <2>3. QED
    BY <2>1, <2>2 DEF StackIsOpen
<1>16. ASSUME Nested, NEW a \in DOMAIN stack PROVE pos < converted[stack[a]].to
  <2>1. m \in DOMAIN stack /\ stack # <<>> /\ stack[m] = Last(stack)
    BY <1>1, <1>3, <1>16 DEF Last
  <2>2. converted[stack[m]].to # pos /\ pos \leq converted[stack[m]].to
    BY <1>2, <1>16, <2>1 DEF Closing, Inv, NestedInv
  <2>3. stack[m] \in DOMAIN converted /\ stack[a] \in DOMAIN converted
    BY <1>3, <1>16, <2>1, Numbers
  <2>4. a = m \/ converted[stack[m]].to \leq converted[stack[a]].to
    BY <1>3, <1>16, <2>1 DEF Inv, NestedInv
  <2>5. QED
    BY <1>4, <1>10, <2>2, <2>3, <2>4
<1>17. NestedInv'
  <2>1. Nested => \A a \in DOMAIN stack : pos + 1 \leq converted[stack[a]].to
    BY <1>3, <1>4, <1>10, <1>16, Numbers
  <2>2. QED
    BY <1>2, <1>5, <2>1 DEF Inv, NestedInv
<1>18. \A k \in DOMAIN out' :
         \/ k \in DOMAIN out /\ out'[k] = out[k] /\ OpenAt(k)' = OpenAt(k)
         \/ out'[k] = x /\ OpenAt(k)' = {stack[a] : a \in DOMAIN stack}
  <2>1. \A k \in DOMAIN out' : (k \in 1..n /\ k \in 1..(n + 1)) \/ (k = n + 1 /\ k \in 1..(n + 1))
    BY <1>3, <1>8
  <2>2. DOMAIN out = 1..n
    BY <1>1, <1>3, Numbers
  <2>3. OpenAt(n + 1) = {stack[a] : a \in DOMAIN stack}
    BY <1>1 DEF Inv, StackIsOpen
  <2>4. QED
    BY <1>7, <2>1, <2>2, <2>3
<1>19. ASSUME NEW i \in DOMAIN meant, pos \in meant[i]
       PROVE  i \in {stack[a] : a \in DOMAIN stack}
  <2>1. i \in DOMAIN converted /\ converted[i].from \leq pos /\ pos < converted[i].to
    BY <1>3, <1>4, <1>10, <1>19
  <2>2. ~\E a \in DOMAIN queue : queue[a] = i
    BY <1>4, <1>10, <1>11, <2>1
  <2>3. QED
    BY <1>4, <1>10, <2>1, <2>2 DEF Inv, NoneForgotten
<1>20. MarksItsText'
  BY <1>2, <1>6, <1>18, <1>19 DEF Inv, MarksItsText
<1>21. Exact'
  <2>1. ASSUME Nested
        PROVE  {stack[a] : a \in DOMAIN stack} = {i \in DOMAIN meant : pos \in meant[i]}
    <3>1. ASSUME NEW a \in DOMAIN stack PROVE stack[a] \in DOMAIN meant /\ pos \in meant[stack[a]]
      <4>1. stack[a] \in DOMAIN converted /\ converted[stack[a]].from \leq pos
            /\ pos < converted[stack[a]].to
        BY <1>3, <1>16, <2>1, <3>1, Numbers DEF Inv, StackInv
      <4>2. QED
        BY <1>3, <1>4, <1>10, <4>1
    <3>2. QED
      BY <1>19, <3>1
  <2>2. ASSUME Nested, NEW k \in DOMAIN out'
        PROVE  /\ out'[k][1] = "char" => OpenAt(k)' = {j \in DOMAIN meant' : out'[k][2] \in meant'[j]}
               /\ out'[k][1] = "close" =>
                    \A j \in OpenAt(k)' : meant'[out'[k][2]] \subseteq meant'[j]
    <3>1. CASE k \in DOMAIN out /\ out'[k] = out[k] /\ OpenAt(k)' = OpenAt(k)
      BY <1>2, <2>2, <3>1 DEF Inv, Exact
    <3>2. CASE out'[k] = x /\ OpenAt(k)' = {stack[a] : a \in DOMAIN stack}
      BY <1>2, <1>6, <2>1, <2>2, <3>2
    <3>3. QED
      BY <1>18, <3>1, <3>2
  <2>3. QED
    BY <1>5, <2>2 DEF Exact
<1>22. QED
  BY <1>5, <1>9, <1>12, <1>13, <1>14, <1>15, <1>17, <1>20, <1>21 DEF Inv

\* No step breaks the invariant.
LEMMA NextKeeps == Inv /\ [Next]_vars => Inv'
<1> SUFFICES ASSUME Inv, [Next]_vars PROVE Inv'
  OBVIOUS
<1>1. ASSUME NEW offset \in 0..MaxUnits, NEW length \in 0..MaxUnits,
             NEW kind \in {"style", "link", "mention", "other"}, NEW target \in Targets,
             Convert(offset, length, kind, target)
      PROVE  Inv'
  BY <1>1, ConvertKeeps
<1>2. CASE Start
  BY <1>2, StartKeeps
<1>3. CASE Plain
  BY <1>3, PlainKeeps
<1>4. CASE Close
  BY <1>4, CloseKeeps
<1>5. CASE Open
  BY <1>5, OpenKeeps
<1>6. CASE Emit
  BY <1>6, EmitKeeps
<1>7. CASE UNCHANGED vars
  <2>1. UNCHANGED <<text, converted, meant, queue, stack, pos, out>>
    BY <1>7 DEF vars
  <2>2. TextType' /\ Rendered' /\ Nested' = Nested /\ \A i, j : Before(i, j)' = Before(i, j)
    BY <2>1, SameMessage
  <2>3. \A k : OpenAt(k)' = OpenAt(k)
    BY <2>1 DEF OpenAt
  <2>4. Typed'
    BY <2>1, <2>2 DEF Inv, Typed
  <2>5. QueueInv' /\ StackInv' /\ NoneForgotten' /\ NestedInv'
    BY <2>1, <2>2 DEF Inv, QueueInv, StackInv, NoneForgotten, NestedInv
  <2>6. StackIsOpen' /\ MarksItsText' /\ Exact'
    BY <2>1, <2>2, <2>3 DEF Inv, StackIsOpen, MarksItsText, Exact
  <2>7. QED
    BY <2>2, <2>4, <2>5, <2>6 DEF Inv
<1>8. QED
  BY <1>1, <1>2, <1>3, <1>4, <1>5, <1>6, <1>7 DEF Next

\* At the end of the text all that is open would end, and is closed.
LEMMA InvRenders == Inv => MarksItsText /\ RendersNested
<1> SUFFICES ASSUME Inv PROVE MarksItsText /\ RendersNested
  OBVIOUS
<1>1. ASSUME Nested, Done PROVE OpenAt(Len(out) + 1) = {}
  <2>1. Typed /\ Len(stack) \in Nat /\ DOMAIN stack = 1..Len(stack) /\ Len(text) \in Nat
    BY Numbers DEF Inv
  <2>2. ASSUME stack # <<>> PROVE FALSE
    <3>1. Len(stack) \in DOMAIN stack
      <4>1. Len(stack) # 0
        BY <2>2 DEF Inv, Typed
      <4>2. QED
        BY <2>1, <4>1
    <3>2. PICK i \in DOMAIN converted : i = stack[Len(stack)]
      BY <2>1, <3>1, Numbers
    <3>3. pos = Len(text) /\ converted[i].to # pos
      BY <1>1, <2>2, <3>2 DEF Done, Closing, Last
    <3>4. pos \leq converted[i].to /\ converted[i].to \leq Len(text) /\ converted[i].to \in Nat
      BY <1>1, <2>1, <3>1, <3>2, Numbers DEF Inv, NestedInv, Rendered
    <3>5. QED
      BY <2>1, <3>3, <3>4
  <2>3. DOMAIN stack = {}
    BY <2>2
  <2>4. QED
    BY <2>3 DEF Inv, StackIsOpen
<1>2. RendersNested
  BY <1>1 DEF Inv, Exact, RendersNested
<1>3. QED
  BY <1>2 DEF Inv

(* The invariant holds of every rendering. *)
LEMMA Renders == Spec => []Inv
<1>1. QED
  BY InitInv, NextKeeps, PTL DEF Spec

(* Whatever the text, the surrogate pairs in it, the entities and how they  *)
(* overlap: every character is inside the tags of all that were sent for it. *)
THEOREM TextIsMarked == Spec => []MarksItsText
<1>1. Inv => MarksItsText
  BY InvRenders
<1>2. QED
  BY <1>1, Renders, PTL

(* And of entities that nest it is inside no others, they are closed from   *)
(* the inside out and none is left open.                                    *)
THEOREM NestsAreRendered == Spec => []RendersNested
<1>1. Inv => RendersNested
  BY InvRenders
<1>2. QED
  BY <1>1, Renders, PTL
================================================================================
