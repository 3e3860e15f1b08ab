--------------------------------- MODULE TextHtml ---------------------------------
(***************************************************************************)
(* entities_to_html: a message's text and the entities Telegram sends with *)
(* it, as HTML.  Characters are positions, numbered from 0; a tag is the   *)
(* entity it is written for.  Escaping and the wording of the tags are     *)
(* left out.                                                               *)
(***************************************************************************)
EXTENDS Integers, SequencesExt

CONSTANTS MaxChars, MaxEntities     \* bounds on the message

ASSUME TextAssumption == MaxChars \in Nat /\ MaxEntities \in Nat

VARIABLES
  text,        \* where each character ends, in UTF-16 units
  converted,   \* entities that are rendered, in characters
  meant,       \* the characters each of them was sent for
  queue,       \* entities still to be opened, in order
  stack,       \* open entities
  pos,         \* the character that is next; -1 before the loop
  out          \* what has been written

vars == <<text, converted, meant, queue, stack, pos, out>>

MaxUnits == 2 * MaxChars

\* Where character c of t starts.
StartIn(t, c) == IF c = 0 THEN 0 ELSE t[c]

\* A character takes one unit or two.
Texts ==
  {t \in UNION {[1..n -> 1..MaxUnits] : n \in 0..MaxChars} :
     \A c \in 1..Len(t) : t[c] - StartIn(t, c - 1) \in {1, 2}}

Init ==
  /\ text \in Texts
  /\ converted = <<>> /\ meant = <<>>
  /\ queue = <<>> /\ stack = <<>> /\ pos = -1 /\ out = <<>>

--------------------------------------------------------------------------------

StartOf(c) == StartIn(text, c)
Chars == 0..(Len(text) - 1)

\* Mutated form: the offset is taken for a position.
CharOfOffset(offset) == IF offset > Len(text) THEN Len(text) ELSE offset

\* _utf16_to_char: the prefix is decoded, and a character it cuts counts.
CharAt(offset) == Cardinality({c \in Chars : StartOf(c) < offset})

Targets == {"empty", "blocked", "allowed", "schemeless", "foreign", "user", "nobody"}

\* _sanitize_href: no blocked scheme, and no other that is not allowed.
Linked(target) == target \in {"allowed", "schemeless"}

\* _tags_for_entity: there is a tag for every style, for a link to such an
\* address, for the mention of a possible user, and for nothing else.
Tagged(kind, target) ==
  \/ kind = "style"
  \/ kind = "link" /\ Linked(target)
  \/ kind = "mention" /\ target = "user"

\* One more entity of the message; another is skipped.
Convert(offset, length, kind, target) ==
  LET from == CharAt(offset)
      to == CharAt(offset + length)
  IN  /\ pos = -1 /\ Len(converted) < MaxEntities
      /\ Tagged(kind, target) /\ from < to
      /\ converted' = Append(converted, [from |-> from, to |-> to])
      /\ meant' = Append(meant,
           {c \in Chars : offset \leq StartOf(c) /\ StartOf(c) < offset + length})
      /\ UNCHANGED <<text, queue, stack, pos, out>>

\* Mutated form: by where they start alone.
BeforeAsListed(i, j) ==
  \/ converted[i].from < converted[j].from
  \/ converted[i].from = converted[j].from /\ i < j

\* The key of the sort, which is stable.
Before(i, j) ==
  \/ converted[i].from < converted[j].from
  \/ /\ converted[i].from = converted[j].from
     /\ \/ converted[i].to > converted[j].to
        \/ converted[i].to = converted[j].to /\ i < j

\* The entities in the order of the key, each once.
Sorted ==
  {q \in [1..Len(converted) -> DOMAIN converted] :
     \A a, b \in DOMAIN q : a < b => Before(q[a], q[b])}

Start ==
  /\ pos = -1 /\ converted # <<>>
  /\ queue' \in Sorted
  /\ pos' = 0
  /\ UNCHANGED <<text, converted, meant, stack, out>>

\* No entity is left: the text alone.
Plain ==
  /\ pos = -1 /\ converted = <<>>
  /\ out' = [k \in 1..Len(text) |-> <<"char", k - 1>>]
  /\ pos' = Len(text)
  /\ UNCHANGED <<text, converted, meant, queue, stack>>

Closing == stack # <<>> /\ converted[Last(stack)].to = pos
Opening == queue # <<>> /\ converted[Head(queue)].from = pos

Close ==
  /\ Closing
  /\ out' = Append(out, <<"close", Last(stack)>>)
  /\ stack' = Front(stack)
  /\ UNCHANGED <<text, converted, meant, queue, pos>>

Open ==
  /\ ~Closing /\ Opening
  /\ out' = Append(out, <<"open", Head(queue)>>)
  /\ stack' = Append(stack, Head(queue))
  /\ queue' = Tail(queue)
  /\ UNCHANGED <<text, converted, meant, pos>>

Emit ==
  /\ ~Closing /\ ~Opening
  /\ pos \in Chars
  /\ out' = Append(out, <<"char", pos>>)
  /\ pos' = pos + 1
  /\ UNCHANGED <<text, converted, meant, queue, stack>>

Next ==
  \/ \E offset \in 0..MaxUnits, length \in 0..MaxUnits,
        kind \in {"style", "link", "mention", "other"}, target \in Targets :
       Convert(offset, length, kind, target)
  \/ Start \/ Plain \/ Close \/ Open \/ Emit

Spec == Init /\ [][Next]_vars

Done == pos = Len(text) /\ ~Closing

--------------------------------------------------------------------------------

\* Entities that are open where out[k] is written.
OpenAt(k) ==
  {i \in DOMAIN meant :
     \E j \in 1..(k - 1) : /\ out[j] = <<"open", i>>
                           /\ \A l \in j..(k - 1) : out[l] # <<"close", i>>}

Nested == \A i, j \in DOMAIN meant :
            \/ meant[i] \subseteq meant[j] \/ meant[j] \subseteq meant[i]
            \/ meant[i] \cap meant[j] = {}

(* Whatever the entities, every character of the text is written inside the *)
(* tags of all entities that were sent for it: an overlap or an offset      *)
(* behind a surrogate pair takes no formatting away.                        *)
MarksItsText ==
  \A k \in DOMAIN out, i \in DOMAIN meant :
    (out[k][1] = "char" /\ out[k][2] \in meant[i]) => i \in OpenAt(k)

(* Entities that nest are rendered exactly: a character is inside the tags  *)
(* of its own entities and of no others, a tag is closed before those it is *)
(* inside of, and none is left open at the end of the text.                 *)
RendersNested ==
  Nested =>
    /\ \A k \in DOMAIN out :
         /\ out[k][1] = "char" => OpenAt(k) = {i \in DOMAIN meant : out[k][2] \in meant[i]}
         /\ out[k][1] = "close" =>
              \A i \in OpenAt(k) : meant[out[k][2]] \subseteq meant[i]
    /\ Done => OpenAt(Len(out) + 1) = {}
================================================================================
