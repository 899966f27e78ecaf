------------------------------- MODULE JsonText -------------------------------
(***************************************************************************)
(* The JSON library of the HTTP server (service_hidden/src/json.c, linked  *)
(* as libjson.so): values are built, turned into text in a buffer of given *)
(* size and freed, and text, of which only a length is known, is turned    *)
(* into values.  Any allocation may fail.                                  *)
(*                                                                         *)
(* A value is the sequence of its nodes, each before those inside it, with *)
(* how deep it is, the key it has in its object, and what it is.  The      *)
(* functions of the library call each other for values inside values; here *)
(* open is the stack of the calls that are for an object and have not      *)
(* returned, and an action is what happens between two of them.            *)
(*                                                                         *)
(* Text is a sequence of characters, those that mean something and a few   *)
(* that stand for all others.  Positions are offsets from the start, as    *)
(* the code's pointers are; the character behind the end of the text is    *)
(* whatever lies there in memory.  A block of memory is named by the node  *)
(* and the pointer that it belongs to.  Arrays are not compiled in.        *)
(***************************************************************************)
EXTENDS Integers, SequencesExt

CONSTANTS Values,    \* the values to convert: objects
          Others,    \* texts of other makers
          Rooms,     \* the sizes of the buffer for the text
          Memory,    \* the characters that may lie behind a text in memory
          MaxFailed, \* how many allocations fail at most
          Digits,    \* the digits, a sequence: as many as the base
          Letter,    \* the letter that a client escapes instead of a character
          Range64    \* 2^64, the range of numbers

Quote == "\""

Escape == "\\"

Plain == {"a", "t", "r", "u", "e", "f", "l", "s"}

Marks == {Quote, Escape, "{", "}", ":", ",", " "}

\* A client writes a tab as \t and others as \u and their code: those in the
\* domain of Letter, the digits of the code being characters that follow.
Character == Plain \cup ToSet(Digits) \cup Marks \cup DOMAIN Letter

Word(b) == IF b THEN <<"t", "r", "u", "e">> ELSE <<"f", "a", "l", "s", "e">>

-----------------------------------------------------------------------------
(* Values. *)

\* A NULL pointer.
Nothing == [type |-> "nothing"]

Object == [type |-> "object"]

String(s) == [type |-> "string", string |-> s]

Number(n) == [type |-> "number", number |-> n]

Boolean(b) == [type |-> "boolean", boolean |-> b]

Item == [type : {"string"}, string : Seq(Character)]
          \cup [type : {"number"}, number : 0..(Range64 - 1)]
          \cup [type : {"boolean"}, boolean : BOOLEAN]
          \cup {Object, Nothing}

Node == [depth : Nat, key : Seq(Character), item : Item]

\* How many objects are open behind the node at i.
Level(v, i) == IF v[i].item = Object THEN v[i].depth + 1 ELSE v[i].depth

IsObject(v) ==
  /\ v \in Seq(Node) \ {<<>>}
  /\ v[1] = [depth |-> 0, key |-> <<>>, item |-> Object]
  /\ \A i \in 2..Len(v) : v[i].depth \in 1..Level(v, i - 1)
  /\ \A i \in 1..Len(v) : v[i].item # Nothing

ASSUME JsonAssumption ==
  /\ \A v \in Values : IsObject(v)
  /\ Others \subseteq Seq(Character) /\ Memory \subseteq Character
  /\ Rooms \subseteq Nat
  /\ MaxFailed \in Nat
  /\ Digits \in Seq(ToSet(Digits)) /\ Len(Digits) > 1
  /\ \A i, j \in 1..Len(Digits) : Digits[i] = Digits[j] => i = j
  /\ ToSet(Digits) \cap (Plain \cup Marks) = {}
  /\ Letter \in [DOMAIN Letter -> Plain]
  /\ DOMAIN Letter \cap (Plain \cup Marks \cup ToSet(Digits)) = {}
  /\ Range64 \in Nat \ {0}

VARIABLES pc,     \* where the program is
          value,  \* the value to build, or to make a text of, if there is one
          tree,   \* the nodes of the value that there is
          open,   \* the objects, by their nodes, that calls are for
          text,   \* what is written, or to be parsed
          room,   \* the argument size of json_serialize
          beyond, \* the character behind the text
          at,     \* how many nodes are done, or the offset in the text
          from,   \* the offset where a string or a number begins
          string, \* the string read so far
          number, \* the number read so far
          key,    \* the key of the next value
          memory  \* the blocks in use, lost ones, failures, errors

reading == <<beyond, at, from, string, number, key>>

vars == <<pc, value, tree, open, text, room, reading, memory>>

Init == /\ pc = "create"
        /\ value \in Values
        /\ tree = <<>> /\ open = <<>> /\ text = <<>>
        /\ room = 0
        /\ beyond = " " /\ at = 0 /\ from = 0
        /\ string = <<>> /\ number = 0 /\ key = <<>>
        /\ memory = [heap |-> {}, lost |-> 0, failed |-> 0, wrong |-> FALSE]

-----------------------------------------------------------------------------
(* Memory. *)

CanFail == memory.failed < MaxFailed

\* An allocation fails, and the blocks are lost that only it would have kept.
Fail(m, lost) == [m EXCEPT !.failed = @ + 1,
                           !.heap = @ \ lost,
                           !.lost = @ + Cardinality(lost)]

Alloc(m, blocks) == [m EXCEPT !.heap = @ \cup blocks]

\* Freeing what is not in use is wrong.
Free(m, blocks) == [m EXCEPT !.heap = @ \ blocks,
                             !.wrong = @ \/ ~(blocks \subseteq m.heap)]

HasPairs(v, i) == i < Len(v) /\ v[i + 1].depth > v[i].depth

\* Mutant: the array of pairs is forgotten.
PointersButPairs(v, i) ==
  CASE v[i].item.type = "nothing" -> {}
    [] v[i].item.type = "string"  -> {"value", "string"}
    [] OTHER                      -> {"value"}

\* The pointers json_free frees for the node at i: to the value, its string, the
\* array of its pairs.
Pointers(v, i) ==
  CASE v[i].item.type = "nothing" -> {}
    [] v[i].item.type = "string"  -> {"value", "string"}
    [] v[i].item.type = "object"  -> IF HasPairs(v, i) THEN {"value", "pairs"}
                                                       ELSE {"value"}
    [] OTHER                      -> {"value"}

\* What json_free frees of the value whose nodes are those from i on: the blocks
\* of each, and the keys of those inside.
Blocks(v, i) ==
  {b \in (i..Len(v)) \X {"value", "string", "pairs", "key"} :
     IF b[2] = "key" THEN b[1] > i ELSE b[2] \in Pointers(v, b[1])}

Block(i, pointer) == {<<i, pointer>>}

NewNode == Len(tree) + 1

Parent == open[Len(open)]

\* The value that the innermost open object is to get: its last.
Child == CHOOSE i \in 1..Len(tree) :
           /\ tree[i].depth = Len(open)
           /\ \A j \in (i + 1)..Len(tree) : tree[j].depth > Len(open)

Grown(item) == Append(tree, [depth |-> Len(open), key |-> key, item |-> item])

\* What is left of the tree without the nodes from i on.
Before(i) == SubSeq(tree, 1, i - 1)

-----------------------------------------------------------------------------
(* Building a value with json_create_* and json_object_push, as the tasks of *)
(* the HTTP server do: nobody looks whether a call failed.                   *)

Coming(v) == at < Len(v) /\ v[at + 1].depth = Len(open)

\* The strings of C, in which no character stands for an escaped letter: the
\* server writes a tab as it is.
Raw(s) == ToSet(s) \cap DOMAIN Letter = {}

RawNode(node) ==
  Raw(node.key) /\ (node.item.type = "string" => Raw(node.item.string))

\* json_create_*.  json_create_string frees its copy when there is no memory for
\* the value.
Create ==
  /\ pc = "create" /\ Coming(value)
  /\ \A i \in 1..Len(value) : RawNode(value[i])
  /\ LET node == value[at + 1]
         built == Append(tree, node)
     IN \/ /\ tree' = built
           /\ memory' = Alloc(memory, {<<NewNode, p>> : p \in Pointers(built, NewNode)})
        \/ /\ CanFail
           /\ tree' = Append(tree, [node EXCEPT !.item = Nothing])
           /\ memory' = Fail(memory, {})
  /\ at' = at + 1
  /\ IF value[at + 1].item = Object
       THEN open' = Append(open, NewNode) /\ UNCHANGED pc
       ELSE pc' = "attach" /\ UNCHANGED open
  /\ UNCHANGED <<value, text, room, beyond, from, string, number, key>>

\* The object has got its values.
Created ==
  /\ pc = "create" /\ ~Coming(value)
  /\ open' = Front(open)
  /\ pc' = IF Len(open) = 1 THEN "built" ELSE "attach"
  /\ UNCHANGED <<value, tree, text, room, reading, memory>>

\* json_object_push.  When it fails the child, and the copy of the key, belong to
\* nobody.  It follows the pointer to the object.
Attach ==
  /\ pc = "attach"
  /\ \/ /\ tree[Parent].item # Nothing
        /\ pc' = "create"
        /\ memory' = Alloc(memory, Block(Child, "key") \cup Block(Parent, "pairs"))
        /\ UNCHANGED tree
     \/ /\ CanFail
        /\ pc' = "create"
        /\ tree' = Before(Child)
        /\ memory' = Fail(memory, Blocks(tree, Child))
     \/ /\ CanFail /\ tree[Parent].item # Nothing
        /\ pc' = "create"
        /\ tree' = Before(Child)
        /\ memory' = Fail(Alloc(memory, Block(Child, "key")),
                          Block(Child, "key") \cup Blocks(tree, Child))
     \/ /\ tree[Parent].item = Nothing
        /\ pc' = "crashed"
        /\ memory' = Alloc(memory, Block(Child, "key"))
        /\ UNCHANGED tree
  /\ UNCHANGED <<value, open, text, room, reading>>

-----------------------------------------------------------------------------
(* Serialisation: it appends to what has been written, or fails. *)

\* Mutant: quotes are escaped, escapes are not.
EscapedQuotes(s) ==
  FlattenSeq([i \in 1..Len(s) |->
                CASE s[i] \in DOMAIN Letter -> <<Escape, Letter[s[i]]>>
                  [] s[i] = Quote           -> <<Escape, s[i]>>
                  [] OTHER                  -> <<s[i]>>])

\* _serialize_string, and what clients do beyond it.
Escaped(s) ==
  FlattenSeq([i \in 1..Len(s) |->
                CASE s[i] \in DOMAIN Letter    -> <<Escape, Letter[s[i]]>>
                  [] s[i] \in {Quote, Escape} -> <<Escape, s[i]>>
                  [] OTHER                     -> <<s[i]>>])

Quoted(s) == <<Quote>> \o Escaped(s) \o <<Quote>>

Numeral[n \in Nat] ==
  LET digit == <<Digits[(n % Len(Digits)) + 1]>>
  IN IF n < Len(Digits) THEN digit ELSE Numeral[n \div Len(Digits)] \o digit

\* What is written of an item, of an object to begin with.
Written(item) == CASE item.type = "string"  -> Quoted(item.string)
                   [] item.type = "number"  -> Numeral[item.number]
                   [] item.type = "boolean" -> Word(item.boolean)
                   [] item.type = "object"  -> <<"{">>

\* Mutant: the text may fill the buffer.
RoomWithoutEnd(t, n) == Len(t) + n <= room

\* Behind t there is room for n characters and the zero at the end.
Room(t, n) == Len(t) + n < room

\* json_serialize
Serialize ==
  /\ pc = "built"
  /\ pc' = "write_value"
  /\ room' \in Rooms
  /\ at' = 0
  /\ UNCHANGED <<value, tree, open, text, beyond, from, string, number, key, memory>>

Writes(more) == text' = text \o more

TooLong == pc' = "too_long" /\ UNCHANGED <<open, text, at>>

\* _json_serialize, and _json_serialize_object up to its loop.
WriteValue ==
  /\ pc = "write_value"
  /\ LET item == tree[at + 1].item
     IN \/ /\ ~Room(text, 0)
           /\ TooLong
        \/ /\ Room(text, 0) /\ item = Nothing
           /\ pc' = "crashed"
           /\ UNCHANGED <<open, text, at>>
        \/ /\ Room(text, 0) /\ item = Object
           /\ IF Room(text, 2)
                THEN /\ Writes(<<"{">>)
                     /\ at' = at + 1
                     /\ open' = Append(open, at')
                     /\ pc' = IF HasPairs(tree, at') THEN "write_key"
                                                     ELSE "write_end"
                ELSE TooLong
        \/ /\ Room(text, 0) /\ item \notin {Nothing, Object}
           /\ IF Room(text \o Written(item), 0)
                THEN /\ Writes(Written(item))
                     /\ at' = at + 1
                     /\ pc' = "write_next"
                     /\ UNCHANGED open
                ELSE TooLong
  /\ UNCHANGED <<value, tree, room, beyond, from, string, number, key, memory>>

\* The loop of _json_serialize_object, up to the value.
WriteKey ==
  /\ pc = "write_key"
  /\ LET quoted == Quoted(tree[at + 1].key)
     IN IF Room(text \o quoted, 1)
          THEN /\ Writes(quoted \o <<":">>)
               /\ pc' = "write_value"
               /\ UNCHANGED <<open, at>>
          ELSE TooLong
  /\ UNCHANGED <<value, tree, room, beyond, from, string, number, key, memory>>

\* The rest of the loop.
WriteNext ==
  /\ pc = "write_next"
  /\ IF Room(text, 1)
       THEN /\ IF Coming(tree) THEN Writes(<<",">>) /\ pc' = "write_key"
                               ELSE pc' = "write_end" /\ UNCHANGED text
            /\ UNCHANGED <<open, at>>
       ELSE TooLong
  /\ UNCHANGED <<value, tree, room, beyond, from, string, number, key, memory>>

\* The end of _json_serialize_object.
WriteEnd ==
  /\ pc = "write_end"
  /\ Writes(<<"}">>)
  /\ open' = Front(open)
  /\ pc' = IF Len(open) = 1 THEN "written" ELSE "write_next"
  /\ UNCHANGED <<value, tree, room, reading, memory>>

-----------------------------------------------------------------------------
(* What clients send. *)

Spaces == {<<>>, <<" ">>}

Closing(n) == [i \in 1..n |-> "}"]

\* The text between the nodes at i - 1 and i: objects end, and another pair
\* begins.
Between(v, i, space) ==
  Closing(Level(v, i - 1) - v[i].depth)
    \o IF HasPairs(v, i - 1) THEN <<>> ELSE <<",">> \o space

Piece(v, i, space) ==
  IF i = 1 THEN Written(v[i].item)
  ELSE Between(v, i, space) \o Quoted(v[i].key) \o <<":">> \o space
         \o Written(v[i].item)

\* The text of a value, with a space, or none, behind : and , .
Text(v, space) ==
  FlattenSeq([i \in 1..Len(v) |-> Piece(v, i, space)])
    \o Closing(Level(v, Len(v)))

\* JSON.stringify leaves no space, json.dumps does.
ClientSends ==
  /\ pc = "create" /\ at = 0
  /\ pc' = "sent"
  /\ \E space \in Spaces : text' = Text(value, space)
  /\ UNCHANGED <<value, tree, open, room, reading, memory>>

\* A text that need not be a value's.
OtherSends ==
  /\ pc = "create" /\ at = 0
  /\ pc' = "sent"
  /\ text' \in Others
  /\ value' = <<>>
  /\ UNCHANGED <<tree, open, room, reading, memory>>

\* A text that stops short, such as those of test_anti_parsing.
Cut ==
  /\ pc = "sent"
  /\ pc' = "cut"
  /\ \E n \in 0..(Len(text) - 1) : text' = SubSeq(text, 1, n)
  /\ UNCHANGED <<value, tree, open, room, reading, memory>>

-----------------------------------------------------------------------------
(* Parsing. *)

\* *(in + p); what is behind the end is not the text's.
At(p) == IF p < Len(text) THEN text[p + 1] ELSE beyond

Is(p, c) == p < Len(text) /\ At(p) = c

\* _skip_whitespace leaves the pointer alone when it meets the end.
SkipSpace(p) ==
  LET others == {q \in p..(Len(text) - 1) : text[q + 1] # " "}
  IN IF others = {} THEN p ELSE CHOOSE q \in others : \A o \in others : q <= o

\* json_parse
Parse ==
  /\ pc \in {"sent", "cut"}
  /\ pc' = "object"
  /\ beyond' \in Memory
  /\ at' = 0
  /\ UNCHANGED <<value, tree, open, text, room, from, string, number, key, memory>>

\* The beginning of _parse_string, for a string to be held by pointer.  Where
\* none begins, or without memory, it returns NULL and the caller goes on.
StringBegins(pointer, loop, caller) ==
  LET start == SkipSpace(at)
  IN /\ \/ /\ Is(start, Quote)
           /\ pc' = loop
           /\ at' = start + 1
           /\ from' = start
           /\ string' = <<>>
           /\ memory' = Alloc(memory, Block(NewNode, pointer))
        \/ /\ Is(start, Quote) => CanFail
           /\ pc' = caller
           /\ at' = start
           /\ memory' = IF Is(start, Quote) THEN Fail(memory, {}) ELSE memory
           /\ UNCHANGED <<from, string>>
     /\ UNCHANGED <<value, tree, open, text, room, beyond, number, key>>

\* The condition of the loop of _parse_string.
InString == at < Len(text) /\ At(at) # Quote

\* Where the next character of the string is.
Meant == IF At(at) = Escape THEN at + 1 ELSE at

\* The loop of _parse_string.
StringGoesOn ==
  /\ pc \in {"key_loop", "string_loop"}
  /\ InString /\ Meant < Len(text)
  /\ at' = Meant + 1
  /\ string' = Append(string, At(Meant))
  /\ UNCHANGED <<pc, value, tree, open, text, room, beyond, from, number, key, memory>>

\* The text is wrong: _parse_string frees the block and returns NULL.
StringWrong(pointer, caller) ==
  /\ IF InString THEN Meant >= Len(text) ELSE At(at) # Quote
  /\ pc' = caller
  /\ at' = from
  /\ memory' = Free(memory, Block(NewNode, pointer))
  /\ UNCHANGED <<value, tree, open, text, room, beyond, from, string, number, key>>

StringRead == ~InString /\ At(at) = Quote

\* The realloc at the end of _parse_string.  The pointer is behind the string
\* then, and the string is lost when it cannot be made shorter.
StringLost(pointer, caller) ==
  /\ StringRead /\ CanFail
  /\ pc' = caller
  /\ at' = at + 1
  /\ memory' = Fail(memory, Block(NewNode, pointer))
  /\ UNCHANGED <<value, tree, open, text, room, beyond, from, string, number, key>>

\* A value of _json_parse that needs a block for itself.  Without memory the next
\* type is tried, where this one has left the pointer.
ValueFound(item, next, other) ==
  /\ at' = next
  /\ \/ /\ pc' = "push"
        /\ tree' = Grown(item)
        /\ memory' = Alloc(memory, Block(NewNode, "value"))
     \/ /\ CanFail
        /\ pc' = other
        /\ UNCHANGED tree
        /\ memory' = Free(Fail(memory, {}),
                          IF item.type = "string" THEN Block(NewNode, "string")
                                                  ELSE {})
  /\ UNCHANGED <<value, open, text, room, beyond, from, string, number, key>>

\* The value is not of this type.
NotFound(start, other) ==
  /\ at' = start
  /\ pc' = other
  /\ UNCHANGED <<value, tree, open, text, room, beyond, from, string, number, key,
                 memory>>

\* _json_parse_string
ParseString ==
  \/ pc = "string" /\ StringBegins("string", "string_loop", "number")
  \/ pc = "string_loop" /\ StringWrong("string", "number")
  \/ pc = "string_loop" /\ StringLost("string", "number")
  \/ /\ pc = "string_loop" /\ StringRead
     /\ ValueFound(String(string), at + 1, "number")

\* _json_parse_number
NumberBegins ==
  /\ pc = "number"
  /\ pc' = "digits"
  /\ at' = SkipSpace(at)
  /\ from' = at'
  /\ number' = 0
  /\ UNCHANGED <<value, tree, open, text, room, beyond, string, key, memory>>

Accumulate(n, digit) == (n * Len(Digits) + digit) % Range64

DigitGoesOn ==
  /\ pc = "digits"
  /\ \E d \in 1..Len(Digits) :
       /\ Is(at, Digits[d])
       /\ number' = Accumulate(number, d - 1)
  /\ at' = at + 1
  /\ UNCHANGED <<pc, value, tree, open, text, room, beyond, from, string, key, memory>>

NumberEnds ==
  /\ pc = "digits"
  /\ ~\E d \in 1..Len(Digits) : Is(at, Digits[d])
  /\ IF at = from THEN NotFound(at, "boolean")
                  ELSE ValueFound(Number(number), at, "boolean")

\* _json_parse_boolean wants a character behind the word.
ParseBoolean ==
  /\ pc = "boolean"
  /\ LET start == SkipSpace(at)
         is(b) == /\ start + Len(Word(b)) < Len(text)
                  /\ SubSeq(text, start + 1, start + Len(Word(b))) = Word(b)
     IN IF \E b \in BOOLEAN : is(b)
          THEN \E b \in BOOLEAN :
                 is(b) /\ ValueFound(Boolean(b), start + Len(Word(b)), "object")
          ELSE NotFound(start, "object")

\* _json_parse_object returns NULL, to json_parse or to itself.
ReturnsNull(calls) == pc' = IF calls = 0 THEN "refused" ELSE "no_value"

\* _json_parse_object does not look whether json_create_object failed.
ParseObject ==
  /\ pc = "object"
  /\ LET start == SkipSpace(at)
     IN IF start + 2 <= Len(text) /\ At(start) = "{"
          THEN /\ at' = start + 1
               /\ pc' = IF At(at') = "}" THEN "end" ELSE "key"
               /\ open' = Append(open, NewNode)
               /\ \/ /\ tree' = Grown(Object)
                     /\ memory' = Alloc(memory, Block(NewNode, "value"))
                  \/ /\ CanFail
                     /\ tree' = Grown(Nothing)
                     /\ memory' = Fail(memory, {})
          ELSE /\ at' = start
               /\ ReturnsNull(Len(open))
               /\ UNCHANGED <<tree, open, memory>>
  /\ UNCHANGED <<value, text, room, beyond, from, string, number, key>>

\* The loop of _json_parse_object, up to the value.  Where no key follows, the
\* object may end.
ParseKey ==
  \/ pc = "key" /\ StringBegins("key", "key_loop", "end")
  \/ pc = "key_loop" /\ StringWrong("key", "end")
  \/ pc = "key_loop" /\ StringLost("key", "end")
  \/ /\ pc = "key_loop" /\ StringRead
     /\ IF Is(at + 1, ":")
          THEN pc' = "string" /\ at' = at + 2 /\ key' = string /\ UNCHANGED memory
          ELSE /\ pc' = "out"
               /\ memory' = Free(memory, Block(NewNode, "key"))
               /\ UNCHANGED <<at, key>>
     /\ UNCHANGED <<value, tree, open, text, room, beyond, from, string, number>>

\* There is no value: the loop frees the key.
NoValue ==
  /\ pc = "no_value"
  /\ pc' = "out"
  /\ memory' = Free(memory, Block(NewNode, "key"))
  /\ UNCHANGED <<value, tree, open, text, room, reading>>

\* The rest of the loop.
Push ==
  /\ pc = "push"
  /\ \/ /\ tree[Parent].item # Nothing
        /\ memory' = Alloc(memory, Block(Parent, "pairs"))
        /\ at' = IF Is(at, ",") THEN at + 1 ELSE at
        /\ pc' = IF at >= Len(text) THEN "out"
                 ELSE IF Is(at, ",") /\ at + 1 < Len(text) THEN "key" ELSE "end"
        /\ UNCHANGED tree
     \/ /\ tree[Parent].item # Nothing /\ CanFail
        /\ memory' = Free(Fail(memory, {}),
                          Block(Child, "key") \cup Blocks(tree, Child))
        /\ tree' = Before(Child)
        /\ pc' = "out"
        /\ UNCHANGED at
     \/ /\ tree[Parent].item = Nothing
        /\ pc' = "crashed"
        /\ UNCHANGED <<tree, at, memory>>
  /\ UNCHANGED <<value, open, text, room, beyond, from, string, number, key>>

\* Mutant: the end of the text is not looked for.
CanEndBeyond == At(at) = "}"

CanEnd == At(at) = "}" /\ at < Len(text)

\* The end of _json_parse_object.
ObjectEnds ==
  /\ pc = "end"
  /\ IF CanEnd
       THEN /\ at' = at + 1
            /\ open' = Front(open)
            /\ IF tree[Parent].item = Nothing
                 THEN ReturnsNull(Len(open) - 1) /\ tree' = Before(Parent)
                 ELSE /\ pc' = IF Len(open) = 1 THEN "parsed" ELSE "push"
                      /\ UNCHANGED tree
       ELSE pc' = "out" /\ UNCHANGED <<at, open, tree>>
  /\ UNCHANGED <<value, text, room, beyond, from, string, number, key, memory>>

\* The error exit of _json_parse_object.
Out ==
  /\ pc = "out"
  /\ ReturnsNull(Len(open) - 1)
  /\ memory' = Free(memory, Blocks(tree, Parent))
  /\ tree' = Before(Parent)
  /\ open' = Front(open)
  /\ UNCHANGED <<value, text, room, reading>>

-----------------------------------------------------------------------------

\* json_free, as the tasks call it for what they built and http_handle_message
\* for the request.
Release ==
  /\ pc \in {"written", "too_long", "parsed"}
  /\ pc' = "released"
  /\ memory' = Free(memory, Blocks(tree, 1))
  /\ tree' = <<>>
  /\ UNCHANGED <<value, open, text, room, reading>>

Building == Create \/ Created \/ Attach

Writing == Serialize \/ WriteValue \/ WriteKey \/ WriteNext \/ WriteEnd

Sending == ClientSends \/ OtherSends \/ Cut \/ Parse

Parsing == \/ ParseString \/ StringGoesOn
           \/ NumberBegins \/ DigitGoesOn \/ NumberEnds
           \/ ParseBoolean
           \/ ParseObject \/ ParseKey \/ NoValue \/ Push \/ ObjectEnds \/ Out

Next == Building \/ Writing \/ Sending \/ Parsing \/ Release

Spec == Init /\ [][Next]_vars

-----------------------------------------------------------------------------
(* Properties. *)

\* json_serialize fails exactly when the text and its terminating zero do not
\* fit (test_parsing gives it strlen + 1 bytes), and the text it writes is the
\* value's: also when pairs are missing because json_object_push failed.
FitsExactly ==
  /\ pc = "written" => text = Text(tree, <<>>) /\ Len(text) < room
  /\ pc = "too_long" /\ (\A i \in 1..Len(tree) : tree[i].item # Nothing) =>
       Len(Text(tree, <<>>)) >= room

\* What arrives of the strings of clients: of an escape the parser drops the
\* backslash only, and keeps the letter.
Arrived(s) ==
  [i \in 1..Len(s) |-> IF s[i] \in DOMAIN Letter THEN Letter[s[i]] ELSE s[i]]

ArrivedItem(item) ==
  IF item.type = "string" THEN String(Arrived(item.string)) ELSE item

ArrivedNode(node) == [depth |-> node.depth, key |-> Arrived(node.key),
                      item |-> ArrivedItem(node.item)]

ArrivedValue(v) == [i \in 1..Len(v) |-> ArrivedNode(v[i])]

\* What the client made of the value has arrived complete.
Whole == \E space \in Spaces : text = Text(value, space)

\* json_parse gives back the value a client, or json_serialize, made the text of,
\* whatever lies behind the text in memory: all of it, but for characters that
\* the client wrote as an escaped letter, of which the letter is left (n of a
\* newline).  When an allocation failed it may refuse the text, but never gives
\* back something else.
RoundTrip ==
  value # <<>> =>
    /\ pc = "parsed" => tree = ArrivedValue(value) /\ memory.failed = 0
    /\ pc \in {"refused", "crashed"} /\ memory.failed = 0 => ~Whole

\* A text of a value that stops short is refused (test_anti_parsing), also if what
\* lies behind it in memory would complete it.
PrefixRefused == pc = "parsed" /\ value # <<>> => Whole

\* Whatever the text is, what is allocated is freed, and once only: by the
\* serialising task, by http_handle_message, and by json_parse itself when it
\* refuses a text or runs out of memory; then it loses at most the strings it
\* could not make shorter.
\* The program follows a NULL pointer only when an allocation had failed.
MemoryReturned ==
  /\ ~memory.wrong
  /\ pc \in {"released", "refused"} =>
       memory.heap = {} /\ (memory.failed = 0 => memory.lost = 0)
  /\ pc = "refused" => memory.lost <= memory.failed
  /\ pc = "crashed" => memory.failed > 0
=============================================================================
