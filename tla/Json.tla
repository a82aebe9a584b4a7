-------------------------------- MODULE Json --------------------------------
(***************************************************************************)
(* The guest agent's JSON reader and writer (agentos/src/json.c): buffers  *)
(* that grow, the string writer, the recursive-descent parser with every   *)
(* path on which memory runs out, and the accessors.                       *)
(*                                                                         *)
(* A text is a sequence of symbols, each a character or a group of         *)
(* characters the code treats as one:                                      *)
(*   "q" "b" "n" "_"   a quotation mark, a backslash, a letter n, a blank  *)
(*   "nl" "ctl" "nul"  a line feed, another control character, NUL         *)
(*   "C3" "E2" "80"    a UTF-8 lead byte of two, of three, a continuation  *)
(*   "C0" "FF"         a lead byte no strict decoder takes, no lead byte   *)
(*   "rep" "pair"      U+FFFD and a character beyond U+FFFF, encoded       *)
(*   "Xnul" "Xhigh"... the four hex digits of an escape                    *)
(* The heap is a count of live blocks and of allocations so far; the       *)
(* allocation numbered fail is refused.                                    *)
(***************************************************************************)
EXTENDS Integers, Sequences

CONSTANTS MinCap,     \* BUFFER_MIN_CAP
          SizeMax,    \* SIZE_MAX
          NumberMax   \* NUMBER_TEXT_MAX

ASSUME JsonAssumption ==
    /\ MinCap \in Nat \ {0}
    /\ SizeMax \in Nat /\ SizeMax >= MinCap
    /\ NumberMax \in Nat \ {0}

-----------------------------------------------------------------------------
(* Buffers.                                                                *)

Heap(fail) == [allocs |-> 0, live |-> 0, fail |-> fail]

Refused(h)  == h.allocs + 1 = h.fail
Attempt(h)  == [h EXCEPT !.allocs = @ + 1]
Alloc(h)    == [Attempt(h) EXCEPT !.live = @ + 1]
Free(h, n)  == [h EXCEPT !.live = @ - n]

EmptyBuffer == [data |-> <<>>, cap |-> 0]

\* The block a buffer owns, if it owns one.
BlockOf(buf) == IF buf.cap = 0 THEN 0 ELSE 1

RECURSIVE Doubled(_, _)
Doubled(cap, needed) ==
    IF cap >= needed THEN cap
    ELSE IF cap > SizeMax \div 2 THEN 0
    ELSE Doubled(2 * cap, needed)

NoRoom_Ignored(h, buf) == [ok |-> TRUE, h |-> h, buf |-> buf]
NoRoom(h, buf) == [ok |-> FALSE, h |-> h, buf |-> buf]

\* buffer_append: capacity doubles until the bytes and a NUL fit; a buffer that
\* cannot grow is left as it was.
Append_(h, buf, bytes) ==
    LET needed == Len(buf.data) + Len(bytes) + 1
        cap    == Doubled(IF buf.cap = 0 THEN MinCap ELSE buf.cap, needed)
    IN  IF needed <= buf.cap
        THEN [ok |-> TRUE, h |-> h, buf |-> [buf EXCEPT !.data = @ \o bytes]]
        ELSE IF cap = 0
        THEN NoRoom(h, buf)
        ELSE IF Refused(h)
        THEN NoRoom(Attempt(h), buf)
        ELSE [ok  |-> TRUE,
              h   |-> IF buf.cap = 0 THEN Alloc(h) ELSE Attempt(h),
              buf |-> [data |-> buf.data \o bytes, cap |-> cap]]

-----------------------------------------------------------------------------
(* The writer.                                                             *)

\* utf8_sequence_len: only the form of the bytes is looked at, so an overlong
\* lead byte counts as any other.
LeadLength == [C0 |-> 2, C3 |-> 2, E2 |-> 3]

SequenceLength(bytes, i) ==
    IF bytes[i] \notin DOMAIN LeadLength \cup {"FF", "80"} THEN 1
    ELSE IF bytes[i] \in {"FF", "80"} THEN 0
    ELSE LET n == LeadLength[bytes[i]]
         IN  IF /\ i + n - 1 <= Len(bytes)
                /\ \A k \in i + 1 .. i + n - 1 : bytes[k] = "80"
             THEN n ELSE 0

Shortcut_NoBackslash == [q |-> <<"b", "q">>, nl |-> <<"b", "n">>]
Shortcut == [q |-> <<"b", "q">>, b |-> <<"b", "b">>, nl |-> <<"b", "n">>]

Escaped(bytes, i) ==
    IF bytes[i] \in DOMAIN Shortcut
    THEN [text |-> Shortcut[bytes[i]], next |-> i + 1]
    ELSE IF bytes[i] \in {"ctl", "nul"}
    THEN [text |-> <<"b", "u", IF bytes[i] = "nul" THEN "Xnul" ELSE "Xctl">>,
          next |-> i + 1]
    ELSE IF SequenceLength(bytes, i) = 0
    THEN [text |-> <<"b", "u", "Xrep">>, next |-> i + 1]
    ELSE [text |-> SubSeq(bytes, i, i + SequenceLength(bytes, i) - 1),
          next |-> i + SequenceLength(bytes, i)]

\* json_write_string, from byte i on.
RECURSIVE WriteFrom(_, _, _, _)
WriteFrom(h, buf, bytes, i) ==
    IF i > Len(bytes) THEN Append_(h, buf, <<"q">>)
    ELSE LET e == Escaped(bytes, i)
             r == Append_(h, buf, e.text)
         IN  IF r.ok THEN WriteFrom(r.h, r.buf, bytes, e.next) ELSE r

WriteString(h, buf, bytes) ==
    LET r == Append_(h, buf, <<"q">>)
    IN  IF r.ok THEN WriteFrom(r.h, r.buf, bytes, 1) ELSE r

-----------------------------------------------------------------------------
(* Values.  An array's and an object's children are kids; a member carries *)
(* its key, unless there was no memory for an empty one.                   *)

Value(type, str, kids) ==
    [type |-> type, str |-> str, kids |-> kids, keyed |-> FALSE, key |-> <<>>]

Nothing == Value("nothing", <<>>, <<>>)

RECURSIVE Blocks(_), BlocksOfAll(_)
Blocks(v) ==
    1 + (IF v.type = "string" THEN 1 ELSE 0) + (IF v.keyed THEN 1 ELSE 0)
      + BlocksOfAll(v.kids)
BlocksOfAll(kids) ==
    IF kids = <<>> THEN 0 ELSE Blocks(Head(kids)) + BlocksOfAll(Tail(kids))

JsonFree(h, v) == Free(h, Blocks(v))

-----------------------------------------------------------------------------
(* The parser.  Its state is the place of the next symbol and the heap;    *)
(* what a function returns is [ok, pos, h, v].                             *)

Fail(pos, h)  == [ok |-> FALSE, pos |-> pos, h |-> h, v |-> Nothing]
Done(pos, h, v) == [ok |-> TRUE, pos |-> pos, h |-> h, v |-> v]

At(t, pos, s) == pos <= Len(t) /\ t[pos] = s

RECURSIVE SkipBlank(_, _)
SkipBlank(t, pos) == IF At(t, pos, "_") \/ At(t, pos, "nl")
                     THEN SkipBlank(t, pos + 1) ELSE pos

Hex == [Xnul |-> "nul", Xctl |-> "ctl", Xrep |-> "rep"]

Simple == [q |-> "q", b |-> "b", n |-> "nl"]

\* parse_escape: what an escape stands for and where it ends.  A high surrogate
\* takes the escape after it if that is a low one; a surrogate on its own
\* becomes U+FFFD.
Escape(t, pos) ==
    IF pos <= Len(t) /\ t[pos] \in DOMAIN Simple
    THEN [ok |-> TRUE, bytes |-> <<Simple[t[pos]]>>, pos |-> pos + 1]
    ELSE IF At(t, pos, "u") /\ pos < Len(t)
            /\ t[pos + 1] \in DOMAIN Hex \cup {"Xhigh", "Xlow"}
    THEN IF /\ t[pos + 1] = "Xhigh"
            /\ At(t, pos + 2, "b") /\ At(t, pos + 3, "u") /\ At(t, pos + 4, "Xlow")
         THEN [ok |-> TRUE, bytes |-> <<"pair">>, pos |-> pos + 5]
         ELSE [ok    |-> TRUE,
               bytes |-> <<IF t[pos + 1] \in DOMAIN Hex
                           THEN Hex[t[pos + 1]] ELSE "rep">>,
               pos   |-> pos + 2]
    ELSE [ok |-> FALSE, bytes |-> <<>>, pos |-> pos]

\* parse_string_into, after the opening quotation mark.
RECURSIVE StringFrom(_, _, _, _)
StringFrom(t, pos, h, buf) ==
    IF pos > Len(t) THEN [ok |-> FALSE, pos |-> pos, h |-> h, buf |-> buf]
    ELSE IF t[pos] = "q"
    THEN [ok |-> TRUE, pos |-> pos + 1, h |-> h, buf |-> buf]
    ELSE LET e == IF t[pos] = "b" THEN Escape(t, pos + 1)
                  ELSE [ok |-> TRUE, bytes |-> <<t[pos]>>, pos |-> pos + 1]
             r == Append_(h, buf, e.bytes)
         IN  IF ~e.ok THEN [ok |-> FALSE, pos |-> pos, h |-> h, buf |-> buf]
             ELSE IF ~r.ok THEN [ok |-> FALSE, pos |-> pos, h |-> r.h, buf |-> r.buf]
             ELSE StringFrom(t, e.pos, r.h, r.buf)

StringInto(t, pos, h) ==
    IF At(t, pos, "q") THEN StringFrom(t, pos + 1, h, EmptyBuffer)
    ELSE [ok |-> FALSE, pos |-> pos, h |-> h, buf |-> EmptyBuffer]

\* parse_string: the value, then a block for an empty string.
ParseString(t, pos, h) ==
    LET s  == StringInto(t, pos, h)
        h1 == Alloc(s.h)
    IN  IF ~s.ok THEN Fail(s.pos, Free(s.h, BlockOf(s.buf)))
        ELSE IF Refused(s.h)
        THEN Fail(s.pos, Free(Attempt(s.h), BlockOf(s.buf)))
        ELSE IF s.buf.cap > 0
        THEN Done(s.pos, h1, Value("string", s.buf.data, <<>>))
        ELSE IF Refused(h1) THEN Fail(s.pos, Free(Attempt(h1), 1))
        ELSE Done(s.pos, Alloc(h1), Value("string", <<>>, <<>>))

\* value_new for a value without text.
NewValue(pos, h, v) ==
    IF Refused(h) THEN Fail(pos, Attempt(h)) ELSE Done(pos, Alloc(h), v)

\* parse_number: as many number characters as there are, one of them a digit,
\* fewer than NUMBER_TEXT_MAX; strtod makes what it can of them.
RECURSIVE NumberEnd(_, _)
NumberEnd(t, pos) ==
    IF pos <= Len(t) /\ t[pos] \in {"1", "-", ".", "e"}
    THEN NumberEnd(t, pos + 1) ELSE pos

ParseNumber(t, pos, h) ==
    LET end    == NumberEnd(t, pos)
        number == SubSeq(t, pos, end - 1)
    IN  IF \/ \A k \in DOMAIN number : number[k] # "1"
           \/ Len(number) >= NumberMax
        THEN Fail(end, h)
        ELSE NewValue(end, h, Value("number", number, <<>>))

Words == [null |-> <<"n", "u", "l", "l">>, true |-> <<"t", "r", "u", "e">>]

ParseLiteral(t, pos, h, word) ==
    LET end == pos + Len(Words[word])
    IN  IF end - 1 <= Len(t) /\ SubSeq(t, pos, end - 1) = Words[word]
        THEN NewValue(end, h, Value(word, <<>>, <<>>))
        ELSE Fail(pos, h)

\* The bracket that ends a list of items or members.
Closes_AtEnd(t, pos, bracket) == pos > Len(t) \/ At(t, pos, bracket)
Closes(t, pos, bracket) == At(t, pos, bracket)

RECURSIVE ParseValue(_, _, _), Items(_, _, _, _), Members(_, _, _, _)

\* parse_array: the array is allocated first and freed with what it holds.
ParseArray(t, pos, h) ==
    LET new   == NewValue(pos + 1, h, Value("array", <<>>, <<>>))
        first == SkipBlank(t, pos + 1)
    IN  IF ~new.ok THEN new
        ELSE IF Closes(t, first, "]") THEN Done(first + 1, new.h, new.v)
        ELSE Items(t, first, new.h, new.v)

Items(t, pos, h, array) ==
    LET item == ParseValue(t, pos, h)
        more == [array EXCEPT !.kids = Append(@, item.v)]
        next == SkipBlank(t, item.pos)
    IN  IF ~item.ok THEN Fail(item.pos, JsonFree(item.h, array))
        ELSE IF At(t, next, ",") THEN Items(t, next + 1, item.h, more)
        ELSE IF Closes(t, next, "]") THEN Done(next + 1, item.h, more)
        ELSE Fail(next, JsonFree(item.h, more))

ParseObject(t, pos, h) ==
    LET new   == NewValue(pos + 1, h, Value("object", <<>>, <<>>))
        first == SkipBlank(t, pos + 1)
    IN  IF ~new.ok THEN new
        ELSE IF Closes(t, first, "}") THEN Done(first + 1, new.h, new.v)
        ELSE Members(t, first, new.h, new.v)

\* One member of parse_object: key, colon, value; the value takes the key's
\* block, or one for an empty key if there is memory.
Keyed_Borrowed(member, h, buf) ==
    [v |-> [member EXCEPT !.keyed = TRUE, !.key = buf.data], h |-> h]
Keyed(member, h, buf) ==
    IF BlockOf(buf) = 0 /\ Refused(h)
    THEN [v |-> member, h |-> Attempt(h)]
    ELSE [v |-> [member EXCEPT !.keyed = TRUE, !.key = buf.data],
          h |-> IF BlockOf(buf) = 0 THEN Alloc(h) ELSE h]

\* A key that gets no value is freed with the object.
DropKey_Leaked(h, buf, object) == JsonFree(h, object)
DropKey(h, buf, object) == JsonFree(Free(h, BlockOf(buf)), object)

Members(t, pos, h, object) ==
    LET key    == StringInto(t, SkipBlank(t, pos), h)
        colon  == SkipBlank(t, key.pos)
        member == ParseValue(t, colon + 1, key.h)
        keyed  == Keyed(member.v, member.h, key.buf)
        more   == [object EXCEPT !.kids = Append(@, keyed.v)]
        next   == SkipBlank(t, member.pos)
    IN  IF ~key.ok \/ ~At(t, colon, ":")
        THEN Fail(key.pos, DropKey(key.h, key.buf, object))
        ELSE IF ~member.ok
        THEN Fail(member.pos, DropKey(member.h, key.buf, object))
        ELSE IF At(t, next, ",") THEN Members(t, next + 1, keyed.h, more)
        ELSE IF Closes(t, next, "}") THEN Done(next + 1, keyed.h, more)
        ELSE Fail(next, JsonFree(keyed.h, more))

ParseValue(t, from, h) ==
    LET pos == SkipBlank(t, from)
    IN  IF pos > Len(t) THEN Fail(pos, h)
        ELSE CASE t[pos] = "{" -> ParseObject(t, pos, h)
               [] t[pos] = "[" -> ParseArray(t, pos, h)
               [] t[pos] = "q" -> ParseString(t, pos, h)
               [] t[pos] = "t" -> ParseLiteral(t, pos, h, "true")
               [] t[pos] = "n" -> ParseLiteral(t, pos, h, "null")
               [] OTHER        -> ParseNumber(t, pos, h)

\* json_parse_len: what follows the first value is not looked at.
Parse(t, h) == ParseValue(t, 1, h)

-----------------------------------------------------------------------------
(* The accessors.  strcmp and strlen stop at a NUL, string_len does not.   *)

CString(s) ==
    SubSeq(s, 1, CHOOSE n \in 0 .. Len(s) :
                    /\ \A k \in 1 .. n : s[k] # "nul"
                    /\ n < Len(s) => s[n + 1] = "nul")

ObjectGet(v, key) ==
    LET Found == {k \in DOMAIN v.kids : /\ v.kids[k].keyed
                                        /\ CString(v.kids[k].key) = key}
    IN  IF v.type # "object" \/ Found = {} THEN Nothing
        ELSE v.kids[CHOOSE k \in Found : \A j \in Found : k <= j]

ArraySize(v) == IF v.type = "array" THEN Len(v.kids) ELSE 0

ArrayAt(v, i) == IF i < ArraySize(v) THEN v.kids[i + 1] ELSE Nothing
=============================================================================
