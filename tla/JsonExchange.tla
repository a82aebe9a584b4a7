---------------------------- MODULE JsonExchange ----------------------------
(***************************************************************************)
(* A value is written, its text arrives symbol by symbol, the connection   *)
(* may end at any of them, and what has arrived is read: the way of every  *)
(* request and reply of the guest agent (chat.c, llm.c over json.c).       *)
(* Either side may be refused one allocation.  A host may also send any    *)
(* text at all.                                                            *)
(***************************************************************************)
EXTENDS Json, FiniteSets

CONSTANTS Values,      \* what may be written
          Junk,        \* texts nobody wrote
          MaxRefused   \* bound: which allocation may be refused, 0 for none

VARIABLES
    meant,     \* the value written, Nothing for junk
    text,      \* the text on its way
    arrived,   \* symbols of it that have come
    phase,     \* "write", "carry", "read", "freed" or "unwritten"
    refused,   \* history: the reader was refused an allocation
    result     \* what the parser returned

vars == <<meant, text, arrived, phase, refused, result>>

-----------------------------------------------------------------------------
(* A value's text, put together in one buffer as chat.c does it.           *)

RECURSIVE WriteValue(_, _, _), WriteKids(_, _, _, _)
WriteValue(h, buf, v) ==
    CASE v.type = "string" -> WriteString(h, buf, v.str)
      [] v.type = "number" -> Append_(h, buf, v.str)
      [] v.type \in {"array", "object"} ->
           LET open == Append_(h, buf, IF v.type = "array" THEN <<"[">> ELSE <<"{">>)
           IN  IF open.ok THEN WriteKids(open.h, open.buf, v, 1) ELSE open
      [] OTHER -> Append_(h, buf, Words[v.type])

WriteKids(h, buf, v, k) ==
    IF k > Len(v.kids)
    THEN Append_(h, buf, IF v.type = "array" THEN <<"]">> ELSE <<"}">>)
    ELSE LET comma == IF k = 1 THEN [ok |-> TRUE, h |-> h, buf |-> buf]
                      ELSE Append_(h, buf, <<",">>)
             key   == IF v.type = "object" /\ comma.ok
                      THEN WriteString(comma.h, comma.buf, v.kids[k].key) ELSE comma
             colon == IF v.type = "object" /\ key.ok
                      THEN Append_(key.h, key.buf, <<":">>) ELSE key
             kid   == IF colon.ok THEN WriteValue(colon.h, colon.buf, v.kids[k])
                      ELSE colon
         IN  IF kid.ok THEN WriteKids(kid.h, kid.buf, v, k + 1) ELSE kid

-----------------------------------------------------------------------------
Init ==
    /\ arrived = 0
    /\ refused = FALSE
    /\ result = Fail(1, Heap(0))
    /\ \/ meant \in Values /\ text = <<>> /\ phase = "write"
       \/ meant = Nothing /\ text \in Junk /\ phase = "carry"

\* A request that cannot be written whole is not sent.
WriteIt(fail) ==
    /\ phase = "write"
    /\ LET w == WriteValue(Heap(fail), EmptyBuffer, meant)
       IN  /\ text' = w.buf.data
           /\ phase' = IF w.ok THEN "carry" ELSE "unwritten"
    /\ UNCHANGED <<meant, arrived, refused, result>>

Arrive ==
    /\ phase = "carry"
    /\ arrived < Len(text)
    /\ arrived' = arrived + 1
    /\ UNCHANGED <<meant, text, phase, refused, result>>

\* The connection has ended, and what came is parsed.
Read(fail) ==
    /\ phase = "carry"
    /\ meant = Nothing => arrived = Len(text)
    /\ result' = Parse(SubSeq(text, 1, arrived), Heap(fail))
    /\ refused' = (fail # 0 /\ fail <= result'.h.allocs)
    /\ phase' = "read"
    /\ UNCHANGED <<meant, text, arrived>>

Release ==
    /\ phase = "read"
    /\ result' = IF result.ok THEN Fail(result.pos, JsonFree(result.h, result.v))
                 ELSE result
    /\ phase' = "freed"
    /\ UNCHANGED <<meant, text, arrived, refused>>

Finished == phase \in {"freed", "unwritten"} /\ UNCHANGED vars

Next == \/ \E fail \in 0 .. MaxRefused : WriteIt(fail) \/ Read(fail)
        \/ Arrive \/ Release \/ Finished

Spec == Init /\ [][Next]_vars

-----------------------------------------------------------------------------
(* What was meant, as the reader should see it: bytes that are not UTF-8   *)
(* have become U+FFFD, one each.                                           *)

RECURSIVE Clean(_)
Clean(s) ==
    IF s = <<>> THEN <<>>
    ELSE IF Len(s) >= 2 /\ SubSeq(s, 1, 2) = <<"C3", "80">>
    THEN <<"C3", "80">> \o Clean(SubSeq(s, 3, Len(s)))
    ELSE IF Len(s) >= 3 /\ SubSeq(s, 1, 3) = <<"E2", "80", "80">>
    THEN <<"E2", "80", "80">> \o Clean(SubSeq(s, 4, Len(s)))
    ELSE <<IF Head(s) \in {"C3", "E2", "80", "FF"} THEN "rep" ELSE Head(s)>>
         \o Clean(Tail(s))

RECURSIVE Seen(_)
Seen(v) == [v EXCEPT !.str  = IF v.type = "string" THEN Clean(@) ELSE @,
                     !.key  = Clean(@),
                     !.kids = [k \in DOMAIN @ |-> Seen(@[k])]]

\* A value without the empty keys there was no memory for.
RECURSIVE Unkeyed(_)
Unkeyed(v) == [v EXCEPT !.keyed = @ /\ v.key # <<>>,
                        !.kids  = [k \in DOMAIN @ |-> Unkeyed(@[k])]]

Whole == phase = "read" /\ meant # Nothing /\ arrived = Len(text)

-----------------------------------------------------------------------------
(* Properties.                                                             *)

TypeOK ==
    /\ phase \in {"write", "carry", "read", "freed", "unwritten"}
    /\ arrived \in 0 .. Len(text)
    /\ result.ok \in BOOLEAN
    /\ result.h.live \in Nat

\* Whatever the text, wherever it ends and whichever allocation is refused, a
\* failed parse has freed all it allocated, a successful one holds exactly the
\* blocks of its value, and freeing the value returns them all.
NoBlockLost ==
    /\ phase = "read" =>
         result.h.live = IF result.ok THEN Blocks(result.v) ELSE 0
    /\ phase = "freed" => result.h.live = 0

\* What was written and came whole is read as it was meant, though the bytes may
\* be any a command printed; each index then finds its element and each key its
\* first member.
RoundTrip ==
    Whole /\ ~refused =>
        /\ result.ok
        /\ result.v = Seen(meant)
        /\ \A k \in DOMAIN meant.kids : meant.type = "array" =>
             ArrayAt(result.v, k - 1) = Seen(meant.kids[k])
        /\ \A k \in DOMAIN meant.kids : meant.type = "object" =>
             LET key   == meant.kids[k].key
                 first == CHOOSE i \in DOMAIN meant.kids :
                             /\ meant.kids[i].key = key
                             /\ \A j \in 1 .. i - 1 : meant.kids[j].key # key
             IN  ObjectGet(result.v, CString(Clean(key))) = Seen(meant.kids[first])

\* Anything but a number cut short anywhere is refused: the reader does not check the length
\* of a reply, so a connection that ends early must not look like a reply.
TornIsRefused ==
    phase = "read" /\ meant.type # "number" /\ arrived < Len(text) => ~result.ok

\* A value read when memory ran out is refused, or whole but for empty keys.
NeverPartial ==
    Whole /\ result.ok => Unkeyed(result.v) = Unkeyed(Seen(meant))
=============================================================================
