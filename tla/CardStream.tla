----------------------------- MODULE CardStream -----------------------------
(***************************************************************************)
(* The incremental parser of a streamed plan card                           *)
(* (core/streaming_card_parser.py): after every fragment the whole buffer   *)
(* is read twice, by scan_card_structure, which only matches brackets and   *)
(* names the step cards that are closed in the text, and by                 *)
(* _PartialJsonParser, which repairs the unfinished prefix into a value.    *)
(*                                                                          *)
(* The state is what both have computed for the prefix read so far, one     *)
(* token at a time.  Strings are reduced to the key "steps" and any other;  *)
(* scalars to one token (an unfinished scalar at the end of the buffer is   *)
(* accepted exactly where a finished one is).                               *)
(***************************************************************************)
EXTENDS Naturals, Sequences

CONSTANTS MaxDepth,   \* bound: containers open at once
          MaxItems,   \* bound: elements of one array
          MaxArrays   \* bound: repetitions of the top level key "steps"

ASSUME CardAssumption == MaxDepth \in Nat

VARIABLES frames,   \* scan: the open containers [kind, path, next, key]
          card_closed,   \* scan: indices of the closed cards, in order of closing
          valid,    \* scan: no bracket was mismatched
          expects,     \* parser: what it expects next, per innermost container
          items,    \* parser: number of elements of the value's steps array
          arrays,   \* how often the text has opened a top level "steps" value
          lexeme    \* "out", "in" (inside a string), or the string just ended

cardVars == <<frames, card_closed, valid, expects, items, arrays, lexeme>>

\* The containers, by their brackets.
Kinds     == {"object", "array"}
Top       == frames[Len(frames)]
SetTop(f) == [frames EXCEPT ![Len(frames)] = f]
Popped(s) == SubSeq(s, 1, Len(s) - 1)

NoKey == "none"
Root  == [at |-> "root"]
Steps == [at |-> "steps"]
Other == [at |-> "other"]
Card(n) == [at |-> "card", index |-> n]

\* Mutant: a child path whose index is not advanced by the commas of its own array.
ChildPathFirst ==
    IF frames = <<>> THEN Root
    ELSE IF Top.kind = "array"
         THEN IF Top.path = Steps THEN Card(0) ELSE Other
         ELSE IF Top.key = NoKey THEN Top.path
              ELSE IF Top.path = Root /\ Top.key = "steps" THEN Steps ELSE Other

\* _child_path: the key or the index of the container about to be opened.
ChildPath ==
    IF frames = <<>> THEN Root
    ELSE IF Top.kind = "array"
         THEN IF Top.path = Steps THEN Card(Top.next) ELSE Other
         ELSE IF Top.key = NoKey THEN Top.path
              ELSE IF Top.path = Root /\ Top.key = "steps" THEN Steps ELSE Other

\* The parent's pending key is used up by the child.
Consumed == IF frames # <<>> /\ Top.kind = "object"
            THEN SetTop([Top EXCEPT !.key = NoKey]) ELSE frames

CardInit ==
    /\ frames = <<>> /\ card_closed = <<>> /\ valid = TRUE
    /\ expects = <<"start">>
    /\ items = 0 /\ arrays = 0
    /\ lexeme = "out"

-----------------------------------------------------------------------------
(* The parser's side of a token: expects holds one entry per open container   *)
(* on top of the document's own.                                           *)

Expect(m)  == [expects EXCEPT ![Len(expects)] = m]
Expects(S) == expects[Len(expects)] \in S
Fail       == <<"fail">>
Failed     == expects = Fail

\* Elements of the top level "steps" array: a value begins at depth two.
InSteps    == Len(frames) = 2 /\ Top.path = Steps /\ Top.kind = "array"
Counted    == IF InSteps THEN items + 1 ELSE items

ValueOK    == Expects({"first", "value"})

\* A failure is final: every longer prefix fails as well.
Reading == valid /\ ~Failed

-----------------------------------------------------------------------------
Open(kind) ==
    /\ lexeme # "in" /\ Reading /\ Len(frames) < MaxDepth
    /\ frames' = Append(Consumed, [kind |-> kind, path |-> ChildPath,
                                   next |-> 0, key |-> NoKey])
    /\ expects' = IF ~(IF Len(expects) = 1 THEN Expects({"start"}) /\ kind = "object" ELSE ValueOK)
               THEN Fail
               ELSE Append(Expect("after"), IF kind = "object" THEN "open" ELSE "first")
    /\ arrays' = IF ChildPath = Steps THEN arrays + 1 ELSE arrays
    /\ ChildPath = Steps => arrays < MaxArrays
    /\ items' = IF ChildPath = Steps THEN 0 ELSE Counted
    /\ lexeme' = "out"
    /\ UNCHANGED <<card_closed, valid>>

Close(kind) ==
    /\ lexeme # "in" /\ Reading
    /\ IF frames = <<>> \/ Top.kind # kind
       THEN /\ valid' = FALSE /\ card_closed' = <<>> /\ UNCHANGED frames
       ELSE /\ frames' = Popped(frames)
            /\ card_closed' = IF Top.kind = "object" /\ Top.path.at = "card"
                         THEN Append(card_closed, Top.path.index) ELSE card_closed
            /\ UNCHANGED valid
    /\ expects' = IF \/ Len(expects) = 1
                  \/ ~(IF kind = "object" THEN Expects({"open", "after"})
                                  ELSE Expects({"first", "after"}))
                  \/ (frames = <<>> \/ Top.kind # kind)
               THEN Fail ELSE Popped(expects)
    /\ lexeme' = "out"
    /\ UNCHANGED <<items, arrays>>

Comma ==
    /\ lexeme # "in" /\ Reading
    /\ frames # <<>> => Top.next < MaxItems
    /\ frames' = IF frames = <<>> THEN frames
                 ELSE IF Top.kind = "array" THEN SetTop([Top EXCEPT !.next = @ + 1])
                 ELSE SetTop([Top EXCEPT !.key = NoKey])
    /\ expects' = IF Len(expects) = 1 \/ ~Expects({"after"}) THEN Fail
               ELSE Expect(IF Top.kind = "array" THEN "value" ELSE "key")
    /\ lexeme' = "out"
    /\ UNCHANGED <<card_closed, valid, items, arrays>>

\* The scan sees the colon behind a string of an object: that string is the key.
Colon ==
    /\ lexeme # "in" /\ Reading
    /\ frames' = IF frames # <<>> /\ Top.kind = "object" /\ lexeme # "out"
                 THEN SetTop([Top EXCEPT !.key = lexeme]) ELSE frames
    /\ expects' = IF ~Expects({"colon"}) THEN Fail ELSE Expect("value")
    /\ lexeme' = "out"
    /\ UNCHANGED <<card_closed, valid, items, arrays>>

\* A quote opens a string, as a key or as a value.
OpenString ==
    /\ lexeme # "in" /\ Reading
    /\ expects' = IF Len(expects) = 1 THEN Fail
               ELSE IF Expects({"open", "key"}) THEN Expect("colon")
               ELSE IF ValueOK THEN Expect("after") ELSE Fail
    /\ items' = IF ValueOK THEN Counted ELSE items
    /\ lexeme' = "in"
    /\ UNCHANGED <<frames, card_closed, valid, arrays>>

CloseString(text) ==
    /\ lexeme = "in" /\ Reading
    /\ lexeme' = text
    /\ UNCHANGED <<frames, card_closed, valid, expects, items, arrays>>

\* A number or a literal, whole or cut off by the end of the buffer.
Scalar ==
    /\ lexeme # "in" /\ Reading
    /\ expects' = IF Len(expects) = 1 \/ ~ValueOK THEN Fail ELSE Expect("after")
    /\ items' = Counted
    /\ lexeme' = "out"
    /\ UNCHANGED <<frames, card_closed, valid, arrays>>

CardNext ==
    \/ \E kind \in Kinds : Open(kind) \/ Close(kind)
    \/ Comma \/ Colon \/ OpenString \/ Scalar
    \/ \E text \in {"steps", "text"} : CloseString(text)

CardSpec == CardInit /\ [][CardNext]_cardVars

-----------------------------------------------------------------------------
\* parse_partial_card: the value is None when either reading fails, or reads nothing.
HasValue == Reading /\ expects # <<"start">>
complete == HasValue /\ lexeme # "in" /\ frames = <<>>

CardTypeOK ==
    /\ Len(frames) <= MaxDepth
    /\ valid \in BOOLEAN
    /\ \A k \in 1..Len(expects) : expects[k] \in
          {"start", "open", "first", "key", "colon", "value", "after", "fail"}

\* The two readings of the buffer agree wherever there is a value: they have the
\* same containers open, the text counts as complete exactly when the parser has
\* read the whole object and repaired nothing, and the cards reported as closed
\* come in order, each of them an element the repaired value has.
ScanAgreesWithParser ==
    HasValue =>
       /\ Len(frames) = Len(expects) - 1
       /\ complete <=> expects = <<"after">>
       /\ arrays < 2 => \A k \in 1..Len(card_closed) :
             /\ card_closed[k] < items
             /\ k > 1 => card_closed[k - 1] < card_closed[k]
=============================================================================
