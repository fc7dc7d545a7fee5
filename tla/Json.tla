------------------------------- MODULE Json -------------------------------
(***************************************************************************)
(* JSON: Stf::serialize (Inc/Stuff/Serde/Serde.hpp), the serialisers of    *)
(* introspected types (IntroSerializers.hpp) and Serializers/JSON.hpp.     *)
(*                                                                         *)
(* serialize recurses through lists, tuples and structs; every level has a *)
(* list or an object serialiser of its own, all of them append to one      *)
(* stream.  The recursion is a stack of the levels under way, the          *)
(* innermost first, and the stream a sequence of tokens.  A reader, which  *)
(* is not of the library, takes the tokens up as JSON.                     *)
(*                                                                         *)
(* Scalars and texts are tokens: to_chars has room for every number, and   *)
(* texts are ones that need no escapes (the code leaves these to do).      *)
(* serialize_bytes writes nothing, so values with bytes are left out.      *)
(***************************************************************************)
EXTENDS Integers, Sequences

CONSTANT Values  \* leaves [leaf], lists [items] and structs [fields], whose fields are [key, value]

VARIABLES value,    \* what is serialised
          pending,  \* the value serialize was called for, in a sequence, until it starts
          levels,   \* the serialisers under way: what is left to do, and m_empty
          stream,
          reading,  \* the containers the reader has open
          got       \* the value the reader has read, in a sequence

jsonVars == << value, pending, levels, stream, reading, got >>

IsLeaf(v) == "leaf" \in DOMAIN v
IsList(v) == "items" \in DOMAIN v

JsonInit ==
  /\ value \in Values
  /\ pending = << value >>
  /\ levels = << >>
  /\ stream = << >>
  /\ reading = << >> /\ got = << >>

-----------------------------------------------------------------------------
\* serialize of a leaf: one of the _libstf_adl_serializer overloads
SerializeLeaf ==
  /\ pending # << >> /\ IsLeaf(pending[1])
  /\ stream' = Append(stream, << "leaf", pending[1].leaf >>)
  /\ pending' = << >>
  /\ UNCHANGED << value, levels, reading, got >>

\* intro_serialize of a list or a tuple, up to its first element: the
\* constructor of ListSerializer writes the bracket
SerializeList ==
  /\ pending # << >> /\ ~IsLeaf(pending[1]) /\ IsList(pending[1])
  /\ stream' = Append(stream, << "[" >>)
  /\ levels' = << [left |-> pending[1].items, list |-> TRUE, empty |-> TRUE] >> \o levels
  /\ pending' = << >>
  /\ UNCHANGED << value, reading, got >>

SerializeStruct ==
  /\ pending # << >> /\ ~IsLeaf(pending[1]) /\ ~IsList(pending[1])
  /\ stream' = Append(stream, << "{" >>)
  /\ levels' = << [left |-> pending[1].fields, list |-> FALSE, empty |-> TRUE] >> \o levels
  /\ pending' = << >>
  /\ UNCHANGED << value, reading, got >>

\* (slip) No comma is written between elements
Separator_none(level) == << >>

\* What serialize_element writes before an element
Separator(level) == IF level.empty THEN << >> ELSE << << "," >> >>

\* serialize_element, up to the element's own serialize; a key goes through
\* serialize too, and is a text
SerializeElement ==
  /\ pending = << >> /\ levels # << >> /\ levels[1].left # << >>
  /\ LET level == levels[1]
         next == Head(level.left)
     IN  /\ stream' = stream \o Separator(level)
                       \o (IF level.list THEN << >> ELSE << << "leaf", next.key >>, << ":" >> >>)
         /\ pending' = << IF level.list THEN next ELSE next.value >>
         /\ levels' = << [level EXCEPT !.left = Tail(@), !.empty = FALSE] >> \o Tail(levels)
  /\ UNCHANGED << value, reading, got >>

\* (slip) An object is closed like a list
Closing_bracket(level) == << "]" >>

Closing(level) == IF level.list THEN << "]" >> ELSE << "}" >>

\* end()
EndLevel ==
  /\ pending = << >> /\ levels # << >> /\ levels[1].left = << >>
  /\ stream' = Append(stream, Closing(levels[1]))
  /\ levels' = Tail(levels)
  /\ UNCHANGED << value, pending, reading, got >>

-----------------------------------------------------------------------------
(***************************************************************************)
(* The reader.  An open container has a kind, the items or fields read so  *)
(* far, and what may come next: "first" (an item or the end), "item",      *)
(* "key", "colon", "value" or "separator" (a comma or the end).            *)
(***************************************************************************)
Serialized == pending = << >> /\ levels = << >>

OpenList == [list |-> TRUE, read |-> << >>, key |-> << >>, state |-> "first"]
OpenObject == [list |-> FALSE, read |-> << >>, key |-> << >>, state |-> "first"]

\* A value v is complete in the containers "open"
Took(open, v) ==
  IF open = << >> THEN /\ got = << >> /\ got' = << v >> /\ reading' = << >>
  ELSE LET top == open[1]
       IN  /\ top.state \in (IF top.list THEN {"first", "item"} ELSE {"value"})
           /\ reading' = << [top EXCEPT !.state = "separator",
                                        !.read = Append(@, IF top.list THEN v
                                                           ELSE [key |-> top.key[1], value |-> v])] >>
                            \o Tail(open)
           /\ UNCHANGED got

TakesKey == reading # << >> /\ ~reading[1].list /\ reading[1].state \in {"first", "key"}

\* What the reader does with a token, if the token may stand there
ReadsToken(token) ==
  \/ /\ token[1] = "leaf" /\ ~TakesKey
     /\ Took(reading, [leaf |-> token[2]])
  \/ /\ token[1] = "leaf" /\ TakesKey
     /\ reading' = << [reading[1] EXCEPT !.state = "colon", !.key = << token[2] >>] >> \o Tail(reading)
     /\ UNCHANGED got
  \/ /\ token[1] = ":" /\ reading # << >> /\ reading[1].state = "colon"
     /\ reading' = << [reading[1] EXCEPT !.state = "value"] >> \o Tail(reading)
     /\ UNCHANGED got
  \/ /\ token[1] = "," /\ reading # << >> /\ reading[1].state = "separator"
     /\ reading' = << [reading[1] EXCEPT !.state = IF reading[1].list THEN "item" ELSE "key"] >> \o Tail(reading)
     /\ UNCHANGED got
  \/ /\ token[1] = "[" /\ ~TakesKey
     /\ reading' = << OpenList >> \o reading
     /\ UNCHANGED got
  \/ /\ token[1] = "{" /\ ~TakesKey
     /\ reading' = << OpenObject >> \o reading
     /\ UNCHANGED got
  \/ /\ token[1] = "]" /\ reading # << >> /\ reading[1].list /\ reading[1].state \in {"first", "separator"}
     /\ Took(Tail(reading), [items |-> reading[1].read])
  \/ /\ token[1] = "}" /\ reading # << >> /\ ~reading[1].list /\ reading[1].state \in {"first", "separator"}
     /\ Took(Tail(reading), [fields |-> reading[1].read])

ReadToken ==
  /\ Serialized /\ stream # << >>
  /\ ReadsToken(Head(stream))
  /\ stream' = Tail(stream)
  /\ UNCHANGED << value, pending, levels >>

JsonNext ==
  \/ SerializeLeaf \/ SerializeList \/ SerializeStruct
  \/ SerializeElement \/ EndLevel
  \/ ReadToken

JsonSpec == JsonInit /\ [][JsonNext]_jsonVars

-----------------------------------------------------------------------------
(***************************************************************************)
(* The stream is JSON and says the value: the reader can take every token  *)
(* where it stands, and has in the end exactly the value that was          *)
(* serialised, with all items in order and at their level.                 *)
(***************************************************************************)
ReadsBack ==
  Serialized => IF stream = << >> THEN got = << value >> /\ reading = << >>
                                  ELSE ENABLED ReadToken
=============================================================================
