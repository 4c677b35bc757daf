---------------------------- MODULE BacklogText ----------------------------
(***************************************************************************)
(* A line of the backlog's file and the item it stands for: to_line and    *)
(* parse_items of core/src/backlog.rs.  A text is a sequence of pieces.    *)
(* The marks of a comment are two pieces each, <<"<!", "--">> and          *)
(* <<"--", ">">>, because taking marks out of a text can leave new ones;   *)
(* "ctx:" and "time", a time that can be parsed, are one.                  *)
(***************************************************************************)
EXTENDS Naturals, Sequences, SequencesExt

Open  == <<"<!", "--">>
Close == <<"--", ">">>

NoContext == <<"no context">>
Now       == "now"

At(text, i, marks) == SubSeq(text, i, i + Len(marks) - 1) = marks

\* backlog_path: the root of the git repository, or the best directory there is instead.
BacklogPath(found) ==
  LET i == SelectInSeq(<<"root", "cwd", "HOME">>, LAMBDA place : place \in found)
  IN  IF i = 0 THEN "/tmp" ELSE <<"root", "cwd", "HOME">>[i]

\* Where a mark is, first and last; 0 if nowhere.
Places(text, marks) == {i \in 1..(Len(text) - Len(marks) + 1) : At(text, i, marks)}
FirstPlace(text, marks) ==
  LET all == Places(text, marks)
  IN  IF all = {} THEN 0 ELSE CHOOSE i \in all : \A j \in all : i <= j
LastPlace(text, marks) ==
  LET all == Places(text, marks)
  IN  IF all = {} THEN 0 ELSE CHOOSE i \in all : \A j \in all : i >= j

Without(text, marks) ==
  FlattenSeq([i \in DOMAIN text |->
    IF i \in Places(text, marks) \/ i - 1 \in Places(text, marks) THEN <<>> ELSE <<text[i]>>])

Trim(text) ==
  LET solid == {i \in DOMAIN text : text[i] # " "}
  IN  IF solid = {} THEN <<>>
      ELSE SubSeq(text, CHOOSE i \in solid : \A j \in solid : i <= j,
                        CHOOSE i \in solid : \A j \in solid : i >= j)

-----------------------------------------------------------------------------
\* Two marks are urgent, and what follows is text, further marks included.
ParsePriority(text) ==
  CASE IsPrefix(<<"!", "!">>, text) -> [marks |-> 2, rest |-> SubSeq(text, 3, Len(text))]
    [] IsPrefix(<<"!">>, text) /\ ~IsPrefix(<<"!", "!">>, text) ->
         [marks |-> 1, rest |-> Tail(text)]
    [] ~IsPrefix(<<"!">>, text) -> [marks |-> 0, rest |-> text]

TagChar == {"a", "b", "_", "-", "--"}

\* extract_tags from the i-th piece on: after a tag it goes on behind it, else one piece on.
ExtractTags(text) ==
  LET End(i) == CHOOSE n \in i..Len(text) :
                  /\ \A j \in (i + 1)..n : text[j] \in TagChar
                  /\ n = Len(text) \/ text[n + 1] \notin TagChar
      StartsTag(i) == text[i] = "#" /\ (i = 1 \/ text[i - 1] = " ") /\ End(i) > i
      tags[n \in 0..Len(text)] ==
        LET i == Len(text) - n + 1
        IN  IF n = 0 THEN <<>>
            ELSE IF StartsTag(i) THEN <<SubSeq(text, i + 1, End(i))>> \o tags[Len(text) - End(i)]
            ELSE tags[n - 1]
  IN  tags[Len(text)]

\* sanitize_metadata_field: spaces, then the opening marks, then the closing ones.
SanitizeMetadataField(context) ==
  Without(Without([i \in DOMAIN context |-> IF context[i] = " " THEN "-" ELSE context[i]], Open),
          Close)

\* Backlog::add makes the item of what was typed.
NewItem(text, context) ==
  LET parsed == ParsePriority(text)
  IN  [text |-> parsed.rest, tags |-> ExtractTags(parsed.rest), marks |-> parsed.marks,
       context |-> IF context = NoContext THEN NoContext ELSE SanitizeMetadataField(context),
       createdAt |-> "time", completed |-> FALSE]

-----------------------------------------------------------------------------
Comment(context) ==
  IF context = NoContext THEN Open \o <<" ", "time", " ">> \o Close
  ELSE Open \o <<" ", "ctx:">> \o context \o <<" ", "time", " ">> \o Close

ToLine(item) ==
  <<IF item.completed THEN "- [x] " ELSE "- [ ] ">>
    \o [i \in 1..item.marks |-> "!"] \o item.text
    \o <<" ">> \o Comment(item.context)

\* Of a comment's inside; what cannot be parsed leaves the time of the load.
Metadata(inner) ==
  LET rest  == Tail(inner)
      space == LastPlace(rest, <<" ">>)
  IN  CASE inner = <<"time">> -> [context |-> NoContext, createdAt |-> "time"]
        [] IsPrefix(<<"ctx:">>, inner) /\ space > 0 /\ SubSeq(rest, space + 1, Len(rest)) = <<"time">> ->
             [context |-> SubSeq(rest, 1, space - 1), createdAt |-> "time"]
        [] OTHER -> [context |-> NoContext, createdAt |-> Now]

\* The last comment of the line, if it is closed; what follows it is dropped.
ParseCommentMetadata(text) ==
  LET start == LastPlace(text, Open)
      rest  == SubSeq(text, start, Len(text))
      end   == FirstPlace(rest, Close)
      found == Metadata(Trim(SubSeq(rest, 3, end - 1)))
  IN  IF start = 0 \/ end = 0
      THEN [body |-> text, context |-> NoContext, createdAt |-> Now]
      ELSE [body |-> Trim(SubSeq(text, 1, start - 1)),
            context |-> found.context, createdAt |-> found.createdAt]

\* parse_items of one line, which starts with its box.
ParseLine(line) ==
  LET parsed == ParseCommentMetadata(Tail(line))
      rest   == ParsePriority(Trim(parsed.body))
  IN  [text |-> rest.rest, tags |-> ExtractTags(rest.rest), marks |-> rest.marks,
       context |-> parsed.context, createdAt |-> parsed.createdAt,
       completed |-> Head(line) \in {"- [x] ", "- [X] "}]

\* A comment closed by the end of its own opening mark (<!-->, or <!---> which is not told
\* from it here) ends before it starts: the load panics.
PanicsOn(line) ==
  LET start == LastPlace(line, Open)
  IN  start > 0 /\ FirstPlace(SubSeq(line, start, Len(line)), Close) = 2

ParseItems(lines) ==
  LET kept == SelectSeq(lines, LAMBDA line : line # <<>> /\ Head(line) \in {"- [x] ", "- [X] ", "- [ ] "})
  IN  [i \in DOMAIN kept |-> ParseLine(kept[i])]
=============================================================================
