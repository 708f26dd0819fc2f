------------------------------- MODULE URLIntent -------------------------------
(***************************************************************************)
(* The URLs by which client and server name users, collections and blobs   *)
(* (src/src/common/hrb/URLIntent.cc and common/util/Escape.cc).  The       *)
(* client writes an intent as a URL, the server reads it, and writes URLs  *)
(* that clients read again (Location headers, links to a collection).      *)
(*                                                                         *)
(* A string is a sequence of characters.  The words for actions and query  *)
(* targets count as one character each, and the characters are those that  *)
(* the code tells apart: slash, question mark, number and percent sign,    *)
(* hex digits, others that stay as they are ("g"), and others that are     *)
(* escaped ("q", and "x", "y" and "z" outside ASCII).                      *)
(***************************************************************************)
EXTENDS Integers, Sequences, SequencesExt, FiniteSets

CONSTANTS
  Intents,   \* what is written, [act, user, coll, file, option, query]
  Targets,   \* what is read from elsewhere
  IdLength   \* the digits of a blob's ID (40)

ASSUME URLAssumption == IdLength \in Nat \ {0}

VARIABLES
  sent,   \* the intent that was written, or NoIntent for a URL from elsewhere
  url,    \* the URL
  got     \* the intent that was read, or NoIntent if it was not yet read

vars == <<sent, url, got>>

NoIntent == [act |-> "none", user |-> <<>>, coll |-> <<>>, file |-> <<>>, option |-> <<>>, query |-> "none", ok |-> FALSE]

-----------------------------------------------------------------------------
(* Escape.cc *)

Digits == {"2", "3", "5", "F"}

\* The codes of characters.
Codes ==
  [c \in {"%", "?", "#", "q", "x", "y", "z", "/", "2", "3"} |->
    CASE c = "%" -> <<"2", "5">>
      [] c = "?" -> <<"3", "F">>
      [] c = "#" -> <<"2", "3">>
      [] c = "q" -> <<"2", "2">>
      [] c = "x" -> <<"F", "3">>
      [] c = "y" -> <<"F", "2">>
      [] c = "z" -> <<"F", "F">>
      [] c = "/" -> <<"2", "F">>
      [] c = "2" -> <<"3", "2">>
      [] c = "3" -> <<"3", "3">>]

\* A bug: the percent sign is not escaped.
NeedEscapeNotPercent(c) == c \in {"?", "#", "q", "x", "y", "z"}

need_escape(c) == c \in {"%", "?", "#", "q", "x", "y", "z"}

url_encode(s) == FlattenSeq([i \in DOMAIN s |-> IF need_escape(s[i]) THEN <<"%">> \o Codes[s[i]] ELSE <<s[i]>>])

from_hex(code) == CHOOSE c \in DOMAIN Codes : Codes[c] = code

RECURSIVE url_decode(_)
\* Decoding ends at an escape that is cut off or is not in hex.
url_decode(s) ==
  IF s = <<>> THEN <<>>
  ELSE IF Head(s) # "%" THEN <<Head(s)>> \o url_decode(Tail(s))
  ELSE IF Len(s) >= 3 /\ s[2] \in Digits /\ s[3] \in Digits
       THEN <<from_hex(SubSeq(s, 2, 3))>> \o url_decode(SubSeq(s, 4, Len(s)))
       ELSE <<>>

\* The first and the last place of one of these characters, or the place after the
\* end and before the beginning.
First(s, chars) == CHOOSE i \in 1 .. Len(s) + 1 :
  (i <= Len(s) => s[i] \in chars) /\ \A j \in 1 .. i - 1 : s[j] \notin chars

Final(s, chars) == CHOOSE i \in 0 .. Len(s) :
  (i > 0 => s[i] \in chars) /\ \A j \in i + 1 .. Len(s) : s[j] \notin chars

\* split_left and split_right: the field, what is left of the string, and whether
\* a separator was found.
split_left(s, chars) ==
  LET i == First(s, chars)
  IN [field |-> SubSeq(s, 1, i - 1), rest |-> SubSeq(s, i + 1, Len(s)), sep |-> IF i <= Len(s) THEN s[i] ELSE "none"]

split_right(s, chars) ==
  LET i == Final(s, chars)
  IN [field |-> SubSeq(s, i + 1, Len(s)), rest |-> SubSeq(s, 1, i - 1)]

\* ObjectID::is_hex
is_hex(s) == Len(s) = IdLength /\ \A i \in DOMAIN s : s[i] \in Digits

-----------------------------------------------------------------------------
(* URLIntent.cc *)

RECURSIVE trim(_)
trim(s) ==
  IF s # <<>> /\ Head(s) = "/" THEN trim(Tail(s))
  ELSE IF s # <<>> /\ Last(s) = "/" THEN trim(Front(s))
  ELSE s

\* extract_left: the separator is removed if it is a slash.
extract_left(s) ==
  LET split == split_left(s, {"/", "?", "#"})
  IN [field |-> split.field,
      rest |-> IF split.sep = "/" THEN split.rest ELSE SubSeq(s, Len(split.field) + 1, Len(s))]

\* parse_field_from_right for a blob: the last segment is taken if it is an ID; for
\* a filename it is always taken.
parse_last(act, s) ==
  LET split == split_right(s, {"/"})
  IN IF act = "upload" \/ is_hex(split.field) THEN split ELSE [field |-> <<>>, rest |-> s]

QueryTargets == {"blob", "collection", "blob_set"}

\* parse_query_target
parse_query_target(s) == IF s # <<>> /\ s[1] \in QueryTargets /\ Len(s) = 1 THEN s[1] ELSE "none"

Word == {"login", "logout", "view", "upload", "lib", "query", "api"}

\* parse_action; no word at all is the home page.
parse_action(s) ==
  CASE s = <<>> -> "home"
    [] Len(s) = 1 /\ s[1] \in Word -> s[1]
    [] OTHER -> "none"

\* The constructor from an action and the names: names lose the slashes around them.
MakeIntent(act, user, coll, name, option) ==
  [act |-> act, user |-> trim(user), coll |-> trim(coll), file |-> trim(name), option |-> option, query |-> "none",
   ok |-> IF act \in {"api", "view"} THEN trim(name) = <<>> \/ is_hex(trim(name)) ELSE act \in {"upload", "lib"}]

MakeAction(act) == [NoIntent EXCEPT !.act = act, !.ok = act \in {"login", "logout", "home"}]

\* The constructor from a query target does not set m_valid.
MakeQuery(target, option) == [NoIntent EXCEPT !.act = "query", !.option = option, !.query = target]

\* valid, with require_user and require_filename.
valid(i) ==
  /\ i.act # "none"
  /\ i.act \in {"view", "upload", "api"} => i.user # <<>>
  /\ i.act \in {"upload", "lib"} => i.file # <<>>
  /\ i.ok

\* A bug: the slashes around the collection are kept.
ParsePathUntrimmed(i, s) ==
  LET left == extract_left(s)
      right == parse_last(i.act, left.rest)
  IN [i EXCEPT !.user = url_decode(left.field), !.file = url_decode(right.field), !.coll = url_decode(right.rest)]

\* parse_field_from_left and _right for user, collection and blob or filename: the
\* user from the left, the filename or blob from the right, and the collection is
\* all that is between.
parse_path(i, s) ==
  LET left == extract_left(s)
      right == parse_last(i.act, left.rest)
  IN [i EXCEPT !.user = url_decode(left.field), !.file = url_decode(right.field), !.coll = url_decode(trim(right.rest))]

\* parse_field_from_left for what has one field only; what is left is unwanted.
parse_single(i, s) ==
  LET left == extract_left(s)
  IN IF i.act = "lib" THEN [i EXCEPT !.file = url_decode(left.field), !.ok = @ /\ left.rest = <<>>]
     ELSE [i EXCEPT !.query = parse_query_target(left.field), !.ok = @ /\ left.rest = <<>>]

\* The fields of a path that has lost its action and its option.
parse_fields(i, s) ==
  CASE i.act \in {"view", "upload", "api"} -> parse_path(i, s)
    [] i.act \in {"lib", "query"} -> parse_single(i, s)
    [] OTHER -> [i EXCEPT !.ok = s = <<>>]

\* URLIntent(target)
parse(target) ==
  IF target = <<>> \/ Head(target) # "/" THEN NoIntent
  ELSE LET action == extract_left(Tail(target))
           act == parse_action(action.field)
           query == split_left(action.rest, {"?"})
       IN IF act = "none" THEN NoIntent
          ELSE parse_fields([NoIntent EXCEPT !.act = act, !.option = query.rest,
                                             !.ok = act = "query" => query.rest # <<>>], query.field)

\* A name with the slash that follows it.
Segment(s) == IF s = <<>> THEN <<>> ELSE Append(url_encode(s), "/")

\* write_path
write_path(i) == <<"/">> \o
  CASE i.act \in {"login", "logout"} -> <<i.act>>
    [] i.act \in {"view", "api"} -> <<i.act, "/">> \o Segment(i.user) \o Segment(i.coll) \o i.file
    [] i.act = "upload" -> <<i.act, "/">> \o Segment(i.user) \o Segment(i.coll) \o url_encode(i.file)
    [] i.act = "lib" -> <<i.act, "/">> \o url_encode(i.file)
    [] i.act = "query" -> <<i.act, "/">> \o IF i.query = "none" THEN <<>> ELSE <<i.query>>
    [] OTHER -> <<>>

str(i) == write_path(i) \o IF i.option = <<>> THEN <<>> ELSE <<"?">> \o i.option

-----------------------------------------------------------------------------
Init == sent = NoIntent /\ url = <<>> /\ got = NoIntent

\* A client, or the server for a Location or a link, writes an intent.
write ==
  /\ url = <<>>
  /\ \E i \in Intents : sent' = i /\ url' = str(i)
  /\ UNCHANGED got

\* A URL from elsewhere: typed, or kept from an earlier page.
enter ==
  /\ url = <<>>
  /\ url' \in Targets
  /\ UNCHANGED <<sent, got>>

\* The other side reads it.
read ==
  /\ url # <<>> /\ got = NoIntent
  /\ got' = parse(url)
  /\ UNCHANGED <<sent, url>>

\* What was read is written again, as in the Location of an upload.
forward ==
  /\ valid(got)
  /\ sent' = got /\ url' = str(got) /\ got' = NoIntent

Next == write \/ enter \/ read \/ forward

Spec == Init /\ [][Next]_vars

-----------------------------------------------------------------------------
Has(s, c) == \E i \in DOMAIN s : s[i] = c

\* The names can be told apart again: no slash in a name that is one segment, and
\* none around the collection.  (A collection may end like a blob's ID, as the slash
\* after it says that it is none.)
Separable(i) ==
  /\ ~Has(i.user, "/")
  /\ i.coll = trim(i.coll)
  /\ i.act \in {"upload", "lib"} => ~Has(i.file, "/")

\* A valid intent comes back from its URL as it was written exactly if its names are
\* separable, whatever characters they are made of (URLIntent::str and the parsing
\* constructor are inverse; url_encode leaves slashes as they are).
RoundTrip == got # NoIntent /\ valid(sent) => (got = sent <=> Separable(sent))

\* Every escape in the URL is whole, and of a character that url_encode escapes.
WellEscaped(s) == \A i \in DOMAIN s :
  s[i] = "%" => i + 2 <= Len(s) /\ \E c \in DOMAIN Codes : need_escape(c) /\ SubSeq(s, i + 1, i + 2) = Codes[c]

\* A valid intent read from a URL with proper escapes has separable names, so that it
\* survives being written and read again, whoever wrote the URL (the parsing
\* constructor against write_path).
ReadSeparable == valid(got) /\ WellEscaped(url) => Separable(got)
=============================================================================
