---------------------------- MODULE OpenMetadata ----------------------------
(***************************************************************************)
(* Stream metadata: internal/protocolv2/metadata.go, and its way from      *)
(* NewStreamMetadata (metadata.go) through encodeMetadata of the opening   *)
(* session to validateCanonicalMetadata and decodeMetadata of the          *)
(* accepting one.                                                          *)
(*                                                                         *)
(* A text of JSON is a tree that keeps what a parser may see and a value   *)
(* does not have: the order of members, repeated keys, escapes, the        *)
(* spelling of numbers, white space, trailing data.  Strings are a few     *)
(* representatives (see text).  The limits are constants.                  *)
(***************************************************************************)
EXTENDS Integers, Sequences, FiniteSets, SequencesExt, TLC

CONSTANTS
  MaxBytes, MaxDepth, MaxNodes, MaxKeys, MaxArray, MaxKey, MaxString,   \* MaxOpenMetadata*
  Values,      \* what applications pass to NewStreamMetadata
  Documents    \* what an accepting session may read: [root, spaced, trailing]

VARIABLES
  input,    \* [what |-> "value", value] or [what |-> "document", document]
  at,       \* "application", "opened", "wire", "delivered" or "refused"
  stream,   \* the StreamMetadata of the opening application
  wire,     \* the metadata of the OPEN
  got       \* the metadata the accepting application is given

metadataVars == <<input, at, stream, wire, got>>

\* Representatives: a letter, two letters, an HTML character (which json.Marshal escapes), a scalar from the end of the basic
\* plane and one above it (their UTF-8 order is not their UTF-16 order), a control character, and a long string.
text ==
  "empty" :> [size |-> 0, valid |-> TRUE, utf8 |-> 0, utf16 |-> 0, html |-> FALSE]
  @@ "a" :> [size |-> 1, valid |-> TRUE, utf8 |-> 1, utf16 |-> 1, html |-> FALSE]
  @@ "aa" :> [size |-> 2, valid |-> TRUE, utf8 |-> 2, utf16 |-> 2, html |-> FALSE]
  @@ "html" :> [size |-> 1, valid |-> TRUE, utf8 |-> 3, utf16 |-> 3, html |-> TRUE]
  @@ "basic" :> [size |-> 1, valid |-> TRUE, utf8 |-> 4, utf16 |-> 5, html |-> FALSE]
  @@ "astral" :> [size |-> 1, valid |-> TRUE, utf8 |-> 5, utf16 |-> 4, html |-> FALSE]
  @@ "control" :> [size |-> 1, valid |-> FALSE, utf8 |-> 6, utf16 |-> 6, html |-> FALSE]
  @@ "long" :> [size |-> 3, valid |-> TRUE, utf8 |-> 7, utf16 |-> 7, html |-> FALSE]

\* Numbers: what integerJSONPattern, ParseInt and the safe range make of them.
integer == "0" :> "0" @@ "1" :> "1" @@ "-0" :> "0"

\* NFC, assigned scalars and no control characters are text.valid; unicode15_1Assigned is not spelled out.
validOpenUnicodeString(t, max, allowEmpty) == text[t].size <= max /\ (allowEmpty \/ text[t].size > 0) /\ text[t].valid

lessUTF16(s, t) == text[s].utf16 < text[t].utf16

Fails == [ok |-> FALSE, nodes |-> 0, value |-> [lit |-> "null"]]
Parsed(value, nodes) == [ok |-> TRUE, nodes |-> nodes, value |-> value]

\* parseMetadataValue: the value of a tree at the given depth, nodes of the budget already being used.
RECURSIVE parseMetadataValue(_, _, _)
parseMetadataValue(node, depth, nodes) ==
  LET Child(acc, child) ==
        IF acc.ok THEN parseMetadataValue(child, depth + 1, acc.nodes) ELSE Fails
      Member(acc, m) ==
        LET child == Child(acc, m.value) IN
        IF /\ child.ok /\ Cardinality(DOMAIN acc.value.map) < MaxKeys
           /\ validOpenUnicodeString(m.key, MaxKey, FALSE) /\ m.key \notin DOMAIN acc.value.map
        THEN Parsed([map |-> m.key :> child.value @@ acc.value.map], child.nodes) ELSE Fails
      Item(acc, item) ==
        LET child == Child(acc, item) IN
        IF child.ok /\ Len(acc.value.items) < MaxArray
        THEN Parsed([items |-> Append(acc.value.items, child.value)], child.nodes) ELSE Fails
  IN CASE depth > MaxDepth \/ nodes + 1 > MaxNodes -> Fails
       [] "members" \in DOMAIN node -> FoldLeft(Member, Parsed([map |-> <<>>], nodes + 1), node.members)
       [] "items" \in DOMAIN node -> FoldLeft(Item, Parsed([items |-> <<>>], nodes + 1), node.items)
       [] "str" \in DOMAIN node -> IF validOpenUnicodeString(node.str, MaxString, TRUE)
                                   THEN Parsed([str |-> node.str], nodes + 1) ELSE Fails
       [] "num" \in DOMAIN node -> IF node.num \in DOMAIN integer
                                   THEN Parsed([num |-> integer[node.num]], nodes + 1) ELSE Fails
       [] OTHER -> Parsed(node, nodes + 1)

\* How a writer orders keys and spells strings.  appendCanonicalMetadata: by UTF-16 order, nothing escaped that need not be.
\* json.Marshal: by bytes, HTML characters escaped.
Before(writer, s, t) == IF writer = "canonical" THEN lessUTF16(s, t) ELSE text[s].utf8 < text[t].utf8
Plain(writer, t) == writer = "canonical" \/ ~text[t].html

RECURSIVE write(_, _)
write(writer, value) ==
  CASE "map" \in DOMAIN value ->
         LET keys == SetToSortSeq(DOMAIN value.map, LAMBDA s, t : Before(writer, s, t)) IN
         [members |-> [i \in DOMAIN keys |-> [key |-> keys[i], plain |-> Plain(writer, keys[i]),
                                              value |-> write(writer, value.map[keys[i]])]]]
    [] "items" \in DOMAIN value -> [items |-> [i \in DOMAIN value.items |-> write(writer, value.items[i])]]
    [] "str" \in DOMAIN value -> [str |-> value.str, plain |-> Plain(writer, value.str)]
    [] OTHER -> value

marshalCanonicalMetadata(value) == write("canonical", value)
marshalJSON(value) == write("json", value)

StringBytes(t, plain) == 2 + text[t].size + IF plain THEN 0 ELSE 5

\* The length of a text without white space.
RECURSIVE length(_)
length(node) ==
  CASE "members" \in DOMAIN node ->
         2 + FoldLeft(LAMBDA n, m : n + StringBytes(m.key, m.plain) + 1 + length(m.value), 0, node.members)
           + IF node.members = <<>> THEN 0 ELSE Len(node.members) - 1
    [] "items" \in DOMAIN node ->
         2 + FoldLeft(LAMBDA n, item : n + length(item), 0, node.items)
           + IF node.items = <<>> THEN 0 ELSE Len(node.items) - 1
    [] "str" \in DOMAIN node -> StringBytes(node.str, node.plain)
    [] "num" \in DOMAIN node -> IF node.num \in {"0", "1"} THEN 1 ELSE 2
    [] OTHER -> 4

IsObject(parsed) == parsed.ok /\ "map" \in DOMAIN parsed.value

\* Nodes used before the root is read, in MarshalOpenMetadata and in validateCanonicalMetadata: the root is free.
encoderNodes == -1
readerNodes == -1

MarshalOpenMetadata(value) ==
  LET parsed == parseMetadataValue(marshalJSON(value), 1, encoderNodes)
      canonical == marshalCanonicalMetadata(parsed.value)
  IN IF IsObject(parsed) /\ length(canonical) <= MaxBytes
     THEN [ok |-> TRUE, root |-> canonical] ELSE [ok |-> FALSE, root |-> [lit |-> "null"]]

sameBytes(document, parsed) == ~document.spaced /\ document.root = marshalCanonicalMetadata(parsed.value)

\* validateCanonicalMetadata of a document that is not empty, and decodeMetadata.
validateCanonicalMetadata(document) ==
  LET parsed == parseMetadataValue(document.root, 1, readerNodes) IN
  IF /\ length(document.root) <= MaxBytes /\ ~document.trailing
     /\ IsObject(parsed) /\ sameBytes(document, parsed)
  THEN parsed ELSE Fails

-----------------------------------------------------------------------------
Nothing == [lit |-> "null"]
Exactly(root) == [root |-> root, spaced |-> FALSE, trailing |-> FALSE]

Init ==
  /\ \/ /\ input \in [what : {"value"}, value : Values] /\ at = "application" /\ wire = Exactly(Nothing)
     \/ /\ input \in [what : {"document"}, document : Documents] /\ at = "wire" /\ wire = input.document
  /\ stream = Nothing
  /\ got = Nothing

\* NewStreamMetadata validates, and keeps a copy decoded from the canonical text.
NewStreamMetadata ==
  LET encoded == MarshalOpenMetadata(input.value) IN
  /\ at = "application"
  /\ IF encoded.ok
     THEN at' = "opened" /\ stream' = parseMetadataValue(encoded.root, 1, encoderNodes).value
     ELSE at' = "refused" /\ UNCHANGED stream
  /\ UNCHANGED <<input, wire, got>>

\* StreamMetadata.Values: a copy through the canonical text, or an empty object if that should fail.
copied(metadata) ==
  LET encoded == MarshalOpenMetadata(metadata) IN
  IF encoded.ok THEN parseMetadataValue(encoded.root, 1, encoderNodes).value ELSE [map |-> <<>>]

\* OpenStream: encodeMetadata of the copy.
OpenStream ==
  LET encoded == MarshalOpenMetadata(copied(stream)) IN
  /\ at = "opened"
  /\ IF encoded.ok
     THEN at' = "wire" /\ wire' = Exactly(encoded.root)
     ELSE at' = "refused" /\ UNCHANGED wire
  /\ UNCHANGED <<input, stream, got>>

\* The accepting session: ParseOpenPayload and decodeMetadata.
AcceptStream ==
  LET parsed == validateCanonicalMetadata(wire) IN
  /\ at = "wire"
  /\ IF parsed.ok THEN at' = "delivered" /\ got' = parsed.value ELSE at' = "refused" /\ UNCHANGED got
  /\ UNCHANGED <<input, stream, wire>>

Next == NewStreamMetadata \/ OpenStream \/ AcceptStream

Spec == Init /\ [][Next]_metadataVars

-----------------------------------------------------------------------------
TypeOK ==
  /\ at \in {"application", "opened", "wire", "delivered", "refused"}
  /\ stream = Nothing \/ "map" \in DOMAIN stream
  /\ got = Nothing \/ "map" \in DOMAIN got

\* Metadata that NewStreamMetadata accepted is never lost or refused later: the stream can be opened with it, the accepting
\* session takes it, and its application gets the same object.
MetadataSurvives ==
  /\ input.what = "value" /\ at = "refused" => stream = Nothing
  /\ input.what = "value" /\ at = "delivered" => got = stream

\* Metadata has one spelling: a document the accepting session takes is the one MarshalOpenMetadata writes for its content,
\* so that both ends hash the same OPEN.
OneSpelling ==
  input.what = "document" /\ at = "delivered" =>
    MarshalOpenMetadata(got) = [ok |-> TRUE, root |-> wire.root] /\ ~wire.spaced /\ ~wire.trailing
=============================================================================
