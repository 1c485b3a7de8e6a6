---------------------------- MODULE OutputFilter ----------------------------
(* The filter that takes the discard markers the server echoes out of the  *)
(* shell's output (iosbridge/transport.go): a magic prefix and four index  *)
(* bytes, each echoed as it is or, a control character, as a pair ^X.      *)
EXTENDS Component, Integers, Sequences, SequencesExt

Magic == <<255, 192, 193, 255>>
Caret == 94
IsCaretPair(b, c) == b = Caret /\ c \in 63..95

TakeFirst(s, n) == SubSeq(s, 1, n)
DropFirst(s, n) == SubSeq(s, n + 1, Len(s))

\* Mutant: a pair counts for two index bytes.
RECURSIVE ConsumePairAsTwo(_, _)
ConsumePairAsTwo(data, left) ==
  IF left = 0 THEN 0
  ELSE IF Len(data) < left THEN -1
  ELSE left

(* The bytes the remaining index bytes take, or -1 when data ends before   *)
(* them.                                                                   *)
RECURSIVE ConsumeMarkerIndex(_, _)
ConsumeMarkerIndex(data, left) ==
  IF left = 0 THEN 0
  ELSE IF data = <<>> THEN -1
  ELSE LET taken == IF Len(data) > 1 /\ IsCaretPair(data[1], data[2]) THEN 2 ELSE 1
           more == ConsumeMarkerIndex(DropFirst(data, taken), left - 1)
       IN IF more < 0 THEN -1 ELSE taken + more

Passed(out, partial) == [out |-> out, partial |-> partial]

(* filter on the bytes held back and the bytes read.                       *)
RECURSIVE Filter(_)
Filter(data) ==
  LET pass == LET f == Filter(Tail(data)) IN Passed(<<data[1]>> \o f.out, f.partial)
      index == ConsumeMarkerIndex(DropFirst(data, 4), 4)
  IN CASE data = <<>> -> Passed(<<>>, <<>>)
       [] data # <<>> /\ data[1] # 255 -> pass
       [] Len(data) \in 1..3 /\ data[1] = 255 ->
            IF IsPrefix(data, Magic) THEN Passed(<<>>, data) ELSE pass
       [] Len(data) >= 4 /\ data[1] = 255 ->
            CASE ~IsPrefix(Magic, data) -> pass
              [] IsPrefix(Magic, data) /\ index < 0 -> Passed(<<>>, data)
              [] OTHER -> Filter(DropFirst(data, 4 + index))

(* What the server sends: text, bytes that look like a marker's, markers   *)
(* raw, expanded and expanded up to the last index byte.                   *)
Text == {<<65>>, <<Caret, 65>>, <<255>>, <<255, 192, 66>>}
PlainMarkers == {Magic \o <<0, 0, 0, 1>>, Magic \o <<Caret, 64, 200, Caret, 64, 255>>}
ExpandedMarkers == {Magic \o <<Caret, 64, Caret, 64, Caret, 64, Caret, 65>>}
Segment(bytes, marker, plain) == [bytes |-> bytes, marker |-> marker, plain |-> plain]
Segments ==
  {Segment(t, FALSE, TRUE) : t \in Text} \cup {Segment(m, TRUE, TRUE) : m \in PlainMarkers}
    \cup {Segment(m, TRUE, FALSE) : m \in ExpandedMarkers}

Bytes(segments) == FoldLeft(LAMBDA s, x : s \o x.bytes, <<>>, segments)

FilterInit ==
  \E a, b, c \in Segments :
    st = [part |-> "filter", sent |-> <<a, b, c>>, rest |-> Bytes(<<a, b, c>>), held |-> <<>>, out |-> <<>>]

(* forwardOutput: one Read of stdout, filtered and handed to OnOutput.     *)
ForwardOutput ==
  /\ Is("filter")
  /\ \E n \in 1..Len(st.rest) :
       LET f == Filter(st.held \o TakeFirst(st.rest, n))
       IN Becomes([held |-> f.partial, out |-> st.out \o f.out, rest |-> DropFirst(st.rest, n)])

TextOnly ==
  st.out \o st.held = Bytes(SelectSeq(st.sent, LAMBDA s : ~s.marker))

(* However the output is cut into reads, every marker whose last index     *)
(* byte is echoed raw is removed and every other byte passes, in order: a  *)
(* stray prefix of a marker too, once what follows it is known.            *)
MarkersAreStripped ==
  Is("filter") /\ st.rest = <<>> /\ (\A i \in DOMAIN st.sent : st.sent[i].plain) => TextOnly

(* The same of every marker (discardMarkerFilter: "Handles markers that    *)
(* span across read boundaries using a holdback buffer").                  *)
SplitMarkersAreStripped ==
  Is("filter") /\ st.rest = <<>> => TextOnly

=============================================================================
