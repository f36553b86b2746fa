----------------------------- MODULE MCMatchers -----------------------------
(***************************************************************************)
(* Trees: every set of at most three strings, of at most two bytes over    *)
(* two, on every stream of at most three bytes.  Request lines of at most  *)
(* six words; requests with at most two header fields.  HTTP/2: right and  *)
(* wrong prefaces, and clients that wait for SETTINGS or not, with headers *)
(* in one or two frames.                                                   *)
(***************************************************************************)
EXTENDS Matchers

Input(kind, strs, stream, stays, waits) ==
  [kind |-> kind, strs |-> strs, stream |-> stream, stays |-> stays, waits |-> waits]

MCPreface == <<1, 2, 1>>

MCBytes == {1, 2}
Lists == {S \in SUBSET BoundedSeq(MCBytes, 2) : Cardinality(S) <= 3}
TreeInputs ==
  {Input(kind, strs, stream, stays, 0) :
     kind \in Trees, strs \in Lists, stream \in BoundedSeq(MCBytes, 3), stays \in BOOLEAN}

Words == {"space", "word", "HTTP/1.1"}
LineInputs ==
  {Input("http1", {}, line \o end, stays, 0) :
     line \in BoundedSeq(Words, 5), end \in {<< >>, <<"newline">>}, stays \in BOOLEAN}

RequestLine == <<"word", "space", "word", "space", "HTTP/1.1">>
HeaderInputs ==
  {Input(kind, {}, line \o <<"newline">> \o fields \o end, stays, 0) :
     kind \in Headers, line \in {RequestLine, Tail(RequestLine)},
     fields \in BoundedSeq({"match", "differ", "other", "malformed"}, 2),
     end \in {<< >>, <<"blank">>, <<"blank", "match">>}, stays \in BOOLEAN}

Frame(type, ack, end, fields) == [type |-> type, ack |-> ack, end |-> end, fields |-> fields]
Settings == Frame("settings", FALSE, FALSE, {})
Ack == Frame("settings", TRUE, FALSE, {})
Other == Frame("window", FALSE, FALSE, {})
Malformed == Frame("malformed", FALSE, FALSE, {})
FieldSets == {{}, {"match"}, {"differ"}, {"other"}, {"other", "match"}}
HeaderFrames ==
  {<<Frame("headers", FALSE, TRUE, f)>> : f \in FieldSets} \cup
  {<<Frame("headers", FALSE, FALSE, f), Frame("continuation", FALSE, TRUE, g)>> :
     f, g \in FieldSets} \cup {<< >>}
FieldInputs ==
  {Input(kind, {}, MCPreface \o <<Settings>> \o mid \o headers, stays, waits) :
     kind \in Fields, mid \in {<< >>, <<Other>>, <<Ack>>, <<Malformed>>}, headers \in HeaderFrames,
     stays \in BOOLEAN, waits \in {0, 5}}
PrefaceInputs ==
  {Input(kind, {}, stream, stays, 0) :
     kind \in HTTP2Kinds, stream \in BoundedSeq(MCBytes, 3), stays \in BOOLEAN}

MCInputs == TreeInputs \cup LineInputs \cup HeaderInputs \cup FieldInputs \cup PrefaceInputs
=============================================================================
