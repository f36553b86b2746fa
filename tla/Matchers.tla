------------------------------ MODULE Matchers ------------------------------
(***************************************************************************)
(* The matchers of rpc/mux.go, each reading the beginning of a connection  *)
(* while its client sends it: the prefix tree (HTTP1Fast, TLS), HTTP1, and *)
(* the matchers of HTTP/1 and HTTP/2 header fields.  An input says which   *)
(* matcher reads which stream.  A stream is a sequence of bytes for the    *)
(* tree; of words for HTTP/1, where a header field is one word; and the    *)
(* preface, byte by byte, then frames for HTTP/2.  How a matcher reads     *)
(* through the sniffing buffer is the subject of SniffConn.                *)
(***************************************************************************)
EXTENDS PrefixTree

CONSTANTS
  Inputs,      \* records [kind, strs, stream, stays, waits], see below
  Preface,     \* http2.ClientPreface
  MaxHTTPRead  \* maxHTTPRead, in words

(***************************************************************************)
(* in.kind: "prefix", "exact", "http1", "header" (HTTP1HeaderField and     *)
(* ...Prefix), "anyheader" (the same for the value or prefix ""), "http2", *)
(* "field" (HTTP2HeaderField and ...Prefix), "fieldsend"                   *)
(* (HTTP2MatchHeaderFieldSendSettings and ...PrefixSendSettings).          *)
(* in.strs: the set of the strings of a tree.                              *)
(* in.stays: the client keeps the connection open after the stream.        *)
(* in.waits: the part of the stream the client sends only when the server  *)
(* has sent SETTINGS, or 0.                                                *)
(***************************************************************************)
VARIABLES
  in,        \* the input
  tree,      \* the tree of the strings, made before the matcher is used
  limited,   \* SetReadTimeout gave the sniffing a deadline
  sent,      \* length of the stream the client has sent
  got,       \* length of the stream the matcher has read
  answered,  \* the server has sent SETTINGS
  failed,    \* the deadline has passed, or a write has failed
  verdict    \* "none", "yes", "no"

vars == <<in, tree, limited, sent, got, answered, failed, verdict>>

verdictOf(matched) == IF matched THEN "yes" ELSE "no"
Seen(n) == SubSeq(in.stream, 1, n)
Trees == {"prefix", "exact"}
Headers == {"header", "anyheader"}
Fields == {"field", "fieldsend"}
HTTP2Kinds == Fields \cup {"http2"}

\* Everything a matcher reads is a sequence, and a tree is made of finitely
\* many byte strings and reads bytes.
IsSequence(s) == Len(s) \in Nat /\ s = [i \in 1..Len(s) |-> s[i]]
ASSUME MatchersAssumption ==
  /\ IsSequence(Preface) /\ Preface # << >>
  /\ MaxHTTPRead \in Nat \ {0}
  /\ \A i \in Inputs :
       /\ IsSequence(i.stream)
       /\ i.kind \in Trees => i.strs \in Strings /\ i.stream \in Seq(Bytes)

\* Fault: SETTINGS are answered when they are an acknowledgement.
answersAck(f) == f.type = "settings" /\ f.ack

-----------------------------------------------------------------------------
Init ==
  /\ in \in Inputs
  /\ tree = [maxDepth |-> maxDepth(in.strs), root |-> newNode[in.strs]]
  /\ limited \in BOOLEAN
  /\ sent = 0 /\ got = 0
  /\ answered = FALSE /\ failed = FALSE
  /\ verdict = "none"

ClientSends ==
  /\ sent < Len(in.stream)
  /\ sent + 1 = in.waits => answered
  /\ sent' = sent + 1
  /\ UNCHANGED <<in, tree, limited, got, answered, failed, verdict>>

Closed == sent = Len(in.stream) /\ ~in.stays

\* A Read returns n of the bytes that have come, at most max.
Read(n, max) ==
  /\ verdict = "none" /\ n <= sent - got /\ n <= max
  /\ got' = got + n
  /\ UNCHANGED <<in, tree, limited, sent, answered, failed>>

\* A Read fails: at the end of the stream, or when the deadline has passed.
ReadFails(v) ==
  /\ verdict = "none" /\ got = sent
  /\ Closed \/ limited
  /\ failed' = ~Closed
  /\ verdict' = v
  /\ UNCHANGED <<in, tree, limited, sent, got, answered>>

-----------------------------------------------------------------------------
(* matchPrefix and match read maxDepth bytes, and decide on what they have *)
(* when a Read fails.                                                      *)

treeMatch(n) ==
  verdictOf(match(tree.root, Seen(n), in.kind = "prefix"))
ReadTree(n) ==
  /\ in.kind \in Trees /\ Read(n, tree.maxDepth - got)
  /\ verdict' = IF got' = tree.maxDepth THEN treeMatch(got') ELSE "none"
TreeReadFails == in.kind \in Trees /\ ReadFails(treeMatch(got))

-----------------------------------------------------------------------------
(* HTTP1 reads a line.  A Read that fails ends the line.                   *)

\* The part of the line after its second space is "HTTP/1.x".
isHTTP1(line) ==
  LET spaces == {i \in DOMAIN line : line[i] = "space"}
      s1 == CHOOSE i \in spaces : \A j \in spaces : i <= j
      s2 == CHOOSE i \in spaces \ {s1} : \A j \in spaces \ {s1} : i <= j
  IN /\ Cardinality(spaces) >= 2
     /\ SubSeq(line, s2 + 1, Len(line)) = <<"HTTP/1.1">>
endOfLine(n) == SelectInSeq(Seen(n), LAMBDA x : x = "newline")
ReadLine(n) ==
  /\ in.kind = "http1" /\ Read(n, MaxHTTPRead - got)
  /\ verdict' = IF endOfLine(got') > 0 THEN verdictOf(isHTTP1(Seen(endOfLine(got') - 1)))
                ELSE IF got' = MaxHTTPRead THEN "no" ELSE "none"
ReadLineFails == in.kind = "http1" /\ ReadFails(verdictOf(isHTTP1(Seen(got))))

-----------------------------------------------------------------------------
(* matchHTTP1Field reads a request up to the end of its header.  Of a      *)
(* field the word tells whether it has the name, and the value.            *)

\* http.ReadRequest wants a method, a URI and a version, fields, a blank line.
isRequest(line) == line = <<"word", "space", "word", "space", "HTTP/1.1">>
endOfHeader(n) == SelectInSeq(Seen(n), LAMBDA x : x \in {"blank", "malformed"})

\* Header.Get returns the first value, and "" if there is none.
get(header) ==
  LET first == SelectInSeq(header, LAMBDA x : x \in {"match", "differ"})
  IN IF first = 0 THEN "absent" ELSE header[first]
matchesHeader(n) ==
  /\ in.stream[endOfHeader(n)] = "blank"
  /\ get(Seen(endOfHeader(n))) \in {"match"} \cup (IF in.kind = "anyheader" THEN {"absent"} ELSE {})
ReadRequest(n) ==
  /\ in.kind \in Headers /\ Read(n, n)
  /\ verdict' = IF endOfLine(got') = 0 THEN "none"
                ELSE IF ~isRequest(Seen(endOfLine(got') - 1)) THEN "no"
                ELSE IF endOfHeader(got') = 0 THEN "none"
                ELSE verdictOf(matchesHeader(got'))
RequestReadFails == in.kind \in Headers /\ ReadFails("no")

-----------------------------------------------------------------------------
(* hasHTTP2Preface says no at the first Read that differs, and reads no    *)
(* byte past the preface.                                                  *)

ReadPreface(n) ==
  /\ in.kind \in HTTP2Kinds /\ got < Len(Preface) /\ Read(n, Len(Preface) - got)
  /\ verdict' = IF ~IsPrefix(Seen(got'), Preface) THEN "no"
                ELSE IF got' = Len(Preface) /\ in.kind = "http2" THEN "yes" ELSE "none"
HTTP2ReadFails == in.kind \in HTTP2Kinds /\ ReadFails("no")

(* matchHTTP2Field, frame by frame.  A frame is a record [type, ack, end,  *)
(* fields]; of a field it is told whether it has the name, and whether it  *)
(* has the value that matches.  ReadFrame or hdec.Write fails on a         *)
(* malformed one.                                                          *)
answers(f) == f.type = "settings" /\ ~f.ack
hasHeaders(f) == f.type \in {"headers", "continuation"}
named(f) == f.fields \cap {"match", "differ"} # {}
done(f) == f.type = "malformed" \/ (hasHeaders(f) /\ (named(f) \/ f.end))
matched(f) == hasHeaders(f) /\ "match" \in f.fields

ReadFrame ==
  LET f == in.stream[got + 1] IN
  /\ in.kind \in Fields /\ got >= Len(Preface) /\ sent > got
  /\ Read(1, 1)
  /\ verdict' = IF done(f) THEN verdictOf(matched(f)) ELSE "none"
  /\ ~answers(f)

\* The matchers of HTTP2HeaderField write to ioutil.Discard.
ReadSettings(fails) ==
  LET f == in.stream[got + 1] IN
  /\ in.kind \in Fields /\ got >= Len(Preface) /\ sent > got
  /\ verdict = "none" /\ answers(f)
  /\ fails => in.kind = "fieldsend"
  /\ got' = got + 1
  /\ answered' = (answered \/ (in.kind = "fieldsend" /\ ~fails))
  /\ failed' = fails
  /\ verdict' = IF fails THEN "no" ELSE "none"
  /\ UNCHANGED <<in, tree, limited, sent>>

-----------------------------------------------------------------------------
Matching ==
  \/ \E n \in 1..(sent - got) : ReadTree(n) \/ ReadLine(n) \/ ReadRequest(n) \/ ReadPreface(n)
  \/ TreeReadFails \/ ReadLineFails \/ RequestReadFails \/ HTTP2ReadFails
  \/ ReadFrame
  \/ \E fails \in BOOLEAN : ReadSettings(fails)

Next == ClientSends \/ Matching

\* A client sends its stream, and the goroutine that sniffs runs.
Fairness == WF_vars(ClientSends) /\ WF_vars(Matching)

Spec == Init /\ [][Next]_vars /\ Fairness

-----------------------------------------------------------------------------
(* What the matchers promise of a whole stream, without reading.           *)

HasPrefix == in.strs = {} \/ \E s \in in.strs : IsPrefix(s, in.stream)
IsOneOf == IF in.strs = {} THEN in.stream = << >> ELSE in.stream \in in.strs

Line ==
  LET nl == SelectInSeq(in.stream, LAMBDA x : x = "newline")
  IN IF nl > 0 THEN Seen(nl - 1) ELSE in.stream
IsRequestLine ==
  \E i, j \in DOMAIN Line :
    /\ i < j /\ Line[i] = "space" /\ Line[j] = "space"
    /\ \A k \in 1..j : Line[k] = "space" => k \in {i, j}
    /\ Tail(SubSeq(Line, j, Len(Line))) = <<"HTTP/1.1">>
LineFits == Len(Line) < MaxHTTPRead

\* The header of a request, and the fields in it that have the name.
IsRequest ==
  \E i, j \in DOMAIN in.stream :
    /\ i < j /\ isRequest(Seen(i - 1)) /\ in.stream[i] = "newline" /\ in.stream[j] = "blank"
    /\ \A k \in i..(j - 1) : in.stream[k] \notin {"blank", "malformed"}
Named ==
  {i \in DOMAIN in.stream :
     in.stream[i] \in {"match", "differ"} /\ \A j \in 1..i : in.stream[j] # "blank"}
FirstMatches ==
  IF Named = {} THEN in.kind = "anyheader"
  ELSE \E i \in Named : in.stream[i] = "match" /\ \A j \in Named : i <= j

Frames == SubSeq(in.stream, Len(Preface) + 1, Len(in.stream))
\* The frames of the first header block, as far as they can be read.
Block ==
  {i \in DOMAIN Frames :
     hasHeaders(Frames[i]) /\ \A j \in 1..(i - 1) :
       Frames[j].type # "malformed" /\ ~(hasHeaders(Frames[j]) /\ Frames[j].end)}
NamedOnce ==
  /\ Cardinality({i \in Block : named(Frames[i])}) <= 1
HasField ==
  IsPrefix(Preface, in.stream) /\ \E i \in Block : "match" \in Frames[i].fields

\* A matcher that neither times out nor fails to write says yes iff the whole
\* stream is what it looks for, however the stream is cut into reads and its
\* headers into frames.  (With a field of the name in several frames only the
\* first of these frames counts.)
VerdictRight ==
  verdict # "none" /\ ~failed =>
    /\ in.kind = "prefix" => (verdict = "yes" <=> HasPrefix)
    /\ in.kind = "exact" => (verdict = "yes" <=> IsOneOf)
    /\ in.kind = "http1" => (verdict = "yes" <=> IsRequestLine /\ LineFits)
    /\ in.kind \in Headers => (verdict = "yes" <=> IsRequest /\ FirstMatches)
    /\ in.kind = "http2" => (verdict = "yes" <=> IsPrefix(Preface, in.stream))
    /\ in.kind \in Fields /\ NamedOnce => (verdict = "yes" <=> HasField)

\* A stream on which the matcher cannot decide yet.
Undecided ==
  CASE in.kind \in Trees -> Len(in.stream) < tree.maxDepth
    [] in.kind = "http1" -> LineFits /\ "newline" \notin ToSet(in.stream)
    [] in.kind \in Headers ->
         \/ "newline" \notin ToSet(in.stream)
         \/ isRequest(Line) /\ ToSet(in.stream) \cap {"blank", "malformed"} = {}
    [] in.kind = "http2" -> IsStrictPrefix(in.stream, Preface)
    [] in.kind \in Fields ->
         \/ IsPrefix(in.stream, Preface)
         \/ IsPrefix(Preface, in.stream) /\ \A i \in DOMAIN Frames : ~done(Frames[i])

\* Liveness: a matcher answers, unless there is no read timeout and the client
\* stays after a stream that tells too little, or waits for the SETTINGS that
\* only the SendSettings matchers send.
MatcherAnswers ==
  []<>\/ verdict # "none"
      \/ ~limited /\ in.stays /\ Undecided
      \/ ~limited /\ in.waits > 0 /\ in.kind # "fieldsend"
=============================================================================
