--------------------------------- MODULE Echo ---------------------------------
(***************************************************************************)
(* The echo service of src/echo-zip-v2.7: one worker of c-icap that serves *)
(* one transaction after the other.  The service sees the start of a       *)
(* response body (the preview), decides whether to modify it, stores the   *)
(* body while c-icap reads it, and gives c-icap what goes to the client:   *)
(* the body with a script behind its head tag, decompressed if need be.    *)
(*                                                                         *)
(* Bytes are counted in units: <<"body", i>> is the i-th unit of the body  *)
(* that arrives, <<"text", i>> of what it decompresses to.                 *)
(***************************************************************************)
EXTENDS Naturals, Sequences

CONSTANTS
  Response,     \* the responses c-icap hands to the service
  MinLength,    \* a body announced shorter than this is left alone (12)
  PreviewSize,  \* units searched for tags, and the longest preview (1024)
  ScriptLength, \* strlen(script)
  InitialSize,  \* room for a body of unknown length (4096 * 5)
  MaxRead,      \* units c-icap asks for at a time
  AllocMayFail, \* malloc and realloc can return NULL
  NoBuffer,     \* a ci_membuf that is NULL
  NotSent       \* the response's head has not been sent

VARIABLES
  phase,     \* where c-icap is in the transaction
  response,  \* the response served
  previewed, \* the client sent a preview ...
  allow204,  \* ... or allows a 204 without one
  arrived,   \* units of the body c-icap has read
  offered,   \* units of it the service has taken
  eof,       \* c-icap has read all of it: ci_req_hasalldata
  locked,    \* req->data_locked: nothing may be sent yet
  header,    \* Content-Length (0: none) and whether there is a Content-Encoding
  sent,      \* the header when it was sent
  delivered, \* the body sent to the client
  service,   \* of c-icap's reading loop: it was told CI_EOF, it ended the body
  encoding,  \* echo_data->encoding
  inData,    \* echo_data->in_data
  outText,   \* echo_data->out_uncompressed_data
  outData,   \* echo_data->out_data: null, in_data or out_uncompressed_data
  damaged,   \* memory ran out for in_data to grow (history)
  result     \* how the transaction ended

bodyVars == <<response, previewed, allow204, arrived, offered, eof>>
sendVars == <<sent, delivered, service>>
echoVars == <<encoding, inData, outText, outData>>
vars == <<phase, bodyVars, locked, header, sendVars, echoVars, damaged, result>>

Body(r) == [i \in 1..r.size |-> <<"body", i>>]
Text(r) == IF r.encoding = "none" THEN Body(r) ELSE [i \in 1..r.plain |-> <<"text", i>>]
Script == [i \in 1..ScriptLength |-> <<"script", i>>]

\* s with the script behind its first n units.
Marked(s, n) == SubSeq(s, 1, n) \o Script \o SubSeq(s, n + 1, Len(s))

Announced(r) == IF r.known THEN r.size ELSE 0
Minimum(m, n) == IF m < n THEN m ELSE n

-------------------------------------------------------------------------------
(* c-icap's memory buffers. *)

NewBuffer(n) == [data |-> <<>>, size |-> n, read |-> 0, all |-> FALSE]

\* How many units of s ci_membuf_write takes: all of them, or as many as fit
\* when the buffer cannot grow any more.
Taken(b, s) ==
  {Len(s)} \cup
  {n \in 0..Len(s) : AllocMayFail /\ Len(b.data) + n >= b.size}

Filled(b, s, iseof) ==
  LET data == b.data \o s IN
  [data |-> data,
   size |-> IF Len(data) > b.size THEN Len(data) ELSE b.size,
   read |-> b.read,
   all |-> b.all \/ iseof]

\* ci_membuf_read: what it copies out, and the buffer after it.
Unread(b, room) == SubSeq(b.data, b.read + 1, b.read + Minimum(room, Len(b.data) - b.read))
Drained(b, room) == [b EXCEPT !.read = @ + Len(Unread(b, room))]
Exhausted(b) == b.read = Len(b.data) /\ b.all

-------------------------------------------------------------------------------
(* A transaction begins. *)

Init ==
  /\ phase = "start"
  /\ response = NoBuffer /\ previewed = FALSE /\ allow204 = FALSE
  /\ arrived = 0 /\ offered = 0 /\ eof = FALSE
  /\ locked = FALSE /\ header = NotSent
  /\ sent = NotSent /\ delivered = <<>> /\ service = "going"
  /\ encoding = "none" /\ inData = NoBuffer /\ outText = NoBuffer /\ outData = "null"
  /\ damaged = FALSE /\ result = "none"

\* What echo_init_request_data makes room for.
Wanted(r) ==
  r.respmod /\ r.hasbody /\ r.html /\ Announced(r) \notin 1..(MinLength - 1)

\* echo_init_request_data.  Without memory it has no data or no buffer, which
\* the other handlers treat alike.
InitRequestData ==
  /\ phase = "start" /\ phase' = "open"
  /\ \E r \in Response :
       /\ response' = r
       /\ header' = [length |-> Announced(r), encoded |-> r.encoding # "none"]
       /\ \/ /\ Wanted(r)
             /\ inData' = NewBuffer(IF r.known /\ r.size > 0 THEN r.size ELSE InitialSize)
          \/ /\ AllocMayFail \/ ~Wanted(r)
             /\ UNCHANGED inData
  /\ UNCHANGED <<previewed, allow204, arrived, offered, eof, locked, sendVars, encoding,
                 outText, outData, damaged, result>>

\* c-icap reads the preview, which can be the whole body, or there is none.
ReadPreview ==
  /\ phase = "open" /\ phase' = "preview"
  /\ previewed' \in BOOLEAN /\ allow204' \in BOOLEAN
  /\ arrived' \in 0..(IF previewed' THEN Minimum(PreviewSize, response.size) ELSE 0)
  /\ eof' \in {previewed' /\ arrived' = response.size, ~response.hasbody}
  /\ UNCHANGED <<response, offered, locked, header, sendVars, echoVars, damaged, result>>

-------------------------------------------------------------------------------
(* echo_check_preview_handler. *)

\* A tag that ends at unit n is found in the first m units.
Found(n, m) == n \in 1..m

\* The service answers "no modification".
Refused ==
  \/ ~response.respmod \/ inData = NoBuffer \/ ~response.hasbody
  \/ /\ arrived > 0
     /\ \/ response.encoding = "other"
        \/ /\ response.encoding = "none"
           /\ Found(response.frames, arrived) \/ ~Found(response.head, arrived)

\* c-icap sends 204 if the client takes one; a body it can neither refuse nor
\* pass on is an error, and without a body only the header is sent.
Refuse ==
  /\ phase = "preview" /\ Refused
  /\ \/ /\ previewed \/ allow204
        /\ phase' = "over" /\ result' = "204"
     \/ /\ ~previewed /\ ~allow204 /\ response.hasbody
        /\ phase' = "over" /\ result' = "500"
     \/ /\ ~previewed /\ ~allow204 /\ ~response.hasbody
        /\ phase' = "end" /\ UNCHANGED result
  /\ UNCHANGED <<bodyVars, locked, header, sendVars, echoVars, damaged>>

Accepted == phase = "preview" /\ ~Refused /\ phase' = IF eof THEN "end" ELSE "body"

\* Nothing of the body is there yet: it will be passed on as it comes.
PreviewEmpty ==
  /\ Accepted /\ arrived = 0
  /\ locked' = TRUE
  /\ encoding' = "none" /\ outData' = "in"
  /\ UNCHANGED <<bodyVars, header, sendVars, inData, outText, damaged, result>>

\* What the handler writes to in_data; the result is not looked at.
StorePreview(s) ==
  /\ \E n \in Taken(inData, s) :
       /\ inData' = Filled(inData, SubSeq(s, 1, n), eof)
       /\ damaged' = (n < Len(s))
  /\ offered' = arrived

\* MUTANT: the new Content-Length does not count the script.
PreviewPlainLength ==
  /\ Accepted /\ arrived > 0 /\ response.encoding = "none"
  /\ StorePreview(Marked(SubSeq(Body(response), 1, arrived), response.head))
  /\ encoding' = "none" /\ outData' = "in"
  /\ locked' = (header.length = 0)
  /\ UNCHANGED <<header, response, previewed, allow204, arrived, eof, sendVars, outText, result>>

\* The script is put behind the head tag.  With a Content-Length the response is
\* unlocked at once.
PreviewPlain ==
  /\ Accepted /\ arrived > 0 /\ response.encoding = "none"
  /\ StorePreview(Marked(SubSeq(Body(response), 1, arrived), response.head))
  /\ encoding' = "none" /\ outData' = "in"
  /\ IF header.length > 0
       THEN /\ header' = [header EXCEPT !.length = @ + ScriptLength]
            /\ locked' = FALSE
       ELSE locked' = TRUE /\ UNCHANGED header
  /\ UNCHANGED <<response, previewed, allow204, arrived, eof, sendVars, outText, result>>

\* MUTANT: the data is not locked.
PreviewEncodedUnlocked ==
  /\ Accepted /\ arrived > 0 /\ response.encoding \in {"gzip", "deflate"}
  /\ StorePreview(SubSeq(Body(response), 1, arrived))
  /\ encoding' = response.encoding
  /\ UNCHANGED <<response, previewed, allow204, arrived, eof, locked, header, sendVars,
                 outText, outData, result>>

\* A compressed body is stored and held back until all of it is there.
PreviewEncoded ==
  /\ Accepted /\ arrived > 0 /\ response.encoding \in {"gzip", "deflate"}
  /\ StorePreview(SubSeq(Body(response), 1, arrived))
  /\ encoding' = response.encoding
  /\ locked' = TRUE
  /\ UNCHANGED <<response, previewed, allow204, arrived, eof, header, sendVars, outText,
                 outData, result>>

\* The process ends, and its transactions with it; the next one is served by
\* another process.
Killed ==
  /\ phase' = "over" /\ result' = "killed"
  /\ UNCHANGED <<bodyVars, locked, header, sendVars, echoVars, damaged>>

\* Without memory for preview and script the handler copies to NULL: the result
\* of malloc is not looked at (srv_echo.c:334-336).
PreviewUnallocated ==
  /\ AllocMayFail
  /\ phase = "preview" /\ ~Refused /\ arrived > 0 /\ response.encoding = "none"
  /\ Killed

-------------------------------------------------------------------------------
(* echo_io, while c-icap reads the body from the client. *)

\* c-icap sends the response's head as soon as the data is not locked.
SendHead ==
  /\ phase \in {"body", "rest"} /\ ~locked /\ sent = NotSent
  /\ sent' = header
  /\ UNCHANGED <<phase, bodyVars, locked, header, delivered, service, echoVars, damaged, result>>

\* What c-icap hands over: what the service did not take before or, after
\* that, what comes next, with the end of the body or before it.
Receive ==
  /\ arrived' \in arrived..response.size /\ eof' \in BOOLEAN
  /\ eof => eof'
  /\ eof' => arrived' = response.size
  /\ offered < arrived => arrived' = arrived /\ eof' = eof

\* c-icap asks for data only after the head, and only until it was told CI_EOF.
Rooms == IF sent # NotSent /\ service = "going" THEN 0..MaxRead ELSE {0}

Source(in) == IF outData = "in" THEN in ELSE outText

\* echo_data_read and the rule that nothing to read is CI_EOF once in_data is
\* complete.
GivesNothing(in, room) ==
  outData = "null" \/ Exhausted(Source(in)) \/ Unread(Source(in), room) = <<>>
GivesEof(in, room) ==
  \/ outData # "null" /\ Exhausted(Source(in))
  \/ GivesNothing(in, room) /\ (in = NoBuffer \/ in.all)

\* Told CI_EOF, c-icap ends the body once it has sent what it was given.
Served(in, room) ==
  IF service = "going" /\ ~GivesEof(in, room) THEN {"going"}
  ELSE IF service = "going" /\ room = 0 THEN {"told"}
  ELSE IF service = "ended" THEN {"ended"}
  ELSE IF sent = NotSent THEN {"told"} ELSE {"told", "ended"}

\* One call of echo_io with data for both directions.  A call without data may
\* come with a pointer to none, which still marks the end.
Io ==
  /\ phase = "body"
  /\ Receive
  /\ LET s == SubSeq(Body(response), offered + 1, arrived') IN
     \E n \in Taken(inData, s), room \in Rooms, marks \in BOOLEAN :
       LET in == Filled(inData, SubSeq(s, 1, n), eof' /\ (s # <<>> \/ marks)) IN
       /\ offered' = offered + n
       /\ delivered' = IF GivesNothing(in, room) THEN delivered
                       ELSE delivered \o Unread(Source(in), room)
       /\ inData' = IF outData = "in" THEN Drained(in, room) ELSE in
       /\ service' \in Served(in, room)
       /\ damaged' = (damaged \/ n < Len(s))
  /\ phase' = IF eof' /\ offered' = arrived' THEN "end" ELSE "body"
  /\ UNCHANGED <<response, previewed, allow204, locked, header, sent, encoding, outText,
                 outData, result>>

-------------------------------------------------------------------------------
(* echo_end_of_data_handler. *)

\* http_zip_decompress returns the text, for a body that arrived as it was sent.
Decompresses == response.intact /\ Len(inData.data) >= MinLength /\ inData.data = Body(response)

\* The text echo_data_do_work makes of a decompressed body.
Worked ==
  LET text == Text(response)
      shown == Minimum(PreviewSize, Len(text)) IN
  IF Found(response.head, shown) /\ ~Found(response.frames, shown)
    THEN Marked(text, response.head) ELSE text

\* echo_data_do_work: the text replaces the body, or the body is passed on.
DoWork ==
  \/ /\ Decompresses
     /\ outText' = Filled(NewBuffer(Len(Text(response)) + ScriptLength), Worked, TRUE)
     /\ outData' = "out" /\ UNCHANGED encoding
  \/ /\ AllocMayFail \/ ~Decompresses
     /\ encoding' = "none" /\ outData' = "in" /\ UNCHANGED outText

OutLength == Len(IF outData' = "in" THEN inData'.data ELSE outText'.data)

\* MUTANT: the encoding goes whatever echo_data_do_work returns.
EndOfDataEncoding ==
  /\ phase = "end" /\ phase' = "rest" /\ inData # NoBuffer
  /\ inData' = [inData EXCEPT !.all = TRUE]
  /\ IF encoding # "none" THEN DoWork ELSE UNCHANGED <<encoding, outText, outData>>
  /\ header' = [length |-> IF locked /\ OutLength > 0 THEN OutLength ELSE header.length,
                encoded |-> header.encoded /\ encoding = "none"]
  /\ locked' = FALSE
  /\ UNCHANGED <<bodyVars, sendVars, damaged, result>>

\* MUTANT: the end is not marked.
EndOfDataUnmarked ==
  /\ phase = "end" /\ phase' = "rest" /\ inData # NoBuffer
  /\ UNCHANGED inData
  /\ IF encoding # "none" THEN DoWork ELSE UNCHANGED <<encoding, outText, outData>>
  /\ header' = [length |-> IF locked /\ OutLength > 0 THEN OutLength ELSE header.length,
                encoded |-> header.encoded /\ outData' # "out"]
  /\ locked' = FALSE
  /\ UNCHANGED <<bodyVars, sendVars, damaged, result>>

\* The body is complete: it is decompressed, the encoding header goes if that
\* went well, and the length is set if the head has not been let out.
EndOfData ==
  /\ phase = "end" /\ phase' = "rest" /\ inData # NoBuffer
  /\ inData' = [inData EXCEPT !.all = TRUE]
  /\ IF encoding # "none" THEN DoWork ELSE UNCHANGED <<encoding, outText, outData>>
  /\ header' = [length |-> IF locked /\ OutLength > 0 THEN OutLength ELSE header.length,
                encoded |-> header.encoded /\ outData' # "out"]
  /\ locked' = FALSE
  /\ UNCHANGED <<bodyVars, sendVars, damaged, result>>

\* http_zip_decompress copies past a block: EchoZip says when.  C leaves open what
\* follows, and it is not followed.
EndOfDataOverruns ==
  /\ phase = "end" /\ inData # NoBuffer /\ encoding # "none"
  /\ Killed

\* There is no body: the handler does nothing.
EndOfNoData ==
  /\ phase = "end" /\ phase' = "rest" /\ inData = NoBuffer
  /\ UNCHANGED <<bodyVars, locked, header, sendVars, echoVars, damaged, result>>

-------------------------------------------------------------------------------
(* c-icap sends what is left, asking echo_io until it says CI_EOF. *)

SendRest ==
  /\ phase = "rest" /\ sent # NotSent /\ response.hasbody /\ service # "ended"
  /\ ~GivesNothing(inData, MaxRead)
  /\ delivered' = delivered \o Unread(Source(inData), MaxRead)
  /\ IF outData = "in"
       THEN inData' = Drained(inData, MaxRead) /\ UNCHANGED outText
       ELSE outText' = Drained(outText, MaxRead) /\ UNCHANGED inData
  /\ UNCHANGED <<phase, bodyVars, locked, header, sent, service, encoding, outData,
                 damaged, result>>

\* The end: no body, CI_EOF, or nothing although the body is not complete.
FinishRest ==
  /\ phase = "rest" /\ sent # NotSent /\ phase' = "over"
  /\ response.hasbody /\ service # "ended" => GivesNothing(inData, MaxRead)
  /\ result' = IF response.hasbody /\ service # "ended" /\ ~GivesEof(inData, MaxRead)
                 THEN "cut off" ELSE "sent"
  /\ UNCHANGED <<bodyVars, locked, header, sendVars, echoVars, damaged>>

\* The client goes away or keeps silent for too long.
Abort ==
  /\ phase \in {"open", "body", "rest"}
  /\ phase' = "over" /\ result' = "error"
  /\ UNCHANGED <<bodyVars, locked, header, sendVars, echoVars, damaged>>

\* echo_release_request_data; the worker is ready for the next transaction.
ReleaseRequestData ==
  /\ phase = "over" /\ phase' = "start"
  /\ response' = NoBuffer /\ previewed' = FALSE /\ allow204' = FALSE
  /\ arrived' = 0 /\ offered' = 0 /\ eof' = FALSE
  /\ locked' = FALSE /\ header' = NotSent
  /\ sent' = NotSent /\ delivered' = <<>> /\ service' = "going"
  /\ encoding' = "none" /\ inData' = NoBuffer /\ outText' = NoBuffer /\ outData' = "null"
  /\ damaged' = FALSE /\ result' = "none"

Next ==
  \/ InitRequestData \/ ReadPreview
  \/ Refuse \/ PreviewEmpty \/ PreviewPlain \/ PreviewUnallocated \/ PreviewEncoded
  \/ SendHead \/ Io \/ EndOfData \/ EndOfDataOverruns \/ EndOfNoData
  \/ SendRest \/ FinishRest \/ Abort \/ ReleaseRequestData

Spec == Init /\ [][Next]_vars

-------------------------------------------------------------------------------
(* Properties. *)

Prefix(s, t) == Len(s) <= Len(t) /\ s = SubSeq(t, 1, Len(s))

\* What the client may get under the head it was sent: the body as it arrived
\* if the head still names an encoding, otherwise the text, as it is or with
\* the script, once and right behind the head tag.
Allowed ==
  IF sent.encoded
    THEN {Body(response)}
    ELSE {Text(response), Marked(Text(response), response.head)}

\* As long as all that came could be stored (~damaged), nothing is lost, repeated
\* or moved between the preview, the rest of the body that comes while data
\* already goes out, and the end-of-data handler; and a
\* decompressed body never goes out under a head that says it is compressed,
\* or the other way round (srv_echo.c:412-431).
EchoedAsSent ==
  ~damaged /\ sent # NotSent /\ response.hasbody =>
    /\ \E s \in Allowed : Prefix(delivered, s)
    /\ result = "sent" => delivered \in Allowed

\* The Content-Length that was sent is the length of the body that was sent
\* (readme, V2.2: the head is changed before the data is sent).
LengthIsTrue ==
  ~damaged /\ result = "sent" /\ response.hasbody =>
    sent.length \in {0, Len(delivered)}

\* c-icap is never told that there is nothing to send when it waits for the
\* rest: it would leave the client's body without an end.
NotCutOff == result # "cut off"
===============================================================================
