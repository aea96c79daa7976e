-------------------------------- MODULE EchoZip -------------------------------
(***************************************************************************)
(* The echo service with the decompression it calls: when the body of a    *)
(* compressed response is complete, echo_data_do_work runs                 *)
(* http_zip_decompress on what in_data holds, step by step as in HttpZip,  *)
(* and the end-of-data handler of Echo goes on with what it returned.      *)
(***************************************************************************)
EXTENDS HttpZip, Sequences

CONSTANTS Response, PreviewSize, ScriptLength, InitialSize, MaxRead, NoBuffer, NotSent \* of Echo

ASSUME BufferAssumption ==
  {PreviewSize, ScriptLength, InitialSize} \subseteq Nat /\ MaxRead \in Nat \ {0}
ASSUME ResponseAssumption ==
  Response \subseteq [respmod : BOOLEAN, \* ICAP_RESPMOD
                      hasbody : BOOLEAN, \* the response has a body
                      html : BOOLEAN,    \* its Content-Type is text/html
                      encoding : {"none", "gzip", "deflate", "other"},
                      known : BOOLEAN,   \* it has a Content-Length, the true one
                      size : Nat,        \* units of its body
                      intact : BOOLEAN,  \* it decompresses ...
                      plain : Nat,       \* ... to so many units of text
                      head : Nat,        \* unit that ends its head tag, or 0
                      frames : Nat]      \* unit that ends "<frameset", or 0

\* What a ci_membuf holds, and a ci_membuf.
Unit == {"body", "text", "script"} \X Nat
Buffer == [data : Seq(Unit), size : Nat, read : Nat, all : BOOLEAN]

ASSUME NoBufferAssumption == NoBuffer \notin Buffer /\ NotSent \notin [length : Nat, encoded : BOOLEAN]
\* MaxInput and MaxText bound the bodies and their texts.
ASSUME LengthAssumption == \A r \in Response : r.size <= MaxInput /\ r.plain <= MaxText

VARIABLES phase, response, previewed, allow204, arrived, offered, eof, locked, header, sent,
          delivered, service, encoding, inData, outText, outData, damaged, result \* of Echo

echoVars == <<phase, response, previewed, allow204, arrived, offered, eof, locked, header, sent,
              delivered, service, encoding, inData, outText, outData, damaged, result>>

Echo == INSTANCE Echo

\* No call of http_zip_decompress is going on or has left a result.
Uncalled == pc = "returned" /\ return = 1

EchoInit ==
  /\ Echo!Init
  /\ pc = "returned" /\ input = 0 /\ text = 0 /\ good = FALSE
  /\ block = 0 /\ got = 0 /\ room = 0 /\ bufsize = 0 /\ blocks = 0 /\ return = 1

Ending == phase = "end" /\ inData # NoBuffer /\ encoding # "none"

\* echo_data_do_work: http_zip_set with the bytes of in_data, and the call.
CallDecompress ==
  /\ Ending /\ Uncalled
  /\ pc' = "start"
  /\ input' = Len(inData.data) /\ text' = response.plain
  /\ good' = (response.intact /\ inData.data = Echo!Body(response))
  /\ block' = 0 /\ got' = 0 /\ room' = 0 /\ bufsize' = 0
  /\ UNCHANGED <<blocks, return, echoVars>>

\* http_zip_decompress runs.
Decompress == ~Uncalled /\ Next /\ UNCHANGED echoVars

\* The text takes the place of the body when 0 was returned.
UsesText == outData' = "out" => return = 0

\* The end-of-data handler after http_zip_decompress; http_zip_clean frees what
\* it returned.
EndOfDataWorked ==
  /\ Ending /\ pc = "returned" /\ ~Uncalled
  /\ Echo!EndOfData /\ UsesText
  /\ blocks' = 0 /\ return' = 1
  /\ UNCHANGED <<pc, input, text, good, block, got, room, bufsize>>

\* http_zip_decompress ran past its block: the process ends.
EndOfDataOverran ==
  /\ pc = "overrun"
  /\ Echo!EndOfDataOverruns
  /\ pc' = "returned" /\ blocks' = 0 /\ return' = 1
  /\ UNCHANGED <<input, text, good, block, got, room, bufsize>>

\* Everything else the worker does.
EchoAlone ==
  /\ \/ Echo!InitRequestData \/ Echo!ReadPreview
     \/ Echo!Refuse \/ Echo!PreviewEmpty \/ Echo!PreviewPlain \/ Echo!PreviewEncoded
     \/ Echo!PreviewUnallocated
     \/ Echo!SendHead \/ Echo!Io \/ (~Ending /\ Echo!EndOfData) \/ Echo!EndOfNoData
     \/ Echo!SendRest \/ Echo!FinishRest \/ Echo!Abort \/ Echo!ReleaseRequestData
  /\ UNCHANGED vars

EchoNext == CallDecompress \/ Decompress \/ EndOfDataWorked \/ EndOfDataOverran \/ EchoAlone

\* The thread runs once it is inside echo_data_do_work.
EchoSpec ==
  /\ EchoInit /\ [][EchoNext]_<<vars, echoVars>>
  /\ WF_<<vars, echoVars>>(Decompress \/ EndOfDataWorked \/ EndOfDataOverran)

-------------------------------------------------------------------------------
(* Properties. *)

\* As long as all that came could be stored: nothing of the body is lost,
\* repeated or moved between the preview, what comes while data already goes out,
\* and the end-of-data handler, and no decompressed body goes out under a head
\* that says it is compressed, or the other way round (srv_echo.c:412-431).
EchoedAsSent == Echo!EchoedAsSent

\* The Content-Length that was sent is the length of the body that was sent.
LengthIsTrue == Echo!LengthIsTrue

\* c-icap is never told that there is nothing to send when it waits for the
\* rest: it would leave the client's body without an end.
NotCutOff == Echo!NotCutOff

\* Once the head is on its way no handler changes it, although the end-of-data
\* handler sets the length and removes the encoding (srv_echo.c:422).
HeadIsFinal == [][sent # NotSent /\ phase # "over" => header' = header]_<<vars, echoVars>>

\* A call of http_zip_decompress returns, and the handler that made it: it does
\* not go round without progress, and the client gets its head, unless a copy
\* past the block has ended the process.
WorkEnds == pc = "start" ~> phase = "rest" \/ result = "killed"
===============================================================================
