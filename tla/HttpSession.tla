------------------------------ MODULE HttpSession ------------------------------
(***************************************************************************)
(* A connection to the HTTP server (http/http.c, http/tasks/http_tasks.c): *)
(* requests assembled from chunks, handled, and answered one after the     *)
(* other on the same connection, and the memory that takes.                *)
(*                                                                         *)
(* libwebsockets calls back for every event of a connection, one at a time *)
(* and in this order: HTTP when the headers are there, HTTP_BODY for each  *)
(* chunk, HTTP_BODY_COMPLETION, HTTP_WRITEABLE when asked for, and CLOSED  *)
(* at any time or when a callback has returned an error.                   *)
(***************************************************************************)
EXTENDS Integers, Sequences

CONSTANTS MaxSize,     \* HTTP_MAX_PACKET_SIZE
          Lengths,     \* the lengths of request bodies
          MaxRequests, \* bound: the requests on the connection
          None         \* a null pointer

ASSUME SessionAssumption == /\ MaxSize \in Nat \ {0}
                            /\ Lengths \subseteq Nat
                            /\ MaxRequests \in Nat
                            /\ None \notin Nat

VARIABLES pc,       \* the callback that comes next
          session,  \* struct http_session
          heap,     \* the blocks that are allocated, with what is in them
          taken,    \* history: how many blocks were allocated
          requests, \* history: the requests that have come
          received, \* how much of the last one's body libwebsockets has passed on
          wire      \* history: what was written to the peer

vars == <<pc, session, heap, taken, requests, received, wire>>

Current == Len(requests)

\* The bytes of a body: whose they are, and where they belong.
BodyOf(n) == [i \in 1..requests[n].length |-> <<n, i>>]

Pc == {"idle", "body", "complete", "retry", "answering", "closing", "closed"}

Byte == (1..MaxRequests) \X Nat

\* "reply": what a task or http_handle_message answered, an error message
\* included; "general": the error message for a reply that could not be sent.
\* "of" is the request's text the answer was made from.
Answer == [what : {"reply", "general"}, of : Seq(Byte)]

Block == [use : {"request", "response"}, for : 1..MaxRequests, data : Seq(Byte)]

TypeOK ==
  /\ pc \in Pc
  /\ session \in [data : Nat \cup {None}, length : 0..MaxSize,
                  buffer : Nat \cup {None}, answer : Answer \cup {None}]
  /\ taken \in Nat
  /\ DOMAIN heap \subseteq 1..taken
  /\ \A b \in DOMAIN heap : heap[b] \in Block
  /\ requests \in Seq([length : Lengths, post : BOOLEAN])
  /\ Current <= MaxRequests
  /\ received \in Nat
  /\ wire \in Seq([part : {"headers", "body", "status"},
                   to : 1..MaxRequests, answer : Answer \cup {None}])

Empty == [data |-> None, length |-> 0, buffer |-> None, answer |-> None]

Init == /\ pc = "idle"
        /\ session = Empty
        /\ heap = <<>>
        /\ taken = 0
        /\ requests = <<>>
        /\ received = 0
        /\ wire = <<>>

-----------------------------------------------------------------------------
(* Memory. *)

\* free: a null pointer is no block.
Without(blocks) == [b \in DOMAIN heap \ blocks |-> heap[b]]

\* The block a malloc that succeeds returns is a new one.
Fresh == taken + 1

Allocate(rest, block) ==
  /\ taken' = Fresh
  /\ heap' = [b \in DOMAIN rest \cup {Fresh} |->
                IF b = Fresh THEN block ELSE rest[b]]

Written(part, answer) ==
  wire' = Append(wire, [part |-> part, to |-> Current, answer |-> answer])

-----------------------------------------------------------------------------
(* Requests. *)

\* Mutant: the request buffer of the request before is kept.
ForgottenRequest == [Empty EXCEPT !.data = session.data,
                                  !.length = session.length]

\* LWS_CALLBACK_HTTP sets the pointers to NULL and frees nothing.
Forgotten == Empty

\* LWS_CALLBACK_HTTP: a new connection, or the next request on an old one.
NewRequest ==
  /\ pc = "idle"
  /\ Current < MaxRequests
  /\ session' = Forgotten
  /\ received' = 0
  /\ \E length \in Lengths, post \in BOOLEAN :
       /\ requests' = Append(requests, [length |-> length, post |-> post])
       /\ pc' = IF ~post THEN "closing"
                ELSE IF length = 0 THEN "complete" ELSE "body"
       /\ wire' = IF post THEN wire
                  ELSE Append(wire, [part |-> "status", to |-> Current + 1,
                                     answer |-> None])
  /\ UNCHANGED <<heap, taken>>

\* What is in the buffer of the request.
Text == IF session.data \in DOMAIN heap THEN heap[session.data].data ELSE <<>>

\* The next k bytes of the body.
Chunk(k) == [i \in 1..k |-> <<Current, received + i>>]

\* realloc frees the old block.
Grown == Without({session.data})

\* Mutant: only the chunk is looked at.
TooLongChunk(k) == k > MaxSize

TooLong(k) == session.length + k > MaxSize

\* LWS_CALLBACK_HTTP_BODY; rx_buffer_size bounds the chunk.
Body(k) ==
  /\ pc = "body"
  /\ k \in 1..(requests[Current].length - received)
  /\ received' = received + k
  /\ \/ /\ TooLong(k)
        /\ pc' = "closing"
        /\ UNCHANGED <<session, heap, taken>>
     \/ \* realloc fails, and the old block is forgotten.
        /\ ~TooLong(k)
        /\ pc' = "closing"
        /\ session' = [session EXCEPT !.data = None]
        /\ UNCHANGED <<heap, taken>>
     \/ /\ ~TooLong(k)
        /\ pc' = IF received' = requests[Current].length THEN "complete"
                                                        ELSE "body"
        /\ session' = [session EXCEPT !.data = Fresh, !.length = @ + k]
        /\ Allocate(Grown, [use |-> "request", for |-> Current,
                            data |-> Text \o Chunk(k)])
  /\ UNCHANGED <<requests, wire>>

-----------------------------------------------------------------------------
(* Responses. *)

\* http_send_response: the headers go out at once, the body waits in its buffer
\* for the callback it asks for.
SendResponse(what, otherwise) ==
  LET answer == [what |-> what, of |-> Text]
      buffer == [use |-> "response", for |-> Current, data |-> <<>>]
  IN \/ \* json_serialize fails.
        /\ pc' = otherwise
        /\ UNCHANGED <<session, heap, taken, wire>>
     \/ \* malloc fails.
        /\ pc' = otherwise
        /\ session' = [session EXCEPT !.buffer = None]
        /\ UNCHANGED <<heap, taken, wire>>
     \/ \* The headers do not fit or cannot be written.
        /\ pc' = otherwise
        /\ session' = [session EXCEPT !.buffer = Fresh]
        /\ Allocate(heap, buffer)
        /\ UNCHANGED wire
     \/ /\ pc' = "answering"
        /\ session' = [session EXCEPT !.buffer = Fresh, !.answer = answer]
        /\ Allocate(heap, buffer)
        /\ Written("headers", answer)

\* Mutant: a response that was sent is taken for one that failed.
HandleMessageInverted ==
  /\ pc = "complete"
  /\ pc' = "retry"
  /\ session' = [session EXCEPT !.buffer = Fresh,
                                !.answer = [what |-> "reply", of |-> Text]]
  /\ Allocate(heap, [use |-> "response", for |-> Current, data |-> <<>>])
  /\ Written("headers", session'.answer)
  /\ UNCHANGED <<requests, received>>

\* http_handle_message and http_handle_task up to the first response.  What is
\* no JSON object or has no known task gets one attempt at an answer; a task
\* has another, and may fail before its first.
HandleMessage ==
  /\ pc = "complete"
  /\ \/ SendResponse("reply", "closing")
     \/ SendResponse("reply", "retry")
     \/ pc' = "retry" /\ UNCHANGED <<session, heap, taken, wire>>
  /\ UNCHANGED <<requests, received>>

\* Mutant: a failure to answer is no error to libwebsockets.
GeneralErrorIgnored ==
  /\ pc = "retry"
  /\ SendResponse("general", "idle")
  /\ UNCHANGED <<requests, received>>

\* "General error" at the end of http_handle_task.
GeneralError ==
  /\ pc = "retry"
  /\ SendResponse("general", "closing")
  /\ UNCHANGED <<requests, received>>

\* Mutant: the response is freed when it has been written, but not forgotten.
WriteableFrees ==
  /\ pc = "answering"
  /\ Written("body", session.answer) /\ pc' \in {"idle", "closing"}
  /\ heap' = Without({session.buffer})
  /\ UNCHANGED <<session, taken, requests, received>>

\* LWS_CALLBACK_HTTP_WRITEABLE: lws_http_transaction_completed tells whether the
\* connection is kept for another request.
Writeable ==
  /\ pc = "answering"
  /\ \/ Written("body", session.answer) /\ pc' \in {"idle", "closing"}
     \/ UNCHANGED wire /\ pc' = "closing"
  /\ UNCHANGED <<session, heap, taken, requests, received>>

\* Mutant: the response is not freed.
ClosedRequest ==
  /\ pc \notin {"retry", "closed"}
  /\ pc' = "closed"
  /\ heap' = Without({session.data})
  /\ UNCHANGED <<session, taken, requests, received, wire>>

\* LWS_CALLBACK_CLOSED_HTTP, because of an error or whenever the peer closes;
\* not in the middle of another callback.
Closed ==
  /\ pc \notin {"retry", "closed"}
  /\ pc' = "closed"
  /\ heap' = Without({session.data, session.buffer})
  /\ UNCHANGED <<session, taken, requests, received, wire>>

Next == \/ NewRequest \/ (\E k \in 1..MaxSize : Body(k))
        \/ HandleMessage \/ GeneralError \/ Writeable \/ Closed

Spec == Init /\ [][Next]_vars

\* libwebsockets completes a callback, calls back when a connection can be
\* written or has failed, and closes one whose callback returned an error.
FairSpec ==
  /\ Spec
  /\ WF_vars(HandleMessage) /\ WF_vars(GeneralError) /\ WF_vars(Writeable)
  /\ WF_vars(pc = "closing" /\ Closed)

-----------------------------------------------------------------------------
(* Properties. *)

Owned == {session.data, session.buffer} \ {None}

\* The pointers of a session are blocks of its own whenever a callback may use
\* or free them, whichever allocations failed before and however many requests
\* the connection has had: nothing is freed twice or used when it is free.
SessionOwns ==
  pc # "closed" =>
    /\ Owned \subseteq DOMAIN heap
    /\ session.data = session.buffer => session.data = None
    /\ \A b \in Owned : heap[b].for = Current

\* The request that is answered is the one that was sent, whole and in order,
\* without anything of the requests before it.
AnswersOwnRequest ==
  \A i \in 1..Len(wire) :
    wire[i].part # "status" => wire[i].answer.of = BodyOf(wire[i].to)

\* The peer gets headers and body for each request, in the order of the
\* requests; only the last may lack its body or be told it is no POST.
OneAnswerEach ==
  \A i \in 1..Len(wire) :
    /\ wire[i].to = (i + 1) \div 2
    /\ \/ wire[i].part = "headers" /\ i % 2 = 1
       \/ /\ wire[i].part = "body" /\ i % 2 = 0
          /\ wire[i].answer = wire[i - 1].answer
       \/ wire[i].part = "status" /\ i = Len(wire)

\* The close frees what the session has left.  A block is lost only when its
\* request is over, when a second response takes the place of one whose headers
\* failed, or when there is no memory to grow the request: then the pointer is
\* gone.
LostExplained ==
  /\ pc = "closed" => Owned \cap DOMAIN heap = {}
  /\ \A b \in DOMAIN heap \ Owned :
       \/ heap[b].for < Current
       \/ /\ heap[b].use = "response"
          /\ pc \in {"answering", "idle", "closing", "closed"}
       \/ /\ heap[b].use = "request" /\ session.data = None
          /\ pc \in {"closing", "closed"}

\* What the callbacks rely on: a request is there, as much of its body as has
\* come is in the buffer, and the response waits for it to be written.
Progress ==
  /\ pc \in {"body", "complete", "retry", "answering"} => Current > 0
  /\ pc \in {"body", "complete", "retry"} =>
       Text = [i \in 1..received |-> <<Current, i>>]
  /\ pc = "body" => received < requests[Current].length
  /\ pc \in {"complete", "retry"} => received = requests[Current].length
  /\ pc \in {"body", "complete"} => session.buffer = None
  /\ pc = "answering" => /\ session.answer \in Answer
                         /\ session.answer.of = BodyOf(Current)

\* The pointers are to blocks of their use; nothing is of a request to come.
Blocks ==
  /\ pc # "closed" =>
       /\ session.data # None => heap[session.data].use = "request"
       /\ session.buffer # None => heap[session.buffer].use = "response"
  /\ \A b \in DOMAIN heap : heap[b].for <= Current
  /\ \A i \in 1..Len(wire) : wire[i].to <= Current

\* How much has been written where the session is.
Sent ==
  LET n == Len(wire)
  IN /\ pc = "idle" => n = 2 * Current
     /\ pc \in {"body", "complete", "retry"} => n = 2 * Current - 2
     /\ pc = "answering" => /\ n = 2 * Current - 1
                            /\ wire[n].part = "headers"
                            /\ wire[n].answer = session.answer
     /\ pc \in {"idle", "body", "complete", "retry", "answering"} =>
          \A i \in 1..n : wire[i].part # "status"

\* The inductive invariant: together these are kept by every step.
IInv == /\ TypeOK
        /\ Progress
        /\ Blocks
        /\ Sent
        /\ SessionOwns
        /\ AnswersOwnRequest
        /\ OneAnswerEach
        /\ LostExplained

\* A complete request is answered, or the connection is closed.
RequestsEnd ==
  \A n \in 1..MaxRequests :
    (Current = n /\ pc = "complete") ~>
      \/ pc = "closed"
      \/ \E i \in 1..Len(wire) : wire[i].part = "body" /\ wire[i].to = n
=============================================================================
