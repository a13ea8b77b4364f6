------------------------------ MODULE LLMCall ------------------------------
(***************************************************************************)
(* One call of the model: chatWithStream in internal/llm/openai.go.  The   *)
(* history becomes the wire's request (LLMWire), the request is sent and   *)
(* tried again (LLMRetry), the reply is read frame by frame (LLMStream).   *)
(* A stream cut before it showed anything is sent again once.  The server  *)
(* may fall silent, close the body early or break it, and the caller may   *)
(* cancel at any time.                                                     *)
(***************************************************************************)
EXTENDS LLMRetry, LLMWire

CONSTANTS
    Histories,  \* the histories a call may be made with
    Models,     \* the request models
    PrefixLens,   \* how many system_prefix segments apply
    Frames(_),  \* the frames a server may send on a wire
    CallAt(_),  \* the id of the call at a place of the reply
    PlaceOf(_), \* the place of an item
    Bodies,     \* whole JSON replies
    MaxFrames   \* bound: the frames of one reply

(* A fragment of the arguments of a call is named by the call's id.        *)
FragmentsOf(id) == Seq({id})

(* Frames of a wire.  What names a place or an item means the call there.  *)
FrameFits(w, f) ==
    \/ f.t = "text" /\ f.text \in Seq(STRING)
    \/ /\ w = "chat"
       /\ \/ f.t \in {"junk", "done", "error", "other", "finish"}
          \/ f.t = "tool" /\ f.at \in Nat /\ f.id \in {"", CallAt(f.at)}
             /\ f.args \in FragmentsOf(CallAt(f.at))
    \/ /\ w = "anthropic"
       /\ \/ f.t \in {"junk", "ping", "stop", "error", "other", "finish"}
          \/ f.t = "tool" /\ f.at \in Nat /\ f.id = CallAt(f.at)
          \/ f.t = "args" /\ f.args \in FragmentsOf(CallAt(f.at))
    \/ /\ w = "responses"
       /\ \/ f.t \in {"junk", "created", "error", "other", "incomplete", "garbled"}
          \/ f.t \in {"item", "item.done"} /\ f.at \in Nat /\ Default(f.id, f.item) = CallAt(f.at)
             /\ (f.item # "" => PlaceOf(f.item) = f.at) /\ f.args \in FragmentsOf(CallAt(f.at))
          \/ f.t \in {"args", "args.done"} /\ f.args \in FragmentsOf(CallAt(PlaceOf(f.item)))
          \/ f.t = "completed" /\ f.response \in Bodies

BodyFits(r) ==
    /\ r = [text |-> r.text, calls |-> r.calls, cut |-> r.cut, failed |-> r.failed]
    /\ r.text \in Seq(STRING) /\ r.cut \in BOOLEAN /\ r.failed \in BOOLEAN
    /\ r.calls \in Seq([id : STRING, name : STRING, args : Seq(STRING)])
    /\ \A i \in DOMAIN r.calls : r.calls[i].id # "" => r.calls[i].args \in FragmentsOf(r.calls[i].id)

CallAssumption ==
    /\ PrefixLens \subseteq Nat
    /\ MaxFrames \in Nat
    /\ \A h \in Histories : h \in Seq(ToSet(h)) /\ Coherent(h)
    /\ \A w \in Wires : \A f \in Frames(w) : FrameFits(w, f)
    /\ \A r \in Bodies : BodyFits(r)
ASSUME CallAssumption

VARIABLES
    wire, model, streaming, prefix,  \* the client and the hooks of the call
    history,   \* the messages the caller passed
    phase,     \* "enter", "http", "read" (a stream), "body" or "over"
    messages,  \* the messages of this chatWithStream
    again,     \* retryIncomplete
    request,   \* the request being sent: items and instructions
    parse,     \* the reply so far
    silent,    \* the server sends nothing more, and the body stays open
    reply,     \* what the call returned
    screen,    \* what OnContent has shown
    log,       \* history: the frames of this reply
    sent       \* history: the requests built

client == <<wire, model, streaming, prefix, history>>
readVars == <<parse, silent, log>>
vars == <<ctx, retryVars, client, phase, messages, again, request, readVars, reply,
          screen, sent>>

Pending == [kind |-> "none", content |-> <<>>, calls |-> <<>>, stop |-> ""]
Cancelled == [kind |-> "cancelled", content |-> <<>>, calls |-> <<>>, stop |-> ""]

Init ==
    /\ RetryInit
    /\ ctx = "live"
    /\ wire \in Wires
    /\ model \in Models
    /\ streaming \in BOOLEAN
    /\ prefix \in PrefixLens
    /\ history \in Histories
    /\ phase = "enter"
    /\ messages = history
    /\ again = TRUE
    /\ request = [items |-> <<>>, instructions |-> <<>>]
    /\ parse = EmptyParse
    /\ silent = FALSE
    /\ reply = Pending
    /\ screen = <<>>
    /\ log = <<>>
    /\ sent = <<>>

-----------------------------------------------------------------------------
(* The top of chatWithStream: the prefix goes in front of the messages,    *)
(* the wire builds its body and the request loop begins.                   *)
Enter ==
    /\ phase = "enter"
    /\ phase' = "http"
    /\ messages' = WithSystemPrefix(wire, prefix, messages)
    /\ request' = [items |-> Request(wire, model, messages'),
                   instructions |-> Instructions(wire, messages')]
    /\ sent' = Append(sent, request')
    /\ BeginRequest(IF streaming THEN "stream" ELSE "json")
    /\ UNCHANGED <<ctx, client, again, readVars, reply, screen>>

HTTPStep ==
    /\ phase = "http"
    /\ RetryNext
    /\ UNCHANGED <<client, phase, messages, again, request, readVars, reply, screen, sent>>

Over(m) ==
    /\ phase' = "over"
    /\ reply' = m

(* The request loop has returned: an error, a status that is not 2xx, a    *)
(* stream to read or a body to decode.                                     *)
Answer ==
    /\ phase = "http"
    /\ pc = "answered"
    /\ \/ answer = "ok" /\ phase' = (IF streaming THEN "read" ELSE "body") /\ UNCHANGED reply
       \/ answer = "cancelled" /\ Over(Cancelled)
       \/ answer \notin {"ok", "cancelled"} /\ Over(Failed)
    /\ EndRequest
    /\ parse' = EmptyParse
    /\ silent' = FALSE
    /\ log' = <<>>
    /\ UNCHANGED <<ctx, client, messages, again, request, screen, sent>>

(* A whole body, on the JSON path or on a stream whose first byte is "{".  *)
(* The Anthropic stream does not look for one.                             *)
ReadBody ==
    /\ phase = "body" \/ (phase = "read" /\ log = <<>> /\ wire # "anthropic")
    /\ ~silent
    /\ \E r \in Bodies :
         /\ Over(JSONReply(wire, r))
         /\ screen' = IF streaming THEN screen \o reply'.content ELSE screen
    /\ UNCHANGED <<ctx, retryVars, client, messages, again, request, readVars, sent>>

-----------------------------------------------------------------------------
(* What chatWithStream does with what the reader came to: it sends a cut   *)
(* stream again, once, while nothing was shown and the caller still waits. *)
Return(p, m) ==
    IF again /\ ctx = "live" /\ RetryableIncomplete(p, m)
    THEN phase' = "enter" /\ again' = FALSE /\ UNCHANGED reply
    ELSE Over(m) /\ UNCHANGED again

(* The reader ends on what it has; the chat wire asks for the context      *)
(* first, the others let a cancelled read fail.                            *)
EndRead(p, how) ==
    Return(p, IF wire = "chat" /\ ctx = "cancelled" THEN Cancelled ELSE EndOf(wire, p, how))

(* A fragment may leave out its place (0) once its item was announced.     *)
CanSend(f) ==
    wire = "responses" /\ f.t \in {"args", "args.done"} /\ f.at # PlaceOf(f.item) =>
        \E i \in DOMAIN log : log[i].t = "item" /\ log[i].item = f.item /\ f.item # ""

ReadFrame ==
    /\ phase = "read"
    /\ ~silent
    /\ Len(log) < MaxFrames
    /\ \E f \in {g \in Frames(wire) : CanSend(g)} :
         LET p == Frame(wire, parse, f) IN
         /\ parse' = p
         /\ log' = Append(log, f)
         /\ screen' = screen \o SubSeq(p.shown, Len(parse.shown) + 1, Len(p.shown))
         /\ IF StopsReading(wire, p, f) THEN EndRead(p, "stopped")
            ELSE UNCHANGED <<phase, reply, again>>
    /\ UNCHANGED <<ctx, retryVars, client, messages, request, silent, sent>>

(* The body ends, cleanly or not.                                          *)
ReadEnd ==
    /\ phase = "read"
    /\ ~silent
    /\ \E how \in {"eof", "broken"} : EndRead(parse, how)
    /\ UNCHANGED <<ctx, retryVars, client, messages, request, readVars, screen, sent>>

(* Fault: only the wait for the first frame is bounded.                    *)
IdleTimeoutFirst ==
    /\ phase = "read"
    /\ silent
    /\ log = <<>>
    /\ EndRead(parse, "broken")
    /\ UNCHANGED <<ctx, retryVars, client, messages, request, readVars, screen, sent>>

(* A read that gets no bytes for streamIdleTimeout fails.                  *)
IdleTimeout ==
    /\ phase = "read"
    /\ silent
    /\ EndRead(parse, "broken")
    /\ UNCHANGED <<ctx, retryVars, client, messages, request, readVars, screen, sent>>

(* A read is given up when the caller cancels.                             *)
ReadCancelled ==
    /\ phase = "read"
    /\ ctx = "cancelled"
    /\ Over(Cancelled)
    /\ UNCHANGED <<ctx, retryVars, client, messages, again, request, readVars, screen, sent>>

(* The server stops sending and leaves the connection open.                *)
FallSilent ==
    /\ phase = "read"
    /\ ~silent
    /\ silent' = TRUE
    /\ UNCHANGED <<ctx, retryVars, client, phase, messages, again, request, parse, log,
                   reply, screen, sent>>

Cancel ==
    /\ phase # "over"
    /\ ctx = "live"
    /\ ctx' = "cancelled"
    /\ UNCHANGED <<retryVars, client, phase, messages, again, request, readVars, reply,
                   screen, sent>>

CallStep ==
    \/ Enter \/ HTTPStep \/ Answer
    \/ ReadBody \/ ReadFrame \/ ReadEnd \/ IdleTimeout \/ ReadCancelled

Next == CallStep \/ FallSilent \/ Cancel

Spec == Init /\ [][Next]_vars

(* The calling goroutine runs on, and its timers fire.  A server that is   *)
(* not silent goes on sending or ends the body.                            *)
FairSpec == Spec /\ WF_vars(CallStep)

-----------------------------------------------------------------------------
(* The words the host was shown are the words of the message the call      *)
(* returns, once and in order, however snapshots, closing envelopes, whole *)
(* bodies and a second request brought them.                               *)
ShownIsReturned ==
    reply.kind = "message" /\ streaming => screen = reply.content

(* A reply that was cut off is never returned as an answer.                *)
CompleteOnly ==
    reply.kind = "message" /\ phase = "over" /\ log # <<>> =>
        \E i \in DOMAIN log :
            log[i].t \in {"done", "finish", "stop", "completed", "incomplete", "garbled"}

(* The fragments of a call's arguments end up in that call, and on the     *)
(* responses wire no call is returned without a name and an id, which a    *)
(* later request could not replay.  A fragment carries the id of its call. *)
CallsWhole ==
    reply.kind = "message" => \A i \in DOMAIN reply.calls :
        LET c == reply.calls[i] IN
        /\ wire = "responses" => c.id # "" /\ c.name # ""
        /\ c.id # "" => \A j \in DOMAIN c.args : c.args[j] = c.id

(* Whatever the wire, the provider gets a transcript it takes: results     *)
(* answer calls, reasoning goes back to its own model and takes the item   *)
(* ids with it, and no message is lost or moved.                           *)
RequestReplayable ==
    phase = "http" =>
        /\ Paired(request.items)
        /\ ReasoningPaired(model, request.items)
        /\ Carried(messages, request.items, request.instructions)

(* A call ends: a silent server, a full budget or a cancel cannot hold the *)
(* caller for ever.                                                        *)
CallEnds == <>(phase = "over")

(* What openai.go and stream.go say of the second request of a cut stream: *)
(* it is the whole request sent again.                                     *)
ResentWhole ==
    \A i, j \in DOMAIN sent : sent[i] = sent[j]
=============================================================================
