--------------------------- MODULE HandlerResult ---------------------------
(***************************************************************************)
(* What a handler returns, on its way to Core: executeAttempt after the    *)
(* handler was called, the conversions that turn its outcome and its       *)
(* Events into durable records (runtime_worker_attempt.go), the facade     *)
(* that wraps a native handler (runtime_native.go), and the spool loop     *)
(* that decodes the records, validates them and sends them                 *)
(* (runtime_worker_spool.go, runtime_http.go).  The model follows one      *)
(* Attempt; the durable store is reduced to the checks that decide whether *)
(* a record is accepted (RuntimeStore models the rest of it).              *)
(*                                                                         *)
(* A Go value is one of the classes the conversions tell apart.  Maps:     *)
(* nilMap, empty, small, edge (fits a Runtime message, but not with the    *)
(* WebSocket envelope around it), huge (fits no message) and badMap (holds *)
(* a value json.Marshal refuses).  Other values: nil, struct and           *)
(* emptyStruct (encode to an object), scalar and null (encode to something *)
(* else) and unencodable.  A text is its number of runes, Blank or Invalid.*)
(***************************************************************************)
EXTENDS Integers, Sequences

CONSTANTS Settings,      \* workers and handlers an instance explores: facade, what
                         \* wraps the handler ("worker", "native", "agent"),
                         \* transport ("pull" or "ws"), outcomes of the handler,
                         \* emissions, the Events it may emit while it runs, and
                         \* stray, whether a goroutine of it may outlive it
          Elapsed,       \* handler run times, in ms
          MaxInt32,      \* the largest duration a Result may carry
          MaxEvents      \* bound on the Events of the Attempt

Maps == {"nilMap", "empty", "small", "edge", "huge", "badMap"}

Blank == 0
Invalid == -1
CodeMax == 120
MessageMax == 500

NoError == [code |-> Blank, message |-> Blank, set |-> FALSE]
HandlerError(code, message) == [code |-> code, message |-> message, set |-> TRUE]
ShortText == 13                    \* the length of the SDK's own codes and messages

NoResult == [status |-> "none", output |-> "absent", error |-> NoError,
             duration |-> 0, final |-> 0]
RefusedValue == "refused"          \* a conversion returned an error

VARIABLES setting,     \* the worker and the handler at hand
          pc,          \* executeAttempt: "handler", "events", "journal", "store", "end"
          outcome,     \* what the handler returned (history)
          result,      \* executeAttempt's RuntimeResult
          journalSeq,  \* persistRunResult's journal.LastClientEventSeq
          stray,       \* an emit past its finished check: an Event, or NoEmit
          finished, canceled, deadline,   \* of the attempt
          events,      \* the durable Events of the Attempt, in sequence order
          stored,      \* the durable Result, as encoded
          worker,      \* "up", or "fatal" once reportFatal was called
          acked,       \* Events Core acknowledged
          resultAcked, \* Core acknowledged the Result and the record is gone
          spoolError   \* why the last flush ended, "" if it did not fail

vars == <<setting, pc, outcome, result, journalSeq, stray, finished, canceled, deadline,
          events, stored, worker, acked, resultAcked, spoolError>>
execVars == <<pc, outcome, result, journalSeq, finished>>
spoolVars == <<acked, resultAcked, spoolError>>

Facade == setting.facade
Transport == setting.transport

NoEmit == [type |-> "none", payload |-> "nil"]
NoOutcome == [kind |-> "none", status |-> "", output |-> "nil", error |-> NoError,
              events |-> << >>]
NoRuntimeResult == [status |-> "success", output |-> "nil", error |-> NoError,
                    events |-> << >>, duration |-> 0]

Init == /\ setting \in Settings
        /\ pc = "handler" /\ outcome = NoOutcome /\ result = NoRuntimeResult
        /\ journalSeq = 0 /\ stray = NoEmit
        /\ finished = FALSE /\ canceled = FALSE /\ deadline = FALSE
        /\ events = << >> /\ stored = NoResult /\ worker = "up"
        /\ acked = 0 /\ resultAcked = FALSE /\ spoolError = ""

-----------------------------------------------------------------------------
(* Conversions *)

(* Mutant: what is no object is dropped. *)
runtimeObjectDropsScalars(value) ==
    CASE value = "unencodable"               -> RefusedValue
      [] value \in Maps                      -> value
      [] value \in {"nil", "emptyStruct", "scalar", "null"} -> "empty"
      [] value = "struct"                    -> "small"

(* runtimeObject: maps are returned as they are, other values are encoded
   and decoded again, and what is no object is wrapped as {"value": v}. *)
runtimeObject(value) ==
    CASE value = "nil"                       -> "empty"
      [] value \in Maps                      -> value
      [] value = "unencodable"               -> RefusedValue
      [] value = "emptyStruct"               -> "empty"
      [] value \in {"struct", "scalar", "null"} -> "small"

(* nativeEventPayload: the payload must encode to a JSON object. *)
nativeEventPayload(value) ==
    CASE value = "nil"                                 -> "empty"
      [] value \in {"badMap", "unencodable", "scalar", "null", "nilMap"} -> RefusedValue
      [] value = "emptyStruct"                         -> "empty"
      [] value = "struct"                              -> "small"
      [] value \in {"empty", "small", "edge", "huge"}  -> value

(* boundedRuntimeText: trimmed, replaced when blank or not UTF-8, and cut
   to a number of runes. *)
boundedRuntimeText(value, maximum, fallback) ==
    LET text == IF value \in {Blank, Invalid} THEN fallback ELSE value
    IN IF text > maximum THEN maximum ELSE text

normalizeHandlerError(message) ==
    HandlerError(ShortText, boundedRuntimeText(message, MessageMax, ShortText))

maxDurationMS(ms) == IF ms < 1 THEN 1 ELSE IF ms > MaxInt32 THEN MaxInt32 ELSE ms

(* normalizeNativeResult, Success and Failure. *)
Failure(message) == [NoRuntimeResult EXCEPT !.status = "failed",
                                            !.error = HandlerError(ShortText, message)]

normalizeNativeResult(r) ==
    CASE r.error.set                      -> [r EXCEPT !.status = "failed"]
      [] ~r.error.set /\ r.status \in {"", "success"} -> [r EXCEPT !.status = "success"]
      [] OTHER                            -> Failure(ShortText)

normalizeRuntimeResult(r) ==
    [r EXCEPT !.status = IF r.status = "" THEN "success" ELSE r.status,
              !.output = IF r.output = "nil" /\ ~r.error.set THEN "empty" ELSE r.output]

(* The RuntimeResult the worker gets for the handler's outcome o, before its
   own normalisation.  A worker handler returns it; the native facade also
   recovers a panic and reports an error as a failed result; the agent
   facade refuses a blank answer and adds a message Event. *)
invokeNativeHandler(o) ==
    CASE o.kind \in {"panic", "error"} -> Failure(o.error.message)
      [] o.kind = "return" -> normalizeNativeResult(
             [NoRuntimeResult EXCEPT !.status = o.status, !.output = o.output,
                                     !.error = o.error, !.events = o.events])

agentAnswer(o) ==
    IF o.kind = "error" THEN Failure(o.error.message)
    ELSE IF o.output = "nil" THEN Failure(ShortText)
    ELSE [NoRuntimeResult EXCEPT !.output = "small",
              !.events = <<[type |-> "ok", payload |-> "small"]>>]

handleRuntime(o) ==
    CASE Facade = "native" -> invokeNativeHandler(o)
      [] Facade = "agent"  -> agentAnswer(o)
      [] Facade = "worker" -> [NoRuntimeResult EXCEPT !.status = o.status,
                                  !.output = o.output, !.error = o.error,
                                  !.events = o.events]

(* The call of node.Handler.Handle in executeAttempt, with its deferred
   recover. *)
handled(o) ==
    CASE o.kind = "panic" /\ Facade # "native" -> Failure(ShortText)
      [] o.kind = "error" /\ Facade = "worker" ->
             [NoRuntimeResult EXCEPT !.status = "failed",
                                     !.error = normalizeHandlerError(o.error.message)]
      [] OTHER -> normalizeRuntimeResult(handleRuntime(o))
-----------------------------------------------------------------------------
(* Payloads *)

runtimeFailurePayload(code, message, duration) ==
    [status |-> "failed", output |-> "absent", duration |-> duration, final |-> 0,
     error |-> HandlerError(boundedRuntimeText(code, CodeMax, ShortText),
                            boundedRuntimeText(message, MessageMax, ShortText))]

(* Mutant: the handler's error and an output that is refused are not looked at. *)
runtimeResultPayloadIgnoringError(r) ==
    IF r.status = "success"
    THEN [status |-> "success", output |-> "small", duration |-> r.duration,
          final |-> 0, error |-> NoError]
    ELSE runtimeFailurePayload(ShortText, ShortText, r.duration)

(* runtimeResultPayload; NoResult when runtimeObject refuses the output. *)
runtimeResultPayload(r) ==
    CASE r.status \notin {"success", "failed"} ->
             runtimeFailurePayload(ShortText, ShortText, r.duration)
      [] r.status = "failed" \/ (r.status = "success" /\ r.error.set) ->
             LET e == IF r.error.set THEN r.error ELSE HandlerError(ShortText, ShortText)
             IN runtimeFailurePayload(e.code, e.message, r.duration)
      [] r.status = "success" /\ ~r.error.set ->
             IF runtimeObject(r.output) = RefusedValue THEN NoResult
             ELSE [status |-> "success", output |-> runtimeObject(r.output),
                   duration |-> r.duration, final |-> 0, error |-> NoError]

(* The JSON tag of Output says omitempty: an empty map is not written, and
   decodes to nil. *)
marshalOutput(output) == IF output \in {"nilMap", "empty"} THEN "absent" ELSE output

messageFits(output) == output # "huge"
envelopeFits(output) == messageFits(output) /\ (Transport = "ws" => output # "edge")

runtimeText(value, maximum) == value > 0 /\ value <= maximum

validateRuntimeResult(r) ==
    /\ r.duration >= 0 /\ r.duration <= MaxInt32
    /\ CASE r.status = "success" -> r.output # "absent" /\ ~r.error.set
         [] r.status = "failed"  -> /\ r.output = "absent" /\ r.error.set
                                    /\ runtimeText(r.error.code, CodeMax)
                                    /\ runtimeText(r.error.message, MessageMax)
         [] OTHER -> FALSE

(* persistRuntimeEvent up to the store: the raw payload it appends, or
   RefusedValue for a type or payload it does not accept. *)
eventPayload(event) ==
    LET object == runtimeObject(event.payload)
    IN IF event.type # "ok" \/ object \in {RefusedValue, "badMap", "huge"} THEN RefusedValue
       ELSE object

(* NativeRun.SendEvent checks the type and payload before the worker does. *)
emittedEvent(event) ==
    LET native == nativeEventPayload(event.payload)
    IN IF Facade = "worker" THEN event
       ELSE [event EXCEPT !.payload = IF native = RefusedValue THEN "unencodable" ELSE native]

(* What persistRunResult makes of payload p: its encoding, replaced by a
   failure when it was refused or is too large, and "unmarshalable" when
   json.Marshal fails on it. *)
encodedResult(p, duration) ==
    CASE p = NoResult -> runtimeFailurePayload(ShortText, ShortText, duration)
      [] p # NoResult /\ p.output = "huge" -> runtimeFailurePayload(ShortText, ShortText, duration)
      [] OTHER -> [p EXCEPT !.output = marshalOutput(p.output)]

-----------------------------------------------------------------------------
(* The handler's own steps *)

(* RuntimeContext.emit, or NativeRun.SendEvent in front of it.  A refused
   Event is an error for the handler and changes nothing. *)
emit ==
    /\ pc = "handler" /\ worker = "up" /\ ~canceled /\ Len(events) < MaxEvents
    /\ \E event \in setting.emissions :
          /\ eventPayload(emittedEvent(event)) # RefusedValue
          /\ events' = Append(events, eventPayload(emittedEvent(event)))
    /\ UNCHANGED <<execVars, spoolVars, stray, canceled, deadline, stored, worker>>

(* emit, called by a goroutine the handler started: past the finished check,
   before the store. *)
strayChecks ==
    /\ setting.stray /\ stray = NoEmit /\ ~finished /\ ~canceled
    /\ pc = "handler" /\ worker = "up" /\ Len(events) < MaxEvents
    /\ stray' \in {event \in setting.emissions : eventPayload(emittedEvent(event)) # RefusedValue}
    /\ UNCHANGED <<execVars, spoolVars, canceled, deadline, events, stored, worker>>

(* AppendEvent accepts an Event of a started Attempt only; any other answer
   of the store is fatal. *)
strayAppends ==
    /\ stray # NoEmit /\ worker = "up"
    /\ stray' = NoEmit
    /\ \/ /\ stored = NoResult
          /\ events' = Append(events, eventPayload(emittedEvent(stray)))
          /\ UNCHANGED worker
       \/ /\ stored # NoResult
          /\ worker' = "fatal" /\ UNCHANGED events
    /\ UNCHANGED <<execVars, spoolVars, canceled, deadline, stored>>

cancelArrives ==
    /\ pc \in {"handler", "events"} /\ worker = "up" /\ ~canceled
    /\ canceled' = TRUE
    /\ UNCHANGED <<execVars, spoolVars, stray, deadline, events, stored, worker>>

deadlinePasses ==
    /\ pc = "handler" /\ worker = "up" /\ ~deadline
    /\ deadline' = TRUE
    /\ UNCHANGED <<execVars, spoolVars, stray, canceled, events, stored, worker>>

-----------------------------------------------------------------------------
(* executeAttempt, from the handler's return *)

handlerReturns ==
    /\ pc = "handler" /\ worker = "up"
    /\ finished' = TRUE
    /\ \E o \in setting.outcomes, ms \in Elapsed :
          /\ outcome' = o
          /\ pc' = IF canceled THEN "end" ELSE "events"
          /\ result' = [(IF deadline THEN Failure(ShortText) ELSE handled(o))
                           EXCEPT !.duration = maxDurationMS(ms)]
    /\ UNCHANGED <<spoolVars, journalSeq, stray, canceled, deadline, events, stored, worker>>

(* One final Event of the result; a refused one turns the result into the
   failure HANDLER_EVENT_INVALID, unless the Attempt was canceled. *)
persistFinalEvent ==
    /\ pc = "events" /\ worker = "up" /\ result.events # << >>
    /\ LET payload == eventPayload(Head(result.events))
       IN \/ /\ payload # RefusedValue
             /\ events' = Append(events, payload)
             /\ result' = [result EXCEPT !.events = Tail(@)]
             /\ UNCHANGED pc
          \/ /\ payload = RefusedValue
             /\ result' = [Failure(ShortText) EXCEPT !.duration = result.duration]
             /\ pc' = IF canceled THEN "end" ELSE "events"
             /\ UNCHANGED events
    /\ UNCHANGED <<spoolVars, outcome, journalSeq, finished, stray, canceled, deadline,
                   stored, worker>>

(* persistRunResult reads the journal first and stores the Result later. *)
readJournal ==
    /\ pc = "events" /\ worker = "up" /\ result.events = << >>
    /\ journalSeq' = Len(events)
    /\ pc' = "store"
    /\ UNCHANGED <<spoolVars, outcome, result, finished, stray, canceled, deadline,
                   events, stored, worker>>

(* Mutant: the journal is not looked at again. *)
storeResultAnySequence(p) ==
    /\ stored = NoResult
    /\ stored' = [p EXCEPT !.final = journalSeq]
    /\ UNCHANGED worker

(* StoreResult: the sequence must still be the journal's last. *)
storeResultLocked(p) ==
    \/ /\ stored = NoResult /\ journalSeq = Len(events)
       /\ stored' = [p EXCEPT !.final = journalSeq]
       /\ UNCHANGED worker
    \/ /\ stored # NoResult \/ journalSeq # Len(events)
       /\ worker' = "fatal" /\ UNCHANGED stored

persistRunResult ==
    /\ pc = "store" /\ worker = "up"
    /\ pc' = "end"
    /\ LET p == runtimeResultPayload(result)
       IN \/ /\ p.output = "badMap"                  \* json.Marshal(payload) fails
             /\ worker' = "fatal" /\ UNCHANGED stored
          \/ /\ p.output # "badMap"
             /\ storeResultLocked(encodedResult(p, result.duration))
    /\ UNCHANGED <<spoolVars, outcome, result, journalSeq, finished, stray, canceled,
                   deadline, events>>

-----------------------------------------------------------------------------
(* The spool loop: Events first, then the Result; an error that is not fatal
   ends the flush and is retried. *)

flushEvent ==
    /\ worker = "up" /\ acked < Len(events)
    /\ LET payload == events[acked + 1]
       IN \/ /\ payload = "nilMap"                   \* null in JSON: ErrRuntimeRecordCorrupt
             /\ worker' = "fatal" /\ spoolError' = "corrupt" /\ UNCHANGED acked
          \/ /\ payload # "nilMap" /\ ~envelopeFits(payload)
             /\ spoolError' = "size" /\ UNCHANGED <<acked, worker>>
          \/ /\ payload # "nilMap" /\ envelopeFits(payload)
             /\ acked' = acked + 1 /\ spoolError' = "" /\ UNCHANGED worker
    /\ UNCHANGED <<execVars, stray, canceled, deadline, events, stored, resultAcked>>

(* len(remainingEvents) = 0 *)
allEventsAcked == acked = Len(events)

flushResult ==
    /\ worker = "up" /\ allEventsAcked
    /\ stored # NoResult /\ ~resultAcked
    /\ \/ /\ ~validateRuntimeResult(stored)
          /\ spoolError' = "invalid" /\ UNCHANGED resultAcked
       \/ /\ validateRuntimeResult(stored) /\ ~envelopeFits(stored.output)
          /\ spoolError' = "size" /\ UNCHANGED resultAcked
       \/ /\ validateRuntimeResult(stored) /\ envelopeFits(stored.output)
          /\ resultAcked' = TRUE /\ spoolError' = ""
    /\ UNCHANGED <<execVars, stray, canceled, deadline, events, stored, worker, acked>>

Next == /\ \/ emit \/ strayChecks \/ strayAppends \/ cancelArrives \/ deadlinePasses
           \/ handlerReturns \/ persistFinalEvent \/ readJournal \/ persistRunResult
           \/ flushEvent \/ flushResult
        /\ UNCHANGED setting

(* The attempt's goroutine and the spool loop run; the handler need not end. *)
Fairness == /\ WF_vars((persistFinalEvent \/ readJournal \/ persistRunResult) /\ UNCHANGED setting)
            /\ WF_vars((flushEvent \/ flushResult) /\ UNCHANGED setting)

Spec == Init /\ [][Next]_vars
FairSpec == Spec /\ Fairness

-----------------------------------------------------------------------------
(* Properties *)

(* No Event of the Attempt is stored behind its Result: the Result's final
   sequence is the last Event's, even when a goroutine the handler left
   behind emits between persistRunResult's read of the journal and its
   write. *)
ResultCoversEvents == stored # NoResult => stored.final = Len(events)

(* The reference for what a handler's outcome means: success is what returned
   in time, without an error, with a known status, an encodable output of
   legal size and legal Events. *)
Succeeded(o) ==
    /\ o.kind = "return" /\ o.status \in {"", "success"} /\ ~o.error.set
    /\ Facade = "agent" => o.output # "nil"
    /\ Facade # "agent" => o.output \notin {"unencodable", "huge"}
    /\ Facade # "agent" => \A i \in DOMAIN o.events :
          /\ o.events[i].type = "ok"
          /\ o.events[i].payload \notin {"unencodable", "badMap", "huge"}

(* The stored Result says what the handler did: success exactly for an
   outcome that succeeded before the deadline. *)
OutcomeIsFaithful ==
    stored # NoResult => (stored.status = "success" <=> Succeeded(outcome) /\ ~deadline)

(* A stored Result is delivered: Core acknowledges it and the pending record
   is cleared, whatever code, message, duration, output and Events the handler
   produced, unless a goroutine of the handler outlives it. *)
ResultIsAcked == (stored # NoResult /\ ~setting.stray) ~> resultAcked
=============================================================================
