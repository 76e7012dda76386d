--------------------------- MODULE MCConversions ---------------------------
(***************************************************************************)
(* The three parts of the SDK that turn one value into another, in one     *)
(* run: TransportPolicy (manifests into timings and delays), HandlerResult *)
(* (the outcome of a handler into a Result) and A2ADialect (A2A values     *)
(* from one dialect or binding into another).  They share no state and do  *)
(* not call each other: a behaviour is one of one part, the others rest.   *)
(***************************************************************************)
EXTENDS TransportPolicy, TLC

VARIABLES
  part,     \* whose behaviour this is
  setting, execution, outcome, result, journalSeq, stray, finished, canceled, deadline,
  events, stored, worker, acked, resultAcked, spoolError,  \* HandlerResult
  item, origin, carried, hops                              \* A2ADialect

handlerVars == <<setting, execution, outcome, result, journalSeq, stray, finished, canceled,
                 deadline, events, stored, worker, acked, resultAcked, spoolError>>
dialectVars == <<item, origin, carried, hops>>

-----------------------------------------------------------------------------
(* Policies. *)

timing(h, min, max) ==
  [heartbeat |-> h, stale |-> 0, retryMin |-> min, retryMax |-> max, probeInterval |-> 0,
   probeTimeout |-> 0]

MCLegacy ==
  [heartbeat |-> 3, stale |-> 0, retryMin |-> 1, retryMax |-> 6, probeInterval |-> 4,
   probeTimeout |-> 3]

\* Unset, negative, ordinary, and as long as a duration can be.
MCConfigs == {timing(0, 0, 0), timing(-1, 2, 5), timing(6, 3, MaxDuration)}

manifest(listed, transports, default, version, given, value) ==
  [listed |-> listed, transports |-> transports, default |-> default, version |-> version,
   given |-> given, value |-> value]

value(h, s, min, max, p) ==
  [heartbeat |-> h, stale |-> s, retryMin |-> min, retryMax |-> max, probeInterval |-> p,
   probeTimeout |-> 2]

\* Timings given in part or in full, 0 and 9 out of range.
Timings ==
  {manifest(FALSE, <<>>, "", TRUE, given, v) :
     given \in {{"heartbeat"}, {"stale"}, {"heartbeat", "stale"}, {"retryMin"}, {"retryMax"},
               {"retryMin", "retryMax"}, {"heartbeat", "stale", "retryMin", "retryMax"}},
     v \in {value(1, 2, 2, 4, 1), value(5, 6, 7, 6, 2), value(0, 9, 0, 9, 0)}}

\* Lists and defaults, with aliases, repetitions and names the SDK does not know.
Lists ==
  {manifest(TRUE, l, d, TRUE, {"probeInterval", "probeTimeout"}, value(1, 2, 2, 4, 1)) :
     l \in {<<"quic">>, <<"pull", "websocket", "long_poll">>, <<"quic", "websocket", "ws">>},
     d \in {"", "pull", "quic"}}
  \cup {manifest(TRUE, <<>>, "", v, {}, value(1, 2, 2, 4, 1)) : v \in BOOLEAN}

MCManifests == Timings \cup Lists

-----------------------------------------------------------------------------
(* Handlers and their outcomes. *)

Blank == 0
Invalid == -1
NoError == [code |-> Blank, message |-> Blank, set |-> FALSE]
Err(code, message) == [code |-> code, message |-> message, set |-> TRUE]
Ret(st, output, error, evs) ==
    [kind |-> "return", status |-> st, output |-> output, error |-> error, events |-> evs]
Ev(type, payload) == [type |-> type, payload |-> payload]

(* Every way a handler fails, with texts at and past the limits. *)
FailingOutcomes ==
    {[kind |-> "panic", status |-> "", output |-> "nil", error |-> Err(1, 600), events |-> << >>]}
    \cup {[kind |-> "error", status |-> "", output |-> "nil", error |-> Err(1, m),
           events |-> << >>] : m \in {Blank, Invalid, 500, 501}}
    \cup {Ret(s, "nil", Err(c, m), << >>) :
             s \in {"", "success", "failed", "other"}, c \in {Blank, Invalid, 120, 121},
             m \in {Blank, 500, 501}}
    \cup {Ret("failed", "small", NoError, << >>), Ret("other", "small", NoError, << >>)}
    \cup {Ret("success", "small", NoError, <<Ev(t, p)>>) :
             t \in {"ok", "reserved"}, p \in {"badMap", "huge", "unencodable", "small"}}

(* Successful outcomes whose output is not empty, and outputs that are no
   result at all. *)
FilledOutcomes ==
    {Ret(s, v, NoError, evs) :
        s \in {"", "success"}, v \in {"small", "edge", "struct", "scalar", "null", "huge", "unencodable"},
        evs \in {<< >>, <<Ev("ok", "nil")>>}}

AllOutcomes == FailingOutcomes \cup FilledOutcomes
AgentOutcomes ==
    {[kind |-> "error", status |-> "", output |-> "nil", error |-> Err(1, m),
      events |-> << >>] : m \in {Blank, Invalid, 501}}
    \cup {Ret("", v, NoError, << >>) : v \in {"nil", "small"}}
StrayOutcomes == {Ret("success", v, NoError, << >>) : v \in {"small", "badMap", "empty", "edge"}}
                   \cup {Ret("failed", "nil", NoError, << >>)}

WorkerEmissions == {Ev("ok", "small"), Ev("ok", "scalar"), Ev("reserved", "small"),
                    Ev("ok", "badMap")}
NativeEmissions == WorkerEmissions \cup {Ev("ok", "nilMap"), Ev("ok", "nil")}
NilMapEmissions == {Ev("ok", "small"), Ev("ok", "nilMap"), Ev("ok", "edge")}

Setting(facade, transport, outcomes, emissions, strays) ==
    [facade |-> facade, transport |-> transport, outcomes |-> outcomes, emissions |-> emissions,
     stray |-> strays]
HandlerSettings ==
    {Setting("worker", "pull", AllOutcomes, WorkerEmissions, FALSE),
     Setting("native", "pull", AllOutcomes, NativeEmissions, FALSE),
     Setting("agent", "ws", AgentOutcomes, {}, FALSE),
     Setting("worker", "ws", StrayOutcomes, NilMapEmissions, TRUE)}

H == INSTANCE HandlerResult WITH Settings <- HandlerSettings, Elapsed <- {0, 3, 8}, MaxInt32 <- 7,
                                 MaxEvents <- 2, pc <- execution
HandlerRests == H!Init /\ setting = Setting("agent", "ws", AgentOutcomes, {}, FALSE)

-----------------------------------------------------------------------------
(* A2A values. *)

D == INSTANCE A2ADialect WITH Hops <- {"current", "legacy", "grpc"}, MaxHops <- 3
NoItem == [what |-> "none"]
DialectRests == item = NoItem /\ origin = NoItem /\ carried = FALSE /\ hops = 0

-----------------------------------------------------------------------------
ConversionInit ==
  \/ part = "policy" /\ Init /\ HandlerRests /\ DialectRests
  \/ part = "handler" /\ Init /\ H!Init /\ DialectRests
  \/ part = "dialect" /\ Init /\ HandlerRests /\ D!Init

ConversionNext ==
  \/ part = "policy" /\ Next /\ UNCHANGED <<part, handlerVars, dialectVars>>
  \/ part = "handler" /\ H!Next /\ UNCHANGED <<part, vars, dialectVars>>
  \/ part = "dialect" /\ D!Next /\ UNCHANGED <<part, vars, handlerVars>>

ConversionSpec ==
  ConversionInit /\ [][ConversionNext]_<<part, vars, handlerVars, dialectVars>> /\ H!Fairness

\* The Result says what the handler did (HandlerResult).
OutcomeIsFaithful == H!OutcomeIsFaithful

\* No Event is stored behind the Result (HandlerResult).
ResultCoversEvents == H!ResultCoversEvents

\* A stored Result is delivered (HandlerResult).
ResultIsAcked == H!ResultIsAcked

\* The dialects keep what a value means (A2ADialect).
DialectsKeepMeaning == D!DialectsKeepMeaning

\* So do the bindings (A2ADialect).
BindingsKeepMeaning == D!BindingsKeepMeaning
=============================================================================
