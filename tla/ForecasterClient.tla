-------------------------- MODULE ForecasterClient --------------------------
(***************************************************************************)
(* The forecaster client of the policy engine, internal/forecaster/        *)
(* client.go, as its one caller uses it: the generator analyses one node   *)
(* at a time. AnalyzeAndRecommend asks for the recommendations of the      *)
(* trained models first and falls back to a forecast compared with         *)
(* thresholds. A forecast is cached per node for CacheTTL.                 *)
(*                                                                         *)
(* Time is counted in ticks. Of every instant only its age is kept, up to  *)
(* MaxAge. Of a forecast, its level over the horizons is kept: what        *)
(* analyzeWithThresholds makes of it, see Recommended. The arithmetic of   *)
(* the thresholds is in PolicyRules.                                       *)
(***************************************************************************)
EXTENDS Integers, Sequences

CONSTANTS
    Nodes,        \* the nodes
    NoNode,       \* stands for ""
    Levels,       \* the levels a forecast may be at, see Recommended
    Answers,      \* what the trained models may recommend, not empty
    CacheTTL,     \* cacheTTL: 30 s
    HttpTimeout,  \* timeout of one request
    MaxAge,       \* bound: ages above this are not told apart
    MaxFaults     \* bound: failed calls, lost replies, crashes

ASSUME ClientAssumption ==
    /\ NoNode \notin Nodes
    /\ "normal" \in Levels /\ Levels \subseteq {"normal", "warning", "rising", "critical"}
    /\ Answers \subseteq Seq({"scaling", "migration"}) \ {<<>>}
    /\ CacheTTL \in Nat \ {0} /\ HttpTimeout \in Nat /\ MaxFaults \in Nat
    /\ MaxAge \in Nat /\ MaxAge >= CacheTTL + HttpTimeout

VARIABLES
    cache,   \* forecastCache: level, its age since it was fetched and since it was predicted
    call,    \* the call of AnalyzeAndRecommend
    faults

clientVars == <<cache, call>>

-----------------------------------------------------------------------------
Ages     == 0..MaxAge
Types    == {"scaling", "migration"}
Older(a) == IF a < MaxAge THEN a + 1 ELSE a

\* One recommendation per horizon at which the forecast is at or above the warning
\* threshold, the nearer horizon first; at or above the critical one it is a migration.
\* Of two horizons, "rising" is a warning at the first and critical at the second.
Recommended(level) ==
    IF level = "normal" THEN <<>>
    ELSE <<IF level = "critical" THEN "migration" ELSE "scaling",
           IF level = "warning" THEN "scaling" ELSE "migration">>

\* The cache line of a node is used if it is present; fetched is time.Since(FetchedAt).
Line == [present : BOOLEAN, level : Levels, fetched : Ages, predicted : Ages]
NoLine == [present |-> FALSE, level |-> "normal", fetched |-> 0, predicted |-> 0]

\* stage: nothing asked; the recommendations asked; the forecast asked; the forecast
\* made by the service and on its way; the call returned. age is that of the request,
\* predicted that of the forecast; ok tells a result from an error.
Stages == {"idle", "recommendations", "forecast", "answered", "done"}
Calls  == [stage : Stages, node : Nodes \cup {NoNode}, age : Ages, level : Levels,
           predicted : Ages, ok : BOOLEAN, recs : Seq(Types)]
Call(stage, node, ok, recs, predicted) ==
    [stage |-> stage, node |-> node, age |-> 0, level |-> "normal",
     predicted |-> predicted, ok |-> ok, recs |-> recs]
NoCall == Call("idle", NoNode, FALSE, <<>>, 0)

ClientTypeOK ==
    /\ cache \in [Nodes -> Line] /\ call \in Calls
    /\ faults \in 0..MaxFaults

ClientInit ==
    /\ cache = [n \in Nodes |-> NoLine] /\ call = NoCall /\ faults = 0

Fault == faults < MaxFaults /\ faults' = faults + 1

-----------------------------------------------------------------------------
(* AnalyzeAndRecommend(n).                                                 *)

Ask(n) == call' = Call("recommendations", n, FALSE, <<>>, 0)

\* The result, with the age of the prediction it rests on.
Return(result, predicted) == call' = Call("done", call.node, TRUE, result, predicted)

\* GetPolicyRecommendations: recommendations, if any, are the result.
UseRecommendations ==
    /\ call.stage = "recommendations" /\ UNCHANGED <<cache, faults>>
    /\ \E answer \in Answers : Return(answer, call.age)

Fresh(n) == cache[n].present /\ cache[n].fetched < CacheTTL

\* Without recommendations, or with an error, the forecast decides: of the cache...
\* Mutant: a hit renews the line.
UseCache_Renews ==
    /\ call.stage = "recommendations" /\ Fresh(call.node) /\ UNCHANGED faults
    /\ cache' = [cache EXCEPT ![call.node].fetched = 0]
    /\ Return(Recommended(cache[call.node].level), cache[call.node].predicted)

UseCache ==
    /\ call.stage = "recommendations" /\ Fresh(call.node) /\ UNCHANGED <<cache, faults>>
    /\ Return(Recommended(cache[call.node].level), cache[call.node].predicted)

\* ... or of the service.
AskForecast ==
    /\ call.stage = "recommendations" /\ ~Fresh(call.node) /\ UNCHANGED <<cache, faults>>
    /\ call' = [call EXCEPT !.stage = "forecast", !.age = 0]

\* The service makes a forecast, of whatever the node is heading for.
Predict ==
    /\ call.stage = "forecast" /\ UNCHANGED <<cache, faults>>
    /\ \E l \in Levels : call' = [call EXCEPT !.stage = "answered", !.level = l, !.predicted = 0]

\* The reply arrives, is cached and analysed.
UseForecast ==
    /\ call.stage = "answered" /\ UNCHANGED faults
    /\ cache' = [cache EXCEPT ![call.node] =
                   [present |-> TRUE, level |-> call.level, fetched |-> 0,
                    predicted |-> call.predicted]]
    /\ Return(Recommended(call.level), call.predicted)

\* The request fails, or its timeout is over.
ForecastFails ==
    /\ call.stage \in {"forecast", "answered"} /\ Fault /\ UNCHANGED cache
    /\ call' = Call("done", call.node, FALSE, <<>>, 0)

ClientNext == \/ UseRecommendations \/ UseCache \/ AskForecast
              \/ Predict \/ UseForecast \/ ForecastFails

-----------------------------------------------------------------------------
(* Time. A request is never older than its timeout.                        *)

Pending == call.stage \in {"recommendations", "forecast", "answered"}

ClientTick ==
    /\ Pending => call.age < HttpTimeout
    /\ call' = [call EXCEPT !.age = IF Pending THEN Older(@) ELSE @,
                            !.predicted = IF call.stage = "answered" THEN Older(@) ELSE @]
    /\ cache' = [n \in Nodes |->
                   IF cache[n].present
                   THEN [cache[n] EXCEPT !.fetched = Older(@), !.predicted = Older(@)]
                   ELSE cache[n]]

ClientCrash == cache' = [n \in Nodes |-> NoLine] /\ call' = NoCall
=============================================================================
