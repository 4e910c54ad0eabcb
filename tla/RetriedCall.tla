----------------------------- MODULE RetriedCall -----------------------------
(***************************************************************************)
(* The HTTP calls of the three clients that talk to the orchestrator and   *)
(* to the scheduler:                                                       *)
(*   internal/operator/client.go              "post", "get", "delete"      *)
(*   pkg/orchestration/orchestrator_client.go "migrate", "notify"          *)
(*   pkg/scheduling/scheduler_client.go       "send"                       *)
(* "get", "migrate" and "send" are repeated, each by rules of its own, and *)
(* each client has its own idea of which status is a success. One caller   *)
(* makes one call after the other about one resource. The server applies   *)
(* what it receives and answers; network and server fail as they like.     *)
(***************************************************************************)
EXTENDS Integers

CONSTANTS
    MaxRetries,     \* OPERATOR_HTTP_MAX_RETRIES
    ConfigRetries,  \* MaxRetries of the other two configurations; 0 is 3
    MaxCalls        \* bound: calls made

ASSUME CallAssumption ==
    MaxRetries \in Nat /\ ConfigRetries \in Nat /\ MaxCalls \in Nat \ {0}

VARIABLES
    exists,   \* the resource is at the server
    call,     \* the call in progress, its attempt and where that is
    reply,    \* what came of the attempt
    applied,  \* how often the server did what this call asks for
    lately,   \* whether the resource existed when the server answered last
    result,   \* what the call returned to its caller
    calls     \* calls made

vars == <<exists, call, reply, applied, lately, result, calls>>

-----------------------------------------------------------------------------
Ops      == {"post", "get", "delete", "migrate", "notify", "send"}
Creating == {"post", "migrate", "notify", "send"}

Default(n) == IF n = 0 THEN 3 ELSE n

\* NewClient: the number of retries may be set to zero.
GetAttempts == 1 + MaxRetries

\* NewOrchestratorClient, NewSchedulerClient: MaxRetries counts attempts.
MigrateAttempts == Default(ConfigRetries)
SendAttempts    == Default(ConfigRetries)

Attempts(op) == IF op = "get" THEN GetAttempts
                ELSE IF op = "migrate" THEN MigrateAttempts
                ELSE IF op = "send" THEN SendAttempts ELSE 1

\* A reply has a status and a body; without a reply the error may be temporary or not.
\* A body may break off, or be no JSON.
Failures == {"temporary", "permanent"}
Bodies   == {"whole", "broken", "garbled"}
Replies  == [status : {200, 201, 202, 204, 400, 404, 425, 429, 500}, body : Bodies]
            \cup [status : {0}, body : Failures]
NoReply  == [status |-> 0, body |-> "temporary"]

\* Mutant: every answer with a whole body is a success.
GetSucceeds_Any(r) == r.status # 0 /\ r.body = "whole"

\* getJSON: only 200, with a body that can be decoded.
GetSucceeds(r) == r.status = 200 /\ r.body = "whole"

\* shouldRetryStatus, shouldRetryNetworkError, and a body that broke off.
GetRetries(r) == \/ r.status = 0 /\ r.body = "temporary"
                 \/ r.status # 0 /\ r.body = "broken"
                 \/ r.status = 429 \/ r.status >= 500

\* StartMigration, ConfigureX, StartX: one attempt; without a decoded answer there is no id.
PostSucceeds(r) == r.status \in {200, 201, 202} /\ r.body = "whole"

\* deleteExpectNoContent: absent is deleted; the body does not matter.
DeleteSucceeds(r) == r.status \in {200, 202, 204, 404}

\* TriggerMigration and SendOrchestrationPolicy; SendSchedulingPolicy.
MigrateSucceeds(r) == r.status \in {200, 202}
SendSucceeds(r)    == r.status \in {200, 202}

Succeeds(op, r) == IF op = "get" THEN GetSucceeds(r)
                   ELSE IF op = "post" THEN PostSucceeds(r)
                   ELSE IF op = "delete" THEN DeleteSucceeds(r)
                   ELSE IF op = "send" THEN SendSucceeds(r) ELSE MigrateSucceeds(r)

\* After a failure: a get by its rules, the other two after any.
Repeats(op, r) == \/ op \in {"migrate", "send"}
                  \/ op = "get" /\ GetRetries(r)

\* Mutant: no answer is taken for the answer that the target is not there.
IsWaiting_Unanswered(r) == r.status \in {0, 425}

\* isWaitingForTargetError: the target is not there yet. The controller looks for that
\* in the text of the error of any POST to the operator, be it an OperatorAPIError or
\* "failed with status 425"; 425 stands for every refusal that says so, by its status,
\* error_code, status field or message.
IsWaiting(r) == r.status = 425

-----------------------------------------------------------------------------
Calls   == [op : Ops, attempt : Nat, at : {"idle", "sent", "answered"}]
NoCall  == [op |-> "get", attempt |-> 0, at |-> "idle"]
Results == [op : Ops, kind : {"none", "ok", "waiting", "missing", "error"}]

TypeOK ==
    /\ exists \in BOOLEAN /\ lately \in BOOLEAN
    /\ call \in Calls /\ call.attempt <= Attempts(call.op)
    /\ reply \in Replies /\ applied \in Nat /\ result \in Results
    /\ calls \in 0..MaxCalls

Init ==
    /\ exists = FALSE /\ lately = FALSE /\ call = NoCall /\ reply = NoReply
    /\ applied = 0 /\ result = [op |-> "get", kind |-> "none"]
    /\ calls = 0

\* A call begins: its first attempt is sent.
Begin ==
    /\ call.at = "idle" /\ calls < MaxCalls /\ calls' = calls + 1
    /\ \E op \in Ops :
          call' = [op |-> op, attempt |-> 1, at |-> "sent"]
    /\ applied' = 0
    /\ UNCHANGED <<exists, lately, reply, result>>

Answered(r) ==
    reply' = r /\ call' = [op |-> call.op, attempt |-> call.attempt, at |-> "answered"]

\* The server does what it is asked for; its answer arrives, breaks off, cannot be
\* decoded, or is lost, and a gateway may put a failure of its own in its place.
ServerApplies ==
    /\ call.at = "sent" /\ call.op # "get"
    /\ call.op = "delete" => exists
    /\ exists' = (call.op \in Creating) /\ lately' = exists'
    /\ applied' = applied + 1
    /\ \/ \E s \in {200, 201, 202, 204, 500}, b \in Bodies : Answered([status |-> s, body |-> b])
       \/ \E b \in Failures : Answered([status |-> 0, body |-> b])
    /\ UNCHANGED <<result, calls>>

\* It answers for what there is, refuses, or is not reached.
ServerRefuses ==
    /\ call.at = "sent" /\ lately' = exists
    /\ \E b \in Bodies :
          \/ call.op = "get" /\ Answered([status |-> IF exists THEN 200 ELSE 404, body |-> b])
          \/ call.op = "delete" /\ ~exists /\ Answered([status |-> 404, body |-> b])
          \/ \E s \in {400, 425, 429, 500} : Answered([status |-> s, body |-> b])
    /\ UNCHANGED <<exists, applied, result, calls>>

Unreached ==
    /\ call.at = "sent"
    /\ \E b \in Failures : Answered([status |-> 0, body |-> b])
    /\ UNCHANGED <<exists, lately, applied, result, calls>>

\* Mutant: no answer is taken for the answer that there is nothing.
Kind_Unanswered(op, r) ==
    IF Succeeds(op, r) THEN "ok" ELSE IF op = "post" /\ IsWaiting(r) THEN "waiting"
    ELSE IF r.status \in {0, 404} THEN "missing" ELSE "error"

Kind(op, r) ==
    IF Succeeds(op, r) THEN "ok" ELSE IF op = "post" /\ IsWaiting(r) THEN "waiting"
    ELSE IF r.status = 404 THEN "missing" ELSE "error"

\* Mutant: the attempts are not counted.
Retry_Uncounted ==
    /\ call.at = "answered" /\ ~Succeeds(call.op, reply)
    /\ Repeats(call.op, reply) /\ call.attempt < Attempts(call.op)
    /\ call' = [call EXCEPT !.at = "sent"]
    /\ UNCHANGED <<exists, lately, reply, applied, result, calls>>

\* Mutant: a POST whose answer was lost is repeated as a GET is.
Retry_Posts ==
    /\ call.at = "answered" /\ ~Succeeds(call.op, reply)
    /\ \/ Repeats(call.op, reply) /\ call.attempt < Attempts(call.op)
       \/ call.op = "post" /\ GetRetries(reply) /\ call.attempt < GetAttempts
    /\ call' = [op |-> call.op, attempt |-> call.attempt + 1, at |-> "sent"]
    /\ UNCHANGED <<exists, lately, reply, applied, result, calls>>

\* After a pause the attempt is repeated...
Retry ==
    /\ call.at = "answered" /\ ~Succeeds(call.op, reply)
    /\ Repeats(call.op, reply) /\ call.attempt < Attempts(call.op)
    /\ call' = [op |-> call.op, attempt |-> call.attempt + 1, at |-> "sent"]
    /\ UNCHANGED <<exists, lately, reply, applied, result, calls>>

\* ... or the call returns.
Return ==
    /\ call.at = "answered"
    /\ \/ Succeeds(call.op, reply) \/ ~Repeats(call.op, reply)
       \/ call.attempt >= Attempts(call.op)
    /\ result' = [op |-> call.op, kind |-> Kind(call.op, reply)]
    /\ call' = NoCall
    /\ UNCHANGED <<exists, lately, reply, applied, calls>>

\* The resource vanishes, or is made, by other hands.
Outside == exists' = ~exists /\ UNCHANGED <<lately, call, reply, applied, result, calls>>

Step == ServerApplies \/ ServerRefuses \/ Unreached \/ Retry \/ Return
Next == Begin \/ Step \/ Outside

Spec     == Init /\ [][Next]_vars
\* A request is answered or its timeout ends it, and the client's code runs on.
FairSpec == Spec /\ WF_vars(Step)

-----------------------------------------------------------------------------
(* Properties. A result stands until the next call begins.                 *)

Returned(kind) == call.at = "idle" /\ result.kind = kind

\* A success is never reported of what was not done: what was to be created was applied,
\* what was looked up was there, what was to be deleted was gone when the server answered.
OkMeansDone ==
    Returned("ok") => /\ result.op \in Creating => applied > 0
                      /\ result.op = "get" => lately
                      /\ result.op = "delete" => ~lately

\* The counts of 404 rest on answers about a resource that was not there.
MissingMeansAbsent == Returned("missing") => ~lately

\* Whatever is lost, the operator is asked for a resource once per call, and not at all
\* when it says that the target is not there.
PostedOnce ==
    /\ call.op = "post" => applied <= 1
    /\ Returned("waiting") => applied = 0

\* The callers of the three clients need no more than the result: a call may take effect
\* once, or as often as it may be sent, and only an error leaves open what it did.
Remote == INSTANCE RemoteCall WITH
    doing   <- IF call.at = "idle" THEN "none" ELSE call.op,
    effects <- applied,
    seen    <- IF call.at = "answered" /\ reply.status # 0
               THEN IF lately THEN "there" ELSE "absent" ELSE "nothing",
    Limit   <- [op \in Ops |-> Attempts(op)]

ResultsAreWarranted == Remote!Spec

\* Every call returns: the attempts are counted, and each of them ends.
CallReturns == call.at # "idle" ~> call.at = "idle"
=============================================================================
