----------------------------- MODULE GroqClient -----------------------------
(***************************************************************************)
(* The Groq HTTP client (internal/llm/groq): one call of Analyze, Adapt,   *)
(* ExtractVocab ("json"), Summarize ("plain") or ValidateAPIKey ("key").   *)
(* A call is three nested retry loops: doWithRetry resends after 5xx and   *)
(* transport errors, withRateLimitRetry starts that loop again after a 429 *)
(* that names a waiting time, and chatJSONWithSchemaRetry asks once more   *)
(* after a reply that fails its schema.  What the service answers is       *)
(* chosen by the environment; the context is cancelled when the bot is     *)
(* told to stop.  Durations are in units of 250 ms.                        *)
(***************************************************************************)
EXTENDS Integers, Sequences

CONSTANTS
    Backoff,              \* defaultBackoff, the waits between resends
    MaxRateLimitAttempts, \* attempts of one chat against 429
    MaxRetryAfter,        \* longest accepted wait
    RetryAfterBuffer,     \* added to the service's hint
    Hints                 \* waiting times a 429 may name; 0: none usable

ASSUME ClientAssumption ==
    /\ Backoff \in Seq(Nat)
    /\ MaxRateLimitAttempts \in Nat \ {0}
    /\ MaxRetryAfter \in Nat \ {0}
    /\ RetryAfterBuffer \in Nat
    /\ Hints \subseteq Nat

VARIABLES
    op,       \* the kind of call in progress
    pc,       \* where the call stands
    round,    \* 1, or 2 once the schema retry was asked
    attempt,  \* of withRateLimitRetry, within the round
    try,      \* of doWithRetry, within the attempt
    reply,    \* what the last http.Do gave
    callCtx,  \* the handler's context
    result,   \* what the caller gets
    sends,    \* history: http.Do calls of this call
    late,     \* history: those begun after the cancellation
    waited,   \* history: time slept on rate limits in this call
    misfits   \* history: replies of this call that failed the schema

chatVars == <<op, pc, round, attempt, try, reply, callCtx, result, sends, late, waited, misfits>>
counters == <<round, attempt, try>>
history == <<sends, late, waited, misfits>>

Ops == {"json", "plain", "key"}

\* What one http.Do can give: a 2xx whose content satisfies the schema or
\* not, a 2xx that cannot be decoded, 401/403, 429, another status below
\* 500, a 5xx, or no response at all.
Retryable == {"server", "transport"}
Kinds == {"valid", "invalid", "garbled", "denied", "limited", "refused"} \cup Retryable

NoReply == [kind |-> "none", hint |-> 0]

Clamp(d) == IF d > MaxRetryAfter THEN MaxRetryAfter ELSE d

\* The header's hint when it names one, else the body's, else none.
ParseRetryAfter(header, body) ==
    IF header > 0 THEN Clamp(header) ELSE IF body > 0 THEN Clamp(body) ELSE 0

RateLimitWait(hint) == Clamp(hint + RetryAfterBuffer)

Finish(r) == pc' = "done" /\ result' = r

ChatTypeOK ==
    /\ op \in Ops
    /\ pc \in {"idle", "send", "await", "judge", "backoff", "limited", "done"}
    /\ round \in 1..2
    /\ attempt \in 1..MaxRateLimitAttempts
    /\ try \in 1..Len(Backoff) + 1
    /\ reply \in [kind : Kinds \cup {"none"}, hint : 0..MaxRetryAfter]
    /\ callCtx \in {"live", "cancelled"}
    /\ result \in {"none", "answer", "schema", "invalid_key", "rate_limited",
                   "unavailable", "cancelled"}
    /\ <<sends, late, waited, misfits>> \in Nat \X Nat \X Nat \X Nat

ChatInit ==
    /\ op = "json"
    /\ pc = "idle"
    /\ round = 1 /\ attempt = 1 /\ try = 1
    /\ reply = NoReply
    /\ callCtx = "live"
    /\ result = "none"
    /\ sends = 0 /\ late = 0 /\ waited = 0 /\ misfits = 0

-----------------------------------------------------------------------------
(* The environment: the caller, the service and the shutdown signal. *)

Call(o) ==
    /\ pc = "idle"
    /\ op' = o
    /\ pc' = "send"
    /\ UNCHANGED <<counters, reply, callCtx, result, history>>

\* The answer is the caller's and nothing of the call is left behind.
Return ==
    /\ pc = "done"
    /\ pc' = "idle"
    /\ round' = 1 /\ attempt' = 1 /\ try' = 1
    /\ reply' = NoReply
    /\ result' = "none"
    /\ sends' = 0 /\ late' = 0 /\ waited' = 0 /\ misfits' = 0
    /\ UNCHANGED <<op, callCtx>>

Cancel ==
    /\ callCtx = "live"
    /\ callCtx' = "cancelled"
    /\ UNCHANGED <<op, pc, counters, reply, result, history>>

\* http.Do returns.  One begun under a cancelled context never reaches the
\* service; the client's 20 s timeout is a transport error as well.
Respond(kind, header, body) ==
    /\ pc = "await"
    /\ late > 0 => kind = "transport"
    /\ reply' = [kind |-> kind,
                 hint |-> IF kind = "limited" THEN ParseRetryAfter(header, body) ELSE 0]
    /\ pc' = "judge"
    /\ UNCHANGED <<op, counters, callCtx, result, history>>

-----------------------------------------------------------------------------
(* doWithRetry *)

Send ==
    /\ pc = "send"
    /\ pc' = "await"
    /\ sends' = sends + 1
    /\ late' = IF callCtx = "cancelled" THEN late + 1 ELSE late
    /\ UNCHANGED <<op, counters, reply, callCtx, result, waited, misfits>>

\* Mutant: time.Sleep in place of the select.
SleepUninterrupted(place) == pc' = place /\ UNCHANGED result

\* A select entered under a cancelled context returns at once: the timer
\* has only just been set.
Sleep(place) ==
    IF callCtx = "cancelled" THEN Finish("cancelled")
                         ELSE pc' = place /\ UNCHANGED result

BackOff ==
    /\ pc = "judge" /\ reply.kind \in Retryable
    /\ op # "key" /\ try <= Len(Backoff)
    /\ Sleep("backoff")
    /\ UNCHANGED <<op, counters, reply, callCtx, history>>

\* Mutant: the resend budget starts again with every resend.
ResendUncounted ==
    /\ pc = "backoff"
    /\ try' = 1
    /\ pc' = "send"
    /\ UNCHANGED <<op, round, attempt, reply, callCtx, result, history>>

Resend ==
    /\ pc = "backoff"
    /\ try' = try + 1
    /\ pc' = "send"
    /\ UNCHANGED <<op, round, attempt, reply, callCtx, result, history>>

Exhausted ==
    /\ pc = "judge" /\ reply.kind \in Retryable
    /\ op = "key" \/ try = Len(Backoff) + 1
    /\ Finish("unavailable")
    /\ UNCHANGED <<op, counters, reply, callCtx, history>>

-----------------------------------------------------------------------------
(* chatOnce and withRateLimitRetry *)

\* Mutant: a 429 that names no time is retried as well.
WaitWithoutHint == op # "key" /\ attempt < MaxRateLimitAttempts

MayWait == op # "key" /\ attempt < MaxRateLimitAttempts /\ reply.hint > 0

WaitForWindow ==
    /\ pc = "judge" /\ reply.kind = "limited"
    /\ MayWait
    /\ Sleep("limited")
    /\ UNCHANGED <<op, counters, reply, callCtx, history>>

\* The wait is over: once() runs again, with a resend budget of its own.
NextAttempt ==
    /\ pc = "limited"
    /\ waited' = waited + RateLimitWait(reply.hint)
    /\ attempt' = attempt + 1
    /\ try' = 1
    /\ pc' = "send"
    /\ UNCHANGED <<op, round, reply, callCtx, result, sends, late, misfits>>

\* The context ends a wait before its timer does.
CtxDone ==
    /\ pc \in {"backoff", "limited"}
    /\ callCtx = "cancelled"
    /\ Finish("cancelled")
    /\ UNCHANGED <<op, counters, reply, callCtx, history>>

\* Mutant: the call is started over for as long as the limit lasts.
StartOver ==
    /\ pc = "judge" /\ reply.kind = "limited"
    /\ ~ MayWait
    /\ IF reply.hint > 0
       THEN /\ pc' = "send" /\ round' = 1 /\ attempt' = 1 /\ try' = 1
            /\ sends' = 0 /\ late' = 0 /\ waited' = 0 /\ misfits' = 0
            /\ UNCHANGED result
       ELSE Finish("rate_limited") /\ UNCHANGED <<counters, history>>
    /\ UNCHANGED <<op, reply, callCtx>>

GiveUp ==
    /\ pc = "judge" /\ reply.kind = "limited"
    /\ ~ MayWait
    /\ Finish("rate_limited")
    /\ UNCHANGED <<op, counters, reply, callCtx, history>>

Fail ==
    /\ pc = "judge"
    /\ \/ reply.kind = "denied" /\ Finish("invalid_key")
       \/ reply.kind = "refused" /\ Finish("unavailable")
       \/ reply.kind = "garbled" /\ op # "key" /\ Finish("unavailable")
    /\ UNCHANGED <<op, counters, reply, callCtx, history>>

-----------------------------------------------------------------------------
(* chatJSONWithSchemaRetry; prose has no schema, a key check has no body. *)

\* Mutant: the second reply is not validated.
AcceptRetry ==
    /\ pc = "judge"
    /\ \/ reply.kind = "valid"
       \/ reply.kind = "invalid" /\ (op # "json" \/ round = 2)
       \/ reply.kind = "garbled" /\ op = "key"
    /\ Finish("answer")
    /\ UNCHANGED <<op, counters, reply, callCtx, history>>

Accept ==
    /\ pc = "judge"
    /\ \/ reply.kind = "valid"
       \/ reply.kind = "invalid" /\ op # "json"
       \/ reply.kind = "garbled" /\ op = "key"
    /\ Finish("answer")
    /\ UNCHANGED <<op, counters, reply, callCtx, history>>

AskAgain ==
    /\ pc = "judge" /\ reply.kind = "invalid" /\ op = "json"
    /\ round = 1
    /\ round' = 2 /\ attempt' = 1 /\ try' = 1
    /\ misfits' = misfits + 1
    /\ pc' = "send"
    /\ UNCHANGED <<op, reply, callCtx, result, sends, late, waited>>

Reject ==
    /\ pc = "judge" /\ reply.kind = "invalid" /\ op = "json"
    /\ round = 2
    /\ misfits' = misfits + 1
    /\ Finish("schema")
    /\ UNCHANGED <<op, counters, reply, callCtx, sends, late, waited>>

-----------------------------------------------------------------------------
Service == \E k \in Kinds, header, body \in Hints : Respond(k, header, body)

Client ==
    \/ Send \/ BackOff \/ Resend \/ Exhausted
    \/ WaitForWindow \/ NextAttempt \/ CtxDone \/ GiveUp \/ Fail
    \/ Accept \/ AskAgain \/ Reject

ChatNext == (\E o \in Ops : Call(o)) \/ Return \/ Cancel \/ Service \/ Client

ChatSpec == ChatInit /\ [][ChatNext]_chatVars

\* The client's goroutine is scheduled, its timers fire, and http.Client has
\* a timeout, so an http.Do always returns.  Nothing is assumed of the
\* caller, of the signal or of what the service answers.
ChatFairSpec == ChatSpec /\ WF_chatVars(Client) /\ WF_chatVars(Service)

-----------------------------------------------------------------------------
(* Properties *)

Tries == Len(Backoff) + 1
Final == {"denied", "refused", "garbled", "valid"}

\* However the three loops nest, a call sends at most one request per resend
\* slot of every attempt of every round: the loops never feed one another.
\* Nor does it sleep on rate limits longer than the attempts allow, whatever
\* waiting time the service names.
\* client.go:26-60 and 157-224, schema_retry.go:18-54.
CallBounded ==
    /\ sends <= ((round - 1) * MaxRateLimitAttempts + attempt - 1) * Tries + try
    /\ op = "key" => sends <= 1
    /\ op = "plain" => round = 1
    /\ waited <= round * (MaxRateLimitAttempts - 1) * MaxRetryAfter

\* What the caller is told is what happened last: no stale error of an
\* earlier attempt, no answer that was never validated, a schema error only
\* after two misfits, a cancellation only when there was one.
ResultIsLast ==
    pc = "done" =>
        CASE result = "answer" ->
                /\ reply.kind \in {"valid", "invalid", "garbled"}
                /\ op = "json" => reply.kind = "valid"
          [] result = "schema" -> misfits = 2 /\ reply.kind = "invalid"
          [] result = "invalid_key" -> reply.kind = "denied"
          [] result = "rate_limited" ->
                /\ reply.kind = "limited"
                /\ attempt = MaxRateLimitAttempts \/ reply.hint = 0 \/ op = "key"
          [] result = "unavailable" -> reply.kind \in Retryable \cup {"refused", "garbled"}
          [] result = "cancelled" -> callCtx = "cancelled"

\* After the bot was told to stop a call makes at most one more attempt,
\* which fails on its cancelled context: a draining handler is not held up
\* by three nested retry loops.  client.go:157-224.
QuietAfterCancel == late <= 1

\* A reply that a resend cannot improve (a wrong key, a refused request, a
\* 429 that names no time, an accepted answer) is never followed by another
\* request of the same call.  client.go:186-190 "retrying those just burns
\* tokens and time".
NoResend ==
    [][(pc' = "send" /\ pc \notin {"idle", "send"}) =>
         /\ reply.kind \notin Final
         /\ reply.kind = "limited" => reply.hint > 0
         /\ reply.kind = "invalid" => misfits = 0]_chatVars

\* Every call comes back to its handler, whatever the service answers and
\* whether or not the context is cancelled.
CallReturns == (pc = "send") ~> (pc = "done")

\* budget.go:62-66: "four attempts gives us room to recover without ever
\* waiting longer than MaxRetryAfter cumulatively".
CumulativeWait == round = 1 => waited <= MaxRetryAfter
=============================================================================
