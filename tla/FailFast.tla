------------------------------- MODULE FailFast -------------------------------
(***************************************************************************)
(* The choke point of swallowed failures (policy/fail_fast.py) and the     *)
(* text of failures: threads count a failure, raise it again in strict     *)
(* mode, mask its text and keep it as the last one; the masker may fail,   *)
(* or swallow a failure of its own and so come back in. Strict mode is one *)
(* variable of the process that scopes of any thread set and put back.     *)
(* A text is what it holds: "plain", "secret" (raw), "masked", "withheld". *)
(***************************************************************************)
EXTENDS Naturals, Sequences, SequencesExt

CONSTANTS FailThread,       \* threads of the process
          MaxFailCalls,     \* calls from outside, of a behaviour
          MaxScopes         \* strict scopes that are entered

ASSUME FailFastAssumption == MaxFailCalls \in Nat /\ MaxScopes \in Nat

\* What a call is given: a text, one over the limit of the masker, or an
\* object whose __str__ raises.
FailValue == {"plain", "secret", "huge", "hostile"}

VARIABLES strict,      \* AGI_V8_STRICT_FAIL_FAST
          maskGate,    \* does the census mask?
          counts,      \* failures in the census
          last,        \* the last text of the census
          stack,       \* stack[t]: the calls of a thread, innermost last
          active,      \* _mask_reentry of a thread
          saved,       \* saved[t]: what its scope will put back, or "none"
          outcome,     \* how the last call from outside ended
          failGhost    \* [calls, scopes, ambient, overlap, swallows]

failVars == <<strict, maskGate, counts, last, stack, active, saved, outcome, failGhost>>

NoOutcome == [op |-> "none", raised |-> FALSE, text |-> "none"]

FailInit ==
    /\ strict \in BOOLEAN /\ maskGate \in BOOLEAN
    /\ counts = 0 /\ last = "none"
    /\ stack = [t \in FailThread |-> <<>>]
    /\ active = [t \in FailThread |-> FALSE]
    /\ saved = [t \in FailThread |-> "none"]
    /\ outcome = [t \in FailThread |-> NoOutcome]
    /\ failGhost = [calls |-> 0, scopes |-> 0, ambient |-> strict, overlap |-> FALSE, swallows |-> 0]

(***************************************************************************)
(* Calls and returns                                                       *)
(***************************************************************************)
Frame(op, value) == [op |-> op, pc |-> "start", value |-> value, text |-> "none"]
InCall(t, ops, pc) == stack[t] # <<>> /\ Last(stack[t]).op \in ops /\ Last(stack[t]).pc = pc
Moved(t, frame) == [stack EXCEPT ![t] = Append(Front(@), frame)]
Step(t, pc) == Moved(t, [Last(stack[t]) EXCEPT !.pc = pc])
StepWith(t, pc, text) == Moved(t, [Last(stack[t]) EXCEPT !.pc = pc, !.text = text])
Enters(t, pc, frame) == [stack EXCEPT ![t] = Append(Front(@), [Last(@) EXCEPT !.pc = pc]) \o <<frame>>]

\* Bug: the writer of a critical record lets through what the formatter raises.
_LetsThrough(caller, raised, text) ==
    CASE caller.pc = "masking" ->
            [caller EXCEPT !.pc = IF raised THEN "maskFailed" ELSE "masked", !.text = "withheld"]
      [] caller.pc \in {"opaque", "unmasked"} /\ caller.op = "sink" ->
            [caller EXCEPT !.pc = IF raised THEN "raise" ELSE "return", !.text = "withheld"]
      [] OTHER -> [caller EXCEPT !.pc = IF raised THEN "raise" ELSE "return", !.text = text]

\* What a caller makes of the end of a call: a masker whose own failure was
\* swallowed gives a text of its own, one whose was raised has failed; the
\* sinks let an exception through, the writers of critical records do not.
Resume(caller, raised, text) ==
    CASE caller.pc = "masking" ->
            [caller EXCEPT !.pc = IF raised THEN "maskFailed" ELSE "masked", !.text = "withheld"]
      [] caller.pc = "opaque" /\ caller.op = "sink" ->
            [caller EXCEPT !.pc = IF raised THEN "raise" ELSE "start", !.value = "plain"]
      [] caller.pc = "unmasked" ->
            [caller EXCEPT !.pc = IF raised THEN "raise" ELSE "return", !.text = "withheld"]
      [] caller.pc = "formatting" ->
            [caller EXCEPT !.pc = "return", !.text = IF raised THEN "withheld" ELSE text]
      [] OTHER -> [caller EXCEPT !.pc = "return", !.text = "plain"]

EndCall(t, raised, text) ==
    LET rest == Front(stack[t]) IN
    IF rest = <<>>
    THEN /\ stack' = [stack EXCEPT ![t] = <<>>]
         /\ outcome' = [outcome EXCEPT ![t] = [op |-> Last(stack[t]).op, raised |-> raised, text |-> text]]
    ELSE /\ stack' = [stack EXCEPT ![t] = Append(Front(rest), Resume(Last(rest), raised, text))]
         /\ UNCHANGED outcome

CallFrom(t) ==
    /\ stack[t] = <<>> /\ failGhost.calls < MaxFailCalls
    /\ \E op \in {"swallowed", "sink", "critical", "criticalText", "record", "artifact"}, value \in FailValue :
          /\ op = "record" => value = "plain"
          /\ op = "criticalText" => value = "hostile"
          /\ stack' = [stack EXCEPT ![t] = <<Frame(op, value)>>]
    /\ failGhost' = [failGhost EXCEPT !.calls = @ + 1]
    /\ outcome' = [outcome EXCEPT ![t] = NoOutcome]
    /\ UNCHANGED <<strict, maskGate, counts, last, active, saved>>

ReturnFrom(t) ==
    /\ stack[t] # <<>> /\ Last(stack[t]).pc \in {"return", "raise"}
    /\ EndCall(t, Last(stack[t]).pc = "raise", Last(stack[t]).text)
    /\ UNCHANGED <<strict, maskGate, counts, last, active, saved, failGhost>>

(***************************************************************************)
(* swallowed                                                               *)
(***************************************************************************)
\* The count is first, whatever the text will do ...
Count(t) ==
    /\ InCall(t, {"swallowed"}, "start")
    /\ counts' = counts + 1
    /\ stack' = Step(t, "strict")
    /\ failGhost' = [failGhost EXCEPT !.swallows = @ + 1]
    /\ UNCHANGED <<strict, maskGate, last, active, saved, outcome>>

\* ... and strict mode, as it is now, raises before there is a text.
StrictRaises(t) ==
    /\ InCall(t, {"swallowed"}, "strict") /\ strict
    /\ EndCall(t, TRUE, "none")
    /\ UNCHANGED <<strict, maskGate, counts, last, active, saved, failGhost>>

\* _mask_census_text: not while this thread masks already, not over the limit.
TakeText(t) ==
    /\ InCall(t, {"swallowed"}, "strict") /\ ~strict
    /\ LET value == Last(stack[t]).value
           raw == IF value = "hostile" THEN "plain" ELSE value IN
       IF ~maskGate
       THEN stack' = StepWith(t, "store", IF raw = "huge" THEN "secret" ELSE raw) /\ UNCHANGED active
       ELSE IF active[t] \/ raw = "huge"
       THEN stack' = StepWith(t, "store", "withheld") /\ UNCHANGED active
       ELSE /\ stack' = Moved(t, [Last(stack[t]) EXCEPT !.pc = "masking", !.value = raw])
            /\ active' = [active EXCEPT ![t] = TRUE]
    /\ UNCHANGED <<strict, maskGate, counts, last, saved, outcome, failGhost>>

Store(t) ==
    /\ InCall(t, {"swallowed"}, "store")
    /\ last' = Last(stack[t]).text
    /\ EndCall(t, FALSE, "none")
    /\ UNCHANGED <<strict, maskGate, counts, active, saved, failGhost>>

(***************************************************************************)
(* The mask pipeline, of whoever called it                                 *)
(***************************************************************************)
MaskOf(value) == IF value = "secret" THEN "masked" ELSE "plain"

Masks(t) ==
    /\ InCall(t, {"swallowed", "sink", "artifact"}, "masking")
    /\ stack' = StepWith(t, "masked", MaskOf(Last(stack[t]).value))
    /\ UNCHANGED <<strict, maskGate, counts, last, active, saved, outcome, failGhost>>

\* A masker that cannot be imported, or raises.
MaskBreaks(t) ==
    /\ InCall(t, {"swallowed", "sink", "artifact"}, "masking")
    /\ stack' = StepWith(t, "maskFailed", "withheld")
    /\ UNCHANGED <<strict, maskGate, counts, last, active, saved, outcome, failGhost>>

\* mask_secrets_strict_guarded swallows a failure of the patterns, with its text.
MaskSwallows(t) ==
    /\ InCall(t, {"swallowed", "sink", "artifact"}, "masking")
    /\ stack' = Enters(t, "masking", Frame("swallowed", "secret"))
    /\ UNCHANGED <<strict, maskGate, counts, last, active, saved, outcome, failGhost>>

\* The guard is let go in every case; a sink swallows the failure of the
\* masker, the census does not, and an artifact is refused unless the masker
\* has left it as it was.
AfterMask(t) ==
    /\ stack[t] # <<>> /\ Last(stack[t]).pc \in {"masked", "maskFailed"}
    /\ active' = IF Last(stack[t]).op = "artifact" THEN active ELSE [active EXCEPT ![t] = FALSE]
    /\ LET top == Last(stack[t]) IN
       stack' = CASE top.op = "swallowed" -> Step(t, "store")
                  [] top.op = "sink" /\ top.pc = "maskFailed" -> Enters(t, "unmasked", Frame("swallowed", "plain"))
                  [] top.op = "artifact" -> Step(t, IF top.pc = "masked" /\ top.text = top.value
                                                    THEN "return" ELSE "raise")
                  [] OTHER -> Step(t, "return")
    /\ UNCHANGED <<strict, maskGate, counts, last, saved, outcome, failGhost>>

(***************************************************************************)
(* The sinks                                                               *)
(***************************************************************************)
\* format_text_for_sink, format_exception_for_sink
StartSink(t) ==
    /\ InCall(t, {"sink"}, "start")
    /\ LET value == Last(stack[t]).value IN
       IF value = "hostile"
       THEN stack' = Enters(t, "opaque", Frame("swallowed", "plain")) /\ UNCHANGED active
       ELSE IF value = "huge" \/ active[t]
       THEN stack' = StepWith(t, "return", "withheld") /\ UNCHANGED active
       ELSE stack' = Step(t, "masking") /\ active' = [active EXCEPT ![t] = TRUE]
    /\ UNCHANGED <<strict, maskGate, counts, last, saved, outcome, failGhost>>

\* format_exception_for_critical_record asks for the text itself,
\* format_text_for_critical_record (here only with what has none, else they
\* are alike) leaves that to the sink; record_critical_failure has no text.
StartCritical(t) ==
    /\ InCall(t, {"critical", "criticalText", "record"}, "start")
    /\ LET top == Last(stack[t]) IN
       stack' = IF top.op = "record" \/ (top.op = "critical" /\ top.value = "hostile")
                THEN Enters(t, "opaque", Frame("swallowed", "plain"))
                ELSE Enters(t, "formatting", Frame("sink", top.value))
    /\ UNCHANGED <<strict, maskGate, counts, last, active, saved, outcome, failGhost>>

\* require_artifact_text_safe: what is no text or too long is refused at
\* once; the masker runs without the guard.
StartArtifact(t) ==
    /\ InCall(t, {"artifact"}, "start")
    /\ stack' = Step(t, IF Last(stack[t]).value \in {"hostile", "huge"} THEN "raise" ELSE "masking")
    /\ UNCHANGED <<strict, maskGate, counts, last, active, saved, outcome, failGhost>>

(***************************************************************************)
(* strict_scope                                                            *)
(***************************************************************************)
EnterScope(t) ==
    /\ stack[t] = <<>> /\ saved[t] = "none" /\ failGhost.scopes < MaxScopes
    /\ \E enabled \in BOOLEAN : strict' = enabled
    /\ saved' = [saved EXCEPT ![t] = IF strict THEN "true" ELSE "false"]
    /\ failGhost' = [failGhost EXCEPT !.scopes = @ + 1,
                                      !.overlap = @ \/ \E u \in FailThread : saved[u] # "none"]
    /\ UNCHANGED <<maskGate, counts, last, stack, active, outcome>>

ExitScope(t) ==
    /\ stack[t] = <<>> /\ saved[t] # "none"
    /\ strict' = (saved[t] = "true")
    /\ saved' = [saved EXCEPT ![t] = "none"]
    /\ UNCHANGED <<maskGate, counts, last, stack, active, outcome, failGhost>>

FailNext == \E t \in FailThread :
    \/ CallFrom(t) \/ ReturnFrom(t) \/ Count(t) \/ StrictRaises(t) \/ TakeText(t) \/ Store(t)
    \/ Masks(t) \/ MaskBreaks(t) \/ MaskSwallows(t) \/ AfterMask(t)
    \/ StartSink(t) \/ StartCritical(t) \/ StartArtifact(t) \/ EnterScope(t) \/ ExitScope(t)

(***************************************************************************)
(* Property                                                                *)
(***************************************************************************)
(* A critical record always gets its text, in strict mode, with a masker   *)
(* that fails and while other threads set strict mode; no text leaves a    *)
(* sink, an artifact or (with its gate) the census unmasked; the masker    *)
(* that swallows ends, and leaves its guard open for the next call; every  *)
(* swallow is counted; scopes that do not overlap put strict mode back     *)
(* (fail_fast.py, swallowed and the functions of the critical records).    *)
FailuresAreToldSafely ==
    /\ \A t \in FailThread :
          /\ outcome[t].op \in {"critical", "criticalText", "record"} => ~outcome[t].raised /\ outcome[t].text # "none"
          /\ outcome[t].text # "secret"
          /\ stack[t] = <<>> => ~active[t]
          /\ Len(stack[t]) <= 4
    /\ maskGate => last # "secret"
    /\ counts = failGhost.swallows
    /\ (~failGhost.overlap /\ \A t \in FailThread : saved[t] = "none") => strict = failGhost.ambient
=============================================================================
