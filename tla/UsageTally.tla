------------------------------ MODULE UsageTally ------------------------------
(***************************************************************************)
(* What a model call cost (providers/base.py): threads share one provider, *)
(* a call may be billed several times by retries inside it, and its caller *)
(* reads the usage either from a box of its own or from the provider after *)
(* the call. A usage is known by its tokens.                               *)
(***************************************************************************)
EXTENDS Integers

CONSTANTS Thread,
          Tokens,      \* what one paid answer may cost
          MaxTrips     \* round trips of one call

ASSUME TokensAssumption == Tokens \subseteq Nat \ {0} /\ MaxTrips \in Nat

VARIABLES honesty,  \* AGI_V8_USAGE_HONESTY_ENABLED
          call,     \* call[t], the call of a thread and the row it leads to
          shared    \* last_usage of the provider outside of calls

tallyVars == <<honesty, call, shared>>

\* A usage dict: is there anything in it, its tokens, whether the answer
\* itself said that it was free, whether it says that trips were unmeasured.
Usage(tokens) == [there |-> TRUE, tokens |-> tokens, measured |-> FALSE, flag |-> FALSE]
NoUsage == [there |-> FALSE, tokens |-> 0, measured |-> FALSE, flag |-> FALSE]
NoTally == [tokens |-> 0, billed |-> FALSE, unmeasured |-> FALSE]

\* `paid` and `silent` are what really happened: the tokens of all paid
\* answers, and an answer without a count. `dropped` tells that the provider
\* emptied its usage and went on to another trip, `clobbered` that another
\* call ended on the provider before this caller read it.
NoCall == [pc |-> "idle", own |-> FALSE, sink |-> NoUsage, tally |-> NoTally,
           pending |-> NoUsage, trips |-> 0, paid |-> 0, silent |-> FALSE, cleared |-> FALSE,
           dropped |-> FALSE, clobbered |-> FALSE, failed |-> FALSE, pre |-> NoUsage,
           bill |-> NoUsage, known |-> TRUE]

TallyInit ==
    /\ honesty \in BOOLEAN
    /\ call = [t \in Thread |-> NoCall]
    /\ shared = NoUsage

(***************************************************************************)
(* The tally                                                               *)
(***************************************************************************)
_FoldLast(tally, usage) ==
    IF usage.tokens > 0 THEN [tally EXCEPT !.tokens = usage.tokens, !.billed = TRUE]
    ELSE [tally EXCEPT !.unmeasured = @ \/ (usage.there /\ ~usage.measured)]

\* A trip without tokens is unmeasured unless the answer proved it free.
Fold(tally, usage) ==
    IF usage.tokens > 0
    THEN [tally EXCEPT !.tokens = @ + usage.tokens, !.billed = TRUE]
    ELSE [tally EXCEPT !.unmeasured = @ \/ (usage.there /\ ~usage.measured)]

\* The copy kept of the last trip stands in for a usage that was emptied.
LastTrip(c) == IF c.sink.tokens = 0 /\ ~c.sink.measured THEN c.pending ELSE c.sink

Seal(c) ==
    LET tally == Fold(c.tally, LastTrip(c)) IN
    IF tally.billed
    THEN [there |-> TRUE, tokens |-> tally.tokens, measured |-> c.sink.measured,
          flag |-> honesty /\ tally.unmeasured]
    ELSE IF honesty /\ tally.unmeasured
    THEN [c.sink EXCEPT !.there = TRUE, !.measured = FALSE, !.flag = TRUE]
    ELSE c.sink

(***************************************************************************)
(* A call                                                                  *)
(***************************************************************************)
\* generate() is entered: on a thread of its own with a box (`own`), or
\* directly by a caller that remembers the usage before it.
EnterCall(t) ==
    /\ call[t].pc = "idle"
    /\ \E own \in BOOLEAN :
        call' = [call EXCEPT ![t] = [NoCall EXCEPT !.pc = "calling", !.own = own,
                                                   !.pre = IF own THEN NoUsage ELSE shared]]
    /\ UNCHANGED <<honesty, shared>>

\* _record_usage: what stands in the sink is the trip before.
RecordUsage(c, usage) ==
    [c EXCEPT !.tally = IF c.sink.there THEN Fold(@, c.sink) ELSE @,
              !.pending = [usage EXCEPT !.measured = FALSE],
              !.sink = usage,
              !.trips = @ + 1,
              !.paid = @ + usage.tokens,
              !.silent = @ \/ (usage.tokens = 0 /\ ~usage.measured),
              !.dropped = @ \/ c.cleared,
              !.cleared = FALSE]

\* One round trip: paid, without a count, or proved free. A trip that does
\* not reach the service records nothing.
Trip(t) ==
    /\ call[t].pc = "calling" /\ call[t].trips < MaxTrips
    /\ \E usage \in {Usage(k) : k \in Tokens \cup {0}} \cup {[Usage(0) EXCEPT !.measured = TRUE]} :
        call' = [call EXCEPT ![t] = RecordUsage(@, usage)]
    /\ UNCHANGED <<honesty, shared>>

\* The provider assigns an empty usage; inside a call that is the sink's.
Clear(t) ==
    /\ call[t].pc = "calling" /\ call[t].sink.there
    /\ call' = [call EXCEPT ![t].sink = NoUsage, ![t].cleared = TRUE]
    /\ UNCHANGED <<honesty, shared>>

Carried(c) == [NoCall EXCEPT !.own = c.own, !.paid = c.paid, !.silent = c.silent,
                          !.dropped = c.dropped, !.clobbered = c.clobbered]

\* The boundary of billing seals the call, answered or failed, and leaves a
\* copy on the provider. A wrapper's inner call has no boundary of its own.
Leave(t) ==
    /\ call[t].pc = "calling"
    /\ \E failed \in BOOLEAN :
        call' = [u \in Thread |->
            IF u = t THEN [Carried(call[t]) EXCEPT !.pc = "sealed", !.failed = failed,
                                                !.pre = call[t].pre, !.bill = Seal(call[t])]
            ELSE IF call[u].pc = "sealed" THEN [call[u] EXCEPT !.clobbered = @ \/ ~call[u].own]
            ELSE call[u]]
    /\ shared' = Seal(call[t])
    /\ UNCHANGED honesty

\* What the caller hands to the spend ledger: its box, where an empty one of
\* a failed call is unknown, or the usage of the provider as it is now, where
\* one that a failed call has left unchanged is that of the call before.
BillCaller(t) ==
    /\ call[t].pc = "sealed"
    /\ LET c == call[t]
           usage == IF c.own THEN c.bill ELSE shared
           known == c.failed => IF c.own THEN usage.there ELSE usage # c.pre
       IN call' = [call EXCEPT ![t] =
              [Carried(c) EXCEPT !.pc = "billed", !.bill = usage, !.known = known]]
    /\ UNCHANGED <<honesty, shared>>

NextCall(t) ==
    /\ call[t].pc = "billed"
    /\ call' = [call EXCEPT ![t] = NoCall]
    /\ UNCHANGED <<honesty, shared>>

TallyNext ==
    \E t \in Thread : EnterCall(t) \/ Trip(t) \/ Clear(t) \/ Leave(t) \/ BillCaller(t) \/ NextCall(t)

(***************************************************************************)
(* Properties                                                              *)
(***************************************************************************)
\* The row of a call carries the tokens of all its paid trips and of no other
\* call, and a call with uncounted trips does not pass for a free one when
\* the ledger is asked to be honest (_billing_boundary, _seal_call_usage,
\* _record_spend). Two things break it and are named: a caller without a box
\* reads the provider after another call has ended on it, and a provider that
\* empties its usage before it tries again.
BillIsWhatWasPaid ==
    \A t \in Thread :
        LET c == call[t] IN
        c.pc = "billed" /\ c.known /\ ~c.dropped /\ ~c.clobbered =>
            /\ c.bill.tokens = c.paid
            /\ honesty /\ c.paid = 0 /\ c.silent => c.bill.flag
===============================================================================
