------------------------------- MODULE LiveCode -------------------------------
(***************************************************************************)
(* The probe of the first layer of the join ratchet (ledger_join_check.py, *)
(* live_nodes and what it calls): which calls of a function's body count   *)
(* as there, when whatever literals alone show to be dead is left out. It  *)
(* is compared with what the language runs: a call that some run reaches   *)
(* must be among those that count.                                         *)
(* A node is a record with its kind; `kids` are its parts.                 *)
(***************************************************************************)
EXTENDS Naturals, Sequences, SequencesExt

CONSTANT LoopRounds   \* rounds of a loop that the reference runs at most

ASSUME LiveAssumption == LoopRounds \in Nat

VARIABLES body,      \* the statements of the function
          probed,    \* the calls that the probe counts, {} before
          ran        \* the calls that one run made

liveVars == <<body, probed, ran>>

(***************************************************************************)
(* Nodes                                                                   *)
(***************************************************************************)
Node(kind, kids) == [kind |-> kind, kids |-> kids]
CallNode(i) == Node("call", <<i>>)
Lit(truth) == Node("literal", <<truth>>)
Name == Node("name", <<>>)
TERMINATORS == {"return", "raise", "break", "continue"}
Leaf == {"call", "literal", "name"} \union TERMINATORS

(***************************************************************************)
(* The probe                                                               *)
(***************************************************************************)
\* static_truth: of literals, and of not, and, or over them; else unknown.
RECURSIVE static_truth(_)
static_truth(n) ==
    LET parts == {static_truth(n.kids[i]) : i \in DOMAIN n.kids}
        Of(stop, other) == IF stop \in parts THEN stop
                           ELSE IF parts = {other} THEN other ELSE "unknown" IN
    CASE n.kind = "literal" -> IF n.kids[1] THEN "true" ELSE "false"
      [] n.kind = "not" -> [true |-> "false", false |-> "true", unknown |-> "unknown"][static_truth(n.kids[1])]
      [] n.kind = "and" -> Of("false", "true")
      [] n.kind = "or" -> Of("true", "false")
      [] OTHER -> "unknown"

UpTo(s, Ends(_)) == LET ends == {i \in DOMAIN s : Ends(s[i])} IN
    IF ends = {} THEN s ELSE SubSeq(s, 1, CHOOSE i \in ends : \A j \in ends : i <= j)

\* _live_block: nothing after a terminator of the same block.
live_block(stmts) == UpTo(stmts, LAMBDA s : s.kind \in TERMINATORS)

\* _live_comprehension of one generator, [iter, condition..., element]: each
\* is evaluated if none before it is false.
live_comprehension(kids) == UpTo(kids, LAMBDA k : static_truth(k) = "false")

If(b, s) == IF b THEN s ELSE <<>>

\* Bug: the else clause of a loop dies with its body.
_ElseDies(n) ==
    LET truth == static_truth(n.kids[1]) IN
    CASE n.kind \in Leaf -> <<>>
      [] n.kind \in {"if", "while", "for"} ->
            <<n.kids[1]>> \o If(truth # "false", live_block(n.kids[2])) \o If(truth = "unknown", live_block(n.kids[3]))
      [] OTHER -> n.kids

\* _live_children: the test or the iterable, the parts that it leaves alive,
\* and what stands behind the value that ends a short circuit.
live_children(n) ==
    LET truth == static_truth(n.kids[1]) IN
    CASE n.kind \in Leaf -> <<>>
      [] n.kind = "ifexp" ->
            <<n.kids[1]>> \o If(truth # "false", <<n.kids[2]>>) \o If(truth # "true", <<n.kids[3]>>)
      [] n.kind = "if" ->
            <<n.kids[1]>> \o If(truth # "false", live_block(n.kids[2])) \o If(truth # "true", live_block(n.kids[3]))
      [] n.kind \in {"while", "for"} ->
            <<n.kids[1]>> \o If(truth # "false", live_block(n.kids[2])) \o live_block(n.kids[3])
      [] n.kind = "comprehension" -> live_comprehension(n.kids)
      [] n.kind \in {"and", "or"} ->
            UpTo(n.kids, LAMBDA k : static_truth(k) = IF n.kind = "and" THEN "false" ELSE "true")
      [] OTHER -> n.kids

\* probe_calls over live_nodes: the calls below a node.
RECURSIVE probe_calls(_)
probe_calls(n) == IF n.kind = "call" THEN {n.kids[1]}
                  ELSE UNION {probe_calls(c) : c \in ToSet(live_children(n))}

Probe ==
    /\ probed' = UNION {probe_calls(s) : s \in ToSet(live_block(body))}
    /\ UNCHANGED <<body, ran>>

(***************************************************************************)
(* The reference: the outcomes of running a node, each a truth value or    *)
(* the way a statement ends, and the calls that were made.                 *)
(***************************************************************************)
Out(end, calls) == [end |-> end, calls |-> calls]
Then(outs, Next(_)) == UNION {{Out(o.end, p.calls \union o.calls) : o \in Next(p.end)} : p \in outs}

RECURSIVE Eval(_), EvalAll(_, _), Run(_), RunAll(_), Loop(_, _)
\* The parts of and (stop = FALSE) or of or (stop = TRUE), to the first that stops it.
EvalAll(kids, stop) ==
    Then(Eval(kids[1]), LAMBDA v : IF v = stop \/ Len(kids) = 1 THEN {Out(v, {})} ELSE EvalAll(Tail(kids), stop))

Eval(n) ==
    CASE n.kind = "literal" -> {Out(n.kids[1], {})}
      [] n.kind = "name" -> {Out(v, {}) : v \in BOOLEAN}
      [] n.kind = "call" -> {Out(v, {n.kids[1]}) : v \in BOOLEAN}
      [] n.kind = "not" -> Then(Eval(n.kids[1]), LAMBDA v : {Out(~v, {})})
      [] n.kind = "and" -> EvalAll(n.kids, FALSE)
      [] n.kind = "or" -> EvalAll(n.kids, TRUE)
      [] n.kind = "ifexp" -> Then(Eval(n.kids[1]), LAMBDA v : Eval(n.kids[IF v THEN 2 ELSE 3]))
      [] n.kind = "comprehension" -> EvalAll(n.kids, FALSE)

Loop(n, rounds) ==
    Then(Eval(n.kids[1]), LAMBDA v :
        IF ~v THEN RunAll(n.kids[3])
        ELSE IF rounds = 0 THEN {Out("raise", {})}    \* the run is cut off
        ELSE Then(RunAll(n.kids[2]), LAMBDA end :
                 CASE end = "break" -> {Out("next", {})}
                   [] end \in {"return", "raise"} -> {Out(end, {})}
                   [] n.kind = "for" -> RunAll(n.kids[3]) \union Loop(n, rounds - 1)
                   [] OTHER -> Loop(n, rounds - 1)))

Run(n) ==
    CASE n.kind \in TERMINATORS -> {Out(n.kind, {})}
      [] n.kind = "if" -> Then(Eval(n.kids[1]), LAMBDA v : RunAll(n.kids[IF v THEN 2 ELSE 3]))
      [] n.kind \in {"while", "for"} -> Loop(n, LoopRounds)
      [] OTHER -> Then(Eval(n), LAMBDA v : {Out("next", {})})

RunAll(stmts) ==
    IF stmts = <<>> THEN {Out("next", {})}
    ELSE Then(Run(stmts[1]), LAMBDA end : IF end = "next" THEN RunAll(Tail(stmts)) ELSE {Out(end, {})})

Execute ==
    /\ \E o \in RunAll(body) : ran' = o.calls
    /\ UNCHANGED <<body, probed>>

(***************************************************************************)
(* Bodies                                                                  *)
(***************************************************************************)
Atom(i) == {CallNode(i), Lit(TRUE), Lit(FALSE), Name}
Test == Atom(1) \union {Node("not", <<a>>) : a \in Atom(1)}
        \union {Node(op, <<a, b>>) : op \in {"and", "or"}, a \in Atom(1), b \in Atom(2)}
Value(i) == {CallNode(i), Node("ifexp", <<Name, CallNode(i), CallNode(i + 1)>>)}
            \union {Node("ifexp", <<Lit(v), CallNode(i), CallNode(i + 1)>>) : v \in BOOLEAN}
            \union {Node("comprehension", <<a, b, CallNode(i + 1)>>) : a \in {Lit(FALSE), Name}, b \in Atom(i)}
End == {Node(t, <<>>) : t \in TERMINATORS}
Branch == {<<v>> : v \in Value(3)} \union {<<e, CallNode(3)>> : e \in End}
          \union {<<Node("if", <<a, <<e>>, <<>>>>), CallNode(3)>> : a \in {Lit(TRUE), Lit(FALSE), Name}, e \in End}
Body == {<<Node(kind, <<test, branch, orelse>>), CallNode(7)>> :
            kind \in {"if", "while", "for"}, test \in Test, branch \in Branch,
            orelse \in {<<>>, <<CallNode(5)>>, <<Node("return", <<>>), CallNode(5)>>}}

LiveInit == body \in Body /\ probed = {} /\ ran = {}
LiveNext == (probed = {} /\ Probe) \/ (ran = {} /\ probed # {} /\ Execute)

(***************************************************************************)
(* Property                                                                *)
(***************************************************************************)
(* Whatever a run of the function calls, the probe has counted: it takes   *)
(* away what literals show to be dead and nothing that can run.            *)
WhatRunsCounts == ran \subseteq probed
=============================================================================
