------------------------------ MODULE ApplyChain ------------------------------
(***************************************************************************)
(* The hash-chained ledger of applied changes                              *)
(* (enforcement/apply_chain_full.py): writers append under a lock, each    *)
(* row naming the hash of the row before it; rows are numbered when the    *)
(* gate AGI_V8_APPLY_CHAIN_SEQ_VERIFY is on. The number is not hashed.     *)
(***************************************************************************)
EXTENDS Integers, Sequences, SequencesExt

CONSTANTS MaxChain,      \* rows of a behaviour
          MaxTampering,  \* edits of the file
          MaxSwitches    \* changes of the gate

ASSUME ChainAssumption == {MaxChain, MaxTampering, MaxSwitches} \subseteq Nat

NoSeq == -1
GENESIS_PREV_HASH == <<>>

\* compute_entry_hash has no collisions: a hash is known by what was hashed,
\* the row and all the rows before it.
compute_entry_hash(body, prev) == Append(prev, body)

VARIABLES chain,     \* lines: [whole, body, prev, hash, seq]
          written,   \* the bodies that append returned for, in order
          numbering, \* the gate
          switches, tampering,
          chainGhost \* resumed: rows went onto a ledger that had been edited;
                     \* torn: an append died; restarted: the gate went on over
                     \* rows without a number that follow rows with one

chainVars == <<chain, written, numbering, switches, tampering, chainGhost>>

ChainInit ==
    /\ chain = <<>>
    /\ written = <<>>
    /\ numbering \in BOOLEAN
    /\ switches = 0
    /\ tampering = 0
    /\ chainGhost = [resumed |-> FALSE, torn |-> FALSE, restarted |-> FALSE]

Bodies == [i \in DOMAIN chain |-> chain[i].body]
Numbered == {i \in DOMAIN chain : chain[i].seq # NoSeq}

(***************************************************************************)
(* append                                                                  *)
(***************************************************************************)
\* _read_last_record and the check of its hash: a ledger whose last line is
\* not a whole row with its own hash takes no more rows.
LastStands ==
    chain # <<>> => LET last == Last(chain) IN
                    last.whole /\ last.hash = compute_entry_hash(last.body, last.prev)

NextRow(body) ==
    LET prev == IF chain = <<>> THEN GENESIS_PREV_HASH ELSE Last(chain).hash
        before == IF chain = <<>> THEN NoSeq ELSE Last(chain).seq
    IN [whole |-> TRUE, body |-> body, prev |-> prev, hash |-> compute_entry_hash(body, prev),
        seq |-> IF ~numbering THEN NoSeq ELSE IF before = NoSeq THEN 0 ELSE before + 1]

\* A writer appends, whichever process it is in: the lock makes it one step.
AppendEntry ==
    /\ Len(written) < MaxChain /\ LastStands
    /\ LET body == Len(written) + 1 IN
       /\ chain' = Append(chain, NextRow(body))
       /\ written' = Append(written, body)
    /\ chainGhost' = [chainGhost EXCEPT !.resumed = @ \/ Bodies # written]
    /\ UNCHANGED <<numbering, switches, tampering>>

\* It dies, or the disk is full, in the middle of the line.
TearRow ==
    /\ ~chainGhost.torn /\ Len(written) < MaxChain /\ LastStands
    /\ chain' = Append(chain, [NextRow(0) EXCEPT !.whole = FALSE])
    /\ chainGhost' = [chainGhost EXCEPT !.torn = TRUE]
    /\ UNCHANGED <<written, numbering, switches, tampering>>

SwitchNumbering ==
    /\ switches < MaxSwitches
    /\ numbering' = ~numbering
    /\ switches' = switches + 1
    /\ chainGhost' = [chainGhost EXCEPT
           !.restarted = @ \/ (~numbering /\ Numbered # {} /\ Last(chain).seq = NoSeq)]
    /\ UNCHANGED <<chain, written, tampering>>

(***************************************************************************)
(* Edits of the file                                                       *)
(***************************************************************************)
\* Somebody changes, removes, doubles or swaps rows, renumbers one, or cuts
\* the end off; he does not compute hashes anew.
Tamper ==
    /\ tampering < MaxTampering /\ chain # <<>>
    /\ \E i \in DOMAIN chain :
        \/ chain' = [chain EXCEPT ![i].body = 0]
        \/ i < Len(chain) /\ chain' = RemoveAt(chain, i)
        \/ chain' = InsertAt(chain, i, chain[i])
        \/ i < Len(chain) /\ chain' = [chain EXCEPT ![i] = chain[i + 1], ![i + 1] = chain[i]]
        \/ chain[i].seq # NoSeq /\ chain' = [chain EXCEPT ![i].seq = @ + 1]
    /\ tampering' = tampering + 1
    /\ UNCHANGED <<written, numbering, switches, chainGhost>>

CutOff ==
    /\ tampering < MaxTampering /\ chain # <<>>
    /\ chain' = Front(chain)
    /\ tampering' = tampering + 1
    /\ UNCHANGED <<written, numbering, switches, chainGhost>>

ChainNext == AppendEntry \/ TearRow \/ SwitchNumbering \/ Tamper \/ CutOff

(***************************************************************************)
(* verify_chain                                                            *)
(***************************************************************************)
_LinkedToNothing(i) ==
    chain[i].whole /\ chain[i].hash = compute_entry_hash(chain[i].body, chain[i].prev)

Linked(i) ==
    /\ chain[i].whole
    /\ chain[i].prev = IF i = 1 THEN GENESIS_PREV_HASH ELSE chain[i - 1].hash
    /\ chain[i].hash = compute_entry_hash(chain[i].body, chain[i].prev)

\* Rows without a number are passed over; the first that has one has 0.
InOrder(i) ==
    LET before == {j \in Numbered : j < i} IN
    chain[i].seq = IF before = {} THEN 0
                   ELSE chain[CHOOSE j \in before : \A k \in before : k <= j].seq + 1

verify_chain ==
    /\ \A i \in DOMAIN chain : Linked(i)
    /\ numbering => \A i \in Numbered : InOrder(i)

(***************************************************************************)
(* Properties                                                              *)
(***************************************************************************)
Untouched == tampering = 0 /\ ~chainGhost.torn

\* The verdict on the chain is right: a chain that nobody touched verifies,
\* over changes of the gate too (but for the one that is named), and a chain
\* that verifies holds the rows that were appended, in their order and without
\* a gap, up to an end that may have been cut off, as long as no row was
\* appended to an edited file (append, verify_chain, _read_last_record).
ChainVerdictIsRight ==
    /\ Untouched /\ ~chainGhost.restarted => verify_chain
    /\ verify_chain /\ ~chainGhost.resumed => IsPrefix(Bodies, written)

===============================================================================
