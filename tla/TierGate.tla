------------------------------- MODULE TierGate -------------------------------
(***************************************************************************)
(* The receipts that admit to the tiers (policy/tier_gate.py): T1 and T2   *)
(* are granted locally, T3 to T9 by a signed token. Processes check what   *)
(* stands in the unlock directory and then replace it, file by file and    *)
(* without a lock; each may die in between.                                *)
(***************************************************************************)
EXTENDS Integers

CONSTANTS Claimant,       \* processes that grant or import
          TokenTier,      \* the tiers that tokens are issued for
          MaxDay,
          MaxGrants,      \* grants and imports that begin in a behaviour
          MinimumCycles   \* minimum_distinct_cycles of the curriculum

ASSUME TierAssumption == TokenTier \subseteq 3..9 /\ {MaxDay, MaxGrants, MinimumCycles} \subseteq Nat

\* A token: its tier, the last day on which it holds, the release that it is
\* bound to, and whether a trusted issuer has signed it.
Token == [tier : TokenTier, until : 0..MaxDay, release : {1, 2}, genuine : BOOLEAN]
NoToken == [tier |-> 0, until |-> 0, release |-> 1, genuine |-> TRUE]

VARIABLES receipt,    \* tier.json: [tier, evidence], tier 0 if there is none
          evidence,   \* digests of the evidence files, each the cycles in it
          token,      \* token.json
          claim,      \* claim[c], the grant or import of a process
          day, release,
          grants,
          raced       \* two of them were under way at the same time

tierVars == <<receipt, evidence, token, claim, day, release, grants, raced>>

NoClaim == [pc |-> "idle", tier |-> 0, cycles |-> 0, token |-> NoToken]

TierInit ==
    /\ receipt = [tier |-> 0, evidence |-> 0]
    /\ evidence = {}
    /\ token = NoToken
    /\ claim = [c \in Claimant |-> NoClaim]
    /\ day = 0
    /\ release = 1
    /\ grants = 0
    /\ raced = FALSE

\* verify_token against an expected release on a day.
Verified(t, r, d) == t.genuine /\ t.release = r /\ d <= t.until

\* _local_tier: a receipt for T2 whose evidence is gone or too little is an error.
ReceiptStands == receipt.tier < 2 \/ (receipt.evidence \in evidence
                                      /\ receipt.evidence >= MinimumCycles)

\* What require_tier admits to; T9 asks for facts of the run as well.
Admits(tier, facts) ==
    CASE tier = 0 -> TRUE
      [] tier \in 1..2 -> ReceiptStands /\ receipt.tier >= tier
      [] OTHER -> Verified(token, release, day) /\ token.tier >= tier /\ (tier = 9 => facts)

Racing == \E c \in Claimant : claim[c].pc # "idle"
Enter(c, next) ==
    /\ claim[c].pc = "idle" /\ grants < MaxGrants
    /\ claim' = [claim EXCEPT ![c] = next]
    /\ grants' = grants + 1
    /\ raced' = (raced \/ Racing)

(***************************************************************************)
(* grant_local                                                             *)
(***************************************************************************)
\* The acknowledgement is the one of the curriculum, T2 brings the cycles of
\* a log, and what stands there may be raised, never lowered.
CheckGrant(c) ==
    /\ ReceiptStands
    /\ \E tier \in 1..2, cycles \in 0..MinimumCycles + 1 :
        /\ tier = 1 => cycles = 0
        /\ tier = 2 => cycles >= MinimumCycles /\ receipt.tier >= 1
        /\ receipt.tier <= tier
        /\ Enter(c, [NoClaim EXCEPT !.pc = IF tier = 2 THEN "evidence" ELSE "receipt",
                                    !.tier = tier, !.cycles = cycles])
    /\ UNCHANGED <<receipt, evidence, token, day, release>>

_EvidenceSole(cycles) == {cycles}
KeptEvidence(cycles) == evidence \cup {cycles}

\* The evidence comes first, under its digest, ...
WriteEvidence(c) ==
    /\ claim[c].pc = "evidence"
    /\ evidence' = KeptEvidence(claim[c].cycles)
    /\ claim' = [claim EXCEPT ![c].pc = "receipt"]
    /\ UNCHANGED <<receipt, token, day, release, grants, raced>>

\* ... then the receipt that names it.
WriteReceipt(c) ==
    /\ claim[c].pc = "receipt"
    /\ receipt' = [tier |-> claim[c].tier, evidence |-> claim[c].cycles]
    /\ claim' = [claim EXCEPT ![c] = NoClaim]
    /\ UNCHANGED <<evidence, token, day, release, grants, raced>>

(***************************************************************************)
(* import_token                                                            *)
(***************************************************************************)
\* A token that verifies here and now replaces one of no higher tier; that
\* one is read as of its own release and, when it has expired, its last day.
CheckImport(c) ==
    /\ \E t \in Token :
        /\ Verified(t, release, day)
        /\ token = NoToken \/ (token.genuine /\ t.tier >= token.tier)
        /\ Enter(c, [NoClaim EXCEPT !.pc = "token", !.token = t])
    /\ UNCHANGED <<receipt, evidence, token, day, release>>

WriteToken(c) ==
    /\ claim[c].pc = "token"
    /\ token' = claim[c].token
    /\ claim' = [claim EXCEPT ![c] = NoClaim]
    /\ UNCHANGED <<receipt, evidence, day, release, grants, raced>>

\* A process dies or its write fails: what it has not replaced is as it was.
Abandon(c) ==
    /\ claim[c].pc # "idle"
    /\ claim' = [claim EXCEPT ![c] = NoClaim]
    /\ UNCHANGED <<receipt, evidence, token, day, release, grants, raced>>

NextDay ==
    /\ day < MaxDay
    /\ day' = day + 1
    /\ UNCHANGED <<receipt, evidence, token, claim, release, grants, raced>>

NewRelease ==
    /\ release = 1
    /\ release' = 2
    /\ UNCHANGED <<receipt, evidence, token, claim, day, grants, raced>>

TierNext ==
    \/ \E c \in Claimant :
        \/ CheckGrant(c) \/ WriteEvidence(c) \/ WriteReceipt(c)
        \/ CheckImport(c) \/ WriteToken(c) \/ Abandon(c)
    \/ NextDay \/ NewRelease

(***************************************************************************)
(* Properties                                                              *)
(***************************************************************************)
\* A tier that was acquired is not taken back by a later grant or import,
\* finished or not, under the same release or another one, before or after its
\* expiry: an admission to T1 or T2 stays, and a token gives way to none of a
\* lower tier. But for two of them at the same time, as the check and the
\* write are not one step (grant_local, import_token).
AcquiredTierStays ==
    [][~raced' => /\ token'.tier >= token.tier
                  /\ \A tier \in 1..2 : Admits(tier, TRUE) => Admits(tier, TRUE)']_tierVars
===============================================================================
