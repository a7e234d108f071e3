----------------------------- MODULE GradeLedger -----------------------------
(***************************************************************************)
(* What the correction workflow promises, without its people, queues and   *)
(* audit rows: submitted grades are a ledger.  A claim against an entry is *)
(* made, approved or refused once, and posted once; posting writes the     *)
(* value that was claimed as the next version of that entry, and nothing   *)
(* else ever writes one.                                                   *)
(***************************************************************************)
EXTENDS Naturals

CONSTANTS Entries, Claimants, Values, NoValue, Opening

VARIABLES entry,   \* what each entry says, and its version
          claim    \* where each claim stands, its entry and its value

ledgerVars == <<entry, claim>>

Untouched(r) == [score |-> Opening[r], version |-> 1]

LedgerInit ==
    /\ entry = [r \in Entries |-> Untouched(r)]
    /\ \E of \in [Claimants -> Entries] :
          claim = [q \in Claimants |-> [at |-> "unmade", of |-> of[q], value |-> NoValue]]

Make(q, value) ==
    /\ claim[q].at = "unmade"
    /\ claim' = [claim EXCEPT ![q] = [at |-> "pending", of |-> @.of, value |-> value]]
    /\ UNCHANGED entry

Settle(q, verdict) ==
    /\ claim[q].at = "pending"
    /\ claim' = [claim EXCEPT ![q].at = verdict]
    /\ UNCHANGED entry

\* A claim that changes nothing is never posted.
Post(q) ==
    LET r == claim[q].of
    IN  /\ claim[q].at = "approved"
        /\ claim[q].value \notin {NoValue, entry[r].score}
        /\ claim' = [claim EXCEPT ![q].at = "posted"]
        /\ entry' = [entry EXCEPT ![r] = [score |-> claim[q].value,
                                          version |-> entry[r].version + 1]]

LedgerNext ==
    \E q \in Claimants :
        \/ \E value \in Values \cup {NoValue} : Make(q, value)
        \/ \E verdict \in {"approved", "refused"} : Settle(q, verdict)
        \/ Post(q)

LedgerSpec == LedgerInit /\ [][LedgerNext]_ledgerVars
=============================================================================
