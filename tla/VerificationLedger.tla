-------------------------- MODULE VerificationLedger --------------------------
(***************************************************************************)
(* What the Phase-3 verification service promises of its runs, to whoever  *)
(* reads the database: a run is opened once, for a registry that was       *)
(* published; it takes up each obligation of that registry at most once,   *)
(* together with its one verdict; it is sealed only over the whole of what *)
(* is active of the registry; and then it never changes.  Sessions,        *)
(* batches, pauses, resumptions and dying processes do not appear.         *)
(***************************************************************************)
EXTENDS Naturals

CONSTANTS Obligations, SourceOf, Runs, Sources, FirstSource

VARIABLES
  ledger,    \* what each run has verified
  active,    \* the obligations of the active registry
  published  \* the extraction runs whose registries have been published

RowsOf(s) == {o \in Obligations : SourceOf[o] = s}

Init ==
  /\ ledger = [r \in Runs |-> [state |-> "absent", source |-> FirstSource,
                               verified |-> {}, verdicts |-> 0]]
  /\ active = RowsOf(FirstSource)
  /\ published = {FirstSource}

Open(r, s) ==
  /\ ledger[r].state = "absent"
  /\ s \in published
  /\ ledger' = [ledger EXCEPT ![r] = [state |-> "open", source |-> s,
                                      verified |-> {}, verdicts |-> 0]]
  /\ UNCHANGED <<active, published>>

Verify(r, o) ==
  /\ ledger[r].state = "open"
  /\ SourceOf[o] = ledger[r].source
  /\ o \notin ledger[r].verified
  /\ ledger' = [ledger EXCEPT ![r].verified = @ \cup {o}, ![r].verdicts = @ + 1]
  /\ UNCHANGED <<active, published>>

Seal(r) ==
  /\ ledger[r].state = "open"
  /\ active \cap RowsOf(ledger[r].source) \subseteq ledger[r].verified
  /\ ledger' = [ledger EXCEPT ![r].state = "sealed"]
  /\ UNCHANGED <<active, published>>

Withdraw(o) ==
  /\ o \in active
  /\ active' = active \ {o}
  /\ UNCHANGED <<ledger, published>>

Publish(s) ==
  /\ s \notin published
  /\ active' = RowsOf(s)
  /\ published' = published \cup {s}
  /\ UNCHANGED ledger

Next ==
  \/ \E r \in Runs, s \in Sources : Open(r, s)
  \/ \E r \in Runs, o \in Obligations : Verify(r, o)
  \/ \E r \in Runs : Seal(r)
  \/ \E o \in Obligations : Withdraw(o)
  \/ \E s \in Sources : Publish(s)

Spec == Init /\ [][Next]_<<ledger, active, published>>
=============================================================================
