----------------------------- MODULE EventChain -----------------------------
(***************************************************************************)
(* The event log of one run in lib/dag-store.js: store.tx() around one      *)
(* projection change and its event, the hash chain insertEvent extends, and *)
(* what verifyChain makes of a table that something else has written to.    *)
(*                                                                          *)
(* A hash is a free term: two rows have the same hash exactly when sha256   *)
(* was given the same predecessor, seq and body.  The body stands for type, *)
(* time, ids and payload; each event ever committed has its own, its number *)
(* in the true history.  Damage overwrites columns, deletes rows or         *)
(* renumbers them; it recomputes no hash.                                   *)
(***************************************************************************)
EXTENDS Integers, Sequences

CONSTANTS
    MaxEvents,  \* bound: transactions committed
    MaxDamage   \* bound: writes from outside the store

ASSUME BoundsAssumption == MaxEvents \in Nat \ {0} /\ MaxDamage \in Nat

VARIABLES
    rows,       \* the events table: seq -> its row
    proj,       \* the projections: the number of the last change they contain
    activeTx,   \* whether a transaction is open
    saved,      \* rows and projections at its BEGIN IMMEDIATE
    inserted,   \* the insertion it has made so far, if any
    history,    \* the insertions committed: where each event went, on what hash
    damage      \* the outside writes so far

vars == <<rows, proj, activeTx, saved, inserted, history, damage>>

Forged == 0
Genesis == <<>>
NothingSaved == [rows |-> <<>>, proj |-> 0]

\* sha256(prev_hash, canonical_json({seq, type, at, ..., payload})).
Hash(prev, seq, body) == <<prev, seq, body>>

Row(prev, seq, body) == [body |-> body, prev |-> prev, hash |-> Hash(prev, seq, body)]

Seqs == DOMAIN rows
LastSeq == IF Seqs = {} THEN 0 ELSE CHOOSE s \in Seqs : \A r \in Seqs : r <= s
LastHash == IF Seqs = {} THEN Genesis ELSE rows[LastSeq].hash
NextBody == Len(history) + 1

NextSeq == LastSeq + 1

Init ==
    /\ rows = <<>> /\ proj = 0
    /\ activeTx = FALSE /\ saved = NothingSaved /\ inserted = <<>>
    /\ history = <<>> /\ damage = 0

-----------------------------------------------------------------------------
(* store.tx(): one projection change and its event, in either order *)

Begin ==
    /\ ~activeTx
    /\ Len(history) < MaxEvents
    /\ activeTx' = TRUE
    /\ saved' = [rows |-> rows, proj |-> proj]
    /\ UNCHANGED <<rows, proj, inserted, history, damage>>

WriteProjection ==
    /\ activeTx /\ proj # NextBody
    /\ proj' = NextBody
    /\ UNCHANGED <<rows, activeTx, saved, inserted, history, damage>>

\* insertEvent: the next seq, chained to the last row as it is.
InsertEvent ==
    /\ activeTx /\ inserted = <<>>
    /\ rows' = [s \in Seqs \cup {NextSeq} |->
                  IF s \in Seqs THEN rows[s] ELSE Row(LastHash, NextSeq, NextBody)]
    /\ inserted' = <<[seq |-> NextSeq, prev |-> LastHash]>>
    /\ UNCHANGED <<proj, activeTx, saved, history, damage>>

Close == activeTx' = FALSE /\ saved' = NothingSaved /\ inserted' = <<>>

Commit ==
    /\ activeTx /\ inserted # <<>> /\ proj = NextBody
    /\ Close
    /\ history' = Append(history, inserted[1])
    /\ UNCHANGED <<rows, proj, damage>>

\* Mutant: the error is passed on without the rollback.
Abort_NoRollback ==
    /\ activeTx
    /\ Close
    /\ UNCHANGED <<rows, proj, history, damage>>

\* The callback throws at any point, or the host dies: ROLLBACK.
Abort ==
    /\ activeTx
    /\ rows' = saved.rows /\ proj' = saved.proj
    /\ Close
    /\ UNCHANGED <<history, damage>>

-----------------------------------------------------------------------------
(* Writes that do not come from the store *)

Delete(s) == rows' = [r \in Seqs \ {s} |-> rows[r]]

Overwrite(s) ==
    LET hashes == {Genesis} \cup {rows[r].hash : r \in Seqs}
    IN \E row \in [body : {Forged} \cup {rows[r].body : r \in Seqs},
                   prev : hashes, hash : hashes] :
          rows' = [rows EXCEPT ![s] = row]

\* The row s is renumbered r; the row numbered r, if any, takes its number.
Renumber(s, r) ==
    rows' = [q \in (IF r \in Seqs THEN Seqs ELSE (Seqs \ {s}) \cup {r}) |->
                CASE q = r -> rows[s] [] q = s -> rows[r] [] OTHER -> rows[q]]

Damage ==
    /\ ~activeTx
    /\ damage < MaxDamage
    /\ \E s \in Seqs :
        \/ Delete(s)
        \/ Overwrite(s)
        \/ \E r \in 1 .. MaxEvents : r # s /\ Renumber(s, r)
    /\ damage' = damage + 1
    /\ UNCHANGED <<proj, activeTx, saved, inserted, history>>

-----------------------------------------------------------------------------

Next ==
    \/ Begin
    \/ WriteProjection
    \/ InsertEvent
    \/ Commit
    \/ Abort
    \/ Damage

Spec == Init /\ [][Next]_vars

-----------------------------------------------------------------------------
(* verifyChain *)

\* The row before s in the order they are read, 0 for the first.
Before(s) ==
    LET below == {r \in Seqs : r < s}
    IN IF below = {} THEN 0 ELSE CHOOSE r \in below : \A q \in below : q <= r

\* Mutant: the hash is followed but not recomputed.
BadRow_NotRecomputed(s) ==
    \/ s # Before(s) + 1
    \/ rows[s].prev # (IF Before(s) = 0 THEN Genesis ELSE rows[Before(s)].hash)

\* The scan stops at a row that is out of sequence, not linked to the row
\* before it, or not what its hash was computed from.
BadRow(s) ==
    \/ s # Before(s) + 1
    \/ rows[s].prev # (IF Before(s) = 0 THEN Genesis ELSE rows[Before(s)].hash)
    \/ rows[s].hash # Hash(rows[s].prev, s, rows[s].body)

\* The rows before firstBadSeq; all of them if the answer is ok.
Verified == {s \in Seqs : ~BadRow(s) /\ \A r \in Seqs : r < s => ~BadRow(r)}

-----------------------------------------------------------------------------
(* Properties *)

\* Between transactions the projections contain exactly the changes whose
\* events are in the log, whatever callback threw and at which write.
LogAndProjectionsAgree ==
    ~activeTx => /\ proj = Len(history)
                 /\ damage = 0 => /\ Seqs = DOMAIN history
                                  /\ \A s \in Seqs : rows[s].body = s

\* What verifyChain lets stand was written by the store: every verified row
\* holds a committed event, at the seq it was given, and the row before it is
\* the one it was chained to, so nothing was altered, cut out or reordered
\* below it.
VerifiedIsHistory ==
    ~activeTx => \A s \in Verified :
        /\ rows[s].body \in DOMAIN history
        /\ history[rows[s].body].seq = s
        /\ history[rows[s].body].prev =
              (IF Before(s) = 0 THEN Genesis ELSE rows[Before(s)].hash)
=============================================================================
