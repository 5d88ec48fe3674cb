-------------------------- MODULE EventChainProofs --------------------------
(***************************************************************************)
(* What the event log promises, for any number of events and any amount of  *)
(* damage.  Both arguments rest on one fact about what is stored: a hash in *)
(* the table is one that insertEvent computed, because damage copies hashes *)
(* and makes none.                                                          *)
(***************************************************************************)
EXTENDS EventChain, TLAPS

\* The hashes of the committed events, and of the one being inserted.
Made == {Hash(history[i].prev, history[i].seq, i) : i \in DOMAIN history}
Fresh == {Hash(inserted[k].prev, inserted[k].seq, NextBody) : k \in DOMAIN inserted}

\* Enough of the types to append to the history.
HistoryIsSeq == history \in Seq({history[i] : i \in DOMAIN history})
AtMostOne == inserted = <<>> \/ inserted = <<inserted[1]>>

HashesAreMade ==
    /\ \A s \in Seqs : rows[s].hash \in {Genesis} \cup Made \cup Fresh
    /\ \A s \in DOMAIN saved.rows : saved.rows[s].hash \in {Genesis} \cup Made
    /\ ~activeTx => inserted = <<>>

ChainInv == HistoryIsSeq /\ AtMostOne /\ HashesAreMade

\* The history grows by the insertion that is committed.
LEMMA AppendOne ==
    ASSUME HistoryIsSeq, NEW e, history' = Append(history, e)
    PROVE  /\ Len(history) \in Nat
           /\ HistoryIsSeq'
           /\ DOMAIN history = 1 .. Len(history)
           /\ DOMAIN history' = 1 .. Len(history) + 1
           /\ \A i \in DOMAIN history : history'[i] = history[i]
           /\ history'[Len(history) + 1] = e
<1> DEFINE S == {history[i] : i \in DOMAIN history} \cup {e}
<1>1. history \in Seq(S)
  BY DEF HistoryIsSeq
<1>2. Append(history, e) \in Seq(S)
  BY <1>1
<1>3. /\ Len(history) \in Nat
      /\ DOMAIN history = 1 .. Len(history)
      /\ DOMAIN history' = 1 .. Len(history) + 1
      /\ Len(history') = Len(history) + 1
      /\ \A i \in DOMAIN history : history'[i] = history[i]
      /\ history'[Len(history) + 1] = e
  BY <1>1, <1>2
<1>4. \A i \in DOMAIN history' : history'[i] \in {history'[j] : j \in DOMAIN history'}
  OBVIOUS
<1>5. HistoryIsSeq'
  <2>1. history' \in Seq(S)
    BY <1>2
  <2> HIDE DEF S
  <2>2. QED
    BY <1>3, <1>4, <2>1 DEF HistoryIsSeq
<1>6. QED
  BY <1>3, <1>5

LEMMA ChainStep == ChainInv /\ [Next]_vars => ChainInv'
<1> SUFFICES ASSUME ChainInv, [Next]_vars PROVE ChainInv'
  OBVIOUS
<1> USE DEF ChainInv
<1>1. CASE Begin
  BY <1>1 DEF Begin, HistoryIsSeq, AtMostOne, HashesAreMade, Made, Fresh, NextBody, Seqs
<1>2. CASE WriteProjection
  BY <1>2 DEF WriteProjection, HistoryIsSeq, AtMostOne, HashesAreMade, Made, Fresh, NextBody, Seqs
<1>3. CASE InsertEvent
  <2>1. HistoryIsSeq' /\ Made' = Made /\ NextBody' = NextBody /\ AtMostOne'
    BY <1>3 DEF InsertEvent, HistoryIsSeq, Made, NextBody, AtMostOne
  <2>2. Fresh = {}
    BY <1>3 DEF InsertEvent, Fresh
  <2>3. Hash(LastHash, NextSeq, NextBody) \in Fresh'
    BY <1>3, <2>1 DEF InsertEvent, Fresh
  <2>4. \A s \in Seqs' : \/ s \in Seqs /\ rows'[s] = rows[s]
                         \/ rows'[s].hash = Hash(LastHash, NextSeq, NextBody)
    BY <1>3 DEF InsertEvent, Seqs, Row
  <2>5. \A s \in Seqs' : rows'[s].hash \in ({Genesis} \cup Made \cup Fresh)'
    BY <2>1, <2>2, <2>3, <2>4 DEF HashesAreMade, Genesis
  <2>6. QED
    BY <1>3, <2>1, <2>5 DEF InsertEvent, HashesAreMade, Genesis
<1>4. CASE Commit
  <2>1. history' = Append(history, inserted[1])
    BY <1>4 DEF Commit
  <2>2. inserted = <<inserted[1]>> /\ inserted' = <<>>
    BY <1>4 DEF Commit, Close, AtMostOne
  <2>3. Made' = Made \cup Fresh
    BY <2>1, <2>2, AppendOne DEF Made, Fresh, NextBody
  <2>4. HistoryIsSeq'
    BY <2>1, AppendOne
  <2>5. QED
    BY <1>4, <2>2, <2>3, <2>4
       DEF Commit, Close, HashesAreMade, AtMostOne, Genesis, NothingSaved, Seqs
<1>5. CASE Abort
  BY <1>5 DEF Abort, Close, NothingSaved, HistoryIsSeq, AtMostOne, HashesAreMade, Made, Fresh,
              NextBody, Seqs, Genesis
<1>6. CASE Damage
  <2>1. /\ UNCHANGED <<activeTx, saved, inserted, history>>
        /\ ~activeTx
    BY <1>6 DEF Damage
  <2>2. Made' = Made /\ Fresh' = Fresh
    BY <2>1 DEF Made, Fresh, NextBody
  <2>3. PICK s \in Seqs : \/ Delete(s)
                          \/ Overwrite(s)
                          \/ \E r \in 1 .. MaxEvents : r # s /\ Renumber(s, r)
    BY <1>6 DEF Damage
  <2>4. \A q \in Seqs' : rows'[q].hash \in {Genesis} \cup {rows[r].hash : r \in Seqs}
    <3>1. CASE Delete(s)
      BY <3>1 DEF Delete, Seqs
    <3>2. CASE Overwrite(s)
      <4>1. PICK row : /\ row.hash \in {Genesis} \cup {rows[r].hash : r \in Seqs}
                       /\ rows' = [rows EXCEPT ![s] = row]
        BY <3>2 DEF Overwrite
      <4>2. QED
        BY <4>1 DEF Seqs
    <3>3. ASSUME NEW r \in 1 .. MaxEvents, r # s, Renumber(s, r)
          PROVE  \A q \in Seqs' : rows'[q].hash \in {Genesis} \cup {rows[k].hash : k \in Seqs}
      BY <3>3 DEF Renumber, Seqs
    <3>4. QED
      BY <2>3, <3>1, <3>2, <3>3
  <2>5. QED
    BY <2>1, <2>2, <2>4 DEF HistoryIsSeq, AtMostOne, HashesAreMade, Genesis
<1>7. CASE UNCHANGED vars
  BY <1>7 DEF vars, HistoryIsSeq, AtMostOne, HashesAreMade, Made, Fresh, NextBody, Seqs
<1>8. QED
  BY <1>1, <1>2, <1>3, <1>4, <1>5, <1>6, <1>7 DEF Next

LEMMA ChainInductive == Spec => []ChainInv
<1>1. Init => ChainInv
  BY DEF Init, ChainInv, HistoryIsSeq, AtMostOne, HashesAreMade, NothingSaved, Seqs
<1>2. QED
  BY <1>1, ChainStep, PTL DEF Spec

\* A verified chain is genuine: whatever was deleted, renumbered or overwritten
\* with what the table held, every row that verifyChain lets stand is an event
\* the store committed at that place, on top of the row before it.
THEOREM VerifiedIsGenuine == Spec => []VerifiedIsHistory
<1>1. ChainInv => VerifiedIsHistory
  <2> SUFFICES ASSUME ChainInv, ~activeTx, NEW s \in Verified
               PROVE  /\ rows[s].body \in DOMAIN history
                      /\ history[rows[s].body].seq = s
                      /\ history[rows[s].body].prev =
                            (IF Before(s) = 0 THEN Genesis ELSE rows[Before(s)].hash)
    BY DEF VerifiedIsHistory
  <2>1. s \in Seqs /\ ~BadRow(s)
    BY DEF Verified
  <2>2. /\ rows[s].prev = (IF Before(s) = 0 THEN Genesis ELSE rows[Before(s)].hash)
        /\ rows[s].hash = Hash(rows[s].prev, s, rows[s].body)
    BY <2>1 DEF BadRow
  <2>3. rows[s].hash \in {Genesis} \cup Made
    BY <2>1 DEF ChainInv, HashesAreMade, Fresh
  <2>4. rows[s].hash # Genesis
    BY <2>2 DEF Hash, Genesis
  <2>5. PICK i \in DOMAIN history : rows[s].hash = Hash(history[i].prev, history[i].seq, i)
    BY <2>3, <2>4 DEF Made
  <2>6. i = rows[s].body /\ history[i].seq = s /\ history[i].prev = rows[s].prev
    BY <2>2, <2>5 DEF Hash
  <2>7. QED
    BY <2>2, <2>6
<1>2. QED
  BY <1>1, ChainInductive, PTL

-----------------------------------------------------------------------------
(* The log and the projections *)

\* A table that nobody damaged holds the first n events of the history.
Intact(table, n) ==
    damage = 0 => /\ DOMAIN table = 1 .. n
                  /\ \A s \in 1 .. n : table[s].body = s

\* Inside a transaction the snapshot holds what the log held at its start, and
\* the working tables that and no more than this transaction's two writes.
TxInv ==
    /\ HistoryIsSeq /\ AtMostOne
    /\ damage \in Nat
    /\ ~activeTx => inserted = <<>> /\ proj = Len(history)
    /\ activeTx => saved.proj = Len(history) /\ Intact(saved.rows, Len(history))
    /\ Intact(rows, IF inserted = <<>> THEN Len(history) ELSE Len(history) + 1)

\* In an intact table the last row is the last event.
LEMMA LastOfIntact ==
    ASSUME NEW n \in Nat, Seqs = 1 .. n
    PROVE  LastSeq = n
<1>1. CASE n = 0
  BY <1>1 DEF LastSeq
<1>2. CASE n # 0
  <2>1. n \in Seqs /\ \A r \in Seqs : r <= n
    BY <1>2
  <2>2. \A s \in Seqs : (\A r \in Seqs : r <= s) => s = n
    BY <2>1
  <2>3. LastSeq \in Seqs /\ \A r \in Seqs : r <= LastSeq
    BY <2>1 DEF LastSeq
  <2>4. QED
    BY <2>2, <2>3
<1>3. QED
  BY <1>1, <1>2

LEMMA TxStep == TxInv /\ [Next]_vars => TxInv'
<1> SUFFICES ASSUME TxInv, [Next]_vars PROVE TxInv'
  OBVIOUS
<1>0. Len(history) \in Nat
  BY DEF TxInv, HistoryIsSeq
<1> USE DEF TxInv
<1>1. CASE Begin
  BY <1>1 DEF Begin, HistoryIsSeq, AtMostOne, Intact
<1>2. CASE WriteProjection
  BY <1>2 DEF WriteProjection, HistoryIsSeq, AtMostOne, Intact
<1>3. CASE InsertEvent
  <2>1. /\ activeTx /\ inserted = <<>> /\ inserted' # <<>>
        /\ UNCHANGED <<proj, activeTx, saved, history, damage>>
    BY <1>3 DEF InsertEvent
  <2>2. ASSUME damage = 0
        PROVE  /\ Seqs' = 1 .. Len(history) + 1
               /\ \A s \in Seqs' : rows'[s].body = s
    <3>1. Seqs = 1 .. Len(history) /\ NextSeq = Len(history) + 1
      BY <1>0, <2>1, <2>2, LastOfIntact DEF Intact, Seqs, NextSeq
    <3>2. Seqs' = 1 .. Len(history) + 1
      BY <1>0, <1>3, <3>1 DEF InsertEvent, Seqs
    <3>3. ASSUME NEW s \in Seqs' PROVE rows'[s].body = s
      <4>1. CASE s \in Seqs
        BY <1>3, <2>1, <2>2, <3>1, <4>1 DEF InsertEvent, Intact, Seqs
      <4>2. CASE s \notin Seqs
        BY <1>0, <1>3, <3>1, <3>2, <4>2 DEF InsertEvent, Row, NextBody, Seqs
      <4>3. QED
        BY <4>1, <4>2
    <3>4. QED
      BY <3>2, <3>3
  <2>3. AtMostOne'
    BY <1>3 DEF InsertEvent, AtMostOne
  <2>4. QED
    BY <2>1, <2>2, <2>3 DEF HistoryIsSeq, Intact, Seqs
<1>4. CASE Commit
  <2>1. Len(history') = Len(history) + 1 /\ HistoryIsSeq'
    <3>1. history' = Append(history, inserted[1])
      BY <1>4 DEF Commit
    <3>2. DOMAIN history' = 1 .. Len(history) + 1 /\ HistoryIsSeq'
      BY <3>1, AppendOne
    <3>3. QED
      BY <1>0, <3>2 DEF HistoryIsSeq
  <2>2. QED
    BY <1>0, <1>4, <2>1 DEF Commit, Close, AtMostOne, Intact, NextBody
<1>5. CASE Abort
  BY <1>5 DEF Abort, Close, HistoryIsSeq, AtMostOne, Intact
<1>6. CASE Damage
  BY <1>6 DEF Damage, HistoryIsSeq, AtMostOne, Intact
<1>7. CASE UNCHANGED vars
  BY <1>7 DEF vars, HistoryIsSeq, AtMostOne, Intact
<1>8. QED
  BY <1>1, <1>2, <1>3, <1>4, <1>5, <1>6, <1>7 DEF Next

\* The projections and the log never part: after every transaction, committed
\* or rolled back at any write, they contain the same changes.
THEOREM TransactionsAreAtomic == Spec => []LogAndProjectionsAgree
<1>1. Init => TxInv
  BY DEF Init, TxInv, HistoryIsSeq, AtMostOne, Intact
<1>2. TxInv => LogAndProjectionsAgree
  <2> SUFFICES ASSUME TxInv, ~activeTx
               PROVE  /\ proj = Len(history)
                      /\ damage = 0 => /\ Seqs = DOMAIN history
                                       /\ \A s \in Seqs : rows[s].body = s
    BY DEF LogAndProjectionsAgree
  <2>1. DOMAIN history = 1 .. Len(history)
    BY DEF TxInv, HistoryIsSeq
  <2>2. QED
    BY <2>1 DEF TxInv, Intact, Seqs
<1>3. QED
  BY <1>1, <1>2, TxStep, PTL DEF Spec
=============================================================================
